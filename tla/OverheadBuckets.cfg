SPECIFICATION Spec
INVARIANT ColorsMatchComments
\* The script's loops end.
CHECK_DEADLOCK FALSE
