SPECIFICATION Spec
INVARIANT CalloutsTrue
\* The script sorts, draws and annotates once, then ends.
CHECK_DEADLOCK FALSE
