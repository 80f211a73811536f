CONSTANT NoFit = NoFit
SPECIFICATION Spec
INVARIANT InterceptSignWellFormed
\* The script computes one fit and one label, then ends.
CHECK_DEADLOCK FALSE
