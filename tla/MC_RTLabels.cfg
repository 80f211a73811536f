CONSTANTS
    N = 2
    Values <- MCValues
SPECIFICATION Spec
INVARIANT LabelAccurate
\* The loop ends after its N bars.
CHECK_DEADLOCK FALSE
