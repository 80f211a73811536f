CONSTANTS
    N = 2
    Values <- MCValues
SPECIFICATION Spec
INVARIANT UnitMatchesMagnitude
\* The loop ends after its N bars.
CHECK_DEADLOCK FALSE
