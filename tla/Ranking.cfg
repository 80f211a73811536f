SPECIFICATION Spec
INVARIANT LegendMatchesBars
\* The script sorts, draws and annotates once, then ends.
CHECK_DEADLOCK FALSE
