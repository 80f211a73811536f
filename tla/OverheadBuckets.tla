--------------------------- MODULE OverheadBuckets ---------------------------
(***************************************************************************)
(* Graph 3 of plot_algorithm_comparison_updated.py (lines 103-142): the   *)
(* response-time overhead of each algorithm over PROPOSED, the colour of   *)
(* its bar by overhead bucket (lines 114-123).  The value labels (lines   *)
(* 129-142) use the same thresholds and are left out.  The data are the    *)
(* script's own (lines 5-6) rounded to the second: the bucket thresholds   *)
(* 0%, 100% and 1000% are compared exactly, and no value lies within a     *)
(* second of one.                                                          *)
(***************************************************************************)
EXTENDS Integers, Sequences

\* Lines 5-6 (response times to the second).
algorithms == <<"RR", "WRR", "HBF", "SBDLB", "PROPOSED">>
response_times == <<5285061, 32578977, 2867990, 809466, 461808>>

\* Line 107: proposed_rt = response_times[algorithms.index('PROPOSED')]
proposed_rt == response_times[5]

\* Line 108, rt_vs_proposed[i] = (rt - proposed_rt) / proposed_rt * 100,
\* compared with c percent without dividing: perf < c iff Cmp(i, c) < 0.
Cmp(i, c) == (response_times[i] - proposed_rt) * 100 - c * proposed_rt

VARIABLES
    i,           \* loop index
    bar_colors   \* line 114

vars == <<i, bar_colors>>

\* Lines 115-123: the colour of bar i.
BarColor(j) ==
    IF Cmp(j, 0) = 0 THEN "#27ae60"
    ELSE IF Cmp(j, 100) < 0 THEN "#f39c12"
    ELSE IF Cmp(j, 1000) < 0 THEN "#3498db"
    ELSE "#e74c3c"

Init ==
    /\ i = 1
    /\ bar_colors = <<>>

\* One iteration of `for perf in rt_vs_proposed` (lines 115-123).
ColorBar ==
    /\ i <= Len(algorithms)
    /\ bar_colors' = Append(bar_colors, BarColor(i))
    /\ i' = i + 1

Next == ColorBar

Spec == Init /\ [][Next]_vars

-----------------------------------------------------------------------------
\* The classes the comments of lines 117-123 give each algorithm:
\* PROPOSED green, "Good (SBDLB)" orange, "Moderate (HBF, RR)" blue and
\* "Poor (WRR)" red.
CommentColor ==
    [a \in {"RR", "WRR", "HBF", "SBDLB", "PROPOSED"} |->
        CASE a = "PROPOSED" -> "#27ae60"
          [] a = "SBDLB" -> "#f39c12"
          [] a \in {"HBF", "RR"} -> "#3498db"
          [] a = "WRR" -> "#e74c3c"]

\* Every bar gets the colour its comment announces: RR and HBF are drawn
\* as "Moderate", only WRR as "Poor" (matching the one "WRR: 70x slower!"
\* callout of line 155).
ColorsMatchComments ==
    \A j \in 1..Len(bar_colors) : bar_colors[j] = CommentColor[algorithms[j]]
=============================================================================
