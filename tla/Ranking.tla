------------------------------- MODULE Ranking -------------------------------
(***************************************************************************)
(* Graph 1 of plot_algorithm_comparison_updated.py: the algorithms are    *)
(* sorted by response time (np.argsort, lines 9-13), the bars take the     *)
(* colours of colors_rt by rank (lines 16, 22-23), a legend names the best, *)
(* second best and worst algorithm by colour (lines 47-52), and two text   *)
(* callouts are placed on the first and the last bar (lines 55-61).        *)
(* The script lists the algorithms in one order; the model lets the pairs   *)
(* (algorithm, response time) be listed in any order, to show which of the *)
(* hardcoded claims follow from the sort and which from the listing.       *)
(* Response times are rounded to the second (none of the claims depends on *)
(* the hundredths).                                                        *)
(***************************************************************************)
EXTENDS Integers, Sequences, PyFormat

\* Line 5: the algorithms compared.
Algos == {"RR", "WRR", "HBF", "SBDLB", "PROPOSED"}
NAlgos == 5

\* Lines 5-6: each algorithm's response time.
Rt == [a \in Algos |->
         CASE a = "RR" -> 5285061
           [] a = "WRR" -> 32578977
           [] a = "HBF" -> 2867990
           [] a = "SBDLB" -> 809466
           [] a = "PROPOSED" -> 461808]

\* Line 16: bar colours, best to worst.
colors_rt == <<"#27ae60", "#f39c12", "#3498db", "#95a5a6", "#e74c3c">>

\* Lines 47-51: the legend's colour for each algorithm it names.
Legend == [a \in {"PROPOSED", "SBDLB", "WRR"} |->
             CASE a = "PROPOSED" -> "#27ae60"
               [] a = "SBDLB" -> "#f39c12"
               [] a = "WRR" -> "#e74c3c"]

\* Lines 55-61: the callouts, by bar position (1-based), with their number
\* in tenths: '43.0% faster\nthan SBDLB' and '70.6x slower\nthan PROPOSED'.
Callouts ==
    { [pos |-> 1, kind |-> "faster_pct", vs |-> "SBDLB", tenths |-> 430],
      [pos |-> 5, kind |-> "slower_x", vs |-> "PROPOSED", tenths |-> 706] }

\* Mutant of ArgSort: the indices in descending order of the values.
ArgSortDesc(v) ==
    { p \in [1..Len(v) -> 1..Len(v)] :
        /\ \A i, j \in 1..Len(v) : i # j => p[i] # p[j]
        /\ \A i \in 1..(Len(v) - 1) : v[p[i]] >= v[p[i + 1]] }

\* np.argsort(v): the index sequences that list v in ascending order (any
\* of them when values tie; the script's values are distinct).
ArgSort(v) ==
    { p \in [1..Len(v) -> 1..Len(v)] :
        /\ \A i, j \in 1..Len(v) : i # j => p[i] # p[j]
        /\ \A i \in 1..(Len(v) - 1) : v[p[i]] <= v[p[i + 1]] }

VARIABLES
    algorithms,      \* line 5, in the order listed
    sorted_indices,  \* line 10, <<>> before the sort
    bars,            \* line 22: <<[algo, rt, color]>> per bar, left to right
    texts,           \* lines 55-61: the callouts drawn, with the bar they sit on
    stage            \* the next block of the script

vars == <<algorithms, sorted_indices, bars, texts, stage>>

response_times == [i \in 1..NAlgos |-> Rt[algorithms[i]]]

Init ==
    /\ algorithms \in {a \in [1..NAlgos -> Algos] :
                          \A i, j \in 1..NAlgos : i # j => a[i] # a[j]}
    /\ sorted_indices = <<>>
    /\ bars = <<>>
    /\ texts = {}
    /\ stage = "sort"

\* Lines 9-13: sorted_indices and the sorted copies of the lists.
Sort ==
    /\ stage = "sort"
    /\ sorted_indices' \in ArgSort(response_times)
    /\ stage' = "bars"
    /\ UNCHANGED <<algorithms, bars, texts>>

\* Lines 16-23: plt.bar(algorithms_sorted, response_times_sorted,
\* color=colors_rt), one bar per rank.
DrawBars ==
    /\ stage = "bars"
    /\ bars' = [i \in 1..NAlgos |->
                  [algo |-> algorithms[sorted_indices[i]],
                   rt |-> response_times[sorted_indices[i]],
                   color |-> colors_rt[i]]]
    /\ stage' = "texts"
    /\ UNCHANGED <<algorithms, sorted_indices, texts>>

\* Lines 55-61: plt.text(0, ...) and plt.text(4, ...): each callout sits on
\* the bar at its position.
Annotate ==
    /\ stage = "texts"
    /\ texts' = {[on |-> bars[c.pos].algo, kind |-> c.kind, vs |-> c.vs,
                  tenths |-> c.tenths] : c \in Callouts}
    /\ stage' = "done"
    /\ UNCHANGED <<algorithms, sorted_indices, bars>>

Next == Sort \/ DrawBars \/ Annotate

Spec == Init /\ [][Next]_vars

-----------------------------------------------------------------------------
TypeOK ==
    /\ algorithms \in [1..NAlgos -> Algos]
    /\ stage \in {"sort", "bars", "texts", "done"}
    /\ bars \in Seq([algo : Algos, rt : Nat, color : STRING])

\* The legend tells the truth and the ranking colours mean what the legend
\* says, however the data lists the algorithms: the bar of PROPOSED is
\* green, SBDLB's orange and WRR's red, and the bars read best to worst.
LegendMatchesBars ==
    /\ \A i \in DOMAIN bars :
          bars[i].algo \in DOMAIN Legend => bars[i].color = Legend[bars[i].algo]
    /\ \A i \in 1..(Len(bars) - 1) : bars[i].rt <= bars[i + 1].rt

\* Each callout is true of the bar it is drawn on, as f'{x:.1f}' would print
\* it: "43.0% faster than SBDLB" of the first bar and "70.6x slower than
\* PROPOSED" of the last.
CalloutsTrue ==
    \A t \in texts :
        CASE t.kind = "faster_pct" ->
               t.tenths \in RoundDiv(1000 * (Rt[t.vs] - Rt[t.on]), Rt[t.vs])
          [] t.kind = "slower_x" ->
               t.tenths \in RoundDiv(10 * Rt[t.on], Rt[t.vs])
=============================================================================
