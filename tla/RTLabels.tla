------------------------------ MODULE RTLabels ------------------------------
(***************************************************************************)
(* The value-label loop over the response-time bars: for each bar, the    *)
(* label printed above it, in millions ("M") when the time is at least    *)
(* 1,000,000 s and in thousands ("K") otherwise.                           *)
(*   plot_algorithm_comparison.py 19-24 (and the same lines 26-31 of       *)
(*     plot_algorithm_comparison_updated.py): .2f M / .1f K;               *)
(*   plot_clean_graphs.py 17-23: .2f M / .0f K.                            *)
(* The times are hardcoded in the scripts; the loop is checked here on    *)
(* every list of N times from a set of values around the unit boundary.   *)
(* Times are whole seconds: the hundredths the scripts give never reach  *)
(* the first printed decimal of a K or M label, and TLC's integers are 32  *)
(* bits wide.                                                              *)
(***************************************************************************)
EXTENDS Integers, Sequences, PyFormat

CONSTANTS
    N,       \* number of bars
    Values   \* candidate response times, in seconds

ASSUME LabelsAssumption == N \in Nat /\ Values \subseteq Nat

\* The label formats of the two scripts.
Scripts == {"plot_algorithm_comparison", "plot_clean_graphs"}

VARIABLES
    script,  \* whose loop runs
    vals,    \* response_times
    k,       \* the loop's current bar
    labels   \* the labels printed so far, as [unit, dec, mant]

vars == <<script, vals, k, labels>>

\* A label shows mant / 10^dec followed by unit.
Lbl(u, d, ms) == {[unit |-> u, dec |-> d, mant |-> m] : m \in ms}

\* Mutant of CmpLabel: the K branch divides by 10000 instead of 1000.
CmpLabelTenfold(rt) ==
    IF rt >= 1000000 THEN Lbl("M", 2, RoundDiv(rt, 10000))
                     ELSE Lbl("K", 1, RoundDiv(rt, 1000))

\* plot_algorithm_comparison.py 21-24:
\*   f'{rt/1000000:.2f}M s' if rt >= 1000000 else f'{rt/1000:.1f}K s'
CmpLabel(rt) ==
    IF rt >= 1000000 THEN Lbl("M", 2, RoundDiv(rt, 10000))
                       ELSE Lbl("K", 1, RoundDiv(rt, 100))

\* plot_clean_graphs.py 20-23:
\*   f'{rt/1000000:.2f}M' if rt >= 1000000 else f'{rt/1000:.0f}K'
CleanLabel(rt) ==
    IF rt >= 1000000 THEN Lbl("M", 2, RoundDiv(rt, 10000))
                       ELSE Lbl("K", 0, RoundDiv(rt, 1000))

RTLabel(s, rt) ==
    IF s = "plot_algorithm_comparison" THEN CmpLabel(rt) ELSE CleanLabel(rt)

Init ==
    /\ script \in Scripts
    /\ vals \in [1..N -> Values]
    /\ k = 1
    /\ labels = <<>>

\* One iteration of `for bar, rt in zip(bars, response_times)`.
LabelBar ==
    /\ k <= N
    /\ \E l \in RTLabel(script, vals[k]) : labels' = Append(labels, l)
    /\ k' = k + 1
    /\ UNCHANGED <<script, vals>>

Next == LabelBar

Spec == Init /\ [][Next]_vars

-----------------------------------------------------------------------------
\* A printed label: its unit, the decimals printed and the digits as one
\* integer.
LabelRec == [unit : {"K", "M"}, dec : 0..2, mant : Int]

TypeOK ==
    /\ script \in Scripts
    /\ vals \in [1..N -> Values]
    /\ k \in 1..(N + 1)
    /\ labels \in Seq(LabelRec)

\* Seconds per unit of the label's last printed digit.
Ulp(l) == (IF l.unit = "M" THEN 1000000 ELSE 1000) \div (10 ^ l.dec)

\* Every label reads back as its bar's time to within half a unit of its
\* last printed digit, whichever unit the threshold picked.
LabelAccurate ==
    \A i \in 1..Len(labels) :
        2 * AbsVal(labels[i].mant * Ulp(labels[i]) - vals[i]) <= Ulp(labels[i])

\* The unit fits the number printed: a K label shows less than 1000 and an
\* M label at least 1 (spec section 8: the unit is chosen by magnitude, to
\* be tested at exactly 1,000,000 and around it).
UnitMatchesMagnitude ==
    \A i \in 1..Len(labels) :
        /\ labels[i].unit = "K" => labels[i].mant < 1000 * 10 ^ labels[i].dec
        /\ labels[i].unit = "M" => labels[i].mant >= 10 ^ labels[i].dec
=============================================================================
