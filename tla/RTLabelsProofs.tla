---------------------------- MODULE RTLabelsProofs ----------------------------
(***************************************************************************)
(* Proof that the response-time labels are accurate for every number of   *)
(* bars and every non-negative time, not only the values MC_RTLabels       *)
(* enumerates.                                                             *)
(***************************************************************************)
EXTENDS RTLabels, TLAPS

USE LabelsAssumption

\* The integer f'{n/d:.0f}' prints is within half a unit of n / d.
LEMMA RoundDivNear ==
    ASSUME NEW n \in Int, NEW d \in Nat \ {0}, NEW m \in RoundDiv(n, d)
    PROVE  2 * AbsVal(m * d - n) <= d
<1> DEFINE q == n \div d  r == n % d
<1>1. n = q * d + r /\ r \in 0..(d - 1) /\ q \in Int
  OBVIOUS
<1>2. CASE 2 * r < d
  <2>1. m = q
    BY <1>2 DEF RoundDiv
  <2>2. m * d - n = -r
    BY <1>1, <2>1
  <2>3. QED
    BY <1>1, <1>2, <2>2 DEF AbsVal
<1>3. CASE 2 * r > d
  <2>1. m = q + 1
    BY <1>3 DEF RoundDiv
  <2>2. m * d - n = d - r
    BY <1>1, <2>1
  <2>3. QED
    BY <1>1, <1>3, <2>2 DEF AbsVal
<1>4. CASE 2 * r = d
  <2>1. m = q \/ m = q + 1
    BY <1>4 DEF RoundDiv
  <2>2. m * d - n = -r \/ m * d - n = d - r
    BY <1>1, <2>1
  <2>3. QED
    BY <1>1, <1>4, <2>2 DEF AbsVal
<1>5. QED
  BY <1>2, <1>3, <1>4

\* The seconds per last digit of each of the three label formats.
LEMMA UlpValues ==
    /\ 1000000 \div (10 ^ 2) = 10000
    /\ 1000 \div (10 ^ 1) = 100
    /\ 1000 \div (10 ^ 0) = 1000
<1>1. 10 ^ 2 = 100 /\ 10 ^ 1 = 10 /\ 10 ^ 0 = 1
  OBVIOUS
<1>2. QED
  BY <1>1

\* Every label either script can print for a time rt is a label record and
\* reads back as rt to within half a unit of its last digit.
LEMMA LabelNear ==
    ASSUME NEW s \in Scripts, NEW rt \in Nat, NEW l \in RTLabel(s, rt)
    PROVE  /\ l \in LabelRec
           /\ 2 * AbsVal(l.mant * Ulp(l) - rt) <= Ulp(l)
<1>1. CASE rt >= 1000000
  <2>1. \E m \in RoundDiv(rt, 10000) : l = [unit |-> "M", dec |-> 2, mant |-> m]
    BY <1>1 DEF RTLabel, CmpLabel, CleanLabel, Lbl
  <2>2. PICK m \in RoundDiv(rt, 10000) : l = [unit |-> "M", dec |-> 2, mant |-> m]
    BY <2>1
  <2>3. Ulp(l) = 10000
    BY <2>2, UlpValues DEF Ulp
  <2>4. m \in Int
    BY DEF RoundDiv
  <2>5. QED
    BY <2>2, <2>3, <2>4, RoundDivNear DEF LabelRec
<1>2. CASE rt < 1000000 /\ s = "plot_algorithm_comparison"
  <2>1. \E m \in RoundDiv(rt, 100) : l = [unit |-> "K", dec |-> 1, mant |-> m]
    BY <1>2 DEF RTLabel, CmpLabel, Lbl
  <2>2. PICK m \in RoundDiv(rt, 100) : l = [unit |-> "K", dec |-> 1, mant |-> m]
    BY <2>1
  <2>3. Ulp(l) = 100
    BY <2>2, UlpValues DEF Ulp
  <2>4. m \in Int
    BY DEF RoundDiv
  <2>5. QED
    BY <2>2, <2>3, <2>4, RoundDivNear DEF LabelRec
<1>3. CASE rt < 1000000 /\ s # "plot_algorithm_comparison"
  <2>1. \E m \in RoundDiv(rt, 1000) : l = [unit |-> "K", dec |-> 0, mant |-> m]
    BY <1>3 DEF RTLabel, CleanLabel, Lbl
  <2>2. PICK m \in RoundDiv(rt, 1000) : l = [unit |-> "K", dec |-> 0, mant |-> m]
    BY <2>1
  <2>3. Ulp(l) = 1000
    BY <2>2, UlpValues DEF Ulp
  <2>4. m \in Int
    BY DEF RoundDiv
  <2>5. QED
    BY <2>2, <2>3, <2>4, RoundDivNear DEF LabelRec
<1>4. QED
  BY <1>1, <1>2, <1>3

\* The inductive invariant: the labels printed so far are one per bar
\* before k, each accurate.
LInv == TypeOK /\ Len(labels) = k - 1 /\ LabelAccurate

LEMMA LInvInductive == LInv /\ [Next]_vars => LInv'
<1> SUFFICES ASSUME LInv, [Next]_vars PROVE LInv'
  OBVIOUS
<1>1. CASE LabelBar
  <2>1. k <= N /\ k \in 1..N /\ vals[k] \in Nat
    <3>1. k \in 1..N
      BY <1>1 DEF LInv, TypeOK, LabelBar
    <3>2. vals[k] \in Values
      BY <3>1 DEF LInv, TypeOK
    <3>3. vals[k] \in Nat
      BY <3>2, LabelsAssumption, Zenon
    <3>4. k <= N
      BY <3>1, LabelsAssumption, SMT
    <3>5. QED
      BY <3>1, <3>3, <3>4
  <2>2. PICK l \in RTLabel(script, vals[k]) :
          /\ labels' = Append(labels, l)
          /\ k' = k + 1 /\ script' = script /\ vals' = vals
    BY <1>1 DEF LabelBar
  <2>3. l \in LabelRec /\ 2 * AbsVal(l.mant * Ulp(l) - vals[k]) <= Ulp(l)
    BY <2>1, <2>2, LabelNear DEF LInv, TypeOK
  <2>4. TypeOK' /\ Len(labels') = k' - 1
    BY <2>1, <2>2, <2>3 DEF LInv, TypeOK
  <2>5. LabelAccurate'
    <3> SUFFICES ASSUME NEW i \in 1..Len(labels')
                 PROVE  2 * AbsVal(labels'[i].mant * Ulp(labels'[i]) - vals'[i])
                          <= Ulp(labels'[i])
      BY DEF LabelAccurate
    <3>1. CASE i = k
      BY <2>2, <2>3, <3>1 DEF LInv, TypeOK
    <3>2. CASE i # k
      <4>1. i \in 1..Len(labels) /\ labels'[i] = labels[i]
        BY <2>2, <3>2 DEF LInv, TypeOK
      <4>2. QED
        BY <2>2, <4>1 DEF LInv, LabelAccurate
    <3>3. QED
      BY <3>1, <3>2
  <2>6. QED
    BY <2>4, <2>5 DEF LInv
<1>2. CASE UNCHANGED vars
  BY <1>2 DEF LInv, TypeOK, LabelAccurate, vars
<1>3. QED
  BY <1>1, <1>2 DEF Next

\* For every number of bars and every list of non-negative response times,
\* every value label the label loops of plot_algorithm_comparison.py,
\* plot_algorithm_comparison_updated.py and plot_clean_graphs.py print
\* reads back as its bar's time to within half a unit of its last digit.
THEOREM LabelsAccurate == Spec => []LabelAccurate
<1>1. Init => LInv
  BY DEF Init, LInv, TypeOK, LabelAccurate
<1>2. LInv => LabelAccurate
  BY DEF LInv
<1>3. QED
  BY <1>1, <1>2, LInvInductive, PTL DEF Spec
=============================================================================
