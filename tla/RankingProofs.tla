---------------------------- MODULE RankingProofs ----------------------------
(***************************************************************************)
(* Proofs about graph 1 of plot_algorithm_comparison_updated.py (module   *)
(* Ranking): whatever order the data lists the algorithms in, np.argsort  *)
(* puts them on the bars fastest first, so the legend's colours are those *)
(* of the bars of the algorithms it names and the bars read best to worst.*)
(***************************************************************************)
EXTENDS Ranking, TLAPS, SequenceTheorems

\* The orders graph 1 may show: every algorithm on a bar, fastest first.
FastestFirst ==
    {s \in [1..NAlgos -> Algos] :
        /\ \A a \in Algos : \E i \in 1..NAlgos : s[i] = a
        /\ \A i, j \in 1..NAlgos : i < j => Rt[s[i]] < Rt[s[j]]}

\* The listings of line 5: each algorithm once.
Listings == {a \in [1..NAlgos -> Algos] :
               \A i, j \in 1..NAlgos : i # j => a[i] # a[j]}

\* What plt.bar draws at line 22 from the order p of line 10.
BarsOf(p) == [i \in 1..NAlgos |->
                [algo |-> algorithms[p[i]],
                 rt |-> response_times[p[i]],
                 color |-> colors_rt[i]]]

\* The only fastest-first listing of the script's data.
Ranked == <<"PROPOSED", "SBDLB", "HBF", "RR", "WRR">>

\* The inductive invariant: the listing stays a permutation, the order
\* once chosen is an argsort of it, and the bars, once drawn, are BarsOf it.
RInv ==
    /\ algorithms \in Listings
    /\ stage \in {"sort", "bars", "texts", "done"}
    /\ stage # "sort" => sorted_indices \in ArgSort(response_times)
    /\ stage \in {"sort", "bars"} => bars = <<>>
    /\ stage \in {"texts", "done"} => bars = BarsOf(sorted_indices)

-----------------------------------------------------------------------------
\* The response times of the data, one by one.
LEMMA RtValues ==
    /\ Rt["RR"] = 5285061
    /\ Rt["WRR"] = 32578977
    /\ Rt["HBF"] = 2867990
    /\ Rt["SBDLB"] = 809466
    /\ Rt["PROPOSED"] = 461808
  BY DEF Rt, Algos

\* response_times is a sequence of five integers.
LEMMA RtSeq ==
    ASSUME algorithms \in Listings
    PROVE  /\ response_times \in [1..NAlgos -> Int]
           /\ Len(response_times) = NAlgos
  <1>1. response_times \in [1..NAlgos -> Int]
    BY RtValues DEF response_times, Listings, Algos
  <1>2. response_times \in Seq(Int)
    <2>1. \A i \in 1..NAlgos : Rt[algorithms[i]] \in Int
      BY <1>1 DEF response_times
    <2>. QED
      BY <2>1, IsASeq DEF response_times, NAlgos
  <1>. QED
    BY <1>1, <1>2 DEF NAlgos

\* A listing of five distinct algorithms names all five (pigeonhole).
LEMMA ListingOnto ==
    ASSUME NEW a \in Listings, NEW x \in Algos
    PROVE  \E i \in 1..NAlgos : a[i] = x
  BY DEF Listings, Algos, NAlgos

\* An injective order of five indices is a permutation of them.
LEMMA ArgSortOnto ==
    ASSUME NEW v \in [1..NAlgos -> Int], Len(v) = NAlgos,
           NEW p \in ArgSort(v),
           NEW j \in 1..NAlgos
    PROVE  \E i \in 1..NAlgos : p[i] = j
  BY DEF ArgSort, NAlgos

\* An argsort lists the values in ascending order between any two positions,
\* not only between neighbours.
LEMMA ArgSortMonotone ==
    ASSUME NEW v \in [1..NAlgos -> Int], Len(v) = NAlgos,
           NEW p \in ArgSort(v),
           NEW i \in 1..NAlgos, NEW j \in 1..NAlgos, i < j
    PROVE  v[p[i]] <= v[p[j]]
  <1>1. /\ v[p[1]] <= v[p[2]]
        /\ v[p[2]] <= v[p[3]]
        /\ v[p[3]] <= v[p[4]]
        /\ v[p[4]] <= v[p[5]]
    BY DEF ArgSort, NAlgos
  <1>2. /\ p \in [1..NAlgos -> 1..NAlgos]
        /\ \A k \in 1..NAlgos : v[p[k]] \in Int
    BY DEF ArgSort
  <1>. QED
    BY <1>1, <1>2 DEF NAlgos

\* Bars drawn from an argsort of a listing name the algorithms fastest first.
LEMMA SortedIsFastestFirst ==
    ASSUME algorithms \in Listings,
           NEW p \in ArgSort(response_times)
    PROVE  [i \in 1..NAlgos |-> algorithms[p[i]]] \in FastestFirst
  <1> DEFINE q == [i \in 1..NAlgos |-> algorithms[p[i]]]
  <1>1. p \in [1..NAlgos -> 1..NAlgos]
    BY DEF ArgSort, response_times, NAlgos
  <1>2. response_times \in [1..NAlgos -> Int] /\ Len(response_times) = NAlgos
    BY RtSeq
  <1>3. q \in [1..NAlgos -> Algos]
    BY <1>1 DEF Listings
  <1>4. ASSUME NEW x \in Algos PROVE \E i \in 1..NAlgos : q[i] = x
    <2>1. PICK j \in 1..NAlgos : algorithms[j] = x
      BY ListingOnto
    <2>2. PICK i \in 1..NAlgos : p[i] = j
      BY <1>2, ArgSortOnto
    <2>. QED
      BY <2>1, <2>2
  <1>5. ASSUME NEW i \in 1..NAlgos, NEW j \in 1..NAlgos, i < j
        PROVE  Rt[q[i]] < Rt[q[j]]
    <2>1. response_times[p[i]] <= response_times[p[j]]
      BY <1>2, <1>5, ArgSortMonotone
    <2>2. q[i] # q[j]
      BY <1>1, <1>5 DEF ArgSort, response_times, Listings, NAlgos
    <2>3. q[i] \in Algos /\ q[j] \in Algos
      BY <1>3
    <2>4. Rt[q[i]] <= Rt[q[j]]
      BY <1>1, <2>1 DEF response_times
    <2>. QED
      BY <2>2, <2>3, <2>4, RtValues DEF Algos
  <1>. QED
    BY <1>3, <1>4, <1>5 DEF FastestFirst

\* The script's data has exactly one fastest-first listing.
LEMMA FastestFirstIsRanked ==
    ASSUME NEW s \in FastestFirst
    PROVE  s = Ranked
  <1>1. /\ s \in [1..NAlgos -> Algos]
        /\ \A a \in Algos : \E i \in 1..NAlgos : s[i] = a
        /\ \A i, j \in 1..NAlgos : i < j => Rt[s[i]] < Rt[s[j]]
    BY DEF FastestFirst
  <1>2. PICK i1 \in 1..NAlgos : s[i1] = "PROPOSED"
    BY <1>1 DEF Algos
  <1>3. PICK i2 \in 1..NAlgos : s[i2] = "SBDLB"
    BY <1>1 DEF Algos
  <1>4. PICK i3 \in 1..NAlgos : s[i3] = "HBF"
    BY <1>1 DEF Algos
  <1>5. PICK i4 \in 1..NAlgos : s[i4] = "RR"
    BY <1>1 DEF Algos
  <1>6. PICK i5 \in 1..NAlgos : s[i5] = "WRR"
    BY <1>1 DEF Algos
  <1>7. i1 < i2 /\ i2 < i3 /\ i3 < i4 /\ i4 < i5
    BY <1>1, <1>2, <1>3, <1>4, <1>5, <1>6, RtValues DEF NAlgos
  <1>8. i1 = 1 /\ i2 = 2 /\ i3 = 3 /\ i4 = 4 /\ i5 = 5
    BY <1>7 DEF NAlgos
  <1>. QED
    BY <1>1, <1>2, <1>3, <1>4, <1>5, <1>6, <1>8 DEF Ranked, NAlgos

\* The bars drawn from an argsort of a listing are the ranked algorithms
\* with the colours of colors_rt in order.
LEMMA BarsAreRanked ==
    ASSUME algorithms \in Listings,
           NEW p \in ArgSort(response_times)
    PROVE  \A i \in 1..NAlgos :
              /\ BarsOf(p)[i].algo = Ranked[i]
              /\ BarsOf(p)[i].rt = Rt[Ranked[i]]
              /\ BarsOf(p)[i].color = colors_rt[i]
  <1>1. [i \in 1..NAlgos |-> algorithms[p[i]]] = Ranked
    BY SortedIsFastestFirst, FastestFirstIsRanked
  <1>2. p \in [1..NAlgos -> 1..NAlgos]
    BY RtSeq DEF ArgSort
  <1>3. ASSUME NEW i \in 1..NAlgos
        PROVE  /\ BarsOf(p)[i].algo = algorithms[p[i]]
               /\ BarsOf(p)[i].rt = Rt[algorithms[p[i]]]
               /\ BarsOf(p)[i].color = colors_rt[i]
    BY <1>2 DEF BarsOf, response_times
  <1>4. \A i \in 1..NAlgos : algorithms[p[i]] = Ranked[i]
    BY <1>1
  <1>. QED
    BY <1>3, <1>4

-----------------------------------------------------------------------------
LEMMA RInvInit == Init => RInv
  BY DEF Init, RInv, Listings

LEMMA RInvStep == RInv /\ [Next]_vars => RInv'
  <1> SUFFICES ASSUME RInv, [Next]_vars PROVE RInv'
    OBVIOUS
  <1>1. CASE Sort
    <2>1. response_times' = response_times
      BY <1>1 DEF Sort, response_times
    <2>. QED
      BY <1>1, <2>1 DEF Sort, RInv, Listings
  <1>2. CASE DrawBars
    BY <1>2 DEF DrawBars, RInv, BarsOf, Listings, response_times
  <1>3. CASE Annotate
    BY <1>3 DEF Annotate, RInv, BarsOf, Listings, response_times
  <1>4. CASE UNCHANGED vars
    BY <1>4 DEF vars, RInv, BarsOf, Listings, response_times
  <1>. QED
    BY <1>1, <1>2, <1>3, <1>4 DEF Next

LEMMA RInvHolds == Spec => []RInv
  BY RInvInit, RInvStep, PTL DEF Spec

\* Whatever order line 5 lists the algorithms in, the bar of PROPOSED is
\* green, SBDLB's orange and WRR's red, as the legend of lines 47-51 says,
\* and the bars of plt.bar read in ascending response time.
THEOREM LegendHolds == Spec => []LegendMatchesBars
  <1>1. RInv => LegendMatchesBars
    <2> SUFFICES ASSUME RInv PROVE LegendMatchesBars
      OBVIOUS
    <2>1. CASE stage \in {"sort", "bars"}
      BY <2>1 DEF RInv, LegendMatchesBars
    <2>2. CASE stage \in {"texts", "done"}
      <3>1. sorted_indices \in ArgSort(response_times) /\ algorithms \in Listings
        BY <2>2 DEF RInv
      <3>2. bars = BarsOf(sorted_indices)
        BY <2>2 DEF RInv
      <3>3. \A i \in 1..NAlgos :
              /\ bars[i].algo = Ranked[i]
              /\ bars[i].rt = Rt[Ranked[i]]
              /\ bars[i].color = colors_rt[i]
        BY <3>1, <3>2, BarsAreRanked
      <3>4. DOMAIN bars = 1..NAlgos /\ Len(bars) = NAlgos
        BY <3>2 DEF BarsOf, NAlgos
      <3>. QED
        BY <3>3, <3>4, RtValues
        DEF LegendMatchesBars, Legend, Ranked, colors_rt, NAlgos
    <2>. QED
      BY <2>1, <2>2 DEF RInv
  <1>. QED
    BY <1>1, RInvHolds, PTL

=============================================================================
