--------------------------- MODULE RendersProofs ---------------------------
(***************************************************************************)
(* Proof that the figure manager implements the render calls of spec      *)
(* section 9 (Pyplot's RendersInOrder), for every set of programs that    *)
(* start a new figure after each plt.close() and whose savefigs match the *)
(* chart blocks one for one, as Scripts checks of src/ (ScriptsScoped and *)
(* ScriptsRender).  The k-th completed savefig of a run is its k-th       *)
(* render call: SavesDone counts them, and the canvas invariant of         *)
(* PyplotProofs says what each one writes.                                 *)
(***************************************************************************)
EXTENDS PyplotProofs, FiniteSetTheorems

USE ProgAssumption, RendersAssumption, FileSentinels, BoundsAssumption,
    SentinelAssumption

\* The savefig steps of script s before its step i.
SaveIdx(s, i) == {j \in 1..(i - 1) : Prog[s][j].op = "save"}

\* The savefig steps before a step are finitely many.
LEMMA SaveIdxFinite ==
    ASSUME NEW s \in ScriptNames, NEW i \in Nat
    PROVE  IsFiniteSet(SaveIdx(s, i)) /\ SaveIdx(s, i) \subseteq 1..(i - 1)
<1>1. IsFiniteSet(1..(i - 1))
  BY FS_Interval
<1>2. SaveIdx(s, i) \in SUBSET (1..(i - 1))
  BY DEF SaveIdx
<1>. QED
  BY <1>1, <1>2, FS_Subset

\* A run starts with no savefig behind it.
LEMMA SavesAtStart ==
    ASSUME NEW s \in ScriptNames
    PROVE  SavesBefore(s, 1) = 0
<1>1. {j \in 1..0 : Prog[s][j].op = "save"} = {}
  OBVIOUS
<1>. QED
  BY <1>1, FS_EmptySet DEF SavesBefore

\* Executing step i adds one to the count exactly when it is a savefig.
LEMMA SavesStep ==
    ASSUME NEW s \in ScriptNames, NEW i \in DOMAIN Prog[s]
    PROVE  SavesBefore(s, i + 1) =
               IF Prog[s][i].op = "save" THEN SavesBefore(s, i) + 1
                                         ELSE SavesBefore(s, i)
<1>1. i \in Nat \ {0} /\ i + 1 \in Nat
  BY ProgAssumption
<1>2. IsFiniteSet(SaveIdx(s, i)) /\ i \notin SaveIdx(s, i)
  <2>1. IsFiniteSet(SaveIdx(s, i))
    BY <1>1, SaveIdxFinite
  <2>2. i \notin SaveIdx(s, i)
    BY DEF SaveIdx
  <2>. QED
    BY <2>1, <2>2
<1>3. CASE Prog[s][i].op = "save"
  <2>1. SaveIdx(s, i + 1) = SaveIdx(s, i) \cup {i}
    BY <1>1, <1>3 DEF SaveIdx
  <2>2. Cardinality(SaveIdx(s, i + 1)) = Cardinality(SaveIdx(s, i)) + 1
    BY <1>2, <2>1, FS_AddElement
  <2>. QED
    BY <1>3, <2>2 DEF SavesBefore, SaveIdx
<1>4. CASE Prog[s][i].op # "save"
  <2>1. SaveIdx(s, i + 1) = SaveIdx(s, i)
    BY <1>1, <1>4 DEF SaveIdx
  <2>. QED
    BY <1>4, <2>1 DEF SavesBefore, SaveIdx
<1>. QED
  BY <1>3, <1>4

\* A savefig is followed by at least as many savefigs as it is preceded by,
\* plus itself: its count stays below the script's total.
LEMMA SavesBelowTotal ==
    ASSUME NEW s \in ScriptNames, NEW i \in DOMAIN Prog[s],
           Prog[s][i].op = "save"
    PROVE  SavesBefore(s, i) < SavesBefore(s, Len(Prog[s]) + 1)
<1> DEFINE n == Len(Prog[s]) + 1
<1>1. i \in 1..(n - 1) /\ n \in Nat
  BY ProgAssumption
<1>2. IsFiniteSet(SaveIdx(s, i)) /\ i \notin SaveIdx(s, i)
      /\ IsFiniteSet(SaveIdx(s, n))
  <2>1. i \in Nat
    BY <1>1
  <2>2. IsFiniteSet(SaveIdx(s, i)) /\ IsFiniteSet(SaveIdx(s, n))
    BY <1>1, <2>1, SaveIdxFinite
  <2>3. i \notin SaveIdx(s, i)
    BY DEF SaveIdx
  <2>. QED
    BY <2>2, <2>3
<1>3. Cardinality(SaveIdx(s, i) \cup {i}) = Cardinality(SaveIdx(s, i)) + 1
      /\ IsFiniteSet(SaveIdx(s, i) \cup {i})
  BY <1>2, FS_AddElement
<1>4. SaveIdx(s, i) \cup {i} \in SUBSET SaveIdx(s, n)
  BY <1>1 DEF SaveIdx
<1>5. Cardinality(SaveIdx(s, i) \cup {i}) <= Cardinality(SaveIdx(s, n))
  BY <1>2, <1>4, FS_Subset
<1>6. Cardinality(SaveIdx(s, i)) \in Nat /\ Cardinality(SaveIdx(s, n)) \in Nat
  BY <1>2, FS_CardinalityType
<1>. QED
  BY <1>3, <1>5, <1>6 DEF SavesBefore, SaveIdx
-----------------------------------------------------------------------------
\* A step that is not a savefig moves pc on without changing SavesDone.
LEMMA NonSaveStep ==
    ASSUME IInv, running # None, pc \in DOMAIN Prog[running],
           CurStep.op # "save", running' = running, pc' = pc + 1
    PROVE  SavesDone' = SavesDone
<1>1. running \in ScriptNames
  BY DEF IInv, TypeOK
<1>. QED
  BY <1>1, SavesStep DEF SavesDone, CurStep

\* A savefig, completed or not, is one of the script's render calls: the
\* next one in Renders, which writes the file the savefig names.
LEMMA SaveIsNextRender ==
    ASSUME RendersMatch, IInv, running # None, pc \in DOMAIN Prog[running],
           CurStep.op = "save"
    PROVE  /\ SavesDone < Len(Renders[running])
           /\ Renders[running][SavesDone + 1] =
                  [file |-> CurStep.arg, art |-> Drawn(running, pc)]
<1>1. running \in ScriptNames
  BY DEF IInv, TypeOK
<1>2. SavesDone = SavesBefore(running, pc)
  BY DEF SavesDone
<1>3. SavesBefore(running, pc) < SavesBefore(running, Len(Prog[running]) + 1)
  BY <1>1, SavesBelowTotal DEF CurStep
<1>. QED
  BY <1>1, <1>2, <1>3 DEF RendersMatch, CurStep

\* The figure manager implements the render calls of spec section 9: each
\* run of a script writes its charts' files in the order of the chart
\* blocks, each with exactly the artists its block draws, and a failed
\* savefig aborts the run leaving at most that file truncated.  This holds
\* for every set of programs that start a new figure after each plt.close()
\* and match their chart blocks (Scripts checks both of src/).
THEOREM RendersImplemented ==
    ASSUME ChartsScoped(Prog), RendersMatch
    PROVE  Spec => RendersInOrder
<1>1. Init => Calls!Init
  BY DEF Init, Calls!Init, SavesDone
<1>2. IInv /\ [Next]_vars => [Calls!Next]_Calls!vars
  <2> SUFFICES ASSUME IInv, [Next]_vars PROVE [Calls!Next]_Calls!vars
    OBVIOUS
  <2>1. ASSUME NEW s \in ScriptNames, Start(s) PROVE Calls!Call(s)
    <3>1. pc = 1 /\ running = None /\ running' = s /\ pc' = 1
      BY <2>1 DEF Start, IInv, IdleInv
    <3>2. SavesDone' = 0 /\ SavesDone = 0
      BY <3>1, SavesAtStart, SentinelAssumption DEF SavesDone
    <3>. QED
      BY <2>1, <3>1, <3>2 DEF Start, Calls!Call
  <2>2. CASE Figure \/ Draw \/ Close
    <3>1. /\ running # None /\ pc \in DOMAIN Prog[running]
          /\ CurStep.op # "save" /\ running' = running /\ pc' = pc + 1
          /\ files' = files
      BY <2>2 DEF Figure, Draw, Close
    <3>2. SavesDone' = SavesDone
      BY <3>1, NonSaveStep
    <3>. QED
      BY <3>1, <3>2 DEF Calls!vars
  <2>3. CASE Save
    <3>1. /\ running # None /\ pc \in DOMAIN Prog[running]
          /\ CurStep.op = "save" /\ running' = running /\ pc' = pc + 1
      BY <2>3 DEF Save
    <3>2. files' = [files EXCEPT ![CurStep.arg] =
                       [by |-> running, art |-> Drawn(running, pc)]]
      BY <2>3, SaveWritesDrawn
    <3>3. /\ SavesDone < Len(Renders[running])
          /\ Renders[running][SavesDone + 1] =
                 [file |-> CurStep.arg, art |-> Drawn(running, pc)]
      BY <3>1, SaveIsNextRender
    <3>4. SavesDone' = SavesDone + 1
      <4>1. running \in ScriptNames
        BY <3>1 DEF IInv, TypeOK
      <4>. QED
        BY <3>1, <4>1, SavesStep DEF SavesDone, CurStep
    <3>. QED
      BY <3>1, <3>2, <3>3, <3>4 DEF Calls!Next, Calls!Render
  <2>4. CASE SaveFail
    <3>1. /\ running # None /\ pc \in DOMAIN Prog[running]
          /\ CurStep.op = "save" /\ running' = None
          /\ files' \in {files, [files EXCEPT ![CurStep.arg] = Corrupt]}
      BY <2>4 DEF SaveFail, EndProcess
    <3>2. /\ SavesDone < Len(Renders[running])
          /\ Renders[running][SavesDone + 1].file = CurStep.arg
      BY <3>1, SaveIsNextRender
    <3>3. SavesDone' = 0
      BY <3>1 DEF SavesDone
    <3>. QED
      BY <3>1, <3>2, <3>3 DEF Calls!Next, Calls!Fail
  <2>5. CASE Exit
    <3>1. /\ running # None /\ pc = Len(Prog[running]) + 1
          /\ running' = None /\ files' = files
      BY <2>5 DEF Exit, EndProcess
    <3>2. running \in ScriptNames
      BY <3>1 DEF IInv, TypeOK
    <3>3. SavesDone = Len(Renders[running])
      BY <3>1, <3>2 DEF SavesDone, RendersMatch
    <3>4. SavesDone' = 0
      BY <3>1 DEF SavesDone
    <3>. QED
      BY <3>1, <3>3, <3>4 DEF Calls!Next, Calls!Return
  <2>6. CASE UNCHANGED vars
    BY <2>6 DEF vars, Calls!vars, SavesDone
  <2>7. CASE \E s \in ScriptNames : Start(s)
    BY <2>1, <2>7 DEF Calls!Next
  <2>. QED
    BY <2>2, <2>3, <2>4, <2>5, <2>6, <2>7 DEF Next
<1>. QED
  BY <1>1, <1>2, IInvHolds, PTL DEF Spec, RendersInOrder, Calls!Spec
=============================================================================
