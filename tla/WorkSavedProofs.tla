--------------------------- MODULE WorkSavedProofs ---------------------------
(***************************************************************************)
(* Proof that no drawing is thrown away unsaved (Pyplot's WorkSaved), for  *)
(* every set of programs that save each chart before leaving it and save  *)
(* each name once, as Scripts checks of src/ (ScriptsSaveCharts).          *)
(***************************************************************************)
EXTENDS PyplotProofs

USE ProgAssumption, FileSentinels, BoundsAssumption, SentinelAssumption

\* The chart A was saved by one of the running script's first i - 1 steps.
SavedBy(A, i) ==
    \E j \in 1..(i - 1) :
        Prog[running][j].op = "save" /\ Drawn(running, j) = A

\* Figure n holds nothing that the run has not saved.
Kept(n) == canvas[n] = {} \/ SavedBy(canvas[n], pc)

\* Every savefig of this run so far still holds what it wrote.
HeldInv ==
    running # None =>
        \A j \in 1..(pc - 1) :
            Prog[running][j].op = "save" =>
                files[Prog[running][j].arg] = [by |-> running, art |-> Drawn(running, j)]

\* Every open figure but the one being drawn holds only saved work.
BelowInv ==
    running # None =>
        \A n \in ToSet(stack) : (n # Last(stack) \/ AfterClose) => Kept(n)

WInv == IInv /\ HeldInv /\ BelowInv

\* The program assumptions of this proof, as Scripts states them of src/.
Disciplined ==
    ChartsScoped(Prog) /\ ChartsSaved(Prog) /\ SavesDistinct(Prog)

-----------------------------------------------------------------------------
\* At a plt.figure(), a plt.close() or the end of the script, the chart on
\* the current figure is empty or already saved (ChartsSaved).
LEMMA TopKept ==
    ASSUME ChartsSaved(Prog), IInv, running # None, ~AfterClose,
           stack # <<>>,
           \/ pc = Len(Prog[running]) + 1
           \/ pc \in DOMAIN Prog[running] /\ CurStep.op \in {"fig", "close"}
    PROVE  Kept(Last(stack))
<1>1. running \in ScriptNames /\ pc \in 1..(Len(Prog[running]) + 1)
  BY DEF IInv, TypeOK, PcInv
<1>2. canvas[Last(stack)] = Drawn(running, pc)
  BY DEF IInv, CanvasInv, CurrentArt
<1>3. \/ Drawn(running, pc) = {}
      \/ \E j \in 1..(pc - 1) :
            Prog[running][j].op = "save" /\ Drawn(running, j) = Drawn(running, pc)
  BY <1>1 DEF ChartsSaved, CurStep
<1>. QED
  BY <1>2, <1>3 DEF Kept, SavedBy

\* What the run has saved is in a file of its own.
LEMMA HeldFile ==
    ASSUME TypeOK, PcInv, HeldInv, running # None, NEW A, SavedBy(A, pc)
    PROVE  \E f \in Files : files[f] = [by |-> running, art |-> A]
<1>1. PICK j \in 1..(pc - 1) :
        Prog[running][j].op = "save" /\ Drawn(running, j) = A
  BY DEF SavedBy
<1>2. running \in ScriptNames /\ pc \in 1..(Len(Prog[running]) + 1)
  BY DEF TypeOK, PcInv
<1>3. Prog[running] \in Seq(Step) /\ j \in 1..Len(Prog[running])
  BY <1>2
<1>4. Prog[running][j] \in Step
  BY <1>3
<1>5. Prog[running][j].arg \in Files
  BY <1>1, <1>4 DEF Step
<1>. QED
  BY <1>1, <1>5 DEF HeldInv

\* Every savefig of the run keeps its file: the run saves no name twice, and
\* no other run writes while it is alive.
LEMMA HeldStep ==
    ASSUME Disciplined, WInv, [Next]_vars
    PROVE  HeldInv'
<1>1. TypeOK /\ IdleInv /\ PcInv /\ HeldInv
  BY DEF WInv, IInv
<1>2. ASSUME NEW s \in ScriptNames, Start(s) PROVE HeldInv'
  BY <1>1, <1>2 DEF Start, IdleInv, HeldInv
<1>3. ASSUME Figure \/ Draw \/ Close PROVE HeldInv'
  <2>1. /\ running # None /\ pc \in DOMAIN Prog[running]
        /\ CurStep.op # "save"
        /\ running' = running /\ files' = files /\ pc' = pc + 1
    BY <1>3 DEF Figure, Draw, Close
  <2>4. pc \in Nat
    BY <1>1 DEF TypeOK
  <2>2. SUFFICES ASSUME NEW j \in 1..pc, Prog[running][j].op = "save"
               PROVE  files[Prog[running][j].arg]
                        = [by |-> running, art |-> Drawn(running, j)]
    BY <2>1, <2>4 DEF HeldInv
  <2>3. j # pc
    BY <2>1, <2>2 DEF CurStep
  <2>. QED
    BY <1>1, <2>1, <2>2, <2>3, <2>4 DEF HeldInv
<1>4. ASSUME Save PROVE HeldInv'
  <2>1. /\ running \in ScriptNames
        /\ CurStep.arg \in Files
        /\ files' = [files EXCEPT ![CurStep.arg] =
                        [by |-> running, art |-> Drawn(running, pc)]]
    BY <1>4, SaveWritesDrawn DEF WInv, Disciplined
  <2>2. /\ running' = running /\ pc' = pc + 1
        /\ pc \in DOMAIN Prog[running] /\ CurStep.op = "save"
    BY <1>4 DEF Save
  <2>3. ASSUME NEW j \in 1..(pc - 1), Prog[running][j].op = "save"
        PROVE  Prog[running][j].arg # CurStep.arg
    <3>1. pc \in 1..(Len(Prog[running]) + 1) /\ Prog[running] \in Seq(Step)
      BY <1>1, <2>1 DEF PcInv
    <3>2. j \in DOMAIN Prog[running] /\ j # pc
      BY <3>1, <2>2
    <3>. QED
      BY <2>2, <2>3, <3>2, <2>1 DEF Disciplined, SavesDistinct, CurStep
  <2>5. pc \in Nat
    BY <1>1 DEF TypeOK
  <2>4. SUFFICES ASSUME NEW j \in 1..pc, Prog[running][j].op = "save"
               PROVE  files'[Prog[running][j].arg]
                        = [by |-> running, art |-> Drawn(running, j)]
    BY <2>2, <2>5 DEF HeldInv
  <2>6. CASE j = pc
    BY <1>1, <2>1, <2>6 DEF CurStep, TypeOK
  <2>7. CASE j # pc
    <3>1. j \in 1..(pc - 1)
      BY <2>5, <2>7
    <3>2. Prog[running][j].arg # CurStep.arg
      BY <3>1, <2>3, <2>4
    <3>3. files[Prog[running][j].arg] = [by |-> running, art |-> Drawn(running, j)]
      BY <1>1, <2>1, <2>4, <3>1 DEF HeldInv
    <3>. QED
      BY <2>1, <3>2, <3>3
  <2>. QED
    BY <2>6, <2>7
<1>5. ASSUME SaveFail \/ Exit PROVE HeldInv'
  BY <1>5 DEF SaveFail, Exit, EndProcess, HeldInv
<1>6. CASE UNCHANGED vars
  BY <1>1, <1>6 DEF vars, HeldInv
<1>. QED
  BY <1>2, <1>3, <1>4, <1>5, <1>6 DEF Next


\* The open figures after the stack operations of pyplot.
LEMMA ToSetOps ==
    ASSUME NEW st \in Seq(FigNum), NEW x
    PROVE  /\ ToSet(Append(st, x)) = ToSet(st) \cup {x}
           /\ ToSet(<<>>) = {}
           /\ ToSet(<<x>>) = {x}
           /\ st # <<>> => ToSet(Front(st)) \subseteq ToSet(st)
<1>1. ToSet(Append(st, x)) = ToSet(st) \cup {x}
  <2>1. DOMAIN Append(st, x) = DOMAIN st \cup {Len(st) + 1}
    OBVIOUS
  <2>2. \A i \in DOMAIN st : Append(st, x)[i] = st[i]
    OBVIOUS
  <2>3. Append(st, x)[Len(st) + 1] = x
    OBVIOUS
  <2>. QED
    BY <2>1, <2>2, <2>3 DEF ToSet
<1>2. ToSet(<<>>) = {} /\ ToSet(<<x>>) = {x}
  BY DEF ToSet
<1>3. ASSUME st # <<>> PROVE ToSet(Front(st)) \subseteq ToSet(st)
  <2>1. Len(st) - 1 \in 0..Len(st)
    BY <1>3
  <2>2. Front(st) = SubSeq(st, 1, Len(st) - 1)
    BY DEF Front
  <2>3. DOMAIN Front(st) = 1..(Len(st) - 1)
    BY <2>1, <2>2
  <2>4. \A i \in 1..(Len(st) - 1) : Front(st)[i] = st[i]
    BY <2>1, <2>2
  <2>. QED
    BY <2>3, <2>4 DEF ToSet
<1>. QED
  BY <1>1, <1>2, <1>3

\* A figure that holds only saved work keeps it while the run goes on.
LEMMA KeptStep ==
    ASSUME NEW n, Kept(n), pc \in Nat,
           running' = running, pc' = pc + 1, canvas'[n] = canvas[n]
    PROVE  Kept(n)'
BY DEF Kept, SavedBy

\* Every open figure but the current one holds only saved work.
LEMMA BelowStep ==
    ASSUME Disciplined, WInv, [Next]_vars
    PROVE  BelowInv'
<1>1. /\ IInv /\ TypeOK /\ IdleInv /\ PcInv /\ BelowInv
      /\ pc \in Nat /\ stack \in Seq(FigNum)
  BY DEF WInv, IInv, TypeOK
<1>2. ASSUME NEW s \in ScriptNames, Start(s) PROVE BelowInv'
  BY <1>1, <1>2, ToSetOps DEF Start, IdleInv, BelowInv
<1>3. ASSUME Figure PROVE BelowInv'
  <2>1. /\ running # None /\ pc \in DOMAIN Prog[running] /\ CurStep.op = "fig"
        /\ NewNum \in FigNum
        /\ stack' = Append(stack, NewNum)
        /\ canvas' = [canvas EXCEPT ![NewNum] = {}]
        /\ running' = running /\ pc' = pc + 1
    BY <1>3 DEF Figure
  <2>6. ~AfterClose'
    BY <1>1, <2>1 DEF AfterClose, CurStep
  <2>2. SUFFICES ASSUME NEW n \in ToSet(stack'), n # Last(stack')
                 PROVE  Kept(n)'
    BY <2>1, <2>6 DEF BelowInv
  <2>7. /\ ToSet(stack') = ToSet(stack) \cup {NewNum}
        /\ Last(stack') = NewNum
    BY <1>1, <2>1, ToSetOps, StackOps
  <2>3. n \in ToSet(stack) /\ n # NewNum
    BY <2>2, <2>7
  <2>4. canvas'[n] = canvas[n]
    BY <1>1, <2>1, <2>3 DEF TypeOK
  <2>5. Kept(n)
    <3>1. CASE n # Last(stack) \/ AfterClose
      BY <1>1, <2>1, <2>3, <3>1 DEF BelowInv
    <3>2. CASE n = Last(stack) /\ ~AfterClose
      BY <1>1, <2>1, <2>3, <3>2, TopKept, ToSetOps DEF Disciplined
    <3>. QED
      BY <3>1, <3>2
  <2>. QED
    BY <1>1, <2>1, <2>4, <2>5, KeptStep
<1>4. ASSUME Draw \/ Save PROVE BelowInv'
  <2>1. /\ running # None /\ pc \in DOMAIN Prog[running]
        /\ CurStep.op \in {"draw", "save"}
        /\ running' = running /\ pc' = pc + 1
    BY <1>4 DEF Draw, Save
  <2>2. ~AfterClose'
    BY <1>1, <2>1 DEF AfterClose, CurStep
  <2>3. CASE stack = <<>>
    <3>1. stack' = <<NewNum>>
      BY <1>4, <2>3 DEF Draw, Save, WithCurrentFigure
    <3>. QED
      BY <1>1, <2>2, <3>1, ToSetOps DEF BelowInv, Last
  <2>4. CASE stack # <<>>
    <3>1. /\ stack' = stack
          /\ \E A : canvas' = [canvas EXCEPT ![Last(stack)] = A]
      BY <1>4, <2>4 DEF Draw, Save, WithCurrentFigure
    <3>2. SUFFICES ASSUME NEW n \in ToSet(stack), n # Last(stack)
                   PROVE  Kept(n)'
      BY <2>1, <2>2, <3>1 DEF BelowInv
    <3>3. canvas'[n] = canvas[n]
      BY <3>1, <3>2
    <3>4. Kept(n)
      BY <1>1, <2>1, <3>2 DEF BelowInv
    <3>. QED
      BY <1>1, <2>1, <3>3, <3>4, KeptStep
  <2>. QED
    BY <2>3, <2>4
<1>5. ASSUME Close PROVE BelowInv'
  <2>1. /\ running # None /\ pc \in DOMAIN Prog[running] /\ CurStep.op = "close"
        /\ stack' = IF stack = <<>> THEN stack ELSE Front(stack)
        /\ canvas' = canvas /\ running' = running /\ pc' = pc + 1
    BY <1>5 DEF Close
  <2>2. CASE stack = <<>>
    BY <1>1, <2>1, <2>2, ToSetOps DEF BelowInv
  <2>3. CASE stack # <<>>
    <3>1. SUFFICES ASSUME NEW n \in ToSet(stack) PROVE Kept(n)'
      BY <1>1, <2>1, <2>3, ToSetOps DEF BelowInv
    <3>2. ~AfterClose
      BY <1>1, <2>1, NoStepAfterClose DEF Disciplined, CurStep
    <3>3. Kept(n)
      <4>1. CASE n # Last(stack)
        BY <1>1, <2>1, <4>1 DEF BelowInv
      <4>2. CASE n = Last(stack)
        BY <1>1, <2>1, <2>3, <3>2, <4>2, TopKept DEF Disciplined
      <4>. QED
        BY <4>1, <4>2
    <3>. QED
      BY <1>1, <2>1, <3>3, KeptStep
  <2>. QED
    BY <2>2, <2>3
<1>6. ASSUME SaveFail \/ Exit PROVE BelowInv'
  BY <1>6 DEF SaveFail, Exit, EndProcess, BelowInv
<1>7. CASE UNCHANGED vars
  BY <1>1, <1>7 DEF vars, BelowInv, Kept, SavedBy, AfterClose
<1>. QED
  BY <1>2, <1>3, <1>4, <1>5, <1>6, <1>7 DEF Next


LEMMA WInvHolds ==
    ASSUME Disciplined
    PROVE  Spec => []WInv
<1>1. Init => HeldInv /\ BelowInv
  BY SentinelAssumption DEF Init, HeldInv, BelowInv
<1>2. IInv /\ HeldInv /\ BelowInv /\ [Next]_vars => (HeldInv /\ BelowInv)'
  BY HeldStep, BelowStep DEF WInv
<1>3. Spec => []IInv
  BY IInvHolds DEF Disciplined
<1>. QED
  BY <1>1, <1>2, <1>3, PTL DEF Spec, WInv

\* A figure leaves the stack holding only saved work (the step of WorkSaved).
Discard ==
    (running' # None \/ pc = Len(Prog[running]) + 1) =>
        \A n \in ToSet(stack) \ ToSet(stack') :
            \/ canvas[n] = {}
            \/ \E f \in Files : files[f] = [by |-> running, art |-> canvas[n]]

\* Only plt.close() and the normal end of a script discard figures, and both
\* find them empty or saved.
LEMMA DiscardStep ==
    ASSUME Disciplined, WInv, [Next]_vars
    PROVE  Discard
<1>1. /\ IInv /\ TypeOK /\ IdleInv /\ PcInv /\ HeldInv /\ BelowInv
      /\ stack \in Seq(FigNum)
  BY DEF WInv, IInv, TypeOK
<1>2. SUFFICES ASSUME running' # None \/ pc = Len(Prog[running]) + 1,
                      NEW n \in ToSet(stack) \ ToSet(stack')
               PROVE  \/ canvas[n] = {}
                      \/ \E f \in Files : files[f] = [by |-> running, art |-> canvas[n]]
  BY DEF Discard
\* A discarded figure that holds only saved work passes.
<1>3. ASSUME running # None, Kept(n)
      PROVE  \/ canvas[n] = {}
             \/ \E f \in Files : files[f] = [by |-> running, art |-> canvas[n]]
  BY <1>1, <1>3, HeldFile DEF Kept
<1>4. CASE \E s \in ScriptNames : Start(s)
  BY <1>1, <1>2, <1>4, ToSetOps DEF Start, IdleInv
<1>5. CASE Figure
  <2>1. stack' = Append(stack, NewNum)
    BY <1>5 DEF Figure
  <2>2. ToSet(stack') = ToSet(stack) \cup {NewNum}
    BY <1>1, <2>1, ToSetOps
  <2>. QED
    BY <1>2, <2>2
<1>6. CASE Draw \/ Save
  <2>1. stack' = stack \/ stack = <<>>
    BY <1>6 DEF Draw, Save, WithCurrentFigure
  <2>. QED
    BY <1>1, <1>2, <2>1, ToSetOps
<1>7. CASE SaveFail
  <2>1. running' = None /\ running # None /\ pc \in DOMAIN Prog[running]
    BY <1>7 DEF SaveFail, EndProcess
  <2>2. running \in ScriptNames
    BY <1>1, <2>1 DEF TypeOK
  <2>. QED
    BY <1>2, <2>1, <2>2
<1>8. CASE Close
  <2>1. /\ running # None /\ pc \in DOMAIN Prog[running] /\ CurStep.op = "close"
        /\ stack' = IF stack = <<>> THEN stack ELSE Front(stack)
    BY <1>8 DEF Close
  <2>2. stack # <<>>
    BY <1>2, <2>1
  <2>3. ~AfterClose
    BY <1>1, <2>1, NoStepAfterClose DEF Disciplined, CurStep
  <2>4. Kept(n)
    <3>1. CASE n # Last(stack)
      BY <1>1, <1>2, <2>1, <3>1 DEF BelowInv
    <3>2. CASE n = Last(stack)
      BY <1>1, <2>1, <2>2, <2>3, <3>2, TopKept DEF Disciplined
    <3>. QED
      BY <3>1, <3>2
  <2>. QED
    BY <1>3, <2>1, <2>4
<1>9. CASE Exit
  <2>1. running # None /\ pc = Len(Prog[running]) + 1
    BY <1>9 DEF Exit
  <2>2. Kept(n)
    <3>1. CASE n # Last(stack) \/ AfterClose
      BY <1>1, <1>2, <2>1, <3>1 DEF BelowInv
    <3>2. CASE n = Last(stack) /\ ~AfterClose
      <4>1. stack # <<>>
        BY <1>1, <1>2, ToSetOps
      <4>. QED
        BY <1>1, <2>1, <3>2, <4>1, TopKept DEF Disciplined
    <3>. QED
      BY <3>1, <3>2
  <2>. QED
    BY <1>3, <2>1, <2>2
<1>10. CASE UNCHANGED vars
  BY <1>2, <1>10 DEF vars
<1>. QED
  BY <1>4, <1>5, <1>6, <1>7, <1>8, <1>9, <1>10 DEF Next

\* No drawing is thrown away unsaved, for every set of programs that save
\* each chart before leaving it and each name once and start a new figure
\* after each plt.close() (all of src/: Scripts checks ScriptsScoped and
\* ScriptsSaveCharts): plt.close() and the end of a script find every
\* figure they discard empty or held, whole, by a file this run saved.
THEOREM WorkSavedHolds ==
    ASSUME Disciplined
    PROVE  Spec => WorkSaved
<1>1. WInv /\ [Next]_vars => [Discard]_vars
  BY DiscardStep
<1>. QED
  BY <1>1, WInvHolds, PTL DEF Spec, WorkSaved, Discard

=============================================================================
