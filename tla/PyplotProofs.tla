---------------------------- MODULE PyplotProofs ----------------------------
(***************************************************************************)
(* Proofs about module Pyplot, for every set of scripts, every program and *)
(* every value of the bounds.                                              *)
(***************************************************************************)
EXTENDS Pyplot, TLAPS, SequenceTheorems

USE ProgAssumption, FileSentinels, BoundsAssumption, SentinelAssumption

\* Every step a running script can take is a Step record.
LEMMA CurStepType ==
    ASSUME TypeOK, running # None, pc \in DOMAIN Prog[running]
    PROVE  CurStep \in Step
BY DEF TypeOK, CurStep

\* The figure stack keeps figure numbers after Append and Front.
LEMMA StackOps ==
    ASSUME NEW s \in Seq(FigNum), NEW n \in FigNum
    PROVE  /\ Append(s, n) \in Seq(FigNum)
           /\ Last(Append(s, n)) = n
           /\ s # <<>> => Front(s) \in Seq(FigNum) /\ Last(s) \in FigNum
BY DEF Last, Front

\* Every step of Next preserves the type invariant.
LEMMA TypeStep == TypeOK /\ [Next]_vars => TypeOK'
<1> SUFFICES ASSUME TypeOK, [Next]_vars PROVE TypeOK'
  OBVIOUS
<1>1. ASSUME NEW s \in ScriptNames, Start(s) PROVE TypeOK'
  BY <1>1 DEF Start, TypeOK
<1>2. CASE Figure
  BY <1>2, StackOps DEF Figure, TypeOK
<1>3. CASE Draw
  <2>1. CurStep.arg \in Artists
    BY <1>3, CurStepType DEF Draw, WithCurrentFigure, Step
  <2>2. CASE stack = <<>>
    <3>1. /\ NewNum \in FigNum
          /\ stack' = <<NewNum>>
          /\ canvas' = [canvas EXCEPT ![NewNum] = {} \cup {CurStep.arg}]
      BY <1>3, <2>2 DEF Draw, WithCurrentFigure
    <3>2. QED
      BY <1>3, <2>1, <3>1 DEF Draw, WithCurrentFigure, TypeOK
  <2>3. CASE stack # <<>>
    <3>1. /\ Last(stack) \in FigNum
          /\ stack' = stack
          /\ canvas' = [canvas EXCEPT ![Last(stack)] = canvas[Last(stack)] \cup {CurStep.arg}]
      BY <1>3, <2>3, StackOps DEF Draw, WithCurrentFigure, TypeOK
    <3>2. QED
      BY <1>3, <2>1, <3>1 DEF Draw, WithCurrentFigure, TypeOK
  <2>4. QED
    BY <2>2, <2>3
<1>4. CASE Save
  <2>1. CurStep.arg \in Files
    BY <1>4, CurStepType DEF Save, WithCurrentFigure, Step
  <2>2. stack' \in Seq(FigNum) /\ stack' # <<>> /\ canvas' \in [FigNum -> SUBSET Artists]
    <3>1. CASE stack = <<>>
      <4>1. /\ NewNum \in FigNum
            /\ stack' = <<NewNum>>
            /\ canvas' = [canvas EXCEPT ![NewNum] = {}]
        BY <1>4, <3>1 DEF Save, WithCurrentFigure
      <4>2. QED
        BY <4>1 DEF TypeOK
    <3>2. CASE stack # <<>>
      <4>1. /\ Last(stack) \in FigNum
            /\ stack' = stack
            /\ canvas' = [canvas EXCEPT ![Last(stack)] = canvas[Last(stack)]]
        BY <1>4, <3>2, StackOps DEF Save, WithCurrentFigure, TypeOK
      <4>2. QED
        BY <3>2, <4>1 DEF TypeOK
    <3>3. QED
      BY <3>1, <3>2
  <2>3. Last(stack') \in FigNum
    BY <2>2, StackOps
  <2>4. [by |-> running, art |-> canvas'[Last(stack')]] \in Chart
    BY <1>4, <2>2, <2>3 DEF Save, WithCurrentFigure, TypeOK, Chart
  <2>5. QED
    BY <1>4, <2>1, <2>2, <2>4 DEF Save, WithCurrentFigure, TypeOK
<1>5. CASE SaveFail
  BY <1>5, CurStepType DEF SaveFail, EndProcess, TypeOK, Step
<1>6. CASE Close
  BY <1>6, StackOps DEF Close, TypeOK
<1>7. CASE Exit
  BY <1>7 DEF Exit, EndProcess, TypeOK
<1>8. CASE UNCHANGED vars
  BY <1>8 DEF vars, TypeOK
<1>9. QED
  BY <1>1, <1>2, <1>3, <1>4, <1>5, <1>6, <1>7, <1>8 DEF Next

\* The type invariant holds in every reachable state.
THEOREM TypeCorrect == Spec => []TypeOK
<1>1. Init => TypeOK
  BY DEF Init, TypeOK, FigNum
<1>2. QED
  BY <1>1, TypeStep, PTL DEF Spec
-----------------------------------------------------------------------------
(***************************************************************************)
(* NoBleed.  It is not inductive by itself: a Save writes the current     *)
(* figure, so the invariant must also say what the current figure holds   *)
(* while a chart is being drawn, namely Drawn(running, pc), the artists    *)
(* the program drew since its last plt.figure().  That fails right after  *)
(* a plt.close() that reveals an older figure; the programs' shape         *)
(* (ChartsScoped) makes the next step a plt.figure() or the exit, so the  *)
(* strengthening exempts that one state.                                   *)
(***************************************************************************)

\* The running script has just executed plt.close().
AfterClose == pc > 1 /\ Prog[running][pc - 1].op = "close"

\* What gcf() would hand to the next drawing call or savefig.
CurrentArt == IF stack = <<>> THEN {} ELSE canvas[Last(stack)]

\* A script is not running: no figure is open and pc is reset.
IdleInv == running = None => pc = 1 /\ stack = <<>>

\* The running script's pc is a step of its program or its end.
PcInv == running # None => pc \in 1..(Len(Prog[running]) + 1)

\* The current figure holds exactly the chart the program is drawing.
CanvasInv == (running # None /\ ~AfterClose) => CurrentArt = Drawn(running, pc)

IInv == TypeOK /\ IdleInv /\ PcInv /\ CanvasInv /\ NoBleed

\* The draw steps that make up Drawn(s, i).
DrawnIdx(s, i) ==
    { j \in 1..(i - 1) :
        /\ Prog[s][j].op = "draw"
        /\ \A k \in (j + 1)..(i - 1) : Prog[s][k].op # "fig" }

LEMMA DrawnByIdx ==
    ASSUME NEW s, NEW i
    PROVE  Drawn(s, i) = {Prog[s][j].arg : j \in DrawnIdx(s, i)}
BY DEF Drawn, DrawnIdx

\* How one step of the program changes the chart it is drawing.
LEMMA DrawnStep ==
    ASSUME NEW s \in ScriptNames, NEW i \in DOMAIN Prog[s]
    PROVE  /\ Prog[s][i].op = "fig" => Drawn(s, i + 1) = {}
           /\ Prog[s][i].op = "draw" =>
                 Drawn(s, i + 1) = Drawn(s, i) \cup {Prog[s][i].arg}
           /\ Prog[s][i].op \notin {"fig", "draw"} =>
                 Drawn(s, i + 1) = Drawn(s, i)
<1>1. i \in Nat \ {0}
  BY DEF Step
<1>2. Prog[s][i].op = "fig" => DrawnIdx(s, i + 1) = {}
  BY <1>1 DEF DrawnIdx
<1>3. Prog[s][i].op = "draw" => DrawnIdx(s, i + 1) = DrawnIdx(s, i) \cup {i}
  BY <1>1 DEF DrawnIdx
<1>4. Prog[s][i].op \notin {"fig", "draw"} => DrawnIdx(s, i + 1) = DrawnIdx(s, i)
  BY <1>1 DEF DrawnIdx
<1>5. QED
  BY <1>2, <1>3, <1>4, DrawnByIdx

\* A script starts with an empty chart.
LEMMA DrawnStart ==
    ASSUME NEW s
    PROVE  Drawn(s, 1) = {}
BY DEF Drawn

\* A draw or a savefig never finds the figure revealed by a plt.close():
\* under ChartsScoped the step after a close is a plt.figure().
LEMMA NoStepAfterClose ==
    ASSUME ChartsScoped(Prog), TypeOK, PcInv, running # None,
           pc \in DOMAIN Prog[running], AfterClose
    PROVE  Prog[running][pc].op = "fig"
BY DEF ChartsScoped, AfterClose, PcInv, TypeOK

\* The files other than the one a step writes keep NoBleed.
LEMMA NoBleedOthers ==
    ASSUME NoBleed, NEW f \in Files, NEW v,
           files' = [files EXCEPT ![f] = v], v \notin Chart,
           TypeOK
    PROVE  NoBleed'
BY DEF NoBleed, TypeOK


\* The strengthened invariant is preserved by every step.
LEMMA IInvInductive ==
    ASSUME ChartsScoped(Prog), IInv, [Next]_vars
    PROVE  IInv'
<1>1. TypeOK /\ IdleInv /\ PcInv /\ CanvasInv /\ NoBleed /\ TypeOK'
  BY TypeStep DEF IInv
<1>2. ASSUME NEW s \in ScriptNames, Start(s) PROVE IInv'
  <2>1. running = None /\ pc = 1 /\ stack = <<>>
    BY <1>1, <1>2 DEF Start, IdleInv
  <2>2. running' = s /\ pc' = 1 /\ stack' = <<>> /\ files' = files
    BY <1>2, <2>1 DEF Start
  <2>3. CurrentArt' = {} /\ Drawn(s, 1) = {}
    BY <2>2, DrawnStart DEF CurrentArt
  <2>4. IdleInv' /\ PcInv' /\ CanvasInv'
    BY <2>2, <2>3, SentinelAssumption DEF IdleInv, PcInv, CanvasInv
  <2>5. NoBleed'
    BY <1>1, <2>2 DEF NoBleed
  <2>6. QED
    BY <1>1, <2>4, <2>5 DEF IInv
<1>3. CASE Figure
  <2> DEFINE sc == running  i == pc
  <2>1. /\ sc # None /\ i \in DOMAIN Prog[sc] /\ Prog[sc][i].op = "fig"
        /\ NewNum \in FigNum
        /\ stack' = Append(stack, NewNum)
        /\ canvas' = [canvas EXCEPT ![NewNum] = {}]
        /\ pc' = i + 1 /\ running' = sc /\ files' = files
    BY <1>3 DEF Figure, CurStep
  <2>2. sc \in ScriptNames
    BY <1>1, <2>1 DEF TypeOK
  <2>3. CurrentArt' = {}
    BY <1>1, <2>1, StackOps DEF CurrentArt, TypeOK
  <2>4. Drawn(sc, i + 1) = {}
    BY <2>1, <2>2, DrawnStep
  <2>5. IdleInv' /\ PcInv'
    BY <2>1, <2>2 DEF IdleInv, PcInv
  <2>8. CanvasInv'
    BY <2>1, <2>3, <2>4 DEF CanvasInv
  <2>6. NoBleed'
    BY <1>1, <2>1 DEF NoBleed
  <2>7. QED
    BY <1>1, <2>5, <2>6, <2>8 DEF IInv
<1>4. CASE Draw
  <2> DEFINE sc == running  i == pc  a == Prog[running][pc].arg
  <2>1. /\ sc # None /\ i \in DOMAIN Prog[sc] /\ Prog[sc][i].op = "draw"
        /\ pc' = i + 1 /\ running' = sc /\ files' = files
    BY <1>4 DEF Draw, WithCurrentFigure, CurStep
  <2>2. sc \in ScriptNames
    BY <1>1, <2>1 DEF TypeOK
  <2>3. ~AfterClose
    BY <1>1, <2>1, NoStepAfterClose
  <2>4. CurrentArt = Drawn(sc, i)
    BY <1>1, <2>1, <2>3 DEF CanvasInv
  <2>5. CurrentArt' = CurrentArt \cup {a}
    <3>1. CASE stack = <<>>
      <4>1. /\ NewNum \in FigNum
            /\ stack' = <<NewNum>>
            /\ canvas' = [canvas EXCEPT ![NewNum] = {} \cup {a}]
        BY <1>4, <3>1 DEF Draw, WithCurrentFigure, CurStep
      <4>2. QED
        BY <1>1, <3>1, <4>1 DEF CurrentArt, TypeOK, Last
    <3>2. CASE stack # <<>>
      <4>1. /\ Last(stack) \in FigNum
            /\ stack' = stack
            /\ canvas' = [canvas EXCEPT ![Last(stack)] = canvas[Last(stack)] \cup {a}]
        BY <1>1, <1>4, <3>2, StackOps DEF Draw, WithCurrentFigure, CurStep, TypeOK
      <4>2. QED
        BY <1>1, <3>2, <4>1 DEF CurrentArt, TypeOK
    <3>3. QED
      BY <3>1, <3>2
  <2>6. Drawn(sc, i + 1) = Drawn(sc, i) \cup {a}
    BY <2>1, <2>2, DrawnStep
  <2>7. IdleInv' /\ PcInv'
    BY <2>1, <2>2 DEF IdleInv, PcInv
  <2>10. CanvasInv'
    BY <2>1, <2>4, <2>5, <2>6 DEF CanvasInv
  <2>8. NoBleed'
    BY <1>1, <2>1 DEF NoBleed
  <2>9. QED
    BY <1>1, <2>7, <2>8, <2>10 DEF IInv
<1>5. CASE Save
  <2> DEFINE sc == running  i == pc  f == Prog[running][pc].arg
  <2>1. /\ sc # None /\ i \in DOMAIN Prog[sc] /\ Prog[sc][i].op = "save"
        /\ files' = [files EXCEPT ![f] = [by |-> sc, art |-> canvas'[Last(stack')]]]
        /\ pc' = i + 1 /\ running' = sc
    BY <1>5 DEF Save, WithCurrentFigure, CurStep
  <2>2. sc \in ScriptNames /\ Prog[sc][i] \in Step
    BY <1>1, <2>1 DEF TypeOK
  <2>3. Prog[sc][i] = [op |-> "save", arg |-> f] /\ f \in Files
    BY <2>1, <2>2 DEF Step
  <2>4. ~AfterClose
    BY <1>1, <2>1, NoStepAfterClose
  <2>5. CurrentArt = Drawn(sc, i)
    BY <1>1, <2>1, <2>4 DEF CanvasInv
  <2>6. stack' # <<>> /\ CurrentArt' = CurrentArt /\ canvas'[Last(stack')] = CurrentArt'
    <3>1. CASE stack = <<>>
      <4>1. /\ NewNum \in FigNum
            /\ stack' = <<NewNum>>
            /\ canvas' = [canvas EXCEPT ![NewNum] = {}]
        BY <1>5, <3>1 DEF Save, WithCurrentFigure
      <4>2. QED
        BY <1>1, <3>1, <4>1 DEF CurrentArt, TypeOK, Last
    <3>2. CASE stack # <<>>
      <4>1. /\ Last(stack) \in FigNum
            /\ stack' = stack
            /\ canvas' = [canvas EXCEPT ![Last(stack)] = canvas[Last(stack)]]
        BY <1>1, <1>5, <3>2, StackOps DEF Save, WithCurrentFigure, TypeOK
      <4>2. QED
        BY <1>1, <3>2, <4>1 DEF CurrentArt, TypeOK
    <3>3. QED
      BY <3>1, <3>2
  <2>7. Drawn(sc, i + 1) = Drawn(sc, i)
    BY <2>1, <2>2, DrawnStep
  <2>8. IdleInv' /\ PcInv' /\ CanvasInv'
    <3>1. IdleInv' /\ PcInv'
      BY <2>1, <2>2 DEF IdleInv, PcInv
    <3>2. CanvasInv'
      BY <2>1, <2>5, <2>6, <2>7 DEF CanvasInv
    <3>3. QED
      BY <3>1, <3>2
  <2>9. NoBleed'
    <3>1. files'[f] = [by |-> sc, art |-> Drawn(sc, i)]
      BY <1>1, <2>1, <2>3, <2>5, <2>6 DEF TypeOK
    <3>2. \A g \in Files \ {f} : files'[g] = files[g]
      BY <1>1, <2>1 DEF TypeOK
    <3>3. ASSUME NEW g \in Files, files'[g] \in Chart
          PROVE  \E j \in DOMAIN Prog[files'[g].by] :
                    /\ Prog[files'[g].by][j] = [op |-> "save", arg |-> g]
                    /\ files'[g].art = Drawn(files'[g].by, j)
      <4>1. CASE g = f
        <5>1. files'[g].by = sc /\ files'[g].art = Drawn(sc, i)
          BY <3>1, <4>1
        <5>2. Prog[sc][i] = [op |-> "save", arg |-> g]
          BY <2>3, <4>1
        <5>3. /\ i \in DOMAIN Prog[files'[g].by]
              /\ Prog[files'[g].by][i] = [op |-> "save", arg |-> g]
              /\ files'[g].art = Drawn(files'[g].by, i)
          BY <2>1, <5>1, <5>2
        <5>4. QED
          BY <5>3
      <4>2. CASE g # f
        <5>1. files'[g] = files[g]
          BY <3>2, <4>2
        <5>2. QED
          BY <1>1, <3>3, <5>1 DEF NoBleed
      <4>3. QED
        BY <4>1, <4>2
    <3>4. QED
      BY <3>3 DEF NoBleed
  <2>10. QED
    BY <1>1, <2>8, <2>9 DEF IInv
<1>6. CASE SaveFail
  <2>1. running' = None /\ pc' = 1 /\ stack' = <<>>
    BY <1>6 DEF SaveFail, EndProcess
  <2>2. IdleInv' /\ PcInv' /\ CanvasInv'
    BY <2>1 DEF IdleInv, PcInv, CanvasInv
  <2>3. NoBleed'
    <3>1. CASE files' = files
      BY <1>1, <3>1 DEF NoBleed
    <3>2. CASE files' = [files EXCEPT ![CurStep.arg] = Corrupt]
      <4>1. CurStep.arg \in Files
        BY <1>1, <1>6, CurStepType DEF SaveFail, Step
      <4>2. QED
        BY <1>1, <3>2, <4>1, NoBleedOthers, SentinelAssumption, FileSentinels
    <3>3. QED
      BY <1>6, <3>1, <3>2 DEF SaveFail
  <2>4. QED
    BY <1>1, <2>2, <2>3 DEF IInv
<1>7. CASE Close
  <2>1. /\ running # None /\ pc \in DOMAIN Prog[running]
        /\ Prog[running][pc].op = "close"
        /\ pc' = pc + 1 /\ running' = running /\ files' = files
    BY <1>7 DEF Close, CurStep
  <2>2. AfterClose'
    BY <1>1, <2>1 DEF AfterClose, TypeOK
  <2>3. IdleInv' /\ PcInv' /\ CanvasInv'
    <3>1. running \in ScriptNames
      BY <1>1, <2>1 DEF TypeOK
    <3>2. IdleInv' /\ PcInv'
      BY <2>1, <3>1 DEF IdleInv, PcInv
    <3>4. CanvasInv'
      BY <2>2 DEF CanvasInv
    <3>3. QED
      BY <3>2, <3>4
  <2>4. NoBleed'
    BY <1>1, <2>1 DEF NoBleed
  <2>5. QED
    BY <1>1, <2>3, <2>4 DEF IInv
<1>8. CASE Exit
  <2>1. running' = None /\ pc' = 1 /\ stack' = <<>> /\ files' = files
    BY <1>8 DEF Exit, EndProcess
  <2>2. IdleInv' /\ PcInv' /\ CanvasInv' /\ NoBleed'
    BY <1>1, <2>1 DEF IdleInv, PcInv, CanvasInv, NoBleed
  <2>3. QED
    BY <1>1, <2>2 DEF IInv
<1>9. CASE UNCHANGED vars
  <2>1. running' = running /\ pc' = pc /\ stack' = stack /\ canvas' = canvas
        /\ files' = files
    BY <1>9 DEF vars
  <2>2. IdleInv' /\ PcInv'
    BY <1>1, <2>1 DEF IdleInv, PcInv
  <2>3. AfterClose' = AfterClose /\ CurrentArt' = CurrentArt
    BY <2>1 DEF AfterClose, CurrentArt
  <2>4. CanvasInv'
    BY <1>1, <2>1, <2>3 DEF CanvasInv
  <2>5. NoBleed'
    BY <1>1, <2>1 DEF NoBleed
  <2>6. QED
    BY <1>1, <2>2, <2>4, <2>5 DEF IInv
<1>10. QED
  BY <1>2, <1>3, <1>4, <1>5, <1>6, <1>7, <1>8, <1>9 DEF Next

\* The strengthened invariant holds in every reachable state.
LEMMA IInvHolds ==
    ASSUME ChartsScoped(Prog)
    PROVE  Spec => []IInv
<1>1. Init => IInv
  <2> SUFFICES ASSUME Init PROVE IInv
    OBVIOUS
  <2>1. TypeOK
    BY DEF Init, TypeOK, FigNum
  <2>2. IdleInv /\ PcInv /\ CanvasInv /\ NoBleed
    BY SentinelAssumption, FileSentinels DEF Init, IdleInv, PcInv, CanvasInv, NoBleed
  <2>3. QED
    BY <2>1, <2>2 DEF IInv
<1>2. IInv /\ [Next]_vars => IInv'
  BY IInvInductive
<1>3. QED
  BY <1>1, <1>2, PTL DEF Spec

\* No drawing bleeds from one chart into another, for every set of scripts
\* whose programs start a new figure right after each plt.close() (as all
\* of src/ does; Scripts checks it as ScriptsScoped).
THEOREM NoBleedHolds ==
    ASSUME ChartsScoped(Prog)
    PROVE  Spec => []NoBleed
<1>1. IInv => NoBleed
  BY DEF IInv
<1>2. QED
  BY IInvHolds, <1>1, PTL

\* A completed savefig writes the chart the program text means at that
\* step: the canvas of the current figure is Drawn(running, pc).
LEMMA SaveWritesDrawn ==
    ASSUME ChartsScoped(Prog), IInv, Save
    PROVE  /\ running \in ScriptNames
           /\ CurStep.arg \in Files
           /\ files' = [files EXCEPT ![CurStep.arg] =
                           [by |-> running, art |-> Drawn(running, pc)]]
<1> DEFINE sc == running  i == pc  f == Prog[running][pc].arg
<1>1. TypeOK /\ PcInv /\ CanvasInv
  BY DEF IInv
<1>2. /\ sc # None /\ i \in DOMAIN Prog[sc] /\ Prog[sc][i].op = "save"
      /\ files' = [files EXCEPT ![f] = [by |-> sc, art |-> canvas'[Last(stack')]]]
  BY DEF Save, WithCurrentFigure, CurStep
<1>3. sc \in ScriptNames /\ Prog[sc][i] \in Step
  BY <1>1, <1>2 DEF TypeOK
<1>4. Prog[sc][i] = [op |-> "save", arg |-> f] /\ f \in Files
  BY <1>2, <1>3 DEF Step
<1>5. CurrentArt = Drawn(sc, i)
  <2>1. ~AfterClose
    BY <1>1, <1>2, NoStepAfterClose
  <2>2. QED
    BY <1>1, <1>2, <2>1 DEF CanvasInv
<1>6. canvas'[Last(stack')] = CurrentArt
  <2>1. CASE stack = <<>>
    <3>1. /\ NewNum \in FigNum
          /\ stack' = <<NewNum>>
          /\ canvas' = [canvas EXCEPT ![NewNum] = {}]
      BY <2>1 DEF Save, WithCurrentFigure
    <3>2. QED
      BY <1>1, <2>1, <3>1 DEF CurrentArt, TypeOK, Last
  <2>2. CASE stack # <<>>
    <3>1. /\ Last(stack) \in FigNum
          /\ stack' = stack
          /\ canvas' = [canvas EXCEPT ![Last(stack)] = canvas[Last(stack)]]
      BY <1>1, <2>2, StackOps DEF Save, WithCurrentFigure, TypeOK
    <3>2. QED
      BY <1>1, <2>2, <3>1 DEF CurrentArt, TypeOK
  <2>3. QED
    BY <2>1, <2>2
<1>7. QED
  BY <1>2, <1>3, <1>4, <1>5, <1>6 DEF CurStep

=============================================================================
