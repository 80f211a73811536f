------------------------------- MODULE Pyplot -------------------------------
(***************************************************************************)
(* The plotting scripts of the repository (src/plot_*.py) run against one  *)
(* piece of shared state: matplotlib.pyplot's process-wide figure manager  *)
(* (the ordered table of open figures whose last entry is the "current"    *)
(* figure that every plt.bar / plt.text / plt.savefig / plt.close call     *)
(* addresses).  Their only lasting effect is the PNG files they write to   *)
(* the working directory, which outlive the process and are shared by all *)
(* scripts.                                                                *)
(*                                                                         *)
(* A script is abstracted to its PROGRAM: the straight-line sequence of    *)
(* pyplot calls that change figure state (module Scripts lists the eight). *)
(* A drawing call is reduced to the chart element (an "artist") it adds;   *)
(* styling, labels and print statements are left out.  The user runs the  *)
(* scripts one at a time, in any order, as separate Python processes; a    *)
(* savefig may raise (unwritable directory, full disk), which aborts the   *)
(* process as the scripts catch nothing.                                   *)
(***************************************************************************)
EXTENDS Naturals, Sequences, FiniteSets, SequencesExt, ChartPrograms

CONSTANTS
    None,         \* no script is running (model value)
    MaxFigs,      \* bound on figure numbers (plt.figure() numbering)
    MaxRuns       \* bound on the number of script runs explored

FigNum == 1..MaxFigs

ASSUME BoundsAssumption == MaxFigs \in Nat \ {0} /\ MaxRuns \in Nat
ASSUME SentinelAssumption == None \notin ScriptNames

VARIABLES
    running,  \* the script whose process is alive, or None
    pc,       \* index in Prog[running] of its next step
    stack,    \* pyplot's open figures by number, in activation order
    canvas,   \* canvas[n]: the artists drawn on figure n
    files,    \* files[f]: Absent, Corrupt or the Chart last saved to f
    runs      \* number of script runs started so far

vars == <<running, pc, stack, canvas, files, runs>>

-----------------------------------------------------------------------------
(* Helpers on pyplot's figure table.                                       *)

\* plt.figure() with no number: one more than the largest open number, or 1.
NewNum == IF stack = <<>> THEN 1 ELSE Max(ToSet(stack)) + 1

\* The step the running script executes next.
CurStep == Prog[running][pc]

\* gcf(): the current figure, created on demand when none is open.  Every
\* drawing call and savefig goes through it.  The operator names the number
\* of the current figure in the next state and fixes stack' and canvas'.
WithCurrentFigure(Upd(_)) ==
    IF stack = <<>>
    THEN /\ NewNum \in FigNum
         /\ stack' = <<NewNum>>
         /\ canvas' = [canvas EXCEPT ![NewNum] = Upd({})]
    ELSE /\ stack' = stack
         /\ canvas' = [canvas EXCEPT ![Last(stack)] = Upd(@)]

\* The process ends: its figures vanish with it, the files stay.
EndProcess ==
    /\ running' = None
    /\ pc' = 1
    /\ stack' = <<>>
    /\ canvas' = [n \in FigNum |-> {}]

-----------------------------------------------------------------------------
Init ==
    /\ running = None
    /\ pc = 1
    /\ stack = <<>>
    /\ canvas = [n \in FigNum |-> {}]
    /\ files = [f \in Files |-> Absent]
    /\ runs = 0

\* `python plot_x.py`: a fresh interpreter with no open figure.
Start(s) ==
    /\ running = None
    /\ runs < MaxRuns
    /\ running' = s
    /\ runs' = runs + 1
    /\ UNCHANGED <<pc, stack, canvas, files>>

\* Mutant of Figure: plt.figure(1) with a fixed number, which reactivates
\* figure 1, drawings and all, when it is still open.
FigureFixedNum ==
    /\ running # None
    /\ pc \in DOMAIN Prog[running]
    /\ CurStep.op = "fig"
    /\ IF 1 \in ToSet(stack)
       THEN /\ stack' = Append(SelectSeq(stack, LAMBDA n : n # 1), 1)
            /\ UNCHANGED canvas
       ELSE /\ stack' = Append(stack, 1)
            /\ canvas' = [canvas EXCEPT ![1] = {}]
    /\ pc' = pc + 1
    /\ UNCHANGED <<running, files, runs>>

\* plt.figure(figsize=...) or plt.subplots(...): a new empty figure that
\* becomes current; the figures already open stay open.
Figure ==
    /\ running # None
    /\ pc \in DOMAIN Prog[running]
    /\ CurStep.op = "fig"
    /\ NewNum \in FigNum
    /\ stack' = Append(stack, NewNum)
    /\ canvas' = [canvas EXCEPT ![NewNum] = {}]
    /\ pc' = pc + 1
    /\ UNCHANGED <<running, files, runs>>

\* plt.bar / plt.text / plt.plot / plt.annotate / ax.* calls of one chart:
\* they add their artists to the current figure.
Draw ==
    /\ running # None
    /\ pc \in DOMAIN Prog[running]
    /\ CurStep.op = "draw"
    /\ WithCurrentFigure(LAMBDA c : c \cup {CurStep.arg})
    /\ pc' = pc + 1
    /\ UNCHANGED <<running, files, runs>>

\* Mutant of Save: writes the first figure still open instead of the current
\* one, like a savefig through a stale figure handle.
SaveFirstFigure ==
    /\ running # None
    /\ pc \in DOMAIN Prog[running]
    /\ CurStep.op = "save"
    /\ WithCurrentFigure(LAMBDA c : c)
    /\ files' = [files EXCEPT ![CurStep.arg] =
                    [by |-> running, art |-> canvas'[stack'[1]]]]
    /\ pc' = pc + 1
    /\ UNCHANGED <<running, runs>>

\* plt.savefig(f): writes the current figure to f, replacing what was there.
Save ==
    /\ running # None
    /\ pc \in DOMAIN Prog[running]
    /\ CurStep.op = "save"
    /\ WithCurrentFigure(LAMBDA c : c)
    /\ files' = [files EXCEPT ![CurStep.arg] =
                    [by |-> running, art |-> canvas'[Last(stack')]]]
    /\ pc' = pc + 1
    /\ UNCHANGED <<running, runs>>

\* plt.savefig(f) raises: the open() failed (f untouched) or the write did
\* (f truncated).  Nothing catches the error, so the process dies.
SaveFail ==
    /\ running # None
    /\ pc \in DOMAIN Prog[running]
    /\ CurStep.op = "save"
    /\ files' \in {files, [files EXCEPT ![CurStep.arg] = Corrupt]}
    /\ EndProcess
    /\ UNCHANGED runs

\* plt.close(): destroys the current figure, if any; the previously active
\* figure becomes current.
Close ==
    /\ running # None
    /\ pc \in DOMAIN Prog[running]
    /\ CurStep.op = "close"
    /\ stack' = IF stack = <<>> THEN stack ELSE Front(stack)
    /\ pc' = pc + 1
    /\ UNCHANGED <<running, canvas, files, runs>>

\* The last statement has run: the interpreter exits.
Exit ==
    /\ running # None
    /\ pc = Len(Prog[running]) + 1
    /\ EndProcess
    /\ UNCHANGED <<files, runs>>

Next ==
    \/ \E s \in ScriptNames : Start(s)
    \/ Figure \/ Draw \/ Save \/ SaveFail \/ Close \/ Exit

Spec == Init /\ [][Next]_vars

\* How many savefig calls the running script has completed.
SavesDone ==
    IF running = None THEN 0
    ELSE SavesBefore(running, pc)

\* The design of spec section 9, on the same files: the running script is
\* the caller, and each completed savefig is one completed render call.
Calls == INSTANCE RenderCalls
           WITH caller <- running, done <- SavesDone, files <- files

-----------------------------------------------------------------------------
(* Properties.                                                             *)

TypeOK ==
    /\ running \in ScriptNames \cup {None}
    /\ pc \in Nat \ {0}
    /\ stack \in Seq(FigNum)
    /\ canvas \in [FigNum -> SUBSET Artists]
    /\ files \in [Files -> Chart \cup {Absent, Corrupt}]
    /\ runs \in 0..MaxRuns

\* No drawing bleeds from one chart into another (spec section 5): every
\* complete output file holds exactly the artists that its writer drew for
\* one of its savefig calls of that file since that chart's plt.figure(),
\* whatever scripts ran before, in whatever order, and whichever failed.
NoBleed ==
    \A f \in Files :
        files[f] \in Chart =>
            \E i \in DOMAIN Prog[files[f].by] :
                /\ Prog[files[f].by][i] = [op |-> "save", arg |-> f]
                /\ files[f].art = Drawn(files[f].by, i)

\* The scripts behave as the design of spec section 9, a list of render
\* calls per script, although their charts share pyplot's current figure:
\* each completed savefig writes, in source order, exactly the artists of
\* the source's chart block for that file, whatever figures earlier charts
\* left open; a failing savefig ends the run with the earlier charts written
\* and the later files untouched; and a run ends only after its last chart.
RendersInOrder == Calls!Spec

\* Scoped figure lifetime (spec section 5): a new figure is started only
\* once the previous chart's figure has been closed, so at most one figure
\* is ever open.
ScopedFigureLifetime == Len(stack) <= 1

\* No drawing is thrown away unsaved: when plt.close() destroys a figure, or
\* the script ends normally and its open figures vanish, each of them is
\* empty or is held, whole, by an output file that this run saved.  (A run
\* that dies in a failed savefig loses its figure; that is SaveFail.)
WorkSaved ==
    [][(running' # None \/ pc = Len(Prog[running]) + 1) =>
         \A n \in ToSet(stack) \ ToSet(stack') :
             \/ canvas[n] = {}
             \/ \E f \in Files : files[f] = [by |-> running, art |-> canvas[n]]]_vars
=============================================================================
