---------------------------- MODULE ChartPrograms ----------------------------
(***************************************************************************)
(* The text of the plotting scripts, seen two ways.  Prog: each script is *)
(* a straight-line program of pyplot steps, as the figure manager (module  *)
(* Pyplot) runs it.  Renders: each script's chart blocks in source order, *)
(* the file each one writes and the artists it draws, as the render calls *)
(* of spec section 9 (module RenderCalls) make them.                       *)
(***************************************************************************)
EXTENDS Naturals, Sequences, FiniteSets

CONSTANTS
    ScriptNames,  \* the scripts (one per src/plot_*.py)
    Prog,         \* Prog[s]: the sequence of pyplot steps of script s
    Renders,      \* Renders[s]: the chart blocks of s, as [file, art]
    Files,        \* the output file names
    Artists,      \* the chart elements the drawing calls add
    NoArg,        \* argument of the steps that take none (model value)
    Absent,       \* an output file that was never written (model value)
    Corrupt       \* a file truncated by a savefig that failed mid-write

\* A pyplot call of a program, abstracted to the figure-state change it makes.
Step ==
    [op : {"fig", "close"}, arg : {NoArg}] \cup
    [op : {"draw"}, arg : Artists] \cup
    [op : {"save"}, arg : Files]

\* What a complete output file holds: the chart's artists and its writer.
Chart == [by : ScriptNames, art : SUBSET Artists]

ASSUME ProgAssumption == Prog \in [ScriptNames -> Seq(Step)]
ASSUME RendersAssumption ==
    Renders \in [ScriptNames -> Seq([file : Files, art : SUBSET Artists])]
ASSUME FileSentinels ==
    Absent \notin Chart /\ Corrupt \notin Chart /\ Absent # Corrupt

\* The chart the program text means at its step i: the artists drawn since
\* the last plt.figure()/plt.subplots() before step i.
Drawn(s, i) ==
    { Prog[s][j].arg :
        j \in { j \in 1..(i - 1) :
                  /\ Prog[s][j].op = "draw"
                  /\ \A k \in (j + 1)..(i - 1) : Prog[s][k].op # "fig" } }

\* The programs' discipline around plt.close(): a script that closes a
\* figure starts the next chart with plt.figure() at once (or ends), so it
\* never draws on, or saves, a figure it revealed by closing the current one.
ChartsScoped(P) ==
    \A s \in DOMAIN P : \A i \in DOMAIN P[s] :
        P[s][i].op = "close" => (i = Len(P[s]) \/ P[s][i + 1].op = "fig")

\* The programs' discipline around plt.savefig(): the chart on the current
\* figure has been saved, as it stands, before the figure is left behind by
\* plt.figure(), destroyed by plt.close(), or dropped when the script ends.
ChartsSaved(P) ==
    \A s \in DOMAIN P : \A i \in 1..(Len(P[s]) + 1) :
        (i = Len(P[s]) + 1 \/ P[s][i].op \in {"fig", "close"}) =>
            \/ Drawn(s, i) = {}
            \/ \E j \in 1..(i - 1) :
                  P[s][j].op = "save" /\ Drawn(s, j) = Drawn(s, i)

\* How many savefig calls script s makes before its step i.
SavesBefore(s, i) == Cardinality({j \in 1..(i - 1) : Prog[s][j].op = "save"})

\* The programs and the chart blocks agree: script s makes one savefig per
\* chart block, and its k-th savefig writes the k-th block's file with the
\* artists that block draws.
RendersMatch ==
    \A s \in ScriptNames :
        /\ Len(Renders[s]) = SavesBefore(s, Len(Prog[s]) + 1)
        /\ \A i \in DOMAIN Prog[s] :
              Prog[s][i].op = "save" =>
                  Renders[s][SavesBefore(s, i) + 1]
                      = [file |-> Prog[s][i].arg, art |-> Drawn(s, i)]

\* Each script saves each of its file names once.
SavesDistinct(P) ==
    \A s \in DOMAIN P : \A i, j \in DOMAIN P[s] :
        (P[s][i].op = "save" /\ P[s][j].op = "save" /\ i # j) =>
            P[s][i].arg # P[s][j].arg

=============================================================================
