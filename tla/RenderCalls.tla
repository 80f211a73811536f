----------------------------- MODULE RenderCalls -----------------------------
(***************************************************************************)
(* The scripts as the specification's design describes them (sections 2,  *)
(* 4.1 and 9): each script is a list of render calls, one per chart, each *)
(* drawing on a surface of its own and writing one file.  A run makes its *)
(* calls in order; a call that fails aborts the run (section 7) and at     *)
(* worst truncates its file, leaving the charts already written and the   *)
(* files not yet reached as they were.  Module Pyplot, where the charts   *)
(* share pyplot's global current figure, implements this.                 *)
(***************************************************************************)
EXTENDS Naturals, Sequences

CONSTANTS
    ScriptNames,  \* the scripts
    Renders,      \* Renders[s]: s's charts in source order, as [file, art]
    Files,        \* the output file names
    None,         \* no script is running
    Absent,       \* a file never written
    Corrupt       \* a file truncated by a failed write

VARIABLES
    caller,  \* the script being run, or None
    done,    \* how many of its render calls have completed
    files    \* files[f]: Absent, Corrupt or [by, art]

vars == <<caller, done, files>>

Init ==
    /\ caller = None
    /\ done = 0
    /\ files = [f \in Files |-> Absent]

\* The user runs script s.
Call(s) ==
    /\ caller = None
    /\ caller' = s
    /\ done' = 0
    /\ UNCHANGED files

\* The next render call of the run draws its chart and writes its file.
Render ==
    /\ caller # None
    /\ done < Len(Renders[caller])
    /\ LET r == Renders[caller][done + 1]
       IN  files' = [files EXCEPT ![r.file] = [by |-> caller, art |-> r.art]]
    /\ done' = done + 1
    /\ UNCHANGED caller

\* The next render call fails writing its file, and the run aborts.
Fail ==
    /\ caller # None
    /\ done < Len(Renders[caller])
    /\ files' \in {files,
                   [files EXCEPT ![Renders[caller][done + 1].file] = Corrupt]}
    /\ caller' = None
    /\ done' = 0

\* Every call has been made: the run ends.
Return ==
    /\ caller # None
    /\ done = Len(Renders[caller])
    /\ caller' = None
    /\ done' = 0
    /\ UNCHANGED files

Next == (\E s \in ScriptNames : Call(s)) \/ Render \/ Fail \/ Return

Spec == Init /\ [][Next]_vars
=============================================================================
