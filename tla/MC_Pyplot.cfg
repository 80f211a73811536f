CONSTANTS
    ScriptNames <- AllScripts
    Prog <- AllProgs
    Renders <- AllRenders
    Files <- MCFiles
    Artists <- MCArtists
    NoArg = NoArg
    None = None
    Absent = Absent
    Corrupt = Corrupt
    MaxFigs = 3
    MaxRuns = 3

SPECIFICATION Spec
INVARIANT NoBleed
 
PROPERTY WorkSaved
\* A batch of runs ends once MaxRuns scripts have run.
CHECK_DEADLOCK FALSE
