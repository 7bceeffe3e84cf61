-------------------------------- MODULE MCShell --------------------------------
(***************************************************************************)
(* The job of the Swift package, and the shell that starts such jobs.  The *)
(* shell's model has its own view of an operation, so they share no state  *)
(* and their interleavings say nothing new: part tells which of them moves *)
(* in a behaviour, and the other stays as it begins, where no step that    *)
(* the fairness speaks of is enabled.                                      *)
(***************************************************************************)
EXTENDS RemeshJob

CONSTANTS Files, MaxRuns   \* of the shell, whose progress has the steps of the job's

VARIABLES
    part,
    \* AppModel
    displayed, session, operation, runningOp, runs, autosaved

appVars == <<displayed, session, operation, runningOp, runs, autosaved>>

App == INSTANCE AppModel

ASSUME ShellAssumption == App!AppAssumption

-----------------------------------------------------------------------------
MCInit == part \in {"job", "app"} /\ Init /\ App!Init

JobMoves == part = "job" /\ Next /\ UNCHANGED <<part, appVars>>
AppMoves == part = "app" /\ App!Next /\ UNCHANGED <<part, vars>>

MCSpec ==
    /\ MCInit /\ [][JobMoves \/ AppMoves]_<<part, vars, appVars>>
    /\ Fairness /\ App!Fairness

-----------------------------------------------------------------------------
\* The overlay, the running operation and the document of the shell agree.
ShellSound == part = "app" => App!ShellSound

\* What was started ends: a task that awaits a job is answered, its progress stream
\* finishes, and a run of the shell, cancelled or not, gives the interface back.
OperationsEnd == JobEnds /\ App!OverlayGoes
=============================================================================
