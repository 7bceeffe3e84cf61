-------------------------------- MODULE AppModel --------------------------------
(***************************************************************************)
(* The document and the long operation of the iPadOS shell                 *)
(* (src/apps/mobile/ipados/Sources/CyberRemesherApp/AppModel.swift) over   *)
(* the remesh operations of the Swift package.                             *)
(*                                                                         *)
(* The methods of AppModel and the continuations of its tasks run on the   *)
(* main actor, one at a time and in any order; the engine runs on a thread *)
(* of its own.  A run is the operation with the two tasks that belong to   *)
(* it: the one that awaits its value and the one that pumps its progress.  *)
(*                                                                         *)
(* Abstracted: the mesh is named by where it came from, a file or a run,   *)
(* and the session is the mesh it was made over.  RemeshJob (its own       *)
(* module) is the promise it implements: one engine run, one answer.       *)
(***************************************************************************)
EXTENDS Integers, Sequences

CONSTANTS
    Files,     \* what may be opened
    MaxRuns,   \* bound: the remeshes of a session
    Full       \* progress 1.0, in steps

AppAssumption == MaxRuns \in Nat /\ Full \in Nat \ {0}

VARIABLES
    displayed, session,    \* displayedMesh and session
    operation, runningOp,  \* the state the overlay shows, and the run it is of
    runs,                  \* every run so far, in the order they were started
    autosaved              \* the file at autosaveURL

vars == <<displayed, session, operation, runningOp, runs, autosaved>>
documentVars == <<displayed, session>>

NoDocument == <<>>
File(f) == <<"file", f>>
ResultOf(r) == <<"run", r>>
NoRun == 0
Nothing == -1   \* no progress value
Idle == [state |-> "idle", progress |-> 0]

Init ==
    /\ displayed = NoDocument /\ session = NoDocument /\ autosaved = NoDocument
    /\ operation = Idle /\ runningOp = NoRun /\ runs = <<>>

-----------------------------------------------------------------------------
(* What the user and the system call *)

open(f) ==
    /\ displayed' = File(f) /\ session' = File(f)
    /\ UNCHANGED <<operation, runningOp, runs, autosaved>>

\* The write may fail; then the file is as it was.
autosaveOnResignActive ==
    /\ session # NoDocument
    /\ autosaved' = session
    /\ UNCHANGED <<displayed, session, operation, runningOp, runs>>

NewRun == [engine |-> "created", asked |-> FALSE, awaited |-> TRUE, progress |-> 0,
           held |-> Nothing, buffer |-> Nothing, streaming |-> TRUE]

runRemesh ==
    /\ operation.state = "idle" /\ displayed # NoDocument
    /\ Len(runs) < MaxRuns
    /\ operation' = [state |-> "running", progress |-> 0]
    /\ runs' = Append(runs, NewRun)
    /\ runningOp' = Len(runs')
    /\ UNCHANGED <<displayed, session, autosaved>>

Over(r) == runs[r].engine \in {"completed", "cancelled", "failed"}

\* A job that has its result takes no request; the pump and its stream end.
Asked(r) == runs' = [runs EXCEPT ![r].asked = @ \/ ~Over(r), ![r].streaming = FALSE]

\* Mutant: the overlay goes away with the request.
cancelAtOnce ==
    /\ operation.state = "running" /\ operation' = Idle
    /\ Asked(runningOp)
    /\ UNCHANGED <<displayed, session, runningOp, autosaved>>

cancelOperation ==
    /\ operation.state = "running" /\ operation' = [operation EXCEPT !.state = "cancelling"]
    /\ Asked(runningOp)
    /\ UNCHANGED <<displayed, session, runningOp, autosaved>>

-----------------------------------------------------------------------------
(* A run *)

\* The awaiting task gets to value(), and so starts the engine, when the main
\* actor comes to it: a cancel() may be earlier.
Starts(r) ==
    /\ runs[r].engine = "created"
    /\ runs' = [runs EXCEPT ![r].engine = "running"]
    /\ UNCHANGED <<displayed, session, operation, runningOp, autosaved>>

\* The engine reports; the stream hands the value to a pump that waits and
\* keeps the newest one otherwise.
Reports(r) ==
    /\ runs[r].engine \in {"running", "concluding"} /\ runs[r].progress < Full
    /\ LET value == runs[r].progress + 1
           waits == runs[r].held = Nothing
       IN  runs' = [runs EXCEPT
                ![r].progress = value,
                ![r].held = IF waits /\ runs[r].streaming THEN value ELSE @,
                ![r].buffer = IF ~waits /\ runs[r].streaming THEN value ELSE @]
    /\ UNCHANGED <<displayed, session, operation, runningOp, autosaved>>

\* The engine passes its last poll: a request it had not seen by then comes too
\* late, and the mesh is finished all the same (pipeline.cpp polls in its loops
\* over the islands, and no more when they are through).
Concludes(r) ==
    /\ runs[r].engine = "running" /\ ~runs[r].asked
    /\ runs' = [runs EXCEPT ![r].engine = "concluding"]
    /\ UNCHANGED <<displayed, session, operation, runningOp, autosaved>>

\* The engine returns, and the stream ends.
Returns(r) ==
    /\ \E result \in {"completed", "cancelled", "failed"} :
          /\ runs[r].engine \in {"running", "concluding"}
          /\ result = "completed" => runs[r].engine = "concluding"
          /\ result = "cancelled" => runs[r].engine = "running" /\ runs[r].asked
          /\ runs' = [runs EXCEPT ![r].engine = result, ![r].streaming = FALSE]
    /\ UNCHANGED <<displayed, session, operation, runningOp, autosaved>>

\* The pump, on the main actor, with the value it was resumed with.
updateProgress(r) ==
    /\ runs[r].held # Nothing
    /\ operation' = IF operation.state = "running"
                    THEN [operation EXCEPT !.progress = runs[r].held] ELSE operation
    /\ runs' = [runs EXCEPT ![r].held = runs[r].buffer, ![r].buffer = Nothing]
    /\ UNCHANGED <<displayed, session, runningOp, autosaved>>

Resumed(r) == runs' = [runs EXCEPT ![r].awaited = FALSE]

commit(r) ==
    /\ displayed' = ResultOf(r) /\ session' = ResultOf(r)
    /\ runningOp' = NoRun /\ operation' = Idle

\* Mutant: the overlay is taken down by a commit only.
rollbackBusy == runningOp' = NoRun /\ UNCHANGED <<displayed, session, operation>>

rollback == runningOp' = NoRun /\ operation' = Idle /\ UNCHANGED documentVars

\* The awaiting task has its answer.  No session may be had over a result: then
\* the old document stays.
Resumes(r) ==
    /\ runs[r].awaited /\ Over(r)
    /\ \/ runs[r].engine = "completed" /\ commit(r)
       \/ rollback
    /\ Resumed(r) /\ UNCHANGED autosaved

-----------------------------------------------------------------------------
RunMoves(r) ==
    \/ Starts(r) \/ Reports(r) \/ Concludes(r) \/ Returns(r)
    \/ updateProgress(r) \/ Resumes(r)

Next ==
    \/ \E f \in Files : open(f)
    \/ autosaveOnResignActive \/ runRemesh \/ cancelOperation
    \/ \E r \in DOMAIN runs : RunMoves(r)

Spec == Init /\ [][Next]_vars

\* The main actor comes to every task, and an engine run ends.  Nobody need
\* cancel, and the engine neither report nor poll.
RunGoesOn(r) == r \in DOMAIN runs /\ (Starts(r) \/ Concludes(r) \/ Returns(r) \/ Resumes(r))
Fairness == \A r \in 1 .. MaxRuns : WF_vars(RunGoesOn(r))
FairSpec == Spec /\ Fairness

-----------------------------------------------------------------------------
(* Properties *)

Documents == {NoDocument} \cup {File(f) : f \in Files} \cup {ResultOf(r) : r \in DOMAIN runs}

TypeOK ==
    /\ {displayed, session, autosaved} \subseteq Documents
    /\ operation \in [state : {"idle", "running", "cancelling"}, progress : 0 .. Full]
    /\ runningOp \in {NoRun} \cup DOMAIN runs
    /\ \A r \in DOMAIN runs :
          runs[r] \in [engine : {"created", "running", "concluding", "completed", "cancelled", "failed"},
                       asked : BOOLEAN, awaited : BOOLEAN, progress : 0 .. Full,
                       held : Nothing .. Full, buffer : Nothing .. Full, streaming : BOOLEAN]

\* The overlay is up exactly while one run is awaited, and it is that run's.
OverlayIsTheRuns ==
    /\ operation.state = "idle" <=> runningOp = NoRun
    /\ \A r \in DOMAIN runs : runs[r].awaited <=> r = runningOp

\* "The Cancel control SHALL request cancellation from the underlying operation
\* itself" (application-shell spec): whose overlay shows it as cancelling has
\* been asked, unless it had its result already.
CancelReachesTheRun ==
    operation.state = "cancelling" => runs[runningOp].asked \/ Over(runningOp)

\* However runs, cancellations and openings fall, the session is the one over
\* the mesh on the screen.
SessionIsDisplayed == session = displayed

ShellSound == TypeOK /\ OverlayIsTheRuns /\ CancelReachesTheRun /\ SessionIsDisplayed

\* A run that was started, cancelled or not, gives the interface back.
OverlayGoes == operation.state # "idle" ~> operation.state = "idle"

\* "Cancel leaves the document exactly as it was."
CancelKeepsDocument ==
    [][operation.state = "cancelling" /\ operation'.state = "idle" =>
          UNCHANGED documentVars]_vars
=============================================================================
