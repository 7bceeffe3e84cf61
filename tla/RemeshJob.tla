------------------------------- MODULE RemeshJob -------------------------------
(***************************************************************************)
(* RemeshOperation of the Swift package: a RemeshJob that many tasks may   *)
(* await and anyone may cancel, around one native run.                     *)
(*                                                                         *)
(* Tasks call value(); hosts call cancel(); the cancellation of a task     *)
(* that awaits calls cancel() too, on a thread of its own.  The critical   *)
(* sections of the job's lock are one action each; what the methods do     *)
(* after unlocking it are further actions, between which others run.       *)
(***************************************************************************)
EXTENDS RemeshControl

CONSTANTS Hosts,     \* those who call cancel() on the operation
          Unsettled  \* no result yet

ASSUME JobAssumption == Unsettled \notin Results /\ Hosts \cap Tasks = {}

VARIABLES job,         \* [state, result, workerStarted]
          waiters,     \* the continuations the job holds
          pending,     \* those that finish() is resuming
          task,        \* per task: where it is in value()
          cancelling,  \* per host and task: where its cancel() is
          requests     \* how often requestCancellation ran

jobVars == <<job, waiters, pending, task, cancelling, requests>>
vars == <<controlVars, jobVars>>

Init ==
    /\ ControlInit
    /\ job = [state |-> "created", result |-> Unsettled, workerStarted |-> FALSE]
    /\ waiters = <<>> /\ pending = <<>>
    /\ task = [t \in Tasks |-> "idle"]
    /\ cancelling = [c \in Hosts \cup Tasks |-> "idle"]
    /\ requests = 0

-----------------------------------------------------------------------------
(* value().                                                                 *)

Value(t) ==
    /\ task[t] = "idle"
    /\ task' = [task EXCEPT ![t] = "calling"]
    /\ UNCHANGED <<controlVars, job, waiters, pending, cancelling, requests>>

StartsAgain == job.state \in {"created", "cancelling"}   \* wrong: started or not

StartsUncancelled == job.state = "created"   \* wrong: a cancelled job never runs

Starts == \/ job.state = "created"
          \/ job.state = "cancelling" /\ ~job.workerStarted

WaitForValue(t) ==   \* the job has no result yet
    /\ task[t] = "calling" /\ job.state # "finished"
    /\ waiters' = Append(waiters, t)
    /\ task' = [task EXCEPT ![t] = IF Starts THEN "starting" ELSE "waiting"]
    /\ job' = [job EXCEPT !.state = IF @ = "created" THEN "running" ELSE @,
                          !.workerStarted = @ \/ Starts]
    /\ UNCHANGED <<controlVars, pending, cancelling, requests>>

ValueIsThere(t) ==
    /\ task[t] = "calling" /\ job.state = "finished"
    /\ answers' = [answers EXCEPT ![t] = Append(@, job.result)]
    /\ task' = [task EXCEPT ![t] = "answered"]
    /\ UNCHANGED <<box, stream, native, job, waiters, pending, cancelling, requests>>

DetachThread(t) ==
    /\ task[t] = "starting"
    /\ Detached(t)
    /\ task' = [task EXCEPT ![t] = "waiting"]
    /\ UNCHANGED <<box, stream, answers, job, waiters, pending, cancelling, requests>>

-----------------------------------------------------------------------------
(* cancel(), by a host or by the cancellation of a task inside value().     *)

MayCancel(c) ==
    /\ cancelling[c] = "idle"
    /\ c \in Tasks => task[c] \in {"calling", "starting", "waiting"}

RequestsEveryTime == job.state # "finished"   \* wrong: a second cancel() asks again

Requests == job.state \in {"created", "running"}

Cancel(c) ==
    /\ MayCancel(c)
    /\ cancelling' = [cancelling EXCEPT ![c] = IF Requests THEN "requesting" ELSE "done"]
    /\ job' = [job EXCEPT !.state = IF Requests THEN "cancelling" ELSE @]
    /\ UNCHANGED <<controlVars, waiters, pending, task, requests>>

RequestCancel(c) ==
    /\ cancelling[c] = "requesting"
    /\ cancelling' = [cancelling EXCEPT ![c] = "done"]
    /\ box' = [box EXCEPT !.cancelled = TRUE]
    /\ requests' = requests + 1
    /\ UNCHANGED <<stream, native, answers, job, waiters, pending, task>>

-----------------------------------------------------------------------------
(* The native thread: the engine, then finish().                            *)

Engine(w) ==
    /\ ReportProgress(w) \/ IsCancelled(w)
    /\ UNCHANGED jobVars

Work(w) == EngineReturns(w) /\ UNCHANGED jobVars

Finish(w) ==
    /\ At(w, "returned")
    /\ IF job.state = "finished" THEN Goes(w, "done") /\ UNCHANGED <<job, waiters, pending>>
       ELSE /\ job' = [job EXCEPT !.state = "finished", !.result = native[w].result]
            /\ pending' = waiters
            /\ waiters' = <<>>
            /\ Goes(w, "finishing")
    /\ UNCHANGED <<box, stream, answers, task, cancelling, requests>>

DidFinish(w) ==
    /\ FinishProgress(w, "finishing", "resuming") \/ CloseStream(w, "resuming")
    /\ UNCHANGED jobVars

Resumed(w, left) ==
    LET t == Head(pending)
    IN /\ At(w, "resuming") /\ pending # <<>>
       /\ answers' = [answers EXCEPT ![t] = Append(@, native[w].result)]
       /\ task' = [task EXCEPT ![t] = "answered"]
       /\ pending' = left
       /\ UNCHANGED <<box, stream, native, job, waiters, cancelling, requests>>

ResumeTwice(w) == Resumed(w, Append(Tail(pending), Head(pending)))   \* wrong: keeps it

Resume(w) == Resumed(w, Tail(pending))

-----------------------------------------------------------------------------
Next ==
    \/ \E t \in Tasks : Value(t) \/ WaitForValue(t) \/ ValueIsThere(t) \/ DetachThread(t)
    \/ \E c \in Hosts \cup Tasks : Cancel(c) \/ RequestCancel(c)
    \/ \E w \in Tasks : Engine(w) \/ Work(w) \/ Finish(w) \/ DidFinish(w) \/ Resume(w)

\* A task inside value(), a cancel() that has begun and a native thread keep
\* running, and a native run ends.  Nobody has to call anything, and the engine
\* neither to report nor to poll.
Fairness ==
    /\ \A t \in Tasks : WF_vars(WaitForValue(t) \/ ValueIsThere(t) \/ DetachThread(t))
    /\ \A c \in Hosts \cup Tasks : WF_vars(RequestCancel(c))
    /\ \A w \in Tasks : WF_vars(Work(w)) /\ WF_vars(Finish(w) \/ DidFinish(w) \/ Resume(w))

Spec == Init /\ [][Next]_vars
FairSpec == Spec /\ Fairness

-----------------------------------------------------------------------------
TypeOK ==
    /\ box \in [cancelled : BOOLEAN, finished : BOOLEAN, progress : 0..Full]
    /\ native \in [Tasks -> [pc : {"none", "running", "returned", "finishing", "closing",
                                   "resuming", "done"},
                             told : BOOLEAN, reports : 0..MaxReports, result : Results]]
    /\ job \in [state : {"created", "running", "cancelling", "finished"},
                result : Results \cup {Unsettled}, workerStarted : BOOLEAN]
    /\ task \in [Tasks -> {"idle", "calling", "starting", "waiting", "answered"}]
    /\ cancelling \in [Hosts \cup Tasks -> {"idle", "requesting", "done"}]
    /\ waiters \in Seq(Tasks) /\ pending \in Seq(Tasks)
    /\ requests \in Nat

Started(t) == task[t] = "starting" \/ ~At(t, "none")

\* "Each Swift remesh operation SHALL represent exactly one native execution"
\* (engine-bindings spec), however many tasks await it and whoever cancels it
\* before, while or after they do.
OneExecution == \A t, u \in Tasks : Started(t) /\ Started(u) => t = u

\* "The engine SHALL receive one cooperative cancellation request"
\* (engine-bindings spec), although hosts and tasks cancel at the same time.
OneRequest == requests <= 1

\* However many tasks and hosts share a job, its engine is run once and asked once.
OneRun == OneExecution /\ OneRequest

\* Every awaiter is answered, also one that comes to a job which was cancelled
\* before it began or is just ending.
AwaitersAnswered == \A t \in Tasks : task[t] = "calling" ~> task[t] = "answered"

\* The progress stream ends when the operation does (Remesh.swift:341), or who
\* reads it waits for ever.
ProgressEnds == (job.state = "finished") ~> Ended

JobEnds == AwaitersAnswered /\ ProgressEnds

Promised == INSTANCE Promise WITH settled <- job.result

\* No continuation is lost or resumed twice (a checked continuation traps), and
\* all are resumed with the one result of the job.
ImplementsPromise == Promised!Spec
=============================================================================
