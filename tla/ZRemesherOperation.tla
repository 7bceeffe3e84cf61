-------------------------- MODULE ZRemesherOperation --------------------------
(***************************************************************************)
(* ZRemesherOperation of the Swift package: the same box and stream as     *)
(* RemeshOperation without a job.  Every call of value() detaches a native *)
(* thread of its own, and there is no cancel() but that of the tasks.      *)
(***************************************************************************)
EXTENDS RemeshControl

VARIABLES task,        \* per task: where it is in value()
          cancelling   \* the tasks that were cancelled inside value()

vars == <<controlVars, task, cancelling>>

Init ==
    /\ ControlInit
    /\ task = [t \in Tasks |-> "idle"]
    /\ cancelling = {}

Value(t) ==
    /\ task[t] = "idle"
    /\ task' = [task EXCEPT ![t] = "waiting"]
    /\ Detached(t)
    /\ UNCHANGED <<box, stream, answers, cancelling>>

TaskCancelled(t) ==
    /\ task[t] = "waiting" /\ t \notin cancelling
    /\ cancelling' = cancelling \cup {t}
    /\ box' = [box EXCEPT !.cancelled = TRUE]
    /\ UNCHANGED <<stream, native, answers, task>>

Native(w) ==
    /\ \/ ReportProgress(w) \/ IsCancelled(w) \/ EngineReturns(w)
       \/ FinishProgress(w, "returned", "resuming") \/ CloseStream(w, "resuming")
    /\ UNCHANGED <<task, cancelling>>

Resume(w) ==
    /\ At(w, "resuming")
    /\ Goes(w, "done")
    /\ answers' = [answers EXCEPT ![w] = Append(@, native[w].result)]
    /\ task' = [task EXCEPT ![w] = "answered"]
    /\ UNCHANGED <<box, stream, cancelling>>

Next == \E t \in Tasks : Value(t) \/ TaskCancelled(t) \/ Native(t) \/ Resume(t)

Spec == Init /\ [][Next]_vars
=============================================================================
