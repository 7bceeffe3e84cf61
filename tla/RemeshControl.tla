----------------------------- MODULE RemeshControl -----------------------------
(***************************************************************************)
(* What the Swift operations around the engine share: RemeshControlBox,    *)
(* the block the C callbacks reach through their user pointer, the         *)
(* progress stream it feeds, and the native threads in which the engine    *)
(* runs.  RemeshJob and ZRemesherOperation extend it.                      *)
(*                                                                         *)
(* A task that awaits value() may detach a native thread, which is known   *)
(* here by the task's name.  The engine promises nothing but to return: it *)
(* reports what it likes, polls when it likes, and answers "cancelled"     *)
(* only if it was told so; "completed" stands for what it answers          *)
(* otherwise, a mesh or an error, which the input decides.  Every method of the box is one critical        *)
(* section of its lock and so one action.                                  *)
(***************************************************************************)
EXTENDS Integers, Sequences

CONSTANTS Tasks,        \* the tasks that await the operation
          Full,         \* progress 1.0, in steps
          MaxReports    \* bound: the reports of one native run

ASSUME ControlAssumption == Full \in Nat /\ MaxReports \in Nat

VARIABLES box,      \* [cancelled, finished, progress]
          stream,   \* what the progress stream was given: fractions, then End
          native,   \* per task, the thread it detached: [pc, told, reports, result]
          answers   \* per task, what its continuation was resumed with

controlVars == <<box, stream, native, answers>>

Results == {"completed", "cancelled"}
End == Full + 1   \* the end of the stream

ControlInit ==
    /\ box = [cancelled |-> FALSE, finished |-> FALSE, progress |-> 0]
    /\ stream = <<>>
    /\ native = [t \in Tasks |-> [pc |-> "none", told |-> FALSE, reports |-> 0, result |-> "completed"]]
    /\ answers = [t \in Tasks |-> <<>>]

Detached(t) == native' = [native EXCEPT ![t].pc = "running"]

At(w, pc) == native[w].pc = pc
Goes(w, pc) == native' = [native EXCEPT ![w].pc = pc]

AdvancedTo(old, new) == IF new >= Full THEN Full ELSE new   \* wrong: takes what it is told

Advanced(old, new) ==
    IF new >= Full THEN Full ELSE IF new > old THEN new ELSE old

ReportProgress(w) == \E fraction \in 0..(Full + 1) :
    /\ At(w, "running") /\ native[w].reports < MaxReports
    /\ native' = [native EXCEPT ![w].reports = @ + 1]
    /\ IF box.finished THEN UNCHANGED <<box, stream>>
       ELSE LET progress == Advanced(box.progress, fraction)
            IN /\ box' = [box EXCEPT !.progress = progress]
               /\ stream' = Append(stream, progress)
    /\ UNCHANGED answers

IsCancelled(w) ==   \* the engine polls, and remembers that it was told
    /\ At(w, "running") /\ box.cancelled
    /\ native' = [native EXCEPT ![w].told = TRUE]
    /\ UNCHANGED <<box, stream, answers>>

EngineReturns(w) == \E result \in Results :
    /\ At(w, "running")
    /\ result = "cancelled" => native[w].told
    /\ native' = [native EXCEPT ![w].pc = "returned", ![w].result = result]
    /\ UNCHANGED <<box, stream, answers>>

FinishProgressQuietly(w, from, then) ==   \* wrong: the stream stays open
    /\ At(w, from)
    /\ Goes(w, then)
    /\ box' = [box EXCEPT !.finished = TRUE]
    /\ UNCHANGED <<stream, answers>>

FinishProgress(w, from, then) ==
    /\ At(w, from)
    /\ IF box.finished THEN Goes(w, then) ELSE Goes(w, "closing")
    /\ box' = [box EXCEPT !.finished = TRUE]
    /\ UNCHANGED <<stream, answers>>

CloseStream(w, then) ==
    /\ At(w, "closing")
    /\ Goes(w, then)
    /\ stream' = Append(stream, End)
    /\ UNCHANGED <<box, answers>>

Ended == \E i \in DOMAIN stream : stream[i] = End

\* "Progress delivery SHALL be monotonic ... and finish exactly once"
\* (engine-bindings spec): the stream gets fractions that never fall, then one
\* end, then nothing.
ProgressInOrder ==
    \A i, j \in DOMAIN stream : i < j => stream[i] # End /\ stream[i] <= stream[j]

\* "It SHALL give every concurrent or subsequent awaiter the same terminal
\* result or error" (engine-bindings spec).
SameAnswer == \A t, u \in Tasks :
    answers[t] # <<>> /\ answers[u] # <<>> => answers[t] = answers[u]
=============================================================================
