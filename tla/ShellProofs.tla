------------------------------ MODULE ShellProofs ------------------------------
(***************************************************************************)
(* Theorems about the job and the shell of MCShell, for any number of      *)
(* tasks, hosts, files and runs: a RemeshJob runs the engine once, asks it *)
(* to cancel at most once, keeps the progress stream in order and          *)
(* implements Promise; the shell's overlay, session and runs agree.        *)
(***************************************************************************)
EXTENDS MCShell, TLAPS

Over(w) == native[w].pc \in {"finishing", "closing", "resuming", "done"}

\* One thread was started, by whoever the job says; it alone settles the job.
WorkerInv ==
    /\ OneExecution
    /\ \A t \in Tasks : Started(t) => job.workerStarted
    /\ job.state = "created" => ~job.workerStarted
    /\ \A t \in Tasks : task[t] = "starting" => At(t, "none") /\ job.state # "finished"
    /\ \A w \in Tasks : native[w].pc \in {"running", "returned"} => job.state # "finished"
    /\ \A w \in Tasks : Over(w) => job.state = "finished" /\ job.result = native[w].result
    /\ job.state = "finished" <=> job.result # Unsettled

\* Who waits is held once, by the job before it settles and by finish() after.
WaiterInv ==
    /\ \A i \in DOMAIN waiters : task[waiters[i]] \in {"starting", "waiting"}
    /\ \A i \in DOMAIN pending : task[pending[i]] = "waiting"
    /\ \A i, j \in DOMAIN waiters : waiters[i] = waiters[j] => i = j
    /\ \A i, j \in DOMAIN pending : pending[i] = pending[j] => i = j
    /\ waiters # <<>> => job.state # "finished"
    /\ pending # <<>> => job.state = "finished"

AnswerInv ==
    /\ answers \in [Tasks -> Seq(Results)]
    /\ \A t \in Tasks : answers[t] = IF task[t] = "answered" THEN <<job.result>> ELSE <<>>
    /\ \A t \in Tasks : task[t] = "answered" => job.state = "finished"

\* The one cancel() that found the job uncancelled makes the one request.
RequestInv ==
    /\ requests \in {0, 1}
    /\ \A c, d \in Hosts \cup Tasks :
          cancelling[c] = "requesting" /\ cancelling[d] = "requesting" => c = d
    /\ \A c \in Hosts \cup Tasks : cancelling[c] = "requesting" => requests = 0
    /\ \A c \in Hosts \cup Tasks :
          cancelling[c] = "requesting" => job.state \in {"cancelling", "finished"}
    /\ requests = 1 => job.state \in {"cancelling", "finished"}

StreamInv ==
    /\ stream \in Seq(0..End)
    /\ ProgressInOrder
    /\ ~box.finished => \A i \in DOMAIN stream : stream[i] <= box.progress
    /\ \A w \in Tasks : At(w, "closing") => box.finished /\ ~Ended

IndInv == TypeOK /\ WorkerInv /\ WaiterInv /\ AnswerInv /\ RequestInv /\ StreamInv

-----------------------------------------------------------------------------
\* What a native thread is at: its record in "native".
Run == [pc : {"none", "running", "returned", "finishing", "closing", "resuming", "done"},
        told : BOOLEAN, reports : 0..MaxReports, result : Results]

LEMMA RunSteps ==
    ASSUME NEW run \in Run
    PROVE  /\ \A pc \in {"running", "finishing", "closing", "resuming", "done"} :
                 [run EXCEPT !.pc = pc] \in Run
           /\ \A result \in Results : [run EXCEPT !.pc = "returned", !.result = result] \in Run
           /\ [run EXCEPT !.told = TRUE] \in Run
           /\ run.reports < MaxReports => [run EXCEPT !.reports = run.reports + 1] \in Run
<1>1. \A pc \in {"running", "finishing", "closing", "resuming", "done"} : [run EXCEPT !.pc = pc] \in Run
  BY DEF Run
<1>2. \A result \in Results : [run EXCEPT !.pc = "returned", !.result = result] \in Run
  BY DEF Run
<1>3. [run EXCEPT !.told = TRUE] \in Run
  BY DEF Run
<1>4. ASSUME run.reports < MaxReports PROVE [run EXCEPT !.reports = run.reports + 1] \in Run
  <2>1. run.reports + 1 \in 0..MaxReports
    BY <1>4, ControlAssumption DEF Run
  <2> QED BY <2>1 DEF Run
<1> QED BY <1>1, <1>2, <1>3, <1>4

LEMMA Runs == TypeOK => native \in [Tasks -> Run]
BY DEF TypeOK, Run

LEMMA InitIndInv == Init => IndInv
BY ControlAssumption, JobAssumption
   DEF Init, ControlInit, IndInv, TypeOK, WorkerInv, WaiterInv, AnswerInv, RequestInv, StreamInv,
       OneExecution, Started, At, Over, ProgressInOrder, Results, End

\* A task that has no answer gets the result of the settled job.
LEMMA Answered ==
    ASSUME TypeOK, AnswerInv, NEW t \in Tasks, task[t] # "answered",
           job.state = "finished", job.result \in Results,
           answers' = [answers EXCEPT ![t] = Append(@, job.result)],
           task' = [task EXCEPT ![t] = "answered"], UNCHANGED job
    PROVE  AnswerInv' /\ answers[t] = <<>> /\ answers' = [answers EXCEPT ![t] = <<job.result>>]
<1>1. answers[t] = <<>> /\ answers \in [Tasks -> Seq(Results)]
  BY DEF AnswerInv
<1>2. Append(answers[t], job.result) = <<job.result>>
  <2>1. Append(<<>>, job.result) = <<job.result>>
    OBVIOUS
  <2> QED BY <1>1, <2>1, Zenon
<1>3. answers' = [answers EXCEPT ![t] = <<job.result>>]
  BY <1>2, Zenon
<1>4. <<job.result>> \in Seq(Results)
  OBVIOUS
<1>5. answers' \in [Tasks -> Seq(Results)]
  BY <1>1, <1>3, <1>4
<1>6. ASSUME NEW u \in Tasks
      PROVE  answers'[u] = IF task'[u] = "answered" THEN <<job.result>> ELSE <<>>
  <2>1. CASE u = t
    BY <1>1, <1>3, <2>1 DEF TypeOK
  <2>2. CASE u # t
    <3>1. answers'[u] = answers[u] /\ task'[u] = task[u]
      BY <1>1, <1>3, <2>2 DEF TypeOK
    <3> QED BY <3>1 DEF AnswerInv
  <2> QED BY <2>1, <2>2
<1> QED BY <1>1, <1>3, <1>5, <1>6 DEF AnswerInv

\* The actions of tasks and hosts.

LEMMA ValueKeeps == ASSUME IndInv, NEW t \in Tasks, Value(t) PROVE IndInv'
<1> USE DEF IndInv, Value, controlVars
<1>1. TypeOK'
  BY DEF TypeOK
<1>2. WorkerInv'
  BY DEF TypeOK, WorkerInv, OneExecution, Started, At, Over
<1>3. WaiterInv'
  BY DEF TypeOK, WaiterInv
<1>4. AnswerInv'
  BY DEF TypeOK, AnswerInv
<1>5. RequestInv'
  BY DEF TypeOK, RequestInv
<1>6. StreamInv'
  BY DEF TypeOK, StreamInv, At, Ended, ProgressInOrder
<1> QED BY <1>1, <1>2, <1>3, <1>4, <1>5, <1>6

LEMMA WaitForValueKeeps == ASSUME IndInv, NEW t \in Tasks, WaitForValue(t) PROVE IndInv'
<1> USE DEF IndInv, WaitForValue, controlVars
<1>1. TypeOK'
  <2>1. waiters' \in Seq(Tasks)
    BY DEF TypeOK
  <2>2. task' \in [Tasks -> {"idle", "calling", "starting", "waiting", "answered"}]
    BY DEF TypeOK
  <2>3. job' \in [state : {"created", "running", "cancelling", "finished"},
                    result : Results \cup {Unsettled}, workerStarted : BOOLEAN]
    <3>1. (job.workerStarted \/ Starts) \in BOOLEAN
      BY DEF TypeOK, Starts
    <3> QED BY <3>1 DEF TypeOK
  <2> QED BY <2>1, <2>2, <2>3 DEF TypeOK
<1>2. WorkerInv'
  <2>1. /\ job'.state # "created" /\ job'.state # "finished" /\ job'.result = job.result
        /\ job'.workerStarted = (job.workerStarted \/ Starts)
        /\ Starts => ~job.workerStarted
    BY DEF TypeOK, WorkerInv, Starts
  <2>2. native' = native /\ \A u \in Tasks : task'[u] = "starting" => task[u] = "starting" \/ (Starts /\ u = t)
    BY DEF TypeOK
  <2>3. OneExecution'
    <3>1. \A u \in Tasks : Started(u)' => Started(u) \/ (Starts /\ u = t)
      BY <2>2 DEF Started, At
    <3>2. \A u \in Tasks : Started(u) => ~Starts
      BY <2>1 DEF WorkerInv
    <3>3. OneExecution
      BY DEF WorkerInv
    <3> QED BY <3>1, <3>2, <3>3 DEF OneExecution
  <2>4. \A u \in Tasks : Started(u)' => job'.workerStarted
    BY <2>1, <2>2 DEF WorkerInv, Started, At
  <2>5. \A u \in Tasks : task'[u] = "starting" => At(u, "none")' /\ job'.state # "finished"
    BY <2>1, <2>2 DEF WorkerInv, Started, At
  <2>6. \A w \in Tasks : native'[w].pc \in {"running", "returned"} => job'.state # "finished"
    BY <2>1
  <2>7. \A w \in Tasks : Over(w)' => job'.state = "finished" /\ job'.result = native'[w].result
    BY <2>2 DEF WorkerInv, Over, At
  <2>8. job'.state = "finished" <=> job'.result # Unsettled
    BY <2>1 DEF WorkerInv
  <2> QED BY <2>1, <2>3, <2>4, <2>5, <2>6, <2>7, <2>8 DEF WorkerInv
<1>3. WaiterInv'
  <2>1. waiters \in Seq(Tasks) /\ waiters' = Append(waiters, t)
    BY DEF TypeOK
  <2>2. \A i \in DOMAIN waiters : waiters[i] # t /\ waiters[i] \in Tasks
    BY <2>1 DEF WaiterInv
  <2>3. \A i \in DOMAIN waiters' : task'[waiters'[i]] \in {"starting", "waiting"}
    BY <2>1, <2>2 DEF TypeOK, WaiterInv
  <2>4. \A i, j \in DOMAIN waiters' : waiters'[i] = waiters'[j] => i = j
    BY <2>1, <2>2 DEF WaiterInv
  <2>5. pending = <<>> /\ pending' = <<>>
    BY DEF WaiterInv
  <2>6. job'.state # "finished"
    BY DEF TypeOK
  <2> QED BY <2>3, <2>4, <2>5, <2>6 DEF WaiterInv
<1>4. AnswerInv'
  BY DEF TypeOK, AnswerInv
<1>5. RequestInv'
  BY DEF TypeOK, RequestInv
<1>6. StreamInv'
  BY DEF StreamInv, At, Ended, ProgressInOrder
<1> QED BY <1>1, <1>2, <1>3, <1>4, <1>5, <1>6

LEMMA ValueIsThereKeeps == ASSUME IndInv, NEW t \in Tasks, ValueIsThere(t) PROVE IndInv'
<1> USE DEF IndInv, ValueIsThere
<1>1. TypeOK'
  BY DEF TypeOK
<1>2. WorkerInv'
  BY DEF TypeOK, WorkerInv, OneExecution, Started, At, Over
<1>3. WaiterInv'
  BY DEF TypeOK, WaiterInv
<1>4. AnswerInv'
  <2>1. job.result \in Results
    BY DEF TypeOK, WorkerInv
  <2> QED BY <2>1, Answered
<1>5. RequestInv'
  BY DEF TypeOK, RequestInv
<1>6. StreamInv'
  BY DEF StreamInv, At, Ended, ProgressInOrder
<1> QED BY <1>1, <1>2, <1>3, <1>4, <1>5, <1>6

LEMMA DetachThreadKeeps == ASSUME IndInv, NEW t \in Tasks, DetachThread(t) PROVE IndInv'
<1> USE DEF IndInv, DetachThread, Detached
<1>1. TypeOK'
  <2>1. native \in [Tasks -> Run] /\ [native[t] EXCEPT !.pc = "running"] \in Run
    BY Runs, RunSteps
  <2>2. native' \in [Tasks -> Run]
    BY <2>1
  <2>3. task' \in [Tasks -> {"idle", "calling", "starting", "waiting", "answered"}]
    BY DEF TypeOK
  <2> QED BY <2>2, <2>3 DEF TypeOK, Run
<1>2. WorkerInv'
  BY DEF TypeOK, WorkerInv, OneExecution, Started, At, Over
<1>3. WaiterInv'
  BY DEF TypeOK, WaiterInv
<1>4. AnswerInv'
  BY DEF TypeOK, AnswerInv
<1>5. RequestInv'
  BY DEF TypeOK, RequestInv
<1>6. StreamInv'
  BY DEF TypeOK, StreamInv, At, Ended, ProgressInOrder
<1> QED BY <1>1, <1>2, <1>3, <1>4, <1>5, <1>6

LEMMA CancelKeeps == ASSUME IndInv, NEW c \in Hosts \cup Tasks, Cancel(c) PROVE IndInv'
<1> USE DEF IndInv, Cancel, controlVars, Requests
<1>1. TypeOK'
  <2>1. cancelling' \in [Hosts \cup Tasks -> {"idle", "requesting", "done"}]
    BY DEF TypeOK
  <2>2. job' \in [state : {"created", "running", "cancelling", "finished"},
                    result : Results \cup {Unsettled}, workerStarted : BOOLEAN]
    BY DEF TypeOK
  <2> QED BY <2>1, <2>2 DEF TypeOK
<1>2. WorkerInv'
  BY DEF TypeOK, WorkerInv, OneExecution, Started, At, Over
<1>3. WaiterInv'
  BY DEF TypeOK, WaiterInv
<1>4. AnswerInv'
  BY DEF TypeOK, AnswerInv
<1>5. RequestInv'
  BY DEF TypeOK, RequestInv
<1>6. StreamInv'
  BY DEF StreamInv, At, Ended, ProgressInOrder
<1> QED BY <1>1, <1>2, <1>3, <1>4, <1>5, <1>6

LEMMA RequestCancelKeeps == ASSUME IndInv, NEW c \in Hosts \cup Tasks, RequestCancel(c) PROVE IndInv'
<1> USE DEF IndInv, RequestCancel
<1>1. TypeOK'
  <2>1. box' \in [cancelled : BOOLEAN, finished : BOOLEAN, progress : 0..Full]
    BY DEF TypeOK
  <2>2. cancelling' \in [Hosts \cup Tasks -> {"idle", "requesting", "done"}]
    BY DEF TypeOK
  <2>3. requests' \in Nat
    BY DEF TypeOK
  <2> QED BY <2>1, <2>2, <2>3 DEF TypeOK
<1>2. WorkerInv'
  BY DEF TypeOK, WorkerInv, OneExecution, Started, At, Over
<1>3. WaiterInv'
  BY DEF TypeOK, WaiterInv
<1>4. AnswerInv'
  BY DEF TypeOK, AnswerInv
<1>5. RequestInv'
  BY DEF TypeOK, RequestInv
<1>6. StreamInv'
  BY DEF TypeOK, StreamInv, At, Ended, ProgressInOrder
<1> QED BY <1>1, <1>2, <1>3, <1>4, <1>5, <1>6

\* The actions of the native thread.

LEMMA ReportProgressKeeps ==
    ASSUME IndInv, NEW w \in Tasks, ReportProgress(w), UNCHANGED jobVars PROVE IndInv'
<1> USE DEF IndInv, jobVars
<1>1. PICK fraction \in 0..(Full + 1) :
        /\ At(w, "running") /\ native[w].reports < MaxReports
        /\ native' = [native EXCEPT ![w].reports = @ + 1]
        /\ IF box.finished THEN UNCHANGED <<box, stream>>
           ELSE /\ box' = [box EXCEPT !.progress = Advanced(box.progress, fraction)]
                /\ stream' = Append(stream, Advanced(box.progress, fraction))
        /\ UNCHANGED answers
  BY DEF ReportProgress
<1> DEFINE new == Advanced(box.progress, fraction)
<1>2. new \in 0..Full /\ box.progress <= new
  BY ControlAssumption DEF Advanced, TypeOK
<1>3. TypeOK'
  <2>1. native \in [Tasks -> Run] /\ [native[w] EXCEPT !.reports = native[w].reports + 1] \in Run
    BY <1>1, Runs, RunSteps
  <2>2. native' \in [Tasks -> Run]
    BY <1>1, <2>1
  <2>3. box' \in [cancelled : BOOLEAN, finished : BOOLEAN, progress : 0..Full]
    <3> HIDE DEF new
    <3>1. box' = box \/ box' = [box EXCEPT !.progress = new]
      BY <1>1 DEF new
    <3> QED BY <1>2, <3>1 DEF TypeOK
  <2> QED BY <1>1, <2>2, <2>3 DEF TypeOK, Run
<1>4. WorkerInv'
  BY <1>1 DEF TypeOK, WorkerInv, OneExecution, Started, At, Over
<1>5. WaiterInv' /\ AnswerInv' /\ RequestInv'
  BY <1>1 DEF WaiterInv, AnswerInv, RequestInv
<1>6. CASE box.finished
  <2>1. StreamInv'
    BY <1>1, <1>6 DEF TypeOK, StreamInv, At, Ended, ProgressInOrder
  <2> QED BY <2>1, <1>3, <1>4, <1>5
<1>7. CASE ~box.finished
  <2> HIDE DEF new
  <2>1. box' = [box EXCEPT !.progress = new] /\ stream' = Append(stream, new)
    BY <1>1, <1>7 DEF new
  <2>2. stream \in Seq(0..End) /\ new \in 0..End /\ new # End
    BY <1>2, ControlAssumption DEF StreamInv, End
  <2>3. \A i \in DOMAIN stream : stream[i] <= new /\ stream[i] \in 0..End /\ stream[i] # End
    BY <1>2, <1>7, <2>2, ControlAssumption DEF StreamInv, TypeOK, End
  <2>4. /\ stream' \in Seq(0..End)
        /\ \A i \in DOMAIN stream' : stream'[i] <= new /\ stream'[i] # End
    BY <2>1, <2>2, <2>3
  <2>5. ProgressInOrder'
    BY <2>1, <2>2, <2>3 DEF StreamInv, ProgressInOrder, End
  <2>6. box'.progress = new
    BY <2>1 DEF TypeOK
  <2>7. \A u \in Tasks : ~At(u, "closing")'
    BY <1>1, <1>7 DEF TypeOK, StreamInv, At
  <2>8. StreamInv'
    BY <2>4, <2>5, <2>6, <2>7 DEF StreamInv, End
  <2> QED BY <2>8, <1>3, <1>4, <1>5
<1> QED BY <1>6, <1>7

LEMMA IsCancelledKeeps ==
    ASSUME IndInv, NEW w \in Tasks, IsCancelled(w), UNCHANGED jobVars PROVE IndInv'
<1> USE DEF IndInv, jobVars, IsCancelled
<1>1. TypeOK'
  <2>1. native \in [Tasks -> Run] /\ [native[w] EXCEPT !.told = TRUE] \in Run
    BY Runs, RunSteps
  <2>2. native' \in [Tasks -> Run]
    BY <2>1
  <2> QED BY <2>2 DEF TypeOK, Run
<1>2. WorkerInv'
  BY DEF TypeOK, WorkerInv, OneExecution, Started, At, Over
<1>3. WaiterInv' /\ AnswerInv' /\ RequestInv'
  BY DEF WaiterInv, AnswerInv, RequestInv
<1>4. StreamInv'
  BY DEF TypeOK, StreamInv, At, Ended, ProgressInOrder
<1> QED BY <1>1, <1>2, <1>3, <1>4

LEMMA WorkKeeps == ASSUME IndInv, NEW w \in Tasks, Work(w) PROVE IndInv'
<1> USE DEF IndInv, jobVars
<1>1. PICK result \in Results :
        /\ At(w, "running")
        /\ native' = [native EXCEPT ![w].pc = "returned", ![w].result = result]
        /\ UNCHANGED <<box, stream, answers, jobVars>>
  BY DEF Work, EngineReturns
<1>2. TypeOK'
  <2>1. native \in [Tasks -> Run] /\ [native[w] EXCEPT !.pc = "returned", !.result = result] \in Run
    BY Runs, RunSteps
  <2>2. native' \in [Tasks -> Run]
    BY <1>1, <2>1
  <2> QED BY <1>1, <2>2 DEF TypeOK, Run
<1>3. WorkerInv'
  BY <1>1 DEF TypeOK, WorkerInv, OneExecution, Started, At, Over
<1>4. WaiterInv' /\ AnswerInv' /\ RequestInv'
  BY <1>1 DEF WaiterInv, AnswerInv, RequestInv
<1>5. StreamInv'
  BY <1>1 DEF TypeOK, StreamInv, At, Ended, ProgressInOrder
<1> QED BY <1>2, <1>3, <1>4, <1>5

LEMMA FinishKeeps == ASSUME IndInv, NEW w \in Tasks, Finish(w) PROVE IndInv'
<1> USE DEF IndInv
<1>1. /\ At(w, "returned") /\ job.state # "finished"
      /\ job' = [job EXCEPT !.state = "finished", !.result = native[w].result]
      /\ pending' = waiters /\ waiters' = <<>>
      /\ native' = [native EXCEPT ![w].pc = "finishing"]
      /\ UNCHANGED <<box, stream, answers, task, cancelling, requests>>
  BY DEF Finish, Goes, At, WorkerInv
<1>2. TypeOK'
  <2>1. job' \in [state : {"created", "running", "cancelling", "finished"},
                    result : Results \cup {Unsettled}, workerStarted : BOOLEAN]
    BY <1>1 DEF TypeOK
  <2>2. native' \in [Tasks -> Run]
    <3>1. native \in [Tasks -> Run] /\ [native[w] EXCEPT !.pc = "finishing"] \in Run
      BY Runs, RunSteps
    <3> QED BY <1>1, <3>1
  <2>3. pending' \in Seq(Tasks) /\ waiters' \in Seq(Tasks)
    BY <1>1 DEF TypeOK
  <2> QED BY <1>1, <2>1, <2>2, <2>3 DEF TypeOK, Run
<1>3. WorkerInv'
  <2>1. \A t \in Tasks : task[t] # "starting"
    BY <1>1 DEF WorkerInv, OneExecution, Started, At
  <2>2. native[w].result \in Results /\ native[w].result # Unsettled
    BY JobAssumption DEF TypeOK
  <2>3. \A u \in Tasks : u # w => At(u, "none")
    BY <1>1 DEF WorkerInv, OneExecution, Started, At
  <2> QED BY <1>1, <2>1, <2>2, <2>3 DEF TypeOK, WorkerInv, OneExecution, Started, At, Over
<1>4. WaiterInv'
  <2>1. \A t \in Tasks : task[t] # "starting"
    BY <1>1 DEF WorkerInv, OneExecution, Started, At
  <2>2. \A i \in DOMAIN waiters : waiters[i] \in Tasks
    BY DEF TypeOK
  <2>3. job'.state = "finished"
    BY <1>1 DEF TypeOK
  <2> QED BY <1>1, <2>1, <2>2, <2>3 DEF WaiterInv
<1>5. AnswerInv' /\ RequestInv'
  BY <1>1 DEF TypeOK, AnswerInv, RequestInv
<1>6. StreamInv'
  BY <1>1 DEF TypeOK, StreamInv, At, Ended, ProgressInOrder
<1> QED BY <1>2, <1>3, <1>4, <1>5, <1>6

LEMMA DidFinishKeeps == ASSUME IndInv, NEW w \in Tasks, DidFinish(w) PROVE IndInv'
<1> USE DEF IndInv, jobVars
<1>1. CASE FinishProgress(w, "finishing", "resuming")
  <2>0. /\ native[w].pc = "finishing"
        /\ native' = [native EXCEPT ![w].pc = IF box.finished THEN "resuming" ELSE "closing"]
        /\ box' = [box EXCEPT !.finished = TRUE]
        /\ UNCHANGED <<stream, answers, jobVars>>
    <3>1. UNCHANGED jobVars
      BY DEF DidFinish
    <3>2. CASE box.finished
      BY <1>1, <3>1, <3>2 DEF FinishProgress, Goes, At
    <3>3. CASE ~box.finished
      BY <1>1, <3>1, <3>3 DEF FinishProgress, Goes, At
    <3> QED BY <3>2, <3>3
  <2>1. TypeOK'
    <3>1. box' \in [cancelled : BOOLEAN, finished : BOOLEAN, progress : 0..Full]
      <4>1. box \in [cancelled : BOOLEAN, finished : BOOLEAN, progress : 0..Full]
        BY DEF TypeOK
      <4> HIDE DEF IndInv
      <4> QED BY <2>0, <4>1
    <3>2. native' \in [Tasks -> Run]
      <4>1. PICK pc \in {"resuming", "closing"} : native' = [native EXCEPT ![w].pc = pc]
        BY <2>0
      <4>2. native \in [Tasks -> Run] /\ [native[w] EXCEPT !.pc = pc] \in Run
        BY Runs, RunSteps
      <4> QED BY <4>1, <4>2
    <3> QED BY <2>0, <3>1, <3>2 DEF TypeOK, Run
  <2>2. WorkerInv'
    BY <2>0 DEF TypeOK, WorkerInv, OneExecution, Started, At, Over
  <2>3. WaiterInv' /\ AnswerInv' /\ RequestInv'
    BY <2>0 DEF WaiterInv, AnswerInv, RequestInv
  <2>4. ~box.finished => ~Ended
    BY ControlAssumption DEF StreamInv, TypeOK, Ended, End
  <2>5. StreamInv'
    BY <2>0, <2>4 DEF TypeOK, StreamInv, At, Ended, ProgressInOrder
  <2> QED BY <2>1, <2>2, <2>3, <2>5
<1>2. CASE CloseStream(w, "resuming")
  <2>0. /\ native[w].pc = "closing"
        /\ native' = [native EXCEPT ![w].pc = "resuming"]
        /\ stream' = Append(stream, End)
        /\ UNCHANGED <<box, answers, jobVars>>
    BY <1>2 DEF DidFinish, CloseStream, Goes, At
  <2>1. TypeOK'
    <3>1. native \in [Tasks -> Run] /\ [native[w] EXCEPT !.pc = "resuming"] \in Run
      BY Runs, RunSteps
    <3>2. native' \in [Tasks -> Run]
      BY <2>0, <3>1
    <3> QED BY <2>0, <3>2 DEF TypeOK, Run
  <2>2. WorkerInv'
    BY <2>0 DEF TypeOK, WorkerInv, OneExecution, Started, At, Over
  <2>3. WaiterInv' /\ AnswerInv' /\ RequestInv'
    BY <2>0 DEF WaiterInv, AnswerInv, RequestInv
  <2>4. stream \in Seq(0..End) /\ End \in 0..End /\ box.finished
    BY <2>0, ControlAssumption DEF StreamInv, At, End
  <2>5. \A i \in DOMAIN stream : stream[i] \in 0..End /\ stream[i] # End
    BY <2>0, <2>4 DEF StreamInv, At, Ended
  <2>6. stream' = Append(stream, End) /\ stream' \in Seq(0..End)
    BY <2>0, <2>4
  <2>7. ProgressInOrder'
    BY <2>4, <2>5, <2>6, ControlAssumption DEF StreamInv, ProgressInOrder, End
  <2>8. \A u \in Tasks : ~At(u, "closing")'
    BY <2>0 DEF TypeOK, WorkerInv, OneExecution, Started, At
  <2>9. StreamInv'
    BY <2>0, <2>4, <2>6, <2>7, <2>8 DEF StreamInv, End
  <2> QED BY <2>1, <2>2, <2>3, <2>9
<1> QED BY <1>1, <1>2 DEF DidFinish

LEMMA ResumeKeeps == ASSUME IndInv, NEW w \in Tasks, Resume(w) PROVE IndInv'
<1> USE DEF IndInv, Resume, Resumed
<1> DEFINE t == Head(pending)
<1>1. /\ pending # <<>> /\ pending \in Seq(Tasks) /\ t \in Tasks /\ t = pending[1]
      /\ pending' = Tail(pending)
  BY DEF TypeOK
<1>2. task[t] = "waiting" /\ job.result = native[w].result /\ job.state = "finished"
  BY <1>1 DEF WaiterInv, WorkerInv, At, Over
<1>3. TypeOK'
  BY <1>1 DEF TypeOK
<1>4. WorkerInv'
  BY <1>1, <1>2 DEF TypeOK, WorkerInv, OneExecution, Started, At, Over
<1>5. WaiterInv'
  <2>1. \A i \in DOMAIN pending' : i + 1 \in DOMAIN pending /\ pending'[i] = pending[i + 1]
    BY <1>1
  <2>2. \A i \in DOMAIN pending' : pending'[i] # t /\ pending'[i] \in Tasks
    BY <1>1, <2>1 DEF WaiterInv
  <2>3. waiters = <<>>
    BY <1>2 DEF WaiterInv
  <2>4. \A i \in DOMAIN pending' : task'[pending'[i]] = "waiting"
    BY <2>1, <2>2 DEF WaiterInv, TypeOK
  <2>5. \A i, j \in DOMAIN pending' : pending'[i] = pending'[j] => i = j
    BY <1>1, <2>1 DEF WaiterInv
  <2> QED BY <1>2, <2>3, <2>4, <2>5 DEF WaiterInv
<1>6. AnswerInv'
  <2>1. job.result \in Results
    BY <1>2 DEF TypeOK, WorkerInv
  <2>2. /\ answers' = [answers EXCEPT ![t] = Append(@, job.result)]
        /\ task' = [task EXCEPT ![t] = "answered"] /\ UNCHANGED job
    BY <1>2
  <2> HIDE DEF t
  <2> QED BY <1>1, <1>2, <2>1, <2>2, Answered
<1>7. RequestInv'
  BY DEF RequestInv
<1>8. StreamInv'
  BY DEF StreamInv, At, Ended, ProgressInOrder
<1> QED BY <1>3, <1>4, <1>5, <1>6, <1>7, <1>8

LEMMA StutterKeeps == ASSUME IndInv, UNCHANGED vars PROVE IndInv'
BY DEF IndInv, vars, controlVars, jobVars, TypeOK, WorkerInv, WaiterInv, AnswerInv, RequestInv,
       StreamInv, OneExecution, Started, At, Over, ProgressInOrder, Ended

LEMMA StepIndInv == IndInv /\ [Next]_vars => IndInv'
BY ValueKeeps, WaitForValueKeeps, ValueIsThereKeeps, DetachThreadKeeps, CancelKeeps,
   RequestCancelKeeps, ReportProgressKeeps, IsCancelledKeeps, WorkKeeps, FinishKeeps,
   DidFinishKeeps, ResumeKeeps, StutterKeeps
   DEF Next, Engine

\* The inductive invariant of the job.
THEOREM Invariance == Spec => []IndInv
BY InitIndInv, StepIndInv, PTL DEF Spec

\* The variables of the job have their types.
THEOREM Typing == Spec => []TypeOK
BY Invariance, PTL DEF IndInv

\* One native run and one cancellation request, however many tasks await a job of
\* Remesh.swift and however many tasks and hosts cancel it, at whatever moments.
THEOREM RunsOnce == Spec => []OneRun
<1>1. IndInv => OneRun
  BY DEF IndInv, WorkerInv, RequestInv, OneRequest, OneRun
<1> QED BY <1>1, Invariance, PTL

\* Progress never falls and ends once.
THEOREM StreamInOrder == Spec => []ProgressInOrder
<1>1. IndInv => ProgressInOrder
  BY DEF IndInv, StreamInv
<1> QED BY <1>1, Invariance, PTL

\* The job implements Promise: it settles once and answers each awaiter once,
\* with what it settled to.
THEOREM Refinement == Spec => ImplementsPromise
<1>1. Init => Promised!Init
  BY DEF Init, ControlInit, Promised!Init
<1>2. ASSUME IndInv, [Next]_vars PROVE [Promised!Next]_<<job.result, answers>>
  <2> USE DEF IndInv
  <2>1. ASSUME NEW t \in Tasks, ValueIsThere(t) PROVE Promised!Answer(t)
    <3>1. answers[t] = <<>> /\ job.result # Unsettled /\ job.result \in Results
      BY <2>1, <1>2 DEF ValueIsThere, TypeOK, WorkerInv, AnswerInv
    <3>2. answers' = [answers EXCEPT ![t] = <<job.result>>] /\ UNCHANGED job
      BY <2>1, <3>1, <1>2, Answered DEF ValueIsThere
    <3> QED BY <3>1, <3>2 DEF Promised!Answer
  <2>2. ASSUME NEW w \in Tasks, Finish(w) PROVE Promised!Settle
    BY <2>2, <1>2 DEF Finish, Promised!Settle, TypeOK, WorkerInv, At
  <2>3. ASSUME NEW w \in Tasks, Resume(w) PROVE \E t \in Tasks : Promised!Answer(t)
    <3>1. Head(pending) \in Tasks /\ task[Head(pending)] = "waiting"
      BY <2>3, <1>2 DEF Resume, Resumed, TypeOK, WaiterInv
    <3>2. job.result = native[w].result /\ job.result # Unsettled
      BY <2>3, <1>2 DEF Resume, Resumed, WorkerInv, At, Over
    <3>3. answers[Head(pending)] = <<>> /\ job.result \in Results
      BY <1>2, <3>1, <3>2 DEF TypeOK, AnswerInv
    <3>4. /\ answers' = [answers EXCEPT ![Head(pending)] = <<job.result>>]
          /\ UNCHANGED job
      <4>1. job.state = "finished"
        BY <2>3, <1>2 DEF Resume, Resumed, WaiterInv
      <4> QED BY <2>3, <3>1, <3>2, <3>3, <4>1, <1>2, Answered DEF Resume, Resumed
    <3>5. Promised!Answer(Head(pending))
      BY <3>2, <3>3, <3>4 DEF Promised!Answer
    <3> QED BY <3>1, <3>5
  <2>4. ASSUME NEW t \in Tasks, Value(t) \/ WaitForValue(t) \/ DetachThread(t)
        PROVE UNCHANGED <<job.result, answers>>
    BY <2>4, <1>2 DEF Value, WaitForValue, DetachThread, controlVars, TypeOK
  <2>5. ASSUME NEW c \in Hosts \cup Tasks, Cancel(c) \/ RequestCancel(c)
        PROVE UNCHANGED <<job.result, answers>>
    BY <2>5, <1>2 DEF Cancel, RequestCancel, controlVars, TypeOK
  <2>6. ASSUME NEW w \in Tasks, Engine(w) \/ Work(w) \/ DidFinish(w)
        PROVE UNCHANGED <<job.result, answers>>
    BY <2>6 DEF Engine, Work, DidFinish, ReportProgress, IsCancelled, EngineReturns,
                FinishProgress, CloseStream, jobVars
  <2>7. CASE UNCHANGED vars
    BY <2>7 DEF vars, controlVars, jobVars
  <2> QED BY <2>1, <2>2, <2>3, <2>4, <2>5, <2>6, <2>7, <1>2 DEF Next, Promised!Next
<1> QED BY <1>1, <1>2, Invariance, PTL DEF Spec, ImplementsPromise, Promised!Spec

-----------------------------------------------------------------------------
(* The shell *)

EngineStates == {"created", "running", "concluding", "completed", "cancelled", "failed"}
AppRun == [engine : EngineStates, asked : BOOLEAN, awaited : BOOLEAN, progress : 0 .. Full,
        held : App!Nothing .. Full, buffer : App!Nothing .. Full, streaming : BOOLEAN]

Showing == [state : {"idle", "running", "cancelling"}, progress : 0 .. Full]

ShellTypes ==
    runs \in Seq(AppRun) /\ runningOp \in Nat /\ operation \in Showing

\* What is displayed, edited and saved came from a file or a run, if from anywhere.
FromSomewhere == {displayed, session, autosaved} \subseteq App!Documents

\* While the overlay is up there is a run for it to be of.
ShellInv ==
    /\ ShellTypes /\ FromSomewhere
    /\ App!OverlayIsTheRuns /\ App!CancelReachesTheRun /\ App!SessionIsDisplayed
    /\ runningOp # App!NoRun => runningOp \in DOMAIN runs

LEMMA InitShell == App!Init => ShellInv
<1> SUFFICES ASSUME App!Init PROVE ShellInv
  OBVIOUS
<1>1. Full \in Nat \ {0}
  BY ShellAssumption DEF App!AppAssumption
<1>2. ShellTypes
  BY <1>1 DEF App!Init, ShellTypes, Showing, App!Idle, App!NoRun
<1>3. FromSomewhere
  BY DEF App!Init, FromSomewhere, App!Documents
<1>4. DOMAIN runs = {}
  BY DEF App!Init
<1> QED BY <1>2, <1>3, <1>4 DEF App!Init, ShellInv, App!OverlayIsTheRuns, App!CancelReachesTheRun,
                             App!SessionIsDisplayed, App!Idle, App!NoRun

\* A document that a run was the source of stays one.
LEMMA ShellDocuments ==
    ASSUME FromSomewhere, DOMAIN runs \subseteq DOMAIN runs',
           {displayed', session', autosaved'} \subseteq
                {displayed, session, autosaved} \cup {App!ResultOf(r) : r \in DOMAIN runs}
    PROVE  FromSomewhere'
<1>1. App!Documents \subseteq App!Documents'
  BY DEF App!Documents
<1>2. {App!ResultOf(r) : r \in DOMAIN runs} \subseteq App!Documents
  BY DEF App!Documents
<1> QED BY <1>1, <1>2 DEF FromSomewhere

\* A run may be asked and may end; neither is taken back.
GoesOn(r, q) ==
    /\ q \in AppRun /\ q.awaited = runs[r].awaited
    /\ runs[r].asked => q.asked
    /\ runs[r].engine \in {"completed", "cancelled", "failed"} => q.engine = runs[r].engine

LEMMA ShellRunGoesOn ==
    ASSUME ShellInv, NEW r \in DOMAIN runs, NEW q, GoesOn(r, q), runs' = [runs EXCEPT ![r] = q],
           UNCHANGED <<displayed, session, runningOp, autosaved>>, operation'.state = operation.state,
           operation' \in Showing
    PROVE  ShellInv'
<1>1. ShellTypes' /\ DOMAIN runs' = DOMAIN runs
  BY DEF ShellInv, ShellTypes, GoesOn
<1>2. runs'[r] = q /\ \A s \in DOMAIN runs : s # r => runs'[s] = runs[s]
  BY DEF ShellInv, ShellTypes
<1>3. \A s \in DOMAIN runs : /\ runs'[s].awaited = runs[s].awaited
                             /\ runs[s].asked => runs'[s].asked
                             /\ App!Over(s) => App!Over(s)'
  BY <1>2 DEF GoesOn, App!Over
<1>4. App!OverlayIsTheRuns'
  BY <1>1, <1>3 DEF ShellInv, App!OverlayIsTheRuns
<1>5. App!CancelReachesTheRun'
  BY <1>3 DEF ShellInv, App!OverlayIsTheRuns, App!CancelReachesTheRun
<1>6. FromSomewhere'
  BY <1>1, ShellDocuments DEF ShellInv
<1> QED BY <1>1, <1>4, <1>5, <1>6 DEF ShellInv, App!SessionIsDisplayed

LEMMA ShellRemesh == ASSUME ShellInv, App!runRemesh PROVE ShellInv'
<1>1. /\ runs' = Append(runs, App!NewRun) /\ runningOp' = Len(runs) + 1 /\ runningOp = App!NoRun
      /\ operation' = [state |-> "running", progress |-> 0] /\ UNCHANGED <<displayed, session, autosaved>>
  BY DEF App!runRemesh, ShellInv, ShellTypes, App!OverlayIsTheRuns, App!NewRun, AppRun, EngineStates
<1>2. App!NewRun \in AppRun /\ App!NewRun.awaited /\ operation' \in Showing
  BY <1>1, ShellAssumption DEF App!NewRun, AppRun, EngineStates, App!Nothing, App!AppAssumption, Showing
<1>3. /\ ShellTypes' /\ DOMAIN runs' = 1 .. Len(runs) + 1 /\ runs'[Len(runs) + 1] = App!NewRun
      /\ \A s \in DOMAIN runs : runs'[s] = runs[s]
  BY <1>1, <1>2 DEF ShellInv, ShellTypes
<1>4. \A s \in DOMAIN runs : ~runs[s].awaited /\ s # Len(runs) + 1
  BY <1>1 DEF ShellInv, ShellTypes, App!OverlayIsTheRuns, App!NoRun
<1>5. \A s \in DOMAIN runs' : s = Len(runs) + 1 \/ s \in DOMAIN runs
  BY <1>3 DEF ShellInv, ShellTypes
<1>6. App!OverlayIsTheRuns'
  <2>1. \A s \in DOMAIN runs' : runs'[s].awaited <=> s = Len(runs) + 1
    BY <1>2, <1>3, <1>4, <1>5
  <2>2. Len(runs) + 1 # App!NoRun
    BY DEF ShellInv, ShellTypes, App!NoRun
  <2> QED BY <1>1, <2>1, <2>2 DEF App!OverlayIsTheRuns
<1>7. App!CancelReachesTheRun' /\ App!SessionIsDisplayed'
  BY <1>1 DEF ShellInv, App!CancelReachesTheRun, App!SessionIsDisplayed
<1>8. runningOp' \in DOMAIN runs'
  BY <1>1, <1>3 DEF ShellInv, ShellTypes
<1>9. FromSomewhere'
  BY <1>1, <1>3, ShellDocuments DEF ShellInv, ShellTypes
<1> QED BY <1>3, <1>6, <1>7, <1>8, <1>9 DEF ShellInv

LEMMA ShellCancel == ASSUME ShellInv, App!cancelOperation PROVE ShellInv'
<1> DEFINE r == runningOp
<1>1. r \in DOMAIN runs /\ runs[r] \in AppRun
  BY DEF App!cancelOperation, ShellInv, ShellTypes, App!OverlayIsTheRuns
<1>2. PICK q \in AppRun : /\ q = [runs[r] EXCEPT !.asked = @ \/ ~App!Over(r), !.streaming = FALSE]
                       /\ runs' = [runs EXCEPT ![r] = q]
  BY <1>1 DEF App!cancelOperation, App!Asked, AppRun, App!Over
<1>3. /\ q.awaited = runs[r].awaited /\ q.engine = runs[r].engine
      /\ q.asked = (runs[r].asked \/ ~App!Over(r))
  BY <1>1, <1>2 DEF AppRun
<1>4. ShellTypes' /\ DOMAIN runs' = DOMAIN runs
  BY <1>1, <1>2 DEF App!cancelOperation, ShellInv, ShellTypes, Showing
<1>5. /\ runs'[r] = q /\ \A s \in DOMAIN runs : s # r => runs'[s] = runs[s]
      /\ UNCHANGED <<runningOp, displayed, session, autosaved>>
      /\ operation.state # "idle" /\ operation'.state # "idle"
  BY <1>1, <1>2 DEF App!cancelOperation, ShellInv, ShellTypes, Showing
<1>6. App!OverlayIsTheRuns'
  BY <1>3, <1>4, <1>5 DEF ShellInv, App!OverlayIsTheRuns
<1>7. App!CancelReachesTheRun'
  BY <1>3, <1>5 DEF App!CancelReachesTheRun, App!Over
<1>8. FromSomewhere'
  BY <1>4, <1>5, ShellDocuments DEF ShellInv
<1> QED BY <1>4, <1>5, <1>6, <1>7, <1>8 DEF ShellInv, App!SessionIsDisplayed

LEMMA ShellResume == ASSUME ShellInv, NEW r \in DOMAIN runs, App!Resumes(r) PROVE ShellInv'
<1>1. runs[r].awaited /\ runs[r] \in AppRun /\ r = runningOp
  BY DEF App!Resumes, ShellInv, ShellTypes, App!OverlayIsTheRuns
<1>2. /\ runningOp' = App!NoRun /\ operation' = App!Idle
      /\ displayed' = session' /\ displayed' \in {displayed, App!ResultOf(r)} /\ UNCHANGED autosaved
  BY DEF App!Resumes, App!commit, App!rollback, App!documentVars, ShellInv, App!SessionIsDisplayed
<1>3. PICK q \in AppRun : /\ q = [runs[r] EXCEPT !.awaited = FALSE]
                       /\ runs' = [runs EXCEPT ![r] = q]
  BY <1>1 DEF App!Resumes, App!Resumed, AppRun
<1>4. ~q.awaited
  BY <1>1, <1>3 DEF AppRun
<1>5. /\ ShellTypes' /\ DOMAIN runs' = DOMAIN runs /\ runs'[r] = q
      /\ \A s \in DOMAIN runs : s # r => runs'[s] = runs[s]
  BY <1>2, <1>3, ShellAssumption DEF ShellInv, ShellTypes, Showing, App!Idle, App!NoRun, App!AppAssumption
<1>6. \A s \in DOMAIN runs' : ~runs'[s].awaited /\ s # App!NoRun
  BY <1>1, <1>4, <1>5 DEF ShellInv, ShellTypes, App!OverlayIsTheRuns, App!NoRun
<1>7. App!OverlayIsTheRuns' /\ App!CancelReachesTheRun'
  BY <1>2, <1>6 DEF App!OverlayIsTheRuns, App!CancelReachesTheRun, App!Idle
<1>8. FromSomewhere'
  BY <1>2, <1>5, ShellDocuments DEF ShellInv
<1> QED BY <1>2, <1>5, <1>7, <1>8 DEF ShellInv, App!SessionIsDisplayed

LEMMA ShellEngine ==
    ASSUME ShellInv, NEW r \in DOMAIN runs,
           App!Starts(r) \/ App!Reports(r) \/ App!Concludes(r) \/ App!Returns(r) \/ App!updateProgress(r)
    PROVE  ShellInv'
<1>0. runs[r] \in AppRun
  BY DEF ShellInv, ShellTypes
<1>1. /\ UNCHANGED <<displayed, session, runningOp, autosaved>>
      /\ operation'.state = operation.state /\ operation' \in Showing
  <2>1. CASE App!updateProgress(r)
    <3>1. runs[r].held \in 0 .. Full /\ operation \in Showing
      BY <1>0, <2>1 DEF App!updateProgress, App!Nothing, AppRun, ShellInv, ShellTypes
    <3> QED BY <2>1, <3>1 DEF App!updateProgress, Showing
  <2>2. CASE App!Starts(r) \/ App!Reports(r) \/ App!Concludes(r) \/ App!Returns(r)
    BY <2>2 DEF App!Starts, App!Reports, App!Concludes, App!Returns, ShellInv, ShellTypes
  <2> QED BY <2>1, <2>2
<1>2. \E q : GoesOn(r, q) /\ runs' = [runs EXCEPT ![r] = q]
  <2>1. CASE App!Starts(r)
    <3> DEFINE q == [runs[r] EXCEPT !.engine = "running"]
    <3>1. GoesOn(r, q) /\ runs' = [runs EXCEPT ![r] = q]
      BY <1>0, <2>1 DEF App!Starts, GoesOn, AppRun, EngineStates
    <3> QED BY <3>1
  <2>2. CASE App!Reports(r)
    <3> DEFINE v == runs[r].progress + 1
               w == runs[r].held = App!Nothing
               q == [runs[r] EXCEPT !.progress = v,
                                    !.held = IF w /\ runs[r].streaming THEN v ELSE @,
                                    !.buffer = IF ~w /\ runs[r].streaming THEN v ELSE @]
    <3>1. runs' = [runs EXCEPT ![r] = q]
      BY <1>0, <2>2 DEF App!Reports, AppRun
    <3>2. v \in 0 .. Full /\ v \in App!Nothing .. Full
      BY <1>0, <2>2, ShellAssumption DEF AppRun, App!Reports, App!Nothing, App!AppAssumption
    <3>3. q \in AppRun /\ q.awaited = runs[r].awaited /\ q.asked = runs[r].asked /\ q.engine = runs[r].engine
      <4> HIDE DEF v, w
      <4> QED BY <1>0, <3>2 DEF AppRun
    <3> HIDE DEF q
    <3> QED BY <3>1, <3>3 DEF GoesOn
  <2>3. CASE App!Concludes(r)
    <3> DEFINE q == [runs[r] EXCEPT !.engine = "concluding"]
    <3>1. GoesOn(r, q) /\ runs' = [runs EXCEPT ![r] = q]
      BY <1>0, <2>3 DEF App!Concludes, GoesOn, AppRun, EngineStates
    <3> QED BY <3>1
  <2>4. CASE App!Returns(r)
    <3>1. PICK result \in {"completed", "cancelled", "failed"} :
             /\ runs[r].engine \in {"running", "concluding"}
             /\ runs' = [runs EXCEPT ![r].engine = result, ![r].streaming = FALSE]
      BY <2>4 DEF App!Returns
    <3> DEFINE q == [runs[r] EXCEPT !.engine = result, !.streaming = FALSE]
    <3>2. GoesOn(r, q) /\ runs' = [runs EXCEPT ![r] = q]
      BY <1>0, <3>1 DEF GoesOn, AppRun, EngineStates
    <3> QED BY <3>2
  <2>5. CASE App!updateProgress(r)
    <3> DEFINE q == [runs[r] EXCEPT !.held = runs[r].buffer, !.buffer = App!Nothing]
    <3>1. runs' = [runs EXCEPT ![r] = q]
      BY <1>0, <2>5 DEF App!updateProgress, AppRun
    <3>2. App!Nothing \in App!Nothing .. Full
      BY ShellAssumption DEF App!Nothing, App!AppAssumption
    <3>3. q \in AppRun /\ q.awaited = runs[r].awaited /\ q.asked = runs[r].asked /\ q.engine = runs[r].engine
      BY <1>0, <3>2 DEF AppRun
    <3> HIDE DEF q
    <3> QED BY <3>1, <3>3 DEF GoesOn
  <2> QED BY <2>1, <2>2, <2>3, <2>4, <2>5
<1> QED BY <1>1, <1>2, ShellRunGoesOn

LEMMA ShellStep == ASSUME ShellInv, [App!Next]_(App!vars) PROVE ShellInv'
<1>1. ASSUME NEW f \in Files, App!open(f) PROVE ShellInv'
  <2>1. FromSomewhere'
    <3>1. displayed' = App!File(f) /\ session' = App!File(f) /\ UNCHANGED <<autosaved, runs>>
      BY <1>1 DEF App!open
    <3>2. App!Documents' = App!Documents /\ App!File(f) \in App!Documents
      BY <3>1 DEF App!Documents
    <3> QED BY <3>1, <3>2 DEF ShellInv, FromSomewhere
  <2> QED
    BY <1>1, <2>1 DEF App!open, ShellInv, ShellTypes, App!OverlayIsTheRuns, App!CancelReachesTheRun,
                      App!Over, App!SessionIsDisplayed
<1>2. CASE App!autosaveOnResignActive \/ UNCHANGED App!vars
  <2>1. UNCHANGED <<displayed, session, operation, runningOp, runs>> /\ autosaved' \in {autosaved, session}
    BY <1>2 DEF App!autosaveOnResignActive, App!vars
  <2>2. FromSomewhere'
    BY <2>1, ShellDocuments DEF ShellInv
  <2> QED
    BY <2>1, <2>2 DEF ShellInv, ShellTypes, App!OverlayIsTheRuns, App!CancelReachesTheRun, App!Over,
                      App!SessionIsDisplayed
<1> QED
  BY <1>1, <1>2, ShellRemesh, ShellCancel, ShellEngine, ShellResume DEF App!Next, App!RunMoves

LEMMA ShellMeans == ASSUME ShellInv PROVE App!ShellSound
<1>1. App!TypeOK
  <2>1. runs \in Seq(AppRun) /\ DOMAIN runs = 1 .. Len(runs) /\ Len(runs) \in Nat
    BY DEF ShellInv, ShellTypes
  <2>2. \A r \in DOMAIN runs : runs[r] \in AppRun
    BY <2>1
  <2>3. runningOp \in {App!NoRun} \cup DOMAIN runs
    BY DEF ShellInv
  <2> QED BY <2>2, <2>3 DEF ShellInv, ShellTypes, FromSomewhere, Showing, AppRun, EngineStates, App!TypeOK
<1> QED BY <1>1 DEF ShellInv, App!ShellSound

\* However runs, requests, files and continuations fall: the overlay is up exactly
\* while one run is awaited, and is that run's; a run shown as cancelling was asked
\* in time or is over; the session is the one over the displayed mesh, and no progress
\* is shown but what a run may have: AppModel.swift on the main actor.
THEOREM ShellHolds == MCSpec => []ShellSound
<1> DEFINE Inv == part = "app" => ShellInv
<1>1. MCInit => Inv
  BY InitShell DEF MCInit
<1>2. Inv /\ [JobMoves \/ AppMoves]_<<part, vars, appVars>> => Inv'
  <2> SUFFICES ASSUME Inv, [JobMoves \/ AppMoves]_<<part, vars, appVars>>, part' = "app"
               PROVE  ShellInv'
    OBVIOUS
  <2>1. CASE AppMoves
    BY <2>1, ShellStep DEF AppMoves
  <2>2. CASE JobMoves
    BY <2>2 DEF JobMoves
  <2>3. CASE UNCHANGED <<part, vars, appVars>>
    BY <2>3, ShellStep DEF appVars, App!vars
  <2> QED BY <2>1, <2>2, <2>3
<1>3. Inv => ShellSound
  BY ShellMeans DEF ShellSound
<1> QED BY <1>1, <1>2, <1>3, PTL DEF MCSpec
=============================================================================
