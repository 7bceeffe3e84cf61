------------------------------ MODULE DeviceBvh ------------------------------
(***************************************************************************)
(* Closest-point and ray queries on a device that keeps the hierarchy of   *)
(* the last query resident: OpenClBackend (opencl_backend.cpp) and         *)
(* CudaBackend (cuda_backend.cu) under src/src/accel/src, the key of       *)
(* residency (bvh_residency.hpp) and where snapshots come from             *)
(* (Bvh::flatten in bvh.cpp).                                              *)
(*                                                                         *)
(* The queries come from worker threads.  A device operation may fail; the *)
(* query is then answered on the CPU.                                      *)
(*                                                                         *)
(* Abstracted: a snapshot is its number; the answer to a query is the set  *)
(* of snapshots whose data it was computed from.  Its arrays lie at one    *)
(* address, which the allocator hands out again once it is freed; their    *)
(* sizes are equal.  The query's own buffers are part of running it.       *)
(***************************************************************************)
EXTENDS Integers, FiniteSets

CONSTANTS
    Thread, Address,
    Part,          \* the device buffers a hierarchy is split into: 1 .. how many
    Atomic,        \* CUDA: the buffers are replaced together, when all are filled
    MaxSnapshots, MaxFailures

Free == "free"

DeviceAssumption ==
    /\ Free \notin Thread /\ Part \in Nat \ {0} /\ Atomic \in BOOLEAN
    /\ MaxSnapshots \in Nat /\ MaxFailures \in Nat

VARIABLES
    heap,              \* per address: the snapshot that lies there, or NoFlat
    snapshots,         \* how many have been made
    mutex,             \* who holds m_deviceMutex
    resident, key,     \* m_bvhResident and m_bvhKey
    parts,             \* per device buffer: the snapshot its content is of
    pc, flat, filled,  \* per thread: where it stands, its snapshot, buffers filled
    answer, failures

deviceVars == <<mutex, resident, key, parts>>
threadVars == <<pc, flat, filled, answer>>
vars == <<heap, snapshots, deviceVars, threadVars, failures>>

NoFlat == [id |-> 0, serial |-> 0, at |-> "nowhere"]

Init ==
    /\ heap = [a \in Address |-> NoFlat] /\ snapshots = 0
    /\ mutex = Free /\ resident = FALSE /\ key = NoFlat
    /\ parts = [p \in 1 .. Part |-> 0]
    /\ pc = [t \in Thread |-> "idle"] /\ flat = [t \in Thread |-> NoFlat]
    /\ filled = [t \in Thread |-> 0] /\ answer = [t \in Thread |-> {}]
    /\ failures = 0

-----------------------------------------------------------------------------
(* Snapshots *)

\* Bvh::flatten(): the serial is a process-wide counter.
Flatten(a) ==
    /\ heap[a] = NoFlat /\ snapshots < MaxSnapshots
    /\ snapshots' = snapshots + 1
    /\ heap' = [heap EXCEPT ![a] =
           [id |-> snapshots + 1, serial |-> snapshots + 1, at |-> a]]
    /\ UNCHANGED <<deviceVars, threadVars, failures>>

\* A snapshot that somebody put together without flatten(): serial 0.
HandBuild(a) ==
    /\ heap[a] = NoFlat /\ snapshots < MaxSnapshots
    /\ snapshots' = snapshots + 1
    /\ heap' = [heap EXCEPT ![a] = [id |-> snapshots + 1, serial |-> 0, at |-> a]]
    /\ UNCHANGED <<deviceVars, threadVars, failures>>

InUse(f) == \E t \in Thread : pc[t] \notin {"idle", "answered"} /\ flat[t] = f

FreeFlat(a) ==
    /\ heap[a] # NoFlat /\ ~InUse(heap[a])
    /\ heap' = [heap EXCEPT ![a] = NoFlat]
    /\ UNCHANGED <<snapshots, deviceVars, threadVars, failures>>

-----------------------------------------------------------------------------
(* A query of thread t *)

Go(t, where) == pc' = [pc EXCEPT ![t] = where]

Query(t) ==
    /\ pc[t] \in {"idle", "answered"}
    /\ \E a \in Address : heap[a] # NoFlat /\ flat' = [flat EXCEPT ![t] = heap[a]]
    /\ Go(t, "lock") /\ answer' = [answer EXCEPT ![t] = {}]
    /\ UNCHANGED <<heap, snapshots, deviceVars, filled, failures>>

\* Mutant: the query does not take the mutex.
LockNone(t) ==
    /\ pc[t] = "lock"
    /\ Go(t, "ensure")
    /\ UNCHANGED <<heap, snapshots, deviceVars, flat, filled, answer, failures>>

Lock(t) ==
    /\ pc[t] = "lock" /\ mutex = Free
    /\ mutex' = t /\ Go(t, "ensure")
    /\ UNCHANGED <<heap, snapshots, resident, key, parts, flat, filled, answer, failures>>

\* makeBvhResidencyKey(): serial and addresses, not the content.
Key(f) == [f EXCEPT !.id = 0]

NamesResident(f) == resident /\ f.serial # 0 /\ key = Key(f)

\* ensureBvhResident(), its beginning: only CUDA forgets what was resident here.
Ensure(t) ==
    /\ pc[t] = "ensure"
    /\ IF NamesResident(flat[t]) THEN Go(t, "run") /\ UNCHANGED resident
       ELSE Go(t, "fill") /\ resident' = (resident /\ ~Atomic)
    /\ filled' = [filled EXCEPT ![t] = 0]
    /\ UNCHANGED <<heap, snapshots, mutex, key, parts, flat, answer, failures>>

\* One more buffer is filled: OpenCL's goes straight into its place.
Fill(t) ==
    /\ pc[t] = "fill" /\ filled[t] < Part
    /\ filled' = [filled EXCEPT ![t] = @ + 1]
    /\ parts' = IF Atomic THEN parts ELSE [parts EXCEPT ![filled[t] + 1] = flat[t].id]
    /\ UNCHANGED <<heap, snapshots, mutex, resident, key, pc, flat, answer, failures>>

Filled(t) ==
    /\ pc[t] = "fill" /\ filled[t] = Part
    /\ parts' = [p \in 1 .. Part |-> flat[t].id]
    /\ key' = Key(flat[t]) /\ resident' = TRUE
    /\ Go(t, "run")
    /\ UNCHANGED <<heap, snapshots, mutex, flat, filled, answer, failures>>

\* The kernel runs on the buffers, and the lock guard goes.
Run(t) ==
    /\ pc[t] = "run"
    /\ answer' = [answer EXCEPT ![t] = {parts[p] : p \in 1 .. Part}]
    /\ mutex' = Free /\ Go(t, "answered")
    /\ UNCHANGED <<heap, snapshots, resident, key, parts, flat, filled, failures>>

\* Filling a buffer or running the kernel fails, and the lock guard goes: OpenCL's
\* with the exception, before the handler runs.
Fail(t) ==
    /\ pc[t] = "run" \/ (pc[t] = "fill" /\ filled[t] < Part)
    /\ failures < MaxFailures /\ failures' = failures + 1
    /\ mutex' = Free
    /\ Go(t, IF Atomic THEN "reference" ELSE "handler")
    /\ UNCHANGED <<heap, snapshots, resident, key, parts, flat, filled, answer>>

\* dropResidentBvh(), from OpenCL's handler.
Drop(t) ==
    /\ pc[t] = "handler" /\ mutex = Free
    /\ resident' = FALSE
    /\ Go(t, "reference")
    /\ UNCHANGED <<heap, snapshots, mutex, key, parts, flat, filled, answer, failures>>

\* IBackend's own traversal of the snapshot overwrites the whole output.
Reference(t) ==
    /\ pc[t] = "reference"
    /\ answer' = [answer EXCEPT ![t] = {flat[t].id}]
    /\ Go(t, "answered")
    /\ UNCHANGED <<heap, snapshots, deviceVars, flat, filled, failures>>

Next ==
    \/ \E a \in Address : Flatten(a) \/ HandBuild(a) \/ FreeFlat(a)
    \/ \E t \in Thread : \/ Query(t) \/ Lock(t) \/ Ensure(t) \/ Fill(t) \/ Filled(t)
                         \/ Run(t) \/ Fail(t) \/ Drop(t) \/ Reference(t)

Spec == Init /\ [][Next]_vars

-----------------------------------------------------------------------------
(* Properties *)

TypeOK ==
    /\ \A a \in Address : heap[a] = NoFlat \/ heap[a].at = a
    /\ snapshots \in 0 .. MaxSnapshots /\ failures \in 0 .. MaxFailures
    /\ mutex \in Thread \cup {Free} /\ resident \in BOOLEAN
    /\ parts \in [1 .. Part -> 0 .. MaxSnapshots]
    /\ pc \in [Thread -> {"idle", "lock", "ensure", "fill", "run", "handler", "reference",
                          "answered"}]
    /\ \A t \in Thread : flat[t].id \in 0 .. MaxSnapshots /\ answer[t] \subseteq 0 .. MaxSnapshots
    /\ filled \in [Thread -> 0 .. Part]

\* A query is answered from its own snapshot and from nothing else: not from one
\* that lay at the same address before, nor from the rest of an upload that
\* failed ("never crashing or producing partial results").
AnsweredFromOwnSnapshot ==
    \A t \in Thread : pc[t] = "answered" => answer[t] = {flat[t].id}

\* Whenever nobody holds the mutex, what the key names is what all the buffers
\* hold: a later query that matches the key may use them as they are.
KeyNamesBuffers ==
    mutex = Free /\ resident =>
        \A a \in Address : heap[a] # NoFlat /\ NamesResident(heap[a]) =>
            \A p \in 1 .. Part : parts[p] = heap[a].id
=============================================================================
