----------------------------- MODULE ParallelPass -----------------------------
(***************************************************************************)
(* One parallel pass of the engine: the ray-traced shading of a bake       *)
(* (shadeRayTraced in src/src/bake/src/bake.cpp) over the worker fan-out    *)
(* every parallel loop shares (forEachChunk in parallel_chunks.hpp, behind *)
(* IBackend::parallelFor), with the progress sink and the cancel token its *)
(* workers share (progress.hpp, TexelProgress).                            *)
(*                                                                         *)
(* A chunk is named by its first item.  It runs on a thread of its own, or *)
(* on the caller when no thread could be created for it.                   *)
(*                                                                         *)
(* Abstracted: what shading computes is the item itself; kMinParallelItems *)
(* and the worker budget are the choice of `workers`; a nested parallelFor *)
(* runs inline and is part of shading.  Locking a mutex does not fail.     *)
(***************************************************************************)
EXTENDS Integers, FiniteSets, Sequences

CONSTANTS
    N,            \* the items (texels) are 0 .. N - 1
    MaxWorkers,   \* the largest worker count
    PixelOf,      \* the pixel each item ends up in: texels may overlap
    CancelStride, \* a chunk polls the token every so many items
    ReportStride, \* progress is reported every so many items
    MaxThrows     \* bound on items whose shading throws

PassAssumption ==
    /\ N \in Nat \ {0} /\ MaxWorkers \in Nat \ {0}
    /\ CancelStride \in Nat \ {0} /\ ReportStride \in Nat \ {0}
    /\ MaxThrows \in Nat

Item == 0 .. N - 1
Pixel == {PixelOf[i] : i \in Item}
None == -1

VARIABLES
    workers, chunk,       \* the fan-out and the length of a chunk
    caller, next,         \* the calling thread, and the first item not handed out
    hi, pos, state,       \* per chunk: its end, its current item, where it stands
    mine,                 \* per chunk: what its fetch_add of m_done returned
    firstError,           \* the exception kept for the caller: the item it came from
    scratch,              \* the scratch vector: per item, how often it was shaded
    done, mutex, best, seen,  \* TexelProgress, the sink, and what the host was told
    token, cancelled,     \* the token's flag, and the pass's own
    throws, image,
    late, hopeless        \* history: per chunk, items begun since the request; and
                          \* the chunks that began after it

chunkVars == <<hi, pos, state, mine>>
progressVars == <<done, mutex, best, seen>>
cancelVars == <<token, cancelled, late, hopeless>>
vars == <<workers, chunk, caller, next, chunkVars, firstError, scratch,
          progressVars, cancelVars, throws, image>>

Least(a, b) == IF a <= b THEN a ELSE b
CeilDiv(a, b) == (a + b - 1) \div b

Init ==
    /\ workers \in 1 .. MaxWorkers /\ chunk = CeilDiv(N, workers)
    /\ caller = "fanout" /\ next = 0
    /\ hi = [i \in Item |-> 0] /\ pos = [i \in Item |-> i]
    /\ state = [i \in Item |-> "none"] /\ mine = [i \in Item |-> 0]
    /\ firstError = None
    /\ scratch = [i \in Item |-> 0]
    /\ done = 0 /\ mutex = None /\ best = 0 /\ seen = <<>>
    /\ token = FALSE /\ cancelled = FALSE
    /\ late = [i \in Item |-> 0] /\ hopeless = {}
    /\ throws = 0 /\ image = [p \in Pixel |-> None]

-----------------------------------------------------------------------------
(* The caller: forEachChunk *)

\* The chunk that starts at next begins, on whichever thread.
Hand ==
    /\ hi' = [hi EXCEPT ![next] = Least(N, next + chunk)]
    /\ state' = [state EXCEPT ![next] = "item"]
    /\ hopeless' = IF token THEN hopeless \cup {next} ELSE hopeless

CallerOnly == UNCHANGED <<workers, chunk, pos, mine, firstError, scratch, progressVars,
                          token, cancelled, late, throws, image>>

\* A thread takes the chunk.
Spawn ==
    /\ caller = "fanout" /\ workers > 1 /\ next < N
    /\ Hand
    /\ next' = next + chunk
    /\ UNCHANGED caller /\ CallerOnly

\* No thread could be created, for this chunk or for any: the rest runs here.
SpawnFails ==
    /\ caller = "fanout" /\ workers > 1 /\ next < N
    /\ caller' = "inline"
    /\ UNCHANGED <<next, hi, state, hopeless>> /\ CallerOnly

\* All handed out; or one worker, whose only chunk is the whole range.
FanOutEnds ==
    /\ caller = "fanout" /\ (workers = 1 \/ next >= N)
    /\ caller' = IF workers = 1 THEN "inline" ELSE "join"
    /\ UNCHANGED <<next, hi, state, hopeless>> /\ CallerOnly

RunInline ==
    /\ caller = "inline" /\ next < N /\ state[next] = "none"
    /\ Hand
    /\ UNCHANGED <<caller, next>> /\ CallerOnly

InlineEnded ==
    /\ caller = "inline"
    /\ \/ next >= N /\ caller' = "join" /\ UNCHANGED next
       \/ /\ next < N /\ state[next] = "ended"
          /\ next' = next + chunk /\ UNCHANGED caller
    /\ UNCHANGED <<hi, state, hopeless>> /\ CallerOnly

Chunks == {i \in Item : state[i] # "none"}

\* Mutant: the caller goes on while its threads still run.
JoinNone ==
    /\ caller = "join"
    /\ caller' = IF firstError # None THEN "threw" ELSE "joined"
    /\ UNCHANGED <<next, hi, state, hopeless>> /\ CallerOnly

\* Every thread is joined; then the first exception is rethrown.
Join ==
    /\ caller = "join"
    /\ \A i \in Chunks : state[i] = "ended"
    /\ caller' = IF firstError # None THEN "threw" ELSE "joined"
    /\ UNCHANGED <<next, hi, state, hopeless>> /\ CallerOnly

\* The item a serial bake leaves in a pixel: the last one that maps to it.
LastIn(p) == CHOOSE i \in Item : PixelOf[i] = p /\ \A j \in Item : PixelOf[j] = p => j <= i

\* shadeRayTraced after its parallelFor: the scratch vector reaches the image in
\* item order, unless a chunk saw the cancel request.
Finish ==
    /\ caller = "joined"
    /\ IF cancelled THEN caller' = "cancelled" /\ UNCHANGED image
       ELSE caller' = "finished" /\ image' = [p \in Pixel |-> LastIn(p)]
    /\ UNCHANGED <<workers, chunk, next, chunkVars, firstError, scratch, progressVars,
                   cancelVars, throws>>

-----------------------------------------------------------------------------
(* A chunk: the loop of shadeRayTraced's body *)

ChunkOnly == UNCHANGED <<workers, chunk, caller, next, hi, image>>

\* Mutant: the poll counts items from the start of the range.
PollsByItem(c) == pos[c] % CancelStride = 0

Polls(c) == (pos[c] - c) % CancelStride = 0

SeesCancel(c) ==
    /\ state[c] = "item" /\ pos[c] < hi[c]
    /\ Polls(c) /\ token
    /\ cancelled' = TRUE
    /\ state' = [state EXCEPT ![c] = "ended"]
    /\ ChunkOnly
    /\ UNCHANGED <<pos, mine, firstError, scratch, progressVars, token, late, hopeless, throws>>

Shade(c) ==
    /\ state[c] = "item" /\ pos[c] < hi[c]
    /\ ~(Polls(c) /\ token)
    /\ scratch' = [scratch EXCEPT ![pos[c]] = @ + 1]
    /\ state' = [state EXCEPT ![c] = "count"]
    /\ late' = IF token THEN [late EXCEPT ![c] = @ + 1] ELSE late
    /\ ChunkOnly
    /\ UNCHANGED <<pos, mine, firstError, progressVars, token, cancelled, hopeless, throws>>

\* The body throws: runChunk keeps the first exception and the chunk is over.
Throws(c) ==
    /\ state[c] = "item" /\ pos[c] < hi[c]
    /\ ~(Polls(c) /\ token)
    /\ throws < MaxThrows /\ throws' = throws + 1
    /\ firstError' = IF firstError = None THEN pos[c] ELSE firstError
    /\ state' = [state EXCEPT ![c] = "ended"]
    /\ ChunkOnly
    /\ UNCHANGED <<pos, mine, scratch, progressVars, cancelVars>>

\* Mutant: the last item is not reported for being the last.
DueByStride(n) == n % ReportStride = 0

Due(n) == n % ReportStride = 0 \/ n = N

NextItem(c) ==
    /\ pos' = [pos EXCEPT ![c] = @ + 1]
    /\ state' = [state EXCEPT ![c] = "item"]

\* TexelProgress::step(): the count is taken outside the mutex.
Count(c) ==
    /\ state[c] = "count"
    /\ done' = done + 1 /\ mine' = [mine EXCEPT ![c] = done + 1]
    /\ IF Due(done + 1) THEN state' = [state EXCEPT ![c] = "lock"] /\ UNCHANGED pos
       ELSE NextItem(c)
    /\ ChunkOnly
    /\ UNCHANGED <<firstError, scratch, mutex, best, seen, cancelVars, throws>>

\* Mutant: progress is reported without the mutex.
LockFree(c) ==
    /\ state[c] = "lock"
    /\ mutex' = None
    /\ state' = [state EXCEPT ![c] = "raise"]
    /\ ChunkOnly
    /\ UNCHANGED <<pos, mine, firstError, scratch, done, best, seen, cancelVars, throws>>

Lock(c) ==
    /\ state[c] = "lock" /\ mutex = None
    /\ mutex' = c
    /\ state' = [state EXCEPT ![c] = "raise"]
    /\ ChunkOnly
    /\ UNCHANGED <<pos, mine, firstError, scratch, done, best, seen, cancelVars, throws>>

\* Mutant: the early return of a value that is too low keeps the mutex.
RaiseKeepsMutex(c) ==
    /\ state[c] = "raise"
    /\ IF mine[c] >= best
       THEN /\ best' = mine[c] /\ state' = [state EXCEPT ![c] = "load"]
            /\ UNCHANGED <<pos, mutex>>
       ELSE NextItem(c) /\ UNCHANGED <<best, mutex>>
    /\ ChunkOnly
    /\ UNCHANGED <<mine, firstError, scratch, done, seen, cancelVars, throws>>

\* ProgressSink::report(): the exchange loop raises best to the value, or finds
\* it higher already and says nothing.
Raise(c) ==
    /\ state[c] = "raise"
    /\ IF mine[c] >= best
       THEN /\ best' = mine[c] /\ state' = [state EXCEPT ![c] = "load"]
            /\ UNCHANGED <<pos, mutex>>
       ELSE /\ NextItem(c) /\ mutex' = None
            /\ UNCHANGED best
    /\ ChunkOnly
    /\ UNCHANGED <<mine, firstError, scratch, done, seen, cancelVars, throws>>

\* ... and then loads best again for the callback.
Load(c) ==
    /\ state[c] = "load"
    /\ mine' = [mine EXCEPT ![c] = best]
    /\ state' = [state EXCEPT ![c] = "callback"]
    /\ ChunkOnly
    /\ UNCHANGED <<pos, firstError, scratch, done, mutex, best, seen, cancelVars, throws>>

Callback(c) ==
    /\ state[c] = "callback"
    /\ seen' = Append(seen, mine[c])
    /\ mutex' = None
    /\ NextItem(c)
    /\ ChunkOnly
    /\ UNCHANGED <<mine, firstError, scratch, done, best, cancelVars, throws>>

ChunkEnds(c) ==
    /\ state[c] = "item" /\ pos[c] >= hi[c]
    /\ state' = [state EXCEPT ![c] = "ended"]
    /\ ChunkOnly
    /\ UNCHANGED <<pos, mine, firstError, scratch, progressVars, cancelVars, throws>>

RunChunk(c) ==
    \/ SeesCancel(c) \/ Shade(c) \/ Throws(c) \/ Count(c)
    \/ Lock(c) \/ Raise(c) \/ Load(c) \/ Callback(c) \/ ChunkEnds(c)

\* Another thread, or the host in its progress callback, asks to cancel.
RequestCancel ==
    /\ ~token /\ token' = TRUE
    /\ UNCHANGED <<workers, chunk, caller, next, chunkVars, firstError, scratch,
                   progressVars, cancelled, late, hopeless, throws, image>>

Caller ==
    Spawn \/ SpawnFails \/ FanOutEnds \/ RunInline \/ InlineEnded \/ Join \/ Finish

Returned == caller \in {"finished", "cancelled", "threw"}

\* What the scheduler keeps going as long as some thread can: nobody need cancel.
Working == Caller \/ \E c \in Item : RunChunk(c)

Next == Working \/ RequestCancel

Spec == Init /\ [][Next]_vars

-----------------------------------------------------------------------------
(* Properties *)

TypeOK ==
    /\ workers \in 1 .. MaxWorkers /\ chunk \in 1 .. N
    /\ caller \in {"fanout", "inline", "join", "joined", "finished", "cancelled", "threw"}
    /\ next \in Nat
    /\ hi \in [Item -> 0 .. N] /\ pos \in [Item -> 0 .. N]
    /\ state \in [Item -> {"none", "item", "count", "lock", "raise", "load", "callback", "ended"}]
    /\ mine \in [Item -> Nat]
    /\ firstError \in Item \cup {None}
    /\ scratch \in [Item -> Nat]
    /\ done \in Nat /\ mutex \in Item \cup {None} /\ best \in Nat /\ seen \in Seq(Nat)
    /\ token \in BOOLEAN /\ cancelled \in BOOLEAN
    /\ late \in [Item -> Nat] /\ hopeless \in SUBSET Item
    /\ throws \in 0 .. MaxThrows
    /\ DOMAIN image = Pixel

\* However many threads could be created, no item is shaded twice, and a pass
\* that neither threw nor was cancelled has shaded them all.
EveryItemOnce ==
    /\ \A i \in Item : scratch[i] <= 1
    /\ caller = "finished" => \A i \in Item : scratch[i] = 1

\* No thread outlives the fan-out: once the caller is past its joins, on the
\* exception path too, every chunk is over.
NoThreadOutlives ==
    caller \in {"joined", "finished", "cancelled", "threw"} =>
        \A c \in Item : state[c] \in {"none", "ended"}

\* An exception in any chunk reaches the caller, and nothing else does: a pass
\* whose shading threw is never taken for finished or cancelled.
ErrorReachesCaller == Returned => (caller = "threw" <=> throws > 0)

\* The image is the one a serial bake makes, from items that were all shaded,
\* or it is untouched: no cancelled or failed pass leaves part of a map.
WholeImageOrNone ==
    \/ image = [p \in Pixel |-> None]
    \/ /\ caller = "finished" /\ throws = 0
       /\ \A p \in Pixel : image[p] = LastIn(p)
       /\ \A i \in Item : scratch[i] = 1

\* What forEachChunk promises its caller, whatever threads it is refused and
\* wherever the work throws or is cancelled: all of the work, or none of it seen.
PassIsWhole == EveryItemOnce /\ NoThreadOutlives /\ ErrorReachesCaller /\ WholeImageOrNone

\* "the merged progress value visible to the caller SHALL never decrease"
\* (the remeshing-pipeline spec), in whatever order the workers count.
ProgressNeverDecreases == \A i \in 1 .. Len(seen) - 1 : seen[i] <= seen[i + 1]

\* A pass that finished has told the host so: its last value is the whole.
ProgressReachesEnd == caller = "finished" => seen # <<>> /\ seen[Len(seen)] = N

\* After a cancel request a chunk begins fewer items than the poll stride, and a
\* chunk that was not yet running begins none, however short it is.
CancelIsPrompt ==
    /\ \A c \in Item : late[c] < CancelStride
    /\ \A c \in hopeless : pos[c] = c /\ scratch[c] = 0

\* How a pass ends is told and done at once, when it is whole and when it is not.
EndsPromptly == ProgressReachesEnd /\ CancelIsPrompt
=============================================================================
