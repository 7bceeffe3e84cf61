------------------------------ MODULE EngineProofs ------------------------------
(***************************************************************************)
(* The theorems of the engine's parts.                                     *)
(*                                                                         *)
(* The parallel pass, for any number of items and workers, however few     *)
(* threads can be had and whatever throws: it shades no item twice and, if *)
(* it says it finished, all of them; no thread outlives it; an exception   *)
(* reaches the caller; the image is whole or untouched; progress never     *)
(* falls, and reaches its end; a cancel request stops it at the next poll. *)
(*                                                                         *)
(* The queries of a device that replaces its buffers together, for any     *)
(* threads, addresses, buffers and failures.                               *)
(*                                                                         *)
(* The framing, the bakes and the hierarchy have a proof module of their   *)
(* own (StreamProofs), and so have the pipeline, the charts, the bundles,  *)
(* the flows and the images (AssetProofs); here their theorems are carried *)
(* to the engine, whose instances they are about.                          *)
(***************************************************************************)
EXTENDS MCEngine, FiniteSetTheorems, TLAPS

Counting == {"count", "lock", "raise", "load", "callback"}
Begun(c) == state[c] # "none"
Has(c, i) == Begun(c) /\ c <= i /\ i < hi[c]

\* The first item of the chunk that is not shaded.
ShadedTo(c) == IF state[c] \in Counting THEN pos[c] + 1 ELSE pos[c]

\* The chunks are disjoint ranges below what has been handed out; the one the
\* caller runs itself begins there.
RangeInv ==
    /\ \A c \in Item : ~Begun(c) => pos[c] = c
    /\ \A c \in Item : Begun(c) => c < hi[c] /\ c <= pos[c] /\ pos[c] <= hi[c]
    /\ \A c \in Item : state[c] \in Counting => pos[c] < hi[c]
    /\ \A c \in Item : Begun(c) =>
          \/ hi[c] <= next
          \/ c = next /\ caller = "inline" /\ hi[c] = Least(N, next + chunk)
    /\ \A c, d \in Item : Begun(c) /\ Begun(d) /\ c < d => hi[c] <= d

\* They leave no gap.
CoverInv ==
    /\ \A i \in Item : i < next => \E c \in Item : Has(c, i)
    /\ caller \notin {"fanout", "inline"} => next >= N

\* An item is shaded once its chunk is past it, and not before.
ShadeInv ==
    /\ \A c, i \in Item : Has(c, i) => scratch[i] = IF i < ShadedTo(c) THEN 1 ELSE 0
    /\ \A i \in Item : (\A c \in Item : ~Has(c, i)) => scratch[i] = 0

\* Why a chunk is over, and what the caller made of it.
EndInv ==
    /\ \A c \in Item : state[c] = "ended" => pos[c] = hi[c] \/ cancelled \/ throws > 0
    /\ firstError # None <=> throws > 0
    /\ NoThreadOutlives
    /\ caller \in {"joined", "finished", "cancelled"} => firstError = None
    /\ caller = "threw" => firstError # None
    /\ caller = "finished" => ~cancelled

ImageInv ==
    \/ image = [p \in Pixel |-> None]
    \/ caller = "finished" /\ \A p \in Pixel : image[p] = LastIn(p)

\* One thread raises the best value at a time, and tells the host what it is.
ProgressInv ==
    /\ \A c \in Item : state[c] \in {"raise", "load", "callback"} <=> mutex = c
    /\ \A c \in Item : state[c] = "callback" => mine[c] = best
    /\ \A i \in 1 .. Len(seen) : seen[i] <= best
    /\ ProgressNeverDecreases

IndInv == TypeOK /\ RangeInv /\ CoverInv /\ ShadeInv /\ EndInv /\ ImageInv /\ ProgressInv

-----------------------------------------------------------------------------
\* A range cut for some workers is cut into chunks of one item at least.
LEMMA ChunkBounds ==
    ASSUME NEW n \in Nat \ {0}, NEW w \in Nat \ {0}
    PROVE  CeilDiv(n, w) \in 1 .. n
<1> DEFINE q == (n + w - 1) \div w
<1>1. q \in Int /\ w * q <= n + w - 1 /\ n + w - 1 < w * q + w
  OBVIOUS
<1>2. q >= 1
  <2>1. SUFFICES ASSUME q <= 0 PROVE FALSE
    BY <1>1
  <2>2. w * q <= 0
    BY <1>1, <2>1
  <2> QED BY <1>1, <2>2
<1>3. q <= n
  <2>1. SUFFICES ASSUME q >= n + 1 PROVE FALSE
    BY <1>1
  <2>2. w * q >= w * (n + 1)
    BY <1>1, <2>1
  <2>3. w * (n + 1) = w * n + w /\ w * n >= n
    OBVIOUS
  <2> QED BY <1>1, <2>2, <2>3
<1> QED BY <1>1, <1>2, <1>3 DEF CeilDiv

LEMMA InitIndInv == ASSUME PassAssumption, Init PROVE IndInv
<1> USE DEF PassAssumption, Init, Item
<1>1. TypeOK
  <2>1. chunk \in 1 .. N
    BY ChunkBounds, SMTT(40)
  <2>2. pos \in [Item -> 0 .. N] /\ hi \in [Item -> 0 .. N] /\ mine \in [Item -> Nat]
    OBVIOUS
  <2>3. scratch \in [Item -> Nat] /\ late \in [Item -> Nat]
    OBVIOUS
  <2>4. state \in [Item -> {"none", "item", "count", "lock", "raise", "load", "callback", "ended"}]
    OBVIOUS
  <2>5. seen \in Seq(Nat) /\ hopeless \in SUBSET Item
    OBVIOUS
  <2>6. token \in BOOLEAN /\ cancelled \in BOOLEAN /\ DOMAIN image = Pixel
    OBVIOUS
  <2>7. workers \in 1 .. MaxWorkers /\ next \in Nat /\ firstError \in Item \cup {None}
        /\ done \in Nat /\ mutex \in Item \cup {None} /\ best \in Nat /\ throws \in 0 .. MaxThrows
    OBVIOUS
  <2>8. caller \in {"fanout", "inline", "join", "joined", "finished", "cancelled", "threw"}
    OBVIOUS
  <2> QED BY <2>1, <2>2, <2>3, <2>4, <2>5, <2>6, <2>7, <2>8, Zenon DEF TypeOK
<1>2. RangeInv /\ CoverInv /\ ShadeInv
  BY DEF RangeInv, CoverInv, ShadeInv, Begun, Has, Counting
<1>3. EndInv /\ ImageInv
  BY DEF EndInv, ImageInv, NoThreadOutlives, None
<1>4. ProgressInv
  BY DEF ProgressInv, ProgressNeverDecreases, None
<1> QED BY <1>1, <1>2, <1>3, <1>4 DEF IndInv

-----------------------------------------------------------------------------
(* What the pieces of an action do to the chunks *)

States == {"none", "item", "count", "lock", "raise", "load", "callback", "ended"}

\* One chunk goes to another state.
LEMMA StateSet ==
    ASSUME TypeOK, NEW c \in Item, NEW s \in States, state' = [state EXCEPT ![c] = s]
    PROVE  /\ state' \in [Item -> States] /\ state'[c] = s
           /\ \A d \in Item : d # c => state'[d] = state[d]
BY DEF TypeOK, States

\* One chunk goes on to its next item.
LEMMA Advanced ==
    ASSUME PassAssumption, TypeOK, RangeInv, NEW c \in Item, state[c] \in Counting, NextItem(c)
    PROVE  /\ state' \in [Item -> States] /\ state'[c] = "item"
           /\ pos' \in [Item -> 0 .. N] /\ pos'[c] = pos[c] + 1
           /\ \A d \in Item : d # c => state'[d] = state[d] /\ pos'[d] = pos[d]
<1>1. /\ state' \in [Item -> States] /\ state'[c] = "item"
      /\ \A d \in Item : d # c => state'[d] = state[d]
  BY StateSet DEF NextItem, States
<1>2. pos[c] \in 0 .. N /\ hi[c] \in 0 .. N /\ pos[c] < hi[c]
  BY DEF TypeOK, RangeInv
<1>3. pos[c] + 1 \in 0 .. N
  BY <1>2 DEF PassAssumption
<1>4. pos' = [pos EXCEPT ![c] = pos[c] + 1]
  BY DEF NextItem
<1>5. pos' \in [Item -> 0 .. N] /\ pos'[c] = pos[c] + 1
      /\ \A d \in Item : d # c => pos'[d] = pos[d]
  BY <1>3, <1>4 DEF TypeOK
<1> QED BY <1>1, <1>5

\* The chunk that starts at next begins: it is not empty.
LEMMA Handed ==
    ASSUME PassAssumption, TypeOK, next < N, Hand
    PROVE  /\ next \in Item
           /\ state' \in [Item -> States] /\ state'[next] = "item"
           /\ hi' \in [Item -> 0 .. N] /\ hi'[next] = Least(N, next + chunk)
           /\ next < hi'[next]
           /\ \A d \in Item : d # next => state'[d] = state[d] /\ hi'[d] = hi[d]
           /\ hopeless' \in SUBSET Item
<1>1. next \in Item
  BY DEF TypeOK, Item, PassAssumption
<1>2. /\ state' \in [Item -> States] /\ state'[next] = "item"
      /\ \A d \in Item : d # next => state'[d] = state[d]
  BY <1>1, StateSet DEF Hand, States
<1>3. Least(N, next + chunk) \in 0 .. N /\ next < Least(N, next + chunk)
  BY DEF TypeOK, PassAssumption, Least
<1>4. /\ hi' \in [Item -> 0 .. N] /\ hi'[next] = Least(N, next + chunk)
      /\ \A d \in Item : d # next => hi'[d] = hi[d]
  BY <1>1, <1>3 DEF TypeOK, Hand
<1>5. hopeless' \in SUBSET Item
  BY <1>1 DEF TypeOK, Hand
<1> QED BY <1>1, <1>2, <1>3, <1>4, <1>5

\* An item is in one chunk.
LEMMA OneChunk ==
    ASSUME PassAssumption, TypeOK, RangeInv, NEW c \in Item, NEW d \in Item, NEW i \in Item,
           Has(c, i), Has(d, i)
    PROVE  c = d
<1>1. hi[c] \in Int /\ hi[d] \in Int
  BY DEF TypeOK, PassAssumption
<1>2. c \in Int /\ d \in Int /\ i \in Int
  BY DEF Item, PassAssumption
<1>3. c < d => hi[c] <= d
  BY DEF RangeInv, Has
<1>4. d < c => hi[d] <= c
  BY DEF RangeInv, Has
<1>5. c <= i /\ i < hi[c] /\ d <= i /\ i < hi[d]
  BY DEF Has
<1> QED BY <1>1, <1>2, <1>3, <1>4, <1>5

\* A chunk that goes on counting, or on to its next item, disturbs no range.
GoesOn(c) ==
    /\ state[c] \in Counting
    /\ \/ state'[c] = "item" /\ pos'[c] = pos[c] + 1
       \/ state'[c] \in Counting /\ pos'[c] = pos[c]
    /\ state' \in [Item -> States] /\ pos' \in [Item -> 0 .. N]
    /\ \A d \in Item : d # c => state'[d] = state[d] /\ pos'[d] = pos[d]

LEMMA OnKeepsRanges ==
    ASSUME PassAssumption, TypeOK, RangeInv, CoverInv, ShadeInv, NEW c \in Item, GoesOn(c),
           UNCHANGED <<chunk, caller, next, hi, scratch>>
    PROVE  RangeInv' /\ CoverInv' /\ ShadeInv'
<1>1. \A d \in Item : Begun(d)' <=> Begun(d)
  BY DEF GoesOn, Begun, Counting
<1>2. \A d, i \in Item : Has(d, i)' <=> Has(d, i)
  BY <1>1 DEF Has
<1>3. \A d \in Item : ShadedTo(d)' = ShadedTo(d)
  BY DEF GoesOn, ShadedTo, Counting
<1>4. pos[c] \in 0 .. N /\ hi[c] \in 0 .. N /\ pos[c] < hi[c] /\ c < hi[c] /\ c <= pos[c]
          /\ c \in Int
  BY DEF GoesOn, RangeInv, Begun, Counting, TypeOK, Item
<1>5. c <= pos'[c] /\ pos'[c] <= hi[c] /\ (state'[c] \in Counting => pos'[c] < hi[c])
  BY <1>4 DEF GoesOn, Counting, PassAssumption
<1>6. RangeInv'
  <2>1. \A d \in Item : ~Begun(d)' => pos'[d] = d
    BY <1>1 DEF RangeInv, GoesOn, Begun, Counting
  <2>2. \A d \in Item : Begun(d)' => d < hi[d] /\ d <= pos'[d] /\ pos'[d] <= hi[d]
    BY <1>1, <1>4, <1>5 DEF RangeInv, GoesOn
  <2>3. \A d \in Item : state'[d] \in Counting => pos'[d] < hi[d]
    BY <1>5 DEF RangeInv, GoesOn
  <2> QED BY <1>1, <2>1, <2>2, <2>3 DEF RangeInv
<1>7. CoverInv'
  BY <1>2 DEF CoverInv
<1>8. ShadeInv'
  BY <1>2, <1>3 DEF ShadeInv
<1> QED BY <1>6, <1>7, <1>8

-----------------------------------------------------------------------------
(* Every action keeps the invariant: first the caller's, then a chunk's *)

LEMMA SpawnKeeps == ASSUME PassAssumption, IndInv, Spawn PROVE IndInv'
<1> USE DEF IndInv, Spawn, CallerOnly, chunkVars, progressVars, cancelVars
<1>0. /\ next \in Item
      /\ state' \in [Item -> States] /\ state'[next] = "item"
      /\ hi' \in [Item -> 0 .. N] /\ hi'[next] = Least(N, next + chunk)
      /\ next < hi'[next]
      /\ \A d \in Item : d # next => state'[d] = state[d] /\ hi'[d] = hi[d]
      /\ hopeless' \in SUBSET Item
  BY Handed
<1>t. /\ N \in Nat /\ Item \subseteq Nat /\ \A i \in Item : i < N
      /\ hi \in [Item -> 0 .. N] /\ pos \in [Item -> 0 .. N] /\ next \in Nat /\ chunk \in Nat
  <2>1. N \in Nat /\ Item \subseteq Nat /\ \A i \in Item : i < N
    BY DEF PassAssumption, Item
  <2>2. hi \in [Item -> 0 .. N] /\ pos \in [Item -> 0 .. N] /\ next \in Nat /\ chunk \in 1 .. N
    BY DEF TypeOK
  <2> QED BY <2>1, <2>2
<1>a. ~Begun(next) /\ \A d \in Item : Begun(d) => hi[d] <= next
  <2>1. \A d \in Item : Begun(d) => hi[d] <= next
    BY <1>0, <1>t DEF RangeInv, Begun
  <2>2. ~Begun(next)
    <3>1. Begun(next) => hi[next] <= next /\ next < hi[next]
      BY <1>0, <2>1 DEF RangeInv
    <3> QED BY <3>1, <1>0, <1>t
  <2> QED BY <2>1, <2>2
<1>b. \A d \in Item : Begun(d)' <=> Begun(d) \/ d = next
  BY <1>0 DEF Begun
<1>c. \A d, i \in Item : Has(d, i)' <=> Has(d, i) \/ (d = next /\ next <= i /\ i < hi'[next])
  BY <1>0, <1>a, <1>b DEF Has
<1>p. pos[next] = next
  BY <1>0, <1>a DEF RangeInv
<1>1. TypeOK'
  <2>1. next' \in Nat
    BY <1>t
  <2> QED BY <1>0, <2>1 DEF TypeOK, States
<1>2. RangeInv'
  <2>1. \A d \in Item : ~Begun(d)' => pos[d] = d
    BY <1>b DEF RangeInv
  <2>2. ASSUME NEW d \in Item, Begun(d)' PROVE d < hi'[d] /\ d <= pos[d] /\ pos[d] <= hi'[d]
    <3>1. CASE d = next
      BY <1>0, <1>p, <1>t, <3>1
    <3>2. CASE d # next
      BY <1>0, <1>b, <2>2, <3>2 DEF RangeInv
    <3> QED BY <3>1, <3>2
  <2>3. \A d \in Item : state'[d] \in Counting => pos[d] < hi'[d]
    BY <1>0 DEF RangeInv, Counting
  <2>4. ASSUME NEW d \in Item, Begun(d)'
        PROVE  \/ hi'[d] <= next'
               \/ d = next' /\ caller' = "inline" /\ hi'[d] = Least(N, next' + chunk)
    <3>1. CASE d = next
      BY <1>0, <1>t, <3>1 DEF Least
    <3>2. CASE d # next
      BY <1>0, <1>a, <1>b, <1>t, <2>4, <3>2
    <3> QED BY <3>1, <3>2
  <2>5. ASSUME NEW d \in Item, NEW e \in Item, Begun(d)', Begun(e)', d < e PROVE hi'[d] <= e
    <3>1. d # next
      <4>1. ASSUME d = next PROVE FALSE
        <5>1. e # next /\ Begun(e)
          BY <1>b, <1>t, <2>5, <4>1
        <5>2. hi[e] <= next /\ e < hi[e]
          BY <1>a, <5>1 DEF RangeInv
        <5> QED BY <1>t, <2>5, <4>1, <5>2
      <4> QED BY <4>1
    <3>2. Begun(d) /\ hi'[d] = hi[d] /\ hi[d] <= next
      BY <1>0, <1>a, <1>b, <2>5, <3>1
    <3>3. CASE e = next
      BY <3>2, <3>3
    <3>4. CASE e # next
      BY <1>b, <2>5, <3>2, <3>4 DEF RangeInv
    <3> QED BY <3>3, <3>4
  <2> QED BY <2>1, <2>2, <2>3, <2>4, <2>5 DEF RangeInv
<1>3. CoverInv'
  <2>1. ASSUME NEW i \in Item, i < next' PROVE \E d \in Item : Has(d, i)'
    <3>1. CASE i < next
      BY <1>c, <3>1 DEF CoverInv
    <3>2. CASE next <= i
      <4>1. i < hi'[next]
        BY <1>0, <1>t, <2>1, <3>2 DEF Least
      <4> QED BY <1>0, <1>c, <3>2, <4>1
    <3> QED BY <3>1, <3>2, <1>t
  <2>2. caller' \notin {"fanout", "inline"} => next' >= N
    BY DEF CoverInv
  <2> QED BY <2>1, <2>2 DEF CoverInv
<1>4. ShadeInv'
  <2>1. ASSUME NEW d \in Item, NEW i \in Item, Has(d, i)'
        PROVE  scratch'[i] = IF i < ShadedTo(d)' THEN 1 ELSE 0
    <3>1. CASE d = next
      <4>1. next <= i
        BY <1>a, <1>c, <2>1, <3>1 DEF Has
      <4>2. ASSUME NEW e \in Item, Has(e, i) PROVE FALSE
        <5>1. hi[e] <= next /\ i < hi[e]
          BY <1>a, <4>2 DEF Has
        <5> QED BY <4>1, <5>1, <1>t
      <4>3. ShadedTo(d)' = d
        BY <1>0, <1>p, <3>1 DEF ShadedTo, Counting
      <4>4. scratch[i] = 0
        BY <4>2 DEF ShadeInv
      <4> QED BY <1>t, <4>1, <4>3, <4>4, <3>1
    <3>2. CASE d # next
      <4>1. Has(d, i)
        BY <1>c, <2>1, <3>2
      <4>2. ShadedTo(d)' = ShadedTo(d)
        BY <1>0, <3>2 DEF ShadedTo
      <4> QED BY <4>1, <4>2 DEF ShadeInv
    <3> QED BY <3>1, <3>2
  <2>2. ASSUME NEW i \in Item, \A d \in Item : ~Has(d, i)' PROVE scratch'[i] = 0
    BY <1>c, <2>2 DEF ShadeInv
  <2> QED BY <2>1, <2>2 DEF ShadeInv
<1>5. EndInv'
  BY <1>0 DEF EndInv, NoThreadOutlives
<1>6. ImageInv'
  BY DEF ImageInv
<1>7. ProgressInv'
  <2>1. \A d \in Item : state'[d] \in {"raise", "load", "callback"} <=> mutex = d
    BY <1>0, <1>a DEF ProgressInv, Begun
  <2>2. \A d \in Item : state'[d] = "callback" => mine[d] = best
    BY <1>0 DEF ProgressInv
  <2> QED BY <2>1, <2>2 DEF ProgressInv, ProgressNeverDecreases
<1> QED BY <1>1, <1>2, <1>3, <1>4, <1>5, <1>6, <1>7

LEMMA SpawnFailsKeeps == ASSUME PassAssumption, IndInv, SpawnFails PROVE IndInv'
<1> USE DEF IndInv, SpawnFails, CallerOnly, chunkVars, progressVars, cancelVars
<1>1. TypeOK'
  BY DEF PassAssumption, TypeOK, Item, Least, None, Polls, Due, RangeInv, Counting, Begun
<1>2. RangeInv'
  BY DEF TypeOK, RangeInv, Begun, Counting, Least
<1>3. CoverInv'
  BY DEF PassAssumption, TypeOK, Item, CoverInv, RangeInv, Has, Begun, Least
<1>4. ShadeInv'
  BY DEF TypeOK, ShadeInv, RangeInv, Has, Begun, ShadedTo, Counting
<1>5. EndInv'
  BY DEF PassAssumption, TypeOK, Item, EndInv, NoThreadOutlives, None
<1>6. ImageInv'
  BY DEF ImageInv
<1>7. ProgressInv'
  BY DEF PassAssumption, TypeOK, Item, ProgressInv, ProgressNeverDecreases, None
<1> QED BY <1>1, <1>2, <1>3, <1>4, <1>5, <1>6, <1>7

LEMMA FanOutEndsKeeps == ASSUME PassAssumption, IndInv, FanOutEnds PROVE IndInv'
<1> USE DEF IndInv, FanOutEnds, CallerOnly, chunkVars, progressVars, cancelVars
<1>1. TypeOK'
  BY DEF PassAssumption, TypeOK, Item, Least, None, Polls, Due, RangeInv, Counting, Begun
<1>2. RangeInv'
  BY DEF TypeOK, RangeInv, Begun, Counting, Least
<1>3. CoverInv'
  BY DEF PassAssumption, TypeOK, Item, CoverInv, RangeInv, Has, Begun, Least
<1>4. ShadeInv'
  BY DEF TypeOK, ShadeInv, RangeInv, Has, Begun, ShadedTo, Counting
<1>5. EndInv'
  BY DEF PassAssumption, TypeOK, Item, EndInv, NoThreadOutlives, None
<1>6. ImageInv'
  BY DEF ImageInv
<1>7. ProgressInv'
  BY DEF PassAssumption, TypeOK, Item, ProgressInv, ProgressNeverDecreases, None
<1> QED BY <1>1, <1>2, <1>3, <1>4, <1>5, <1>6, <1>7

LEMMA RunInlineKeeps == ASSUME PassAssumption, IndInv, RunInline PROVE IndInv'
<1> USE DEF IndInv, RunInline, CallerOnly, chunkVars, progressVars, cancelVars
<1>0. /\ next \in Item
      /\ state' \in [Item -> States] /\ state'[next] = "item"
      /\ hi' \in [Item -> 0 .. N] /\ hi'[next] = Least(N, next + chunk)
      /\ next < hi'[next]
      /\ \A d \in Item : d # next => state'[d] = state[d] /\ hi'[d] = hi[d]
      /\ hopeless' \in SUBSET Item
  BY Handed
<1>t. /\ N \in Nat /\ Item \subseteq Nat /\ \A i \in Item : i < N
      /\ hi \in [Item -> 0 .. N] /\ pos \in [Item -> 0 .. N] /\ next \in Nat /\ chunk \in Nat
  <2>1. N \in Nat /\ Item \subseteq Nat /\ \A i \in Item : i < N
    BY DEF PassAssumption, Item
  <2>2. hi \in [Item -> 0 .. N] /\ pos \in [Item -> 0 .. N] /\ next \in Nat /\ chunk \in 1 .. N
    BY DEF TypeOK
  <2> QED BY <2>1, <2>2
<1>a. ~Begun(next) /\ \A d \in Item : Begun(d) => hi[d] <= next
  <2>1. \A d \in Item : Begun(d) => hi[d] <= next
    BY <1>0, <1>t DEF RangeInv, Begun
  <2>2. ~Begun(next)
    <3>1. Begun(next) => hi[next] <= next /\ next < hi[next]
      BY <1>0, <2>1 DEF RangeInv
    <3> QED BY <3>1, <1>0, <1>t
  <2> QED BY <2>1, <2>2
<1>b. \A d \in Item : Begun(d)' <=> Begun(d) \/ d = next
  BY <1>0 DEF Begun
<1>c. \A d, i \in Item : Has(d, i)' <=> Has(d, i) \/ (d = next /\ next <= i /\ i < hi'[next])
  BY <1>0, <1>a, <1>b DEF Has
<1>p. pos[next] = next
  BY <1>0, <1>a DEF RangeInv
<1>1. TypeOK'
  <2>1. next' \in Nat
    BY <1>t
  <2> QED BY <1>0, <2>1 DEF TypeOK, States
<1>2. RangeInv'
  <2>1. \A d \in Item : ~Begun(d)' => pos[d] = d
    BY <1>b DEF RangeInv
  <2>2. ASSUME NEW d \in Item, Begun(d)' PROVE d < hi'[d] /\ d <= pos[d] /\ pos[d] <= hi'[d]
    <3>1. CASE d = next
      BY <1>0, <1>p, <1>t, <3>1
    <3>2. CASE d # next
      BY <1>0, <1>b, <2>2, <3>2 DEF RangeInv
    <3> QED BY <3>1, <3>2
  <2>3. \A d \in Item : state'[d] \in Counting => pos[d] < hi'[d]
    BY <1>0 DEF RangeInv, Counting
  <2>4. ASSUME NEW d \in Item, Begun(d)'
        PROVE  \/ hi'[d] <= next'
               \/ d = next' /\ caller' = "inline" /\ hi'[d] = Least(N, next' + chunk)
    <3>1. CASE d = next
      BY <1>0, <1>t, <3>1 DEF Least
    <3>2. CASE d # next
      BY <1>0, <1>a, <1>b, <1>t, <2>4, <3>2
    <3> QED BY <3>1, <3>2
  <2>5. ASSUME NEW d \in Item, NEW e \in Item, Begun(d)', Begun(e)', d < e PROVE hi'[d] <= e
    <3>1. d # next
      <4>1. ASSUME d = next PROVE FALSE
        <5>1. e # next /\ Begun(e)
          BY <1>b, <1>t, <2>5, <4>1
        <5>2. hi[e] <= next /\ e < hi[e]
          BY <1>a, <5>1 DEF RangeInv
        <5> QED BY <1>t, <2>5, <4>1, <5>2
      <4> QED BY <4>1
    <3>2. Begun(d) /\ hi'[d] = hi[d] /\ hi[d] <= next
      BY <1>0, <1>a, <1>b, <2>5, <3>1
    <3>3. CASE e = next
      BY <3>2, <3>3
    <3>4. CASE e # next
      BY <1>b, <2>5, <3>2, <3>4 DEF RangeInv
    <3> QED BY <3>3, <3>4
  <2> QED BY <2>1, <2>2, <2>3, <2>4, <2>5 DEF RangeInv
<1>3. CoverInv'
  <2>1. ASSUME NEW i \in Item, i < next' PROVE \E d \in Item : Has(d, i)'
    <3>1. CASE i < next
      BY <1>c, <3>1 DEF CoverInv
    <3>2. CASE next <= i
      <4>1. i < hi'[next]
        BY <1>0, <1>t, <2>1, <3>2 DEF Least
      <4> QED BY <1>0, <1>c, <3>2, <4>1
    <3> QED BY <3>1, <3>2, <1>t
  <2>2. caller' \notin {"fanout", "inline"} => next' >= N
    BY DEF CoverInv
  <2> QED BY <2>1, <2>2 DEF CoverInv
<1>4. ShadeInv'
  <2>1. ASSUME NEW d \in Item, NEW i \in Item, Has(d, i)'
        PROVE  scratch'[i] = IF i < ShadedTo(d)' THEN 1 ELSE 0
    <3>1. CASE d = next
      <4>1. next <= i
        BY <1>a, <1>c, <2>1, <3>1 DEF Has
      <4>2. ASSUME NEW e \in Item, Has(e, i) PROVE FALSE
        <5>1. hi[e] <= next /\ i < hi[e]
          BY <1>a, <4>2 DEF Has
        <5> QED BY <4>1, <5>1, <1>t
      <4>3. ShadedTo(d)' = d
        BY <1>0, <1>p, <3>1 DEF ShadedTo, Counting
      <4>4. scratch[i] = 0
        BY <4>2 DEF ShadeInv
      <4> QED BY <1>t, <4>1, <4>3, <4>4, <3>1
    <3>2. CASE d # next
      <4>1. Has(d, i)
        BY <1>c, <2>1, <3>2
      <4>2. ShadedTo(d)' = ShadedTo(d)
        BY <1>0, <3>2 DEF ShadedTo
      <4> QED BY <4>1, <4>2 DEF ShadeInv
    <3> QED BY <3>1, <3>2
  <2>2. ASSUME NEW i \in Item, \A d \in Item : ~Has(d, i)' PROVE scratch'[i] = 0
    BY <1>c, <2>2 DEF ShadeInv
  <2> QED BY <2>1, <2>2 DEF ShadeInv
<1>5. EndInv'
  BY <1>0 DEF EndInv, NoThreadOutlives
<1>6. ImageInv'
  BY DEF ImageInv
<1>7. ProgressInv'
  <2>1. \A d \in Item : state'[d] \in {"raise", "load", "callback"} <=> mutex = d
    BY <1>0, <1>a DEF ProgressInv, Begun
  <2>2. \A d \in Item : state'[d] = "callback" => mine[d] = best
    BY <1>0 DEF ProgressInv
  <2> QED BY <2>1, <2>2 DEF ProgressInv, ProgressNeverDecreases
<1> QED BY <1>1, <1>2, <1>3, <1>4, <1>5, <1>6, <1>7

LEMMA InlineEndedKeeps == ASSUME PassAssumption, IndInv, InlineEnded PROVE IndInv'
<1> USE DEF IndInv, InlineEnded, CallerOnly, chunkVars, progressVars, cancelVars
<1>t. /\ N \in Nat /\ Item \subseteq Nat /\ \A i \in Item : i < N
      /\ hi \in [Item -> 0 .. N] /\ next \in Nat /\ chunk \in Nat
  <2>1. N \in Nat /\ Item \subseteq Nat /\ \A i \in Item : i < N
    BY DEF PassAssumption, Item
  <2>2. hi \in [Item -> 0 .. N] /\ next \in Nat /\ chunk \in 1 .. N
    BY DEF TypeOK
  <2> QED BY <2>1, <2>2
<1>1. TypeOK'
  <2>1. next' \in Nat /\ caller' \in {"inline", "join"}
    BY <1>t
  <2> QED BY <2>1 DEF TypeOK
<1>2. RangeInv'
  <2>1. ASSUME NEW d \in Item, Begun(d)
        PROVE  \/ hi[d] <= next'
               \/ d = next' /\ caller' = "inline" /\ hi[d] = Least(N, next' + chunk)
    <3>1. \/ hi[d] <= next
          \/ d = next /\ hi[d] = Least(N, next + chunk)
      BY <2>1 DEF RangeInv
    <3>2. CASE hi[d] <= next
      BY <1>t, <3>2
    <3>3. CASE d = next /\ hi[d] = Least(N, next + chunk)
      <4>1. next < N /\ next' = next + chunk
        BY <1>t, <3>3
      <4> QED BY <1>t, <3>3, <4>1 DEF Least
    <3> QED BY <3>1, <3>2, <3>3
  <2> QED BY <2>1 DEF RangeInv, Begun
<1>3. CoverInv'
  <2>1. CASE next >= N /\ caller' = "join" /\ UNCHANGED next
    BY <2>1 DEF CoverInv, Has, Begun
  <2>2. CASE next < N /\ state[next] = "ended" /\ next' = next + chunk /\ UNCHANGED caller
    <3>1. next \in Item
      BY <1>t, <2>2 DEF Item
    <3>2. hi[next] = Least(N, next + chunk)
      <4>1. Begun(next) /\ next < hi[next]
        BY <2>2, <3>1 DEF RangeInv, Begun
      <4> QED BY <1>t, <3>1, <4>1 DEF RangeInv
    <3>3. ASSUME NEW i \in Item, i < next' PROVE \E d \in Item : Has(d, i)
      <4>1. CASE i < next
        BY <4>1 DEF CoverInv
      <4>2. CASE next <= i
        <5>1. i < hi[next]
          BY <1>t, <2>2, <3>2, <3>3 DEF Least
        <5> QED BY <2>2, <3>1, <4>2, <5>1 DEF Has, Begun
      <4> QED BY <1>t, <4>1, <4>2
    <3> QED BY <2>2, <3>3 DEF CoverInv, Has, Begun
  <2> QED BY <2>1, <2>2
<1>4. ShadeInv'
  BY DEF TypeOK, ShadeInv, RangeInv, Has, Begun, ShadedTo, Counting
<1>5. EndInv'
  BY DEF PassAssumption, TypeOK, Item, EndInv, NoThreadOutlives, None
<1>6. ImageInv'
  BY DEF ImageInv
<1>7. ProgressInv'
  BY DEF PassAssumption, TypeOK, Item, ProgressInv, ProgressNeverDecreases, None
<1> QED BY <1>1, <1>2, <1>3, <1>4, <1>5, <1>6, <1>7

LEMMA JoinKeeps == ASSUME PassAssumption, IndInv, Join PROVE IndInv'
<1> USE DEF IndInv, Join, CallerOnly, Chunks, chunkVars, progressVars, cancelVars
<1>1. TypeOK'
  BY DEF PassAssumption, TypeOK, Item, Least, None, Polls, Due, RangeInv, Counting, Begun
<1>2. RangeInv'
  BY DEF TypeOK, RangeInv, Begun, Counting, Least
<1>3. CoverInv'
  BY DEF PassAssumption, TypeOK, Item, CoverInv, RangeInv, Has, Begun, Least
<1>4. ShadeInv'
  BY DEF TypeOK, ShadeInv, RangeInv, Has, Begun, ShadedTo, Counting
<1>5. EndInv'
  BY DEF PassAssumption, TypeOK, Item, EndInv, NoThreadOutlives, None
<1>6. ImageInv'
  BY DEF ImageInv
<1>7. ProgressInv'
  BY DEF PassAssumption, TypeOK, Item, ProgressInv, ProgressNeverDecreases, None
<1> QED BY <1>1, <1>2, <1>3, <1>4, <1>5, <1>6, <1>7

LEMMA FinishKeeps == ASSUME PassAssumption, IndInv, Finish PROVE IndInv'
<1> USE DEF IndInv, Finish, chunkVars, progressVars, cancelVars
<1>1. TypeOK'
  BY DEF PassAssumption, TypeOK, Item, Least, None, Polls, Due, RangeInv, Counting, Begun
<1>2. RangeInv'
  BY DEF TypeOK, RangeInv, Begun, Counting, Least
<1>3. CoverInv'
  BY DEF PassAssumption, TypeOK, Item, CoverInv, RangeInv, Has, Begun, Least
<1>4. ShadeInv'
  BY DEF TypeOK, ShadeInv, RangeInv, Has, Begun, ShadedTo, Counting
<1>5. EndInv'
  BY DEF PassAssumption, TypeOK, Item, EndInv, NoThreadOutlives, None
<1>6. ImageInv'
  BY DEF ImageInv
<1>7. ProgressInv'
  BY DEF PassAssumption, TypeOK, Item, ProgressInv, ProgressNeverDecreases, None
<1> QED BY <1>1, <1>2, <1>3, <1>4, <1>5, <1>6, <1>7

LEMMA SeesCancelKeeps == ASSUME PassAssumption, IndInv, NEW c \in Item, SeesCancel(c) PROVE IndInv'
<1> USE DEF IndInv, SeesCancel, ChunkOnly, chunkVars, progressVars, cancelVars
<1>1. TypeOK'
  BY DEF PassAssumption, TypeOK, Item, Least, None, Polls, Due, RangeInv, Counting, Begun
<1>2. RangeInv'
  BY DEF TypeOK, RangeInv, Begun, Counting, Least
<1>3. CoverInv'
  BY DEF PassAssumption, TypeOK, Item, CoverInv, RangeInv, Has, Begun, Least
<1>4. ShadeInv'
  BY DEF TypeOK, ShadeInv, RangeInv, Has, Begun, ShadedTo, Counting
<1>5. EndInv'
  BY DEF PassAssumption, TypeOK, Item, EndInv, NoThreadOutlives, None
<1>6. ImageInv'
  BY DEF ImageInv
<1>7. ProgressInv'
  BY DEF PassAssumption, TypeOK, Item, ProgressInv, ProgressNeverDecreases, None
<1> QED BY <1>1, <1>2, <1>3, <1>4, <1>5, <1>6, <1>7

LEMMA ShadeKeeps == ASSUME PassAssumption, IndInv, NEW c \in Item, Shade(c) PROVE IndInv'
<1> USE DEF IndInv, Shade, ChunkOnly, chunkVars, progressVars, cancelVars
<1>t. /\ pos[c] \in Item /\ Has(c, pos[c]) /\ c \in Nat /\ hi[c] \in 0 .. N
  <2>1. pos[c] \in 0 .. N /\ hi[c] \in 0 .. N /\ pos[c] < hi[c] /\ c <= pos[c] /\ c \in Nat
    BY SMTT(40) DEF TypeOK, RangeInv, Begun, Item
  <2> QED BY <2>1 DEF Has, Begun, Item, PassAssumption
<1>s. /\ state' \in [Item -> States] /\ state'[c] = "count"
      /\ \A d \in Item : d # c => state'[d] = state[d]
  BY StateSet DEF States
<1>z. scratch[pos[c]] = 0
  BY <1>t DEF ShadeInv, ShadedTo, Counting, Item
<1>u. scratch' = [scratch EXCEPT ![pos[c]] = 1]
  BY <1>z
<1>v. scratch \in [Item -> Nat] /\ late \in [Item -> Nat]
  BY DEF TypeOK
<1>1. TypeOK'
  <2>1. scratch' \in [Item -> Nat]
    BY <1>u, <1>v, <1>t
  <2>2. late' \in [Item -> Nat]
    BY <1>v
  <2> QED BY <1>s, <2>1, <2>2 DEF TypeOK, States
<1>2. RangeInv'
  BY DEF TypeOK, RangeInv, Begun, Counting, Least
<1>3. CoverInv'
  BY DEF PassAssumption, TypeOK, Item, CoverInv, RangeInv, Has, Begun, Least
<1>4. ShadeInv'
  <2>1. \A d, i \in Item : Has(d, i)' <=> Has(d, i)
    BY <1>s DEF Has, Begun
  <2>2. ASSUME NEW d \in Item, NEW i \in Item, Has(d, i)
        PROVE  scratch'[i] = IF i < ShadedTo(d)' THEN 1 ELSE 0
    <3>1. CASE d = c
      <4>1. ShadedTo(d) = pos[c] /\ ShadedTo(d)' = pos[c] + 1
        BY <1>s, <3>1 DEF ShadedTo, Counting
      <4>2. scratch[i] = IF i < pos[c] THEN 1 ELSE 0
        BY <2>2, <4>1 DEF ShadeInv
      <4>3. i \in Int /\ pos[c] \in Int
        BY <1>t DEF Item
      <4> QED BY <1>t, <1>u, <1>v, <4>1, <4>2, <4>3
    <3>2. CASE d # c
      <4>1. i # pos[c]
        BY <1>t, <2>2, <3>2, OneChunk
      <4>2. ShadedTo(d)' = ShadedTo(d)
        BY <1>s, <3>2 DEF ShadedTo
      <4> QED BY <1>u, <2>2, <4>1, <4>2 DEF ShadeInv, TypeOK
    <3> QED BY <3>1, <3>2
  <2>3. ASSUME NEW i \in Item, \A d \in Item : ~Has(d, i) PROVE scratch'[i] = 0
    <3>1. i # pos[c]
      BY <1>t, <2>3
    <3> QED BY <1>u, <2>3, <3>1 DEF ShadeInv, TypeOK
  <2> QED BY <2>1, <2>2, <2>3 DEF ShadeInv
<1>5. EndInv'
  BY DEF PassAssumption, TypeOK, Item, EndInv, NoThreadOutlives, None
<1>6. ImageInv'
  BY DEF ImageInv
<1>7. ProgressInv'
  BY DEF PassAssumption, TypeOK, Item, ProgressInv, ProgressNeverDecreases, None
<1> QED BY <1>1, <1>2, <1>3, <1>4, <1>5, <1>6, <1>7

LEMMA ThrowsKeeps == ASSUME PassAssumption, IndInv, NEW c \in Item, Throws(c) PROVE IndInv'
<1> USE DEF IndInv, Throws, ChunkOnly, chunkVars, progressVars, cancelVars
<1>t. /\ pos[c] \in Item /\ Has(c, pos[c]) /\ c \in Nat /\ hi[c] \in 0 .. N
  <2>1. pos[c] \in 0 .. N /\ hi[c] \in 0 .. N /\ pos[c] < hi[c] /\ c <= pos[c] /\ c \in Nat
    BY SMTT(40) DEF TypeOK, RangeInv, Begun, Item
  <2> QED BY <2>1 DEF Has, Begun, Item, PassAssumption
<1>1. TypeOK'
  <2>1. firstError' \in Item \cup {None}
    BY <1>t DEF TypeOK
  <2>2. throws' \in 0 .. MaxThrows
    BY DEF TypeOK, PassAssumption
  <2>3. state' \in [Item -> States]
    BY StateSet DEF States
  <2> QED BY <2>1, <2>2, <2>3 DEF TypeOK, States
<1>2. RangeInv'
  BY DEF TypeOK, RangeInv, Begun, Counting, Least
<1>3. CoverInv'
  BY DEF PassAssumption, TypeOK, Item, CoverInv, RangeInv, Has, Begun, Least
<1>4. ShadeInv'
  BY DEF TypeOK, ShadeInv, RangeInv, Has, Begun, ShadedTo, Counting
<1>5. EndInv'
  <2>1. throws' > 0 /\ throws \in Nat
    BY DEF TypeOK, PassAssumption
  <2>2. firstError' # None
    BY <1>t DEF None, Item
  <2>3. caller \in {"fanout", "inline", "join"}
    BY DEF EndInv, NoThreadOutlives, TypeOK
  <2> QED BY <2>1, <2>2, <2>3 DEF EndInv, NoThreadOutlives
<1>6. ImageInv'
  BY DEF ImageInv
<1>7. ProgressInv'
  BY DEF PassAssumption, TypeOK, Item, ProgressInv, ProgressNeverDecreases, None
<1> QED BY <1>1, <1>2, <1>3, <1>4, <1>5, <1>6, <1>7

LEMMA CountKeeps == ASSUME PassAssumption, IndInv, NEW c \in Item, Count(c) PROVE IndInv'
<1> USE DEF IndInv, Count, ChunkOnly, chunkVars, progressVars, cancelVars
<1>o. GoesOn(c)
  <2>1. CASE Due(done + 1)
    <3>1. state' = [state EXCEPT ![c] = "lock"] /\ pos' = pos
      BY <2>1
    <3> QED BY <3>1, StateSet DEF GoesOn, Counting, States, TypeOK
  <2>2. CASE ~Due(done + 1)
    <3>1. NextItem(c) /\ state[c] \in Counting
      BY <2>2 DEF Counting
    <3> QED BY <3>1, Advanced DEF GoesOn
  <2> QED BY <2>1, <2>2
<1>g. RangeInv' /\ CoverInv' /\ ShadeInv'
  BY <1>o, OnKeepsRanges
<1>c. caller \in {"fanout", "inline", "join"}
  BY <1>o DEF EndInv, NoThreadOutlives, TypeOK, GoesOn, Counting
<1>1. TypeOK'
  <2>1. done' \in Nat /\ mine' \in [Item -> Nat]
    BY DEF TypeOK
  <2> QED BY <1>o, <2>1 DEF GoesOn, TypeOK, States
<1>2. RangeInv'
  BY <1>g
<1>3. CoverInv'
  BY <1>g
<1>4. ShadeInv'
  BY <1>g
<1>5. EndInv'
  <2>1. \A d \in Item : state'[d] = "ended" => state[d] = "ended" /\ pos'[d] = pos[d]
    BY <1>o DEF GoesOn, Counting
  <2> QED BY <1>c, <2>1 DEF EndInv, NoThreadOutlives
<1>6. ImageInv'
  BY DEF ImageInv
<1>7. ProgressInv'
  <2>1. \A d \in Item : state'[d] \in {"raise", "load", "callback"} <=> mutex = d
    <3>1. state'[c] \in {"item", "lock"}
      BY StateSet DEF NextItem, States
    <3> QED BY <1>o, <3>1 DEF ProgressInv, GoesOn
  <2>2. \A d \in Item : state'[d] = "callback" => mine'[d] = best
    <3>1. mine \in [Item -> Nat] /\ mine' = [mine EXCEPT ![c] = done + 1]
      BY DEF TypeOK
    <3>2. state'[c] \in {"item", "lock"}
      BY StateSet DEF NextItem, States
    <3> QED BY <1>o, <3>1, <3>2 DEF ProgressInv, GoesOn
  <2> QED BY <2>1, <2>2 DEF ProgressInv, ProgressNeverDecreases
<1> QED BY <1>1, <1>2, <1>3, <1>4, <1>5, <1>6, <1>7

LEMMA LockKeeps == ASSUME PassAssumption, IndInv, NEW c \in Item, Lock(c) PROVE IndInv'
<1> USE DEF IndInv, Lock, ChunkOnly, chunkVars, progressVars, cancelVars
<1>1. TypeOK'
  BY DEF PassAssumption, TypeOK, Item, Least, None, Polls, Due, RangeInv, Counting, Begun
<1>2. RangeInv'
  BY DEF TypeOK, RangeInv, Begun, Counting, Least
<1>3. CoverInv'
  BY DEF PassAssumption, TypeOK, Item, CoverInv, RangeInv, Has, Begun, Least
<1>4. ShadeInv'
  BY DEF TypeOK, ShadeInv, RangeInv, Has, Begun, ShadedTo, Counting
<1>5. EndInv'
  BY DEF PassAssumption, TypeOK, Item, EndInv, NoThreadOutlives, None
<1>6. ImageInv'
  BY DEF ImageInv
<1>7. ProgressInv'
  BY SMTT(40) DEF PassAssumption, TypeOK, Item, ProgressInv, ProgressNeverDecreases, None
<1> QED BY <1>1, <1>2, <1>3, <1>4, <1>5, <1>6, <1>7

LEMMA RaiseKeeps == ASSUME PassAssumption, IndInv, NEW c \in Item, Raise(c) PROVE IndInv'
<1> USE DEF IndInv, Raise, ChunkOnly, chunkVars, progressVars, cancelVars
<1>o. GoesOn(c)
  <2>1. CASE mine[c] >= best
    <3>1. state' = [state EXCEPT ![c] = "load"] /\ pos' = pos
      BY <2>1
    <3> QED BY <3>1, StateSet DEF GoesOn, Counting, States, TypeOK
  <2>2. CASE ~(mine[c] >= best)
    <3>1. NextItem(c) /\ state[c] \in Counting
      BY <2>2 DEF Counting
    <3> QED BY <3>1, Advanced DEF GoesOn
  <2> QED BY <2>1, <2>2
<1>g. RangeInv' /\ CoverInv' /\ ShadeInv'
  BY <1>o, OnKeepsRanges
<1>c. caller \in {"fanout", "inline", "join"}
  BY <1>o DEF EndInv, NoThreadOutlives, TypeOK, GoesOn, Counting

<1>m. mutex = c /\ \A d \in Item : d # c => state[d] \notin {"raise", "load", "callback"}
  BY DEF ProgressInv
<1>n. mine[c] \in Nat /\ best \in Nat /\ seen \in Seq(Nat)
  BY DEF TypeOK
<1>1. TypeOK'
  <2>1. best' \in Nat /\ mutex' \in Item \cup {None}
    BY <1>n, <1>m
  <2> QED BY <1>o, <2>1 DEF GoesOn, TypeOK, States
<1>2. RangeInv'
  BY <1>g
<1>3. CoverInv'
  BY <1>g
<1>4. ShadeInv'
  BY <1>g
<1>5. EndInv'
  <2>1. \A d \in Item : state'[d] = "ended" => state[d] = "ended" /\ pos'[d] = pos[d]
    BY <1>o DEF GoesOn, Counting
  <2> QED BY <1>c, <2>1 DEF EndInv, NoThreadOutlives
<1>6. ImageInv'
  BY DEF ImageInv
<1>7. ProgressInv'
  <2>1. CASE mine[c] >= best
    <3>1. state'[c] = "load" /\ best' = mine[c] /\ mutex' = c
      BY <1>m, <2>1, StateSet DEF States
    <3>2. \A d \in Item : state'[d] \in {"raise", "load", "callback"} <=> mutex' = d
      BY <1>m, <1>o, <3>1 DEF GoesOn
    <3>3. \A d \in Item : state'[d] # "callback"
      BY <1>m, <1>o, <3>1 DEF GoesOn
    <3>4. ASSUME NEW i \in 1 .. Len(seen) PROVE seen[i] <= best'
      <4>1. seen[i] \in Nat /\ seen[i] <= best
        BY <1>n DEF ProgressInv
      <4> QED BY <1>n, <2>1, <3>1, <4>1
    <3> QED BY <3>2, <3>3, <3>4 DEF ProgressInv, ProgressNeverDecreases
  <2>2. CASE ~(mine[c] >= best)
    <3>1. state'[c] = "item" /\ best' = best /\ mutex' = None
      BY <2>2, StateSet DEF NextItem, States
    <3>2. \A d \in Item : state'[d] \in {"raise", "load", "callback"} <=> mutex' = d
      BY <1>m, <1>o, <3>1 DEF GoesOn, None, Item
    <3>3. \A d \in Item : state'[d] # "callback"
      BY <1>m, <1>o, <3>1 DEF GoesOn
    <3> QED BY <3>1, <3>2, <3>3 DEF ProgressInv, ProgressNeverDecreases
  <2> QED BY <2>1, <2>2
<1> QED BY <1>1, <1>2, <1>3, <1>4, <1>5, <1>6, <1>7

LEMMA LoadKeeps == ASSUME PassAssumption, IndInv, NEW c \in Item, Load(c) PROVE IndInv'
<1> USE DEF IndInv, Load, ChunkOnly, chunkVars, progressVars, cancelVars
<1>1. TypeOK'
  BY DEF PassAssumption, TypeOK, Item, Least, None, Polls, Due, RangeInv, Counting, Begun
<1>2. RangeInv'
  BY DEF TypeOK, RangeInv, Begun, Counting, Least
<1>3. CoverInv'
  BY DEF PassAssumption, TypeOK, Item, CoverInv, RangeInv, Has, Begun, Least
<1>4. ShadeInv'
  BY DEF TypeOK, ShadeInv, RangeInv, Has, Begun, ShadedTo, Counting
<1>5. EndInv'
  BY DEF PassAssumption, TypeOK, Item, EndInv, NoThreadOutlives, None
<1>6. ImageInv'
  BY DEF ImageInv
<1>7. ProgressInv'
  BY DEF PassAssumption, TypeOK, Item, ProgressInv, ProgressNeverDecreases, None
<1> QED BY <1>1, <1>2, <1>3, <1>4, <1>5, <1>6, <1>7

LEMMA CallbackKeeps == ASSUME PassAssumption, IndInv, NEW c \in Item, Callback(c) PROVE IndInv'
<1> USE DEF IndInv, Callback, ChunkOnly, chunkVars, progressVars, cancelVars
<1>o. GoesOn(c)
  <2>1. NextItem(c) /\ state[c] \in Counting
    BY DEF Counting
  <2> QED BY <2>1, Advanced DEF GoesOn
<1>g. RangeInv' /\ CoverInv' /\ ShadeInv'
  BY <1>o, OnKeepsRanges
<1>c. caller \in {"fanout", "inline", "join"}
  BY <1>o DEF EndInv, NoThreadOutlives, TypeOK, GoesOn, Counting

<1>m. mutex = c /\ mine[c] = best /\ \A d \in Item : d # c =>
          state[d] \notin {"raise", "load", "callback"}
  BY DEF ProgressInv
<1>n. best \in Nat /\ seen \in Seq(Nat) /\ seen' = Append(seen, best)
  BY <1>m DEF TypeOK
<1>1. TypeOK'
  <2>1. seen' \in Seq(Nat) /\ mutex' \in Item \cup {None}
    BY <1>n
  <2> QED BY <1>o, <2>1 DEF GoesOn, TypeOK, States
<1>2. RangeInv'
  BY <1>g
<1>3. CoverInv'
  BY <1>g
<1>4. ShadeInv'
  BY <1>g
<1>5. EndInv'
  <2>1. \A d \in Item : state'[d] = "ended" => state[d] = "ended" /\ pos'[d] = pos[d]
    BY <1>o DEF GoesOn, Counting
  <2> QED BY <1>c, <2>1 DEF EndInv, NoThreadOutlives
<1>6. ImageInv'
  BY DEF ImageInv
<1>7. ProgressInv'
  <2>1. state'[c] = "item" /\ mutex' = None
    BY StateSet DEF NextItem, States
  <2>2. \A d \in Item : state'[d] \in {"raise", "load", "callback"} <=> mutex' = d
    BY <1>m, <1>o, <2>1 DEF GoesOn, None, Item
  <2>3. \A d \in Item : state'[d] # "callback"
    BY <1>m, <1>o, <2>1 DEF GoesOn
  <2>4. Len(seen') = Len(seen) + 1 /\ seen'[Len(seen) + 1] = best
        /\ \A i \in 1 .. Len(seen) : seen'[i] = seen[i]
    BY <1>n
  <2>5. \A i \in 1 .. Len(seen') : seen'[i] <= best
    BY <1>n, <2>4 DEF ProgressInv
  <2>6. \A i \in 1 .. Len(seen') - 1 : seen'[i] <= seen'[i + 1]
    <3>1. ASSUME NEW i \in 1 .. Len(seen') - 1 PROVE seen'[i] <= seen'[i + 1]
      <4>1. CASE i = Len(seen)
        BY <1>n, <2>4, <2>5, <4>1
      <4>2. CASE i # Len(seen)
        <5>1. i \in 1 .. Len(seen) - 1 /\ i + 1 \in 1 .. Len(seen)
          BY <1>n, <2>4, <4>2
        <5> QED BY <2>4, <5>1 DEF ProgressInv, ProgressNeverDecreases
      <4> QED BY <4>1, <4>2
    <3> QED BY <3>1
  <2> QED BY <2>2, <2>3, <2>5, <2>6 DEF ProgressInv, ProgressNeverDecreases
<1> QED BY <1>1, <1>2, <1>3, <1>4, <1>5, <1>6, <1>7

LEMMA ChunkEndsKeeps == ASSUME PassAssumption, IndInv, NEW c \in Item, ChunkEnds(c) PROVE IndInv'
<1> USE DEF IndInv, ChunkEnds, ChunkOnly, chunkVars, progressVars, cancelVars
<1>1. TypeOK'
  BY DEF PassAssumption, TypeOK, Item, Least, None, Polls, Due, RangeInv, Counting, Begun
<1>2. RangeInv'
  BY DEF TypeOK, RangeInv, Begun, Counting, Least
<1>3. CoverInv'
  BY DEF PassAssumption, TypeOK, Item, CoverInv, RangeInv, Has, Begun, Least
<1>4. ShadeInv'
  BY DEF TypeOK, ShadeInv, RangeInv, Has, Begun, ShadedTo, Counting
<1>5. EndInv'
  <2>1. pos[c] \in Int /\ hi[c] \in Int
    BY DEF TypeOK, PassAssumption
  <2>2. pos[c] <= hi[c]
    BY DEF RangeInv, Begun
  <2>3. pos[c] = hi[c]
    BY <2>1, <2>2
  <2> QED BY <2>3 DEF EndInv, NoThreadOutlives, TypeOK
<1>6. ImageInv'
  BY DEF ImageInv
<1>7. ProgressInv'
  BY DEF PassAssumption, TypeOK, Item, ProgressInv, ProgressNeverDecreases, None
<1> QED BY <1>1, <1>2, <1>3, <1>4, <1>5, <1>6, <1>7

LEMMA RequestCancelKeeps == ASSUME PassAssumption, IndInv, RequestCancel PROVE IndInv'
<1> USE DEF IndInv, RequestCancel, chunkVars, progressVars, cancelVars
<1>1. TypeOK'
  BY DEF PassAssumption, TypeOK, Item, Least, None, Polls, Due, RangeInv, Counting, Begun
<1>2. RangeInv'
  BY DEF TypeOK, RangeInv, Begun, Counting, Least
<1>3. CoverInv'
  BY DEF PassAssumption, TypeOK, Item, CoverInv, RangeInv, Has, Begun, Least
<1>4. ShadeInv'
  BY DEF TypeOK, ShadeInv, RangeInv, Has, Begun, ShadedTo, Counting
<1>5. EndInv'
  BY DEF PassAssumption, TypeOK, Item, EndInv, NoThreadOutlives, None
<1>6. ImageInv'
  BY DEF ImageInv
<1>7. ProgressInv'
  BY DEF PassAssumption, TypeOK, Item, ProgressInv, ProgressNeverDecreases, None
<1> QED BY <1>1, <1>2, <1>3, <1>4, <1>5, <1>6, <1>7

-----------------------------------------------------------------------------
(* Every step keeps the invariant *)

LEMMA CallerKeeps == ASSUME PassAssumption, IndInv, Caller PROVE IndInv'
<1>1. CASE Spawn
  BY <1>1, SpawnKeeps
<1>2. CASE SpawnFails
  BY <1>2, SpawnFailsKeeps
<1>3. CASE FanOutEnds
  BY <1>3, FanOutEndsKeeps
<1>4. CASE RunInline
  BY <1>4, RunInlineKeeps
<1>5. CASE InlineEnded
  BY <1>5, InlineEndedKeeps
<1>6. CASE Join
  BY <1>6, JoinKeeps
<1>7. CASE Finish
  BY <1>7, FinishKeeps
<1> QED BY <1>1, <1>2, <1>3, <1>4, <1>5, <1>6, <1>7 DEF Caller

LEMMA RunChunkKeeps == ASSUME PassAssumption, IndInv, NEW c \in Item, RunChunk(c) PROVE IndInv'
<1>1. CASE SeesCancel(c)
  BY <1>1, SeesCancelKeeps
<1>2. CASE Shade(c)
  BY <1>2, ShadeKeeps
<1>3. CASE Throws(c)
  BY <1>3, ThrowsKeeps
<1>4. CASE Count(c)
  BY <1>4, CountKeeps
<1>5. CASE Lock(c)
  BY <1>5, LockKeeps
<1>6. CASE Raise(c)
  BY <1>6, RaiseKeeps
<1>7. CASE Load(c)
  BY <1>7, LoadKeeps
<1>8. CASE Callback(c)
  BY <1>8, CallbackKeeps
<1>9. CASE ChunkEnds(c)
  BY <1>9, ChunkEndsKeeps
<1> QED BY <1>1, <1>2, <1>3, <1>4, <1>5, <1>6, <1>7, <1>8, <1>9 DEF RunChunk

LEMMA StutterKeeps == ASSUME IndInv, UNCHANGED vars PROVE IndInv'
<1> USE DEF IndInv, vars, chunkVars, progressVars, cancelVars
<1>1. TypeOK'
  BY DEF TypeOK
<1>2. RangeInv' /\ CoverInv' /\ ShadeInv'
  BY DEF RangeInv, CoverInv, ShadeInv, Has, Begun, ShadedTo
<1>3. EndInv' /\ ImageInv' /\ ProgressInv'
  BY DEF EndInv, NoThreadOutlives, ImageInv, ProgressInv, ProgressNeverDecreases
<1> QED BY <1>1, <1>2, <1>3

LEMMA NextKeeps == ASSUME PassAssumption, IndInv, [Next]_vars PROVE IndInv'
<1>1. CASE Caller
  BY <1>1, CallerKeeps
<1>2. CASE \E c \in Item : RunChunk(c)
  BY <1>2, RunChunkKeeps
<1>3. CASE RequestCancel
  BY <1>3, RequestCancelKeeps
<1>4. CASE UNCHANGED vars
  BY <1>4, StutterKeeps
<1> QED BY <1>1, <1>2, <1>3, <1>4 DEF Next, Working

-----------------------------------------------------------------------------
(* The theorems: whatever the parameters are *)

\* The strengthening they all rest on: the chunks partition what has been handed
\* out, an item is shaded when its chunk is past it, and an exception is kept.
THEOREM Invariance == ASSUME PassAssumption PROVE Spec => []IndInv
<1>1. Init => IndInv
  BY InitIndInv
<1>2. IndInv /\ [Next]_vars => IndInv'
  BY NextKeeps
<1> QED BY <1>1, <1>2, PTL DEF Spec

\* Every variable of the pass keeps its type: no chunk counts past its end.
THEOREM Typing == ASSUME PassAssumption PROVE Spec => []TypeOK
<1>1. IndInv => TypeOK
  BY DEF IndInv
<1> QED BY <1>1, Invariance, PTL

\* forEachChunk hands out every item once, however many threads it is refused,
\* and a pass that neither threw nor was cancelled has shaded them all.
THEOREM EachItemOnce == ASSUME PassAssumption PROVE Spec => []EveryItemOnce
<1>1. ASSUME IndInv PROVE EveryItemOnce
  <2>1. \A i \in Item : scratch[i] <= 1
    <3> SUFFICES ASSUME NEW i \in Item PROVE scratch[i] <= 1
      OBVIOUS
    <3>1. scratch[i] = 0 \/ scratch[i] = 1
      BY <1>1 DEF IndInv, ShadeInv
    <3> QED BY <3>1
  <2>2. ASSUME caller = "finished", NEW i \in Item PROVE scratch[i] = 1
    <3>1. next \in Nat /\ i < next
      BY <1>1, <2>2 DEF IndInv, TypeOK, CoverInv, Item, PassAssumption
    <3>2. PICK c \in Item : Has(c, i)
      BY <1>1, <3>1 DEF IndInv, CoverInv
    <3>3. state[c] = "ended"
      BY <1>1, <2>2, <3>2 DEF IndInv, EndInv, NoThreadOutlives, Has, Begun
    <3>4. pos[c] = hi[c]
      BY <1>1, <2>2, <3>3 DEF IndInv, EndInv
    <3>5. ShadedTo(c) = hi[c]
      BY <3>3, <3>4 DEF ShadedTo, Counting
    <3>6. i < ShadedTo(c)
      BY <3>2, <3>5 DEF Has
    <3> QED BY <1>1, <3>2, <3>6 DEF IndInv, ShadeInv
  <2> QED BY <2>1, <2>2 DEF EveryItemOnce
<1> QED BY <1>1, Invariance, PTL

\* The caller is past the joins of forEachChunk only when every chunk is over, on
\* the exception path too.
THEOREM ThreadsEnd == ASSUME PassAssumption PROVE Spec => []NoThreadOutlives
<1>1. IndInv => NoThreadOutlives
  BY DEF IndInv, EndInv
<1> QED BY <1>1, Invariance, PTL

\* What a worker throws is rethrown on the caller by forEachChunk, and a pass
\* nobody threw in is never taken for one that failed.
THEOREM ErrorsSurface == ASSUME PassAssumption PROVE Spec => []ErrorReachesCaller
<1>1. IndInv => ErrorReachesCaller
  BY DEF IndInv, EndInv, ErrorReachesCaller, Returned
<1> QED BY <1>1, Invariance, PTL

\* shadeRayTraced leaves the image untouched or exactly what a serial bake makes:
\* a cancelled or failed pass leaves no part of a map.
THEOREM ImageWhole == ASSUME PassAssumption PROVE Spec => []WholeImageOrNone
<1>1. ASSUME IndInv, EveryItemOnce PROVE WholeImageOrNone
  <2>1. CASE caller = "finished" /\ \A p \in Pixel : image[p] = LastIn(p)
    <3>1. throws = 0
      BY <1>1, <2>1 DEF IndInv, TypeOK, EndInv, PassAssumption
    <3> QED BY <1>1, <2>1, <3>1 DEF EveryItemOnce, WholeImageOrNone
  <2>2. CASE image = [p \in Pixel |-> None]
    BY <2>2 DEF WholeImageOrNone
  <2> QED BY <1>1, <2>1, <2>2 DEF IndInv, ImageInv
<1> QED BY <1>1, Invariance, EachItemOnce, PTL

\* The caller of a parallel pass sees all of its work or none, and every error.
THEOREM PassWhole == ASSUME PassAssumption PROVE Spec => []PassIsWhole
<1>1. EveryItemOnce /\ NoThreadOutlives /\ ErrorReachesCaller /\ WholeImageOrNone => PassIsWhole
  BY DEF PassIsWhole
<1> QED BY <1>1, EachItemOnce, ThreadsEnd, ErrorsSurface, ImageWhole, PTL

\* ProgressSink::report() tells the host a value that never falls, in whatever
\* order the workers count.
THEOREM ProgressMonotone == ASSUME PassAssumption PROVE Spec => []ProgressNeverDecreases
<1>1. IndInv => ProgressNeverDecreases
  BY DEF IndInv, ProgressInv
<1> QED BY <1>1, Invariance, PTL

-----------------------------------------------------------------------------
(* That a pass ends promptly: why its last report is the whole, and why a    *)
(* chunk begins little after a cancel request                               *)

\* The items that were shaded and counted.
Counted == {i \in Item : scratch[i] = 1 /\ \A c \in Item : ~(state[c] = "count" /\ pos[c] = i)}

LastSaid == seen # <<>> /\ seen[Len(seen)] = N

\* The count is that of the items, and who counted the last one tells the host,
\* or somebody has.
CountInv ==
    /\ done = Cardinality(Counted)
    /\ best <= done /\ \A c \in Item : mine[c] <= done
    /\ done = N =>
          \/ LastSaid
          \/ \E c \in Item : \/ state[c] \in {"lock", "raise"} /\ mine[c] = N
                             \/ state[c] \in {"load", "callback"} /\ best = N

\* What a chunk began since the request fits between two polls.
LateInv ==
    /\ ~token => \A c \in Item : late[c] = 0
    /\ \A c \in Item : late[c] = 0 \/ late[c] <= (ShadedTo(c) - c - 1) % CancelStride

\* A chunk that begins after the request is before its first poll, or over.
HopelessInv ==
    \A c \in hopeless : token /\ state[c] \in {"item", "ended"} /\ pos[c] = c /\ scratch[c] = 0

EndsInv == CountInv /\ LateInv /\ HopelessInv

LEMMA ModBefore ==
    ASSUME NEW k \in Nat \ {0}, NEW n \in Nat, n % k # 0
    PROVE  n % k \in 1 .. k - 1 /\ (n - 1) % k = (n % k) - 1
<1> DEFINE q == n \div k  r == n % k  p == (n - 1) \div k  s == (n - 1) % k
<1>1. q \in Int /\ r \in 1 .. k - 1 /\ n = k * q + r
  OBVIOUS
<1>2. p \in Int /\ s \in 0 .. k - 1 /\ n - 1 = k * p + s
  OBVIOUS
<1> HIDE DEF q, r, p, s
<1>3. ~(p >= q + 1)
  <2>1. SUFFICES ASSUME p >= q + 1 PROVE FALSE
    OBVIOUS
  <2>2. k * p >= k * (q + 1) /\ k * (q + 1) = k * q + k
    BY <1>1, <1>2, <2>1
  <2> QED BY <1>1, <1>2, <2>2
<1>4. ~(q >= p + 1)
  <2>1. SUFFICES ASSUME q >= p + 1 PROVE FALSE
    OBVIOUS
  <2>2. k * q >= k * (p + 1) /\ k * (p + 1) = k * p + k
    BY <1>1, <1>2, <2>1
  <2> QED BY <1>1, <1>2, <2>2
<1>5. p = q
  BY <1>1, <1>2, <1>3, <1>4
<1>6. s = r - 1
  BY <1>1, <1>2, <1>5
<1> QED BY <1>1, <1>6 DEF r, s

LEMMA CountedFinite ==
    ASSUME PassAssumption
    PROVE  IsFiniteSet(Counted) /\ Cardinality(Counted) \in Nat /\ Cardinality(Counted) <= N
           /\ (Cardinality(Counted) = N <=> Counted = Item)
<1>1. IsFiniteSet(Item) /\ Cardinality(Item) = N
  BY FS_Interval DEF Item, PassAssumption
<1>2. Counted \in SUBSET Item
  BY DEF Counted
<1> QED BY <1>1, <1>2, FS_Subset, FS_CardinalityType

LEMMA InitEnds == ASSUME PassAssumption, Init PROVE EndsInv
<1>1. Counted = {}
  BY DEF Init, Counted
<1>2. CountInv
  BY <1>1, FS_EmptySet DEF Init, CountInv, PassAssumption
<1>3. LateInv
  BY DEF Init, LateInv
<1>4. HopelessInv
  BY DEF Init, HopelessInv
<1> QED BY <1>2, <1>3, <1>4 DEF EndsInv

-----------------------------------------------------------------------------
\* A step of the caller begins one new chunk, or none.
LEMMA CallerStep ==
    ASSUME PassAssumption, IndInv, Caller
    PROVE  /\ UNCHANGED <<pos, mine, scratch, done, best, seen, token, late>>
           /\ \/ UNCHANGED <<state, hopeless>>
              \/ /\ next \in Item /\ state[next] = "none" /\ scratch[next] = 0
                 /\ state'[next] = "item" /\ \A d \in Item : d # next => state'[d] = state[d]
                 /\ hopeless' = IF token THEN hopeless \cup {next} ELSE hopeless
<1> USE DEF CallerOnly, chunkVars, progressVars, cancelVars
<1>1. UNCHANGED <<pos, mine, scratch, done, best, seen, token, late>>
  BY DEF Caller, Spawn, SpawnFails, FanOutEnds, RunInline, InlineEnded, Join, Finish
<1>2. CASE SpawnFails \/ FanOutEnds \/ InlineEnded \/ Join \/ Finish
  BY <1>1, <1>2 DEF SpawnFails, FanOutEnds, InlineEnded, Join, Finish
<1>3. CASE Spawn \/ RunInline
  <2>1. next < N /\ Hand
    BY <1>3 DEF Spawn, RunInline
  <2>2. /\ next \in Item /\ state'[next] = "item" /\ \A d \in Item : d # next =>
               state'[d] = state[d]
        /\ hopeless' = IF token THEN hopeless \cup {next} ELSE hopeless
    BY <2>1, Handed DEF IndInv, Hand
  <2>3. hi \in [Item -> 0 .. N] /\ next \in Nat /\ Item \subseteq Nat /\ N \in Nat
    BY SMTT(40) DEF IndInv, TypeOK, Item, PassAssumption
  <2>4. state[next] = "none"
    <3>1. CASE Spawn
      <4>1. caller = "fanout"
        BY <3>1 DEF Spawn
      <4>2. Begun(next) => hi[next] <= next /\ next < hi[next]
        BY <2>2, <4>1 DEF IndInv, RangeInv
      <4> QED BY <2>2, <2>3, <4>2 DEF Begun
    <3>2. CASE RunInline
      BY <3>2 DEF RunInline
    <3> QED BY <1>3, <3>1, <3>2
  <2>5. \A d \in Item : ~Has(d, next)
    <3>1. SUFFICES ASSUME NEW d \in Item, Has(d, next) PROVE FALSE
      OBVIOUS
    <3>2. Begun(d) /\ next < hi[d] /\ d # next
      BY <2>4, <3>1 DEF Has, Begun
    <3>3. hi[d] <= next
      BY <3>2 DEF IndInv, RangeInv
    <3> QED BY <2>3, <3>2, <3>3
  <2>6. scratch[next] = 0
    BY <2>2, <2>5 DEF IndInv, ShadeInv
  <2> QED BY <1>1, <2>2, <2>4, <2>6
<1> QED BY <1>2, <1>3 DEF Caller

\* A step of a chunk shades an item, ends the chunk or goes on with it.
ItEnds(c) ==
    /\ state[c] = "item" /\ state'[c] = "ended" /\ pos' = pos
    /\ \A d \in Item : d # c => state'[d] = state[d]

LEMMA ChunkStep ==
    ASSUME PassAssumption, IndInv, NEW c \in Item, RunChunk(c), ~Shade(c)
    PROVE  UNCHANGED <<scratch, token, late, hopeless>> /\ (ItEnds(c) \/ GoesOn(c))
<1> USE DEF ChunkOnly, chunkVars, progressVars, cancelVars
<1>1. CASE SeesCancel(c) \/ Throws(c) \/ ChunkEnds(c)
  <2>1. state' = [state EXCEPT ![c] = "ended"] /\ state[c] = "item" /\ pos' = pos
        /\ UNCHANGED <<scratch, token, late, hopeless>>
    BY <1>1 DEF SeesCancel, Throws, ChunkEnds
  <2> QED BY <2>1, StateSet DEF ItEnds, States, IndInv
<1>2. CASE Lock(c) \/ Load(c)
  <2>1. /\ \/ state' = [state EXCEPT ![c] = "raise"] /\ state[c] = "lock"
           \/ state' = [state EXCEPT ![c] = "callback"] /\ state[c] = "load"
        /\ pos' = pos /\ UNCHANGED <<scratch, token, late, hopeless>>
    BY <1>2 DEF Lock, Load
  <2> QED BY <2>1, StateSet DEF GoesOn, States, IndInv, TypeOK, Counting
<1>3. CASE Count(c) \/ Raise(c) \/ Callback(c)
  <2>1. /\ state[c] \in Counting
        /\ \/ NextItem(c)
           \/ state' = [state EXCEPT ![c] = "lock"] /\ pos' = pos
           \/ state' = [state EXCEPT ![c] = "load"] /\ pos' = pos
        /\ UNCHANGED <<scratch, token, late, hopeless>>
    BY <1>3 DEF Count, Raise, Callback, Counting
  <2>2. CASE NextItem(c)
    BY <2>1, <2>2, Advanced DEF GoesOn, IndInv
  <2>3. CASE pos' = pos
    BY <2>1, <2>2, <2>3, StateSet DEF GoesOn, States, IndInv, TypeOK, Counting
  <2> QED BY <2>1, <2>2, <2>3
<1> QED BY <1>1, <1>2, <1>3 DEF RunChunk

\* An item to be shaded is the chunk's own, and was not shaded.
LEMMA ShadeStep ==
    ASSUME PassAssumption, IndInv, NEW c \in Item, Shade(c)
    PROVE  /\ pos[c] \in Item /\ Has(c, pos[c]) /\ scratch[pos[c]] = 0
           /\ scratch' = [scratch EXCEPT ![pos[c]] = 1] /\ scratch \in [Item -> Nat]
           /\ state[c] = "item" /\ state'[c] = "count"
           /\ \A d \in Item : d # c => state'[d] = state[d]
<1> USE DEF IndInv, Shade
<1>1. pos[c] \in 0 .. N /\ hi[c] \in 0 .. N /\ pos[c] < hi[c] /\ c <= pos[c] /\ c \in Nat
  BY DEF TypeOK, RangeInv, Begun, Item
<1>2. pos[c] \in Item /\ Has(c, pos[c])
  BY <1>1 DEF Has, Begun, Item, PassAssumption
<1>3. scratch[pos[c]] = 0
  BY <1>1, <1>2 DEF ShadeInv, ShadedTo, Counting
<1>4. scratch' = [scratch EXCEPT ![pos[c]] = 1] /\ scratch \in [Item -> Nat]
  BY <1>2, <1>3 DEF TypeOK
<1>5. state'[c] = "count" /\ \A d \in Item : d # c => state'[d] = state[d]
  BY StateSet DEF States
<1> QED BY <1>2, <1>3, <1>4, <1>5

\* What keeps the counted items: nobody begins or ends to count.
LEMMA CountedStays ==
    ASSUME UNCHANGED scratch,
           \A d \in Item : state'[d] = "count" <=> state[d] = "count",
           \A d \in Item : state[d] = "count" => pos'[d] = pos[d]
    PROVE  Counted' = Counted
BY DEF Counted

\* What keeps the witness of the last item that was counted.
Telling(c) ==
    \/ state[c] \in {"lock", "raise"} /\ mine[c] = N
    \/ state[c] \in {"load", "callback"} /\ best = N

LEMMA CallerKeepsEnds == ASSUME PassAssumption, IndInv, EndsInv, Caller PROVE EndsInv'
<1> USE CallerStep DEF IndInv, EndsInv
<1>1. \A d \in Item : state'[d] = state[d] \/ (state[d] = "none" /\ state'[d] = "item")
  OBVIOUS
<1>2. CountInv'
  <2>1. Counted' = Counted
    BY <1>1, CountedStays
  <2> QED BY <1>1, <2>1 DEF CountInv, LastSaid
<1>3. LateInv'
  <2>1. \A d \in Item : ShadedTo(d)' = ShadedTo(d)
    BY <1>1 DEF ShadedTo, Counting
  <2> QED BY <2>1 DEF LateInv
<1>4. HopelessInv'
  <2>1. CASE UNCHANGED <<state, hopeless>>
    BY <2>1 DEF HopelessInv
  <2>2. CASE /\ next \in Item /\ state[next] = "none" /\ scratch[next] = 0
             /\ state'[next] = "item" /\ \A d \in Item : d # next => state'[d] = state[d]
             /\ hopeless' = IF token THEN hopeless \cup {next} ELSE hopeless
    <3>1. pos[next] = next
      BY <2>2 DEF RangeInv, Begun
    <3>2. hopeless \subseteq Item
      BY DEF TypeOK
    <3> QED BY <2>2, <3>1, <3>2 DEF HopelessInv
  <2> QED BY <2>1, <2>2
<1> QED BY <1>2, <1>3, <1>4

LEMMA ShadeKeepsEnds ==
    ASSUME PassAssumption, IndInv, EndsInv, NEW c \in Item, Shade(c) PROVE EndsInv'
<1> USE DEF IndInv, EndsInv
<1>s. /\ pos[c] \in Item /\ Has(c, pos[c]) /\ scratch[pos[c]] = 0
      /\ scratch' = [scratch EXCEPT ![pos[c]] = 1] /\ scratch \in [Item -> Nat]
      /\ state[c] = "item" /\ state'[c] = "count"
      /\ \A d \in Item : d # c => state'[d] = state[d]
  BY ShadeStep
<1>u. UNCHANGED <<pos, done, best, seen, mine, token, hopeless>> /\ ~(Polls(c) /\ token)
      /\ late' = IF token THEN [late EXCEPT ![c] = @ + 1] ELSE late
  BY DEF Shade, progressVars
<1>1. CountInv'
  <2>1. Counted' = Counted
    BY <1>s, <1>u DEF Counted
  <2>2. \A d \in Item : Telling(d) => Telling(d)'
    BY <1>s, <1>u DEF Telling
  <2> QED BY <1>u, <2>1, <2>2 DEF CountInv, LastSaid, Telling
<1>2. LateInv'
  <2>1. \A d \in Item : d # c => ShadedTo(d)' = ShadedTo(d) /\ late'[d] = late[d]
    BY <1>s, <1>u DEF ShadedTo, TypeOK
  <2>2. ShadedTo(c) = pos[c] /\ ShadedTo(c)' = pos[c] + 1
    BY <1>s, <1>u DEF ShadedTo, Counting
  <2>3. CASE ~token
    BY <1>u, <2>1, <2>3 DEF LateInv
  <2>4. CASE token
    <3>1. c \in Nat /\ pos[c] \in Nat /\ c <= pos[c] /\ CancelStride \in Nat \ {0}
      BY <1>s DEF Has, Item, PassAssumption
    <3>2. pos[c] - c \in Nat /\ (pos[c] - c) % CancelStride # 0
      BY <1>u, <2>4, <3>1 DEF Polls
    <3>3. /\ (pos[c] - c) % CancelStride \in 1 .. CancelStride - 1
          /\ (pos[c] - c - 1) % CancelStride = ((pos[c] - c) % CancelStride) - 1
      BY <3>1, <3>2, ModBefore
    <3>4. late[c] \in Nat /\ late'[c] = late[c] + 1
      BY <1>u, <2>4 DEF TypeOK
    <3>5. late[c] = 0 \/ late[c] <= (pos[c] - c - 1) % CancelStride
      BY <2>2 DEF LateInv
    <3>6. late'[c] <= (pos[c] - c) % CancelStride
      BY <3>1, <3>3, <3>4, <3>5
    <3>7. ShadedTo(c)' - c - 1 = pos[c] - c
      BY <2>2, <3>1
    <3> QED BY <1>u, <2>1, <2>4, <3>6, <3>7 DEF LateInv
  <2> QED BY <2>3, <2>4
<1>3. HopelessInv'
  <2>1. SUFFICES ASSUME NEW d \in hopeless
                 PROVE  token /\ state'[d] \in {"item", "ended"} /\ pos[d] = d /\ scratch'[d] = 0
    BY <1>u DEF HopelessInv
  <2>2. d \in Item /\ token /\ state[d] \in {"item", "ended"} /\ pos[d] = d /\ scratch[d] = 0
    BY DEF HopelessInv, TypeOK
  <2>3. d # c
    <3>1. c \in Int /\ CancelStride \in Nat \ {0} /\ 0 % CancelStride = 0
      BY DEF Item, PassAssumption
    <3>2. d = c => Polls(c)
      BY <2>2, <3>1 DEF Polls
    <3> QED BY <1>u, <2>2, <3>2
  <2>4. Has(d, d)
    BY <2>2 DEF Has, Begun, RangeInv, Item
  <2>5. pos[c] # d
    BY <1>s, <2>2, <2>3, <2>4, OneChunk
  <2> QED BY <1>s, <2>2, <2>3, <2>5
<1> QED BY <1>1, <1>2, <1>3

\* Whatever a chunk does between two items, or at its end.
LEMMA OthersKeepLate ==
    ASSUME PassAssumption, IndInv, EndsInv, NEW c \in Item, RunChunk(c), ~Shade(c)
    PROVE  LateInv' /\ HopelessInv'
<1>1. UNCHANGED <<scratch, token, late, hopeless>> /\ (ItEnds(c) \/ GoesOn(c))
  BY ChunkStep
<1>2. \A d \in Item : ShadedTo(d)' = ShadedTo(d)
  BY <1>1 DEF ItEnds, GoesOn, ShadedTo, Counting
<1>3. LateInv'
  BY <1>1, <1>2 DEF EndsInv, LateInv
<1>4. HopelessInv'
  <2>1. hopeless \subseteq Item
    BY DEF IndInv, TypeOK
  <2>2. \A d \in hopeless : state[d] \in {"item", "ended"} /\ token /\ pos[d] = d /\ scratch[d] = 0
    BY DEF EndsInv, HopelessInv
  <2> QED BY <1>1, <2>1, <2>2 DEF HopelessInv, ItEnds, GoesOn, Counting
<1> QED BY <1>3, <1>4

LEMMA EndKeepsCount ==
    ASSUME PassAssumption, IndInv, EndsInv, NEW c \in Item,
           SeesCancel(c) \/ Throws(c) \/ ChunkEnds(c)
    PROVE  CountInv'
<1>1. ItEnds(c) /\ UNCHANGED <<scratch, done, best, seen, mine>>
  <2>1. state' = [state EXCEPT ![c] = "ended"] /\ state[c] = "item" /\ pos' = pos
        /\ UNCHANGED <<scratch, done, best, seen, mine>>
    BY DEF SeesCancel, Throws, ChunkEnds, progressVars
  <2> QED BY <2>1, StateSet DEF ItEnds, States, IndInv
<1>2. Counted' = Counted
  BY <1>1, CountedStays DEF ItEnds
<1>3. \A d \in Item : Telling(d) => Telling(d)'
  BY <1>1 DEF Telling, ItEnds
<1> QED BY <1>1, <1>2, <1>3 DEF CountInv, EndsInv, LastSaid, Telling

LEMMA CountKeepsCount ==
    ASSUME PassAssumption, IndInv, EndsInv, NEW c \in Item, Count(c) PROVE CountInv'
<1> USE DEF IndInv, EndsInv
<1>1. /\ GoesOn(c) /\ state[c] = "count" /\ UNCHANGED <<scratch, best, seen>>
      /\ done' = done + 1 /\ mine' = [mine EXCEPT ![c] = done + 1]
  BY ChunkStep DEF Count, RunChunk, Shade, ItEnds
<1>2. state'[c] \in {"item", "lock"} /\ (Due(done + 1) => state'[c] = "lock")
  BY StateSet DEF Count, NextItem, States
<1>3. done \in Nat /\ best \in Nat /\ mine \in [Item -> Nat] /\ N \in Nat
  BY DEF TypeOK, PassAssumption
<1>4. pos[c] \in Item /\ Has(c, pos[c]) /\ scratch[pos[c]] = 1
  <2>1. pos[c] \in 0 .. N /\ hi[c] \in 0 .. N /\ pos[c] < hi[c] /\ c <= pos[c] /\ c \in Nat
    <3>1. state[c] \in Counting /\ Begun(c)
      BY <1>1 DEF Counting, Begun
    <3>2. pos[c] < hi[c] /\ c <= pos[c]
      BY <3>1 DEF RangeInv
    <3>3. pos[c] \in 0 .. N /\ hi[c] \in 0 .. N
      BY DEF TypeOK
    <3> QED BY <3>2, <3>3 DEF Item
  <2>2. pos[c] \in Item /\ Has(c, pos[c])
    BY <1>1, <2>1 DEF Has, Begun, Item, PassAssumption
  <2> QED BY <1>1, <2>1, <2>2 DEF ShadeInv, ShadedTo, Counting
<1>5. \A d \in Item : state[d] = "count" /\ pos[d] = pos[c] => d = c
  <2>1. SUFFICES ASSUME NEW d \in Item, state[d] = "count", pos[d] = pos[c] PROVE d = c
    OBVIOUS
  <2>2. Has(d, pos[d])
    BY <2>1 DEF Has, Begun, RangeInv, Counting
  <2> QED BY <1>4, <2>1, <2>2, OneChunk
<1>6. Counted' = Counted \cup {pos[c]} /\ pos[c] \notin Counted
  BY <1>1, <1>2, <1>4, <1>5 DEF Counted, GoesOn
<1>7. done' = Cardinality(Counted') /\ done' <= N
  <2>1. IsFiniteSet(Counted) /\ Cardinality(Counted) \in Nat
    BY CountedFinite
  <2>2. Cardinality(Counted') = Cardinality(Counted) + 1
    BY <1>6, <2>1, FS_AddElement
  <2>3. done = Cardinality(Counted) /\ done' = done + 1
    BY <1>1 DEF CountInv
  <2>4. IsFiniteSet(Item) /\ Cardinality(Item) = N
    BY FS_Interval DEF Item, PassAssumption
  <2>5. Counted' \in SUBSET Item
    BY DEF Counted
  <2>6. Cardinality(Counted') <= N
    BY <2>4, <2>5, FS_Subset
  <2> QED BY <2>2, <2>3, <2>6
<1>8. best' <= done' /\ \A d \in Item : mine'[d] <= done'
  BY <1>1, <1>3 DEF CountInv
<1>9. ASSUME done' = N PROVE state'[c] = "lock" /\ mine'[c] = N
  BY <1>1, <1>2, <1>3, <1>9 DEF Due
<1> QED BY <1>7, <1>8, <1>9 DEF CountInv

LEMMA LockKeepsCount ==
    ASSUME PassAssumption, IndInv, EndsInv, NEW c \in Item, Lock(c) PROVE CountInv'
<1>1. /\ state[c] = "lock" /\ pos' = pos /\ UNCHANGED <<scratch, done, best, seen, mine>>
      /\ state'[c] = "raise" /\ \A d \in Item : d # c => state'[d] = state[d]
  BY StateSet DEF Lock, ChunkOnly, cancelVars, States, IndInv
<1>2. Counted' = Counted
  BY <1>1, CountedStays
<1>3. \A d \in Item : Telling(d) => Telling(d)'
  BY <1>1 DEF Telling
<1> QED BY <1>1, <1>2, <1>3 DEF CountInv, EndsInv, LastSaid, Telling

LEMMA RaiseKeepsCount ==
    ASSUME PassAssumption, IndInv, EndsInv, NEW c \in Item, Raise(c) PROVE CountInv'
<1> USE DEF IndInv, EndsInv
<1>1. /\ GoesOn(c) /\ state[c] = "raise" /\ UNCHANGED <<scratch, done, seen, mine>>
  BY ChunkStep DEF Raise, RunChunk, Shade, ItEnds
<1>2. /\ mine[c] >= best => best' = mine[c] /\ state'[c] = "load"
      /\ ~(mine[c] >= best) => best' = best /\ state'[c] = "item"
  BY StateSet DEF Raise, NextItem, States
<1>3. done \in Nat /\ best \in Nat /\ mine \in [Item -> Nat] /\ N \in Nat
  BY DEF TypeOK, PassAssumption
<1>4. Counted' = Counted
  BY <1>1, <1>2, CountedStays DEF GoesOn
<1>5. best <= done /\ mine[c] <= done /\ best' <= done
  BY <1>2, <1>3 DEF CountInv
<1>6. \A d \in Item : state[d] \notin {"load", "callback"}
  BY <1>1 DEF ProgressInv
<1>7. ASSUME done = N, NEW d \in Item, Telling(d) PROVE Telling(d)'
  <2>1. state[d] \in {"lock", "raise"} /\ mine[d] = N
    BY <1>6, <1>7 DEF Telling
  <2>2. CASE d # c
    BY <1>1, <2>1, <2>2 DEF Telling, GoesOn
  <2>3. CASE d = c
    BY <1>2, <1>3, <1>5, <1>7, <2>1, <2>3 DEF Telling
  <2> QED BY <2>2, <2>3
<1> QED BY <1>1, <1>4, <1>5, <1>7 DEF CountInv, LastSaid, Telling

LEMMA LoadKeepsCount ==
    ASSUME PassAssumption, IndInv, EndsInv, NEW c \in Item, Load(c) PROVE CountInv'
<1> USE DEF IndInv, EndsInv
<1>1. /\ state[c] = "load" /\ pos' = pos /\ UNCHANGED <<scratch, done, best, seen>>
      /\ state'[c] = "callback" /\ \A d \in Item : d # c => state'[d] = state[d]
      /\ mine' = [mine EXCEPT ![c] = best]
  BY StateSet DEF Load, ChunkOnly, cancelVars, States
<1>2. Counted' = Counted
  BY <1>1, CountedStays
<1>3. \A d \in Item : mine'[d] <= done
  BY <1>1 DEF CountInv, TypeOK
<1>4. \A d \in Item : Telling(d) => Telling(d)'
  BY <1>1 DEF Telling, TypeOK
<1> QED BY <1>1, <1>2, <1>3, <1>4 DEF CountInv, LastSaid, Telling

LEMMA CallbackKeepsCount ==
    ASSUME PassAssumption, IndInv, EndsInv, NEW c \in Item, Callback(c) PROVE CountInv'
<1> USE DEF IndInv, EndsInv
<1>1. /\ GoesOn(c) /\ state[c] = "callback" /\ UNCHANGED <<scratch, done, best, mine>>
  BY ChunkStep DEF Callback, RunChunk, Shade, ItEnds
<1>2. state'[c] = "item" /\ mine[c] = best /\ seen' = Append(seen, best)
  BY <1>1, StateSet DEF Callback, NextItem, States, ProgressInv
<1>3. done \in Nat /\ best \in Nat /\ seen \in Seq(Nat) /\ N \in Nat
  BY DEF TypeOK, PassAssumption
<1>4. Counted' = Counted
  BY <1>1, <1>2, CountedStays DEF GoesOn
<1>5. seen' # <<>> /\ seen'[Len(seen')] = best
  BY <1>2, <1>3
<1>6. ASSUME done = N, LastSaid PROVE LastSaid'
  <2>1. seen[Len(seen)] = N /\ Len(seen) \in 1 .. Len(seen)
    BY <1>3, <1>6 DEF LastSaid
  <2>2. best >= N
    BY <2>1 DEF ProgressInv
  <2>3. best <= N
    BY <1>6 DEF CountInv
  <2> QED BY <1>3, <1>5, <2>2, <2>3 DEF LastSaid
<1>7. ASSUME NEW d \in Item, Telling(d) PROVE LastSaid' \/ Telling(d)'
  <2>1. CASE d # c
    BY <1>1, <1>7, <2>1 DEF Telling, GoesOn
  <2>2. CASE d = c
    BY <1>1, <1>5, <1>7, <2>2 DEF Telling, LastSaid
  <2> QED BY <2>1, <2>2
<1> QED BY <1>1, <1>4, <1>6, <1>7 DEF CountInv, Telling

LEMMA EndsKept == ASSUME PassAssumption, IndInv, EndsInv, [Next]_vars PROVE EndsInv'
<1>1. CASE Caller
  BY <1>1, CallerKeepsEnds
<1>2. ASSUME NEW c \in Item, RunChunk(c) PROVE EndsInv'
  <2>1. CASE Shade(c)
    BY <2>1, ShadeKeepsEnds
  <2>2. CASE ~Shade(c)
    <3>1. CountInv'
      BY <1>2, <2>2, EndKeepsCount, CountKeepsCount, LockKeepsCount, RaiseKeepsCount,
         LoadKeepsCount, CallbackKeepsCount DEF RunChunk
    <3> QED BY <1>2, <2>2, <3>1, OthersKeepLate DEF EndsInv
  <2> QED BY <2>1, <2>2
<1>3. CASE RequestCancel \/ UNCHANGED vars
  <2>1. UNCHANGED <<chunkVars, scratch, progressVars, late, hopeless>> /\ (token' = token \/ ~token)
        /\ (token => token')
    BY <1>3 DEF RequestCancel, vars, cancelVars
  <2>2. Counted' = Counted
    BY <2>1 DEF Counted, chunkVars
  <2>3. CountInv'
    BY <2>1, <2>2 DEF EndsInv, CountInv, LastSaid, chunkVars, progressVars
  <2>4. LateInv'
    BY <2>1 DEF EndsInv, LateInv, ShadedTo, chunkVars
  <2>5. HopelessInv'
    BY <2>1 DEF EndsInv, HopelessInv, chunkVars
  <2> QED BY <2>3, <2>4, <2>5 DEF EndsInv
<1> QED BY <1>1, <1>2, <1>3 DEF Next, Working

\* A pass that finishes has told the host that it is whole, and one that is asked to
\* stop does: no chunk begins as many items as lie between two polls, and one that
\* was handed out after the request begins none.
THEOREM PassEndsPromptly == ASSUME PassAssumption PROVE Spec => []EndsPromptly
<1>1. Init => EndsInv
  BY InitEnds
<1>2. IndInv /\ EndsInv /\ [Next]_vars => EndsInv'
  BY EndsKept
<1>3. ASSUME IndInv, EndsInv, EveryItemOnce PROVE EndsPromptly
  <2>1. ProgressReachesEnd
    <3>1. SUFFICES ASSUME caller = "finished" PROVE LastSaid
      BY DEF ProgressReachesEnd, LastSaid
    <3>2. \A c \in Item : state[c] \in {"none", "ended"}
      BY <1>3, <3>1 DEF IndInv, EndInv, NoThreadOutlives
    <3>3. Counted = Item
      BY <1>3, <3>1, <3>2 DEF Counted, EveryItemOnce
    <3>4. done = N
      BY <1>3, <3>3, CountedFinite DEF EndsInv, CountInv
    <3> QED BY <1>3, <3>2, <3>4 DEF EndsInv, CountInv
  <2>2. CancelIsPrompt
    <3>1. ASSUME NEW c \in Item PROVE late[c] < CancelStride
      <4>1. CancelStride \in Nat \ {0} /\ ShadedTo(c) - c - 1 \in Int
        <5>1. pos[c] \in 0 .. N /\ c \in Int /\ CancelStride \in Nat \ {0}
          BY <1>3, SMTT(40) DEF PassAssumption, IndInv, TypeOK, Item
        <5> QED BY <5>1 DEF ShadedTo
      <4>2. (ShadedTo(c) - c - 1) % CancelStride \in 0 .. CancelStride - 1
        BY <4>1
      <4>3. late[c] \in Nat
        BY <1>3 DEF IndInv, TypeOK
      <4> QED BY <1>3, <4>1, <4>2, <4>3 DEF EndsInv, LateInv
    <3>2. \A c \in hopeless : pos[c] = c /\ scratch[c] = 0
      BY <1>3 DEF EndsInv, HopelessInv
    <3> QED BY <3>1, <3>2 DEF CancelIsPrompt
  <2> QED BY <2>1, <2>2 DEF EndsPromptly
<1> QED BY <1>1, <1>2, <1>3, Invariance, EachItemOnce, PTL DEF Spec

-----------------------------------------------------------------------------
(* Queries on a device that replaces its buffers together *)

Snapshot == [id : Nat, serial : Nat, at : Address \cup {"nowhere"}]

\* Only flatten() gives serials, and none twice.
Sane(f) == f \in Snapshot /\ f.serial \in {0, f.id}

SnapshotInv ==
    /\ snapshots \in Nat
    /\ heap \in [Address -> Snapshot] /\ \A a \in Address : Sane(heap[a])
    /\ flat \in [Thread -> Snapshot] /\ \A t \in Thread : Sane(flat[t])
    /\ pc \in [Thread -> {"idle", "lock", "ensure", "fill", "run", "reference", "answered"}]
    /\ answer \in [Thread -> SUBSET Nat] /\ parts \in [1 .. Part -> Nat]

\* Who looks at the buffers or fills them holds the mutex.
LockInv == \A t \in Thread : pc[t] \in {"ensure", "fill", "run"} => deviceMutex = t

\* The key names a snapshot of flatten() only if all buffers are of it; a thread
\* that runs its kernel has all buffers of its own snapshot, keyed or not.
ResidentInv == resident /\ key.serial # 0 => \A p \in 1 .. Part : parts[p] = key.serial
RunInv == \A t \in Thread : pc[t] = "run" => \A p \in 1 .. Part : parts[p] = flat[t].id

\* The bounds that the guards keep, and where snapshots lie.
Within ==
    /\ snapshots <= MaxSnapshots /\ faults \in 0 .. MaxFailures
    /\ resident \in BOOLEAN /\ deviceMutex \in Thread \cup {Device!Free}
    /\ uploaded \in [Thread -> 0 .. Part]
    /\ \A a \in Address : heap[a].id <= MaxSnapshots
                         /\ (heap[a] = Device!NoFlat \/ heap[a].at = a)
    /\ \A t \in Thread : flat[t].id <= MaxSnapshots /\ \A s \in answer[t] : s <= MaxSnapshots
    /\ \A p \in 1 .. Part : parts[p] <= MaxSnapshots

DeviceInv == SnapshotInv /\ LockInv /\ ResidentInv /\ RunInv /\ Device!AnsweredFromOwnSnapshot

LEMMA InitDevice == Device!Init => DeviceInv
BY DeviceAssumption DEF Device!Init, DeviceInv, SnapshotInv, LockInv, ResidentInv, RunInv,
   Device!AnsweredFromOwnSnapshot,
       Snapshot, Sane, Device!NoFlat, Device!DeviceAssumption

\* A step of thread t alone, in terms of where it goes.
LEMMA GoesTo ==
    ASSUME SnapshotInv, NEW t \in Thread, NEW w, Device!Go(t, w)
    PROVE  pc'[t] = w /\ \A u \in Thread : u # t => pc'[u] = pc[u]
BY DEF SnapshotInv, Device!Go

\* With the mutex free nobody is at the buffers; with it held, nobody else is.
LEMMA AloneAtBuffers ==
    ASSUME LockInv, NEW t \in Thread,
           deviceMutex = Device!Free \/ pc[t] \in {"ensure", "fill", "run"}
    PROVE  \A u \in Thread : u # t => pc[u] \notin {"ensure", "fill", "run"}
BY DeviceAssumption DEF LockInv, Device!DeviceAssumption

LEMMA InitWithin == Device!Init => Within
<1> USE DEF Device!NoFlat
<1>1. MaxSnapshots \in Nat /\ MaxFailures \in Nat /\ Part \in Nat \ {0}
  BY DeviceAssumption DEF Device!DeviceAssumption
<1> SUFFICES ASSUME Device!Init PROVE Within
  OBVIOUS
<1>2. uploaded \in [Thread -> 0 .. Part] /\ \A p \in 1 .. Part : parts[p] <= MaxSnapshots
  BY <1>1 DEF Device!Init
<1>3. \A t \in Thread : flat[t].id <= MaxSnapshots /\ \A s \in answer[t] : s <= MaxSnapshots
  BY <1>1 DEF Device!Init
<1>4. \A a \in Address : heap[a].id <= MaxSnapshots /\ heap[a] = Device!NoFlat
  BY <1>1 DEF Device!Init
<1>5. snapshots <= MaxSnapshots /\ faults \in 0 .. MaxFailures
  BY <1>1 DEF Device!Init
<1>6. resident \in BOOLEAN /\ deviceMutex \in Thread \cup {Device!Free}
  BY DEF Device!Init
<1> QED BY <1>2, <1>3, <1>4, <1>5, <1>6 DEF Within

LEMMA WithinSnapshots ==
    ASSUME SnapshotInv, Within, NEW a \in Address,
           Device!Flatten(a) \/ Device!HandBuild(a) \/ Device!FreeFlat(a)
    PROVE  Within'
<1>1. /\ UNCHANGED <<deviceMutex, resident, parts, flat, uploaded, answer, faults>>
      /\ snapshots' <= MaxSnapshots
      /\ \E f \in Snapshot : /\ f.id <= MaxSnapshots /\ (f = Device!NoFlat \/ f.at = a)
                             /\ heap' = [heap EXCEPT ![a] = f]
  <2>1. MaxSnapshots \in Nat /\ snapshots \in Nat
    BY DeviceAssumption DEF Device!DeviceAssumption, SnapshotInv
  <2> QED BY <2>1 DEF Device!Flatten, Device!HandBuild, Device!FreeFlat, Device!deviceVars,
                      Device!threadVars, Within, Snapshot, Device!NoFlat
<1>2. \A b \in Address :
          heap'[b].id <= MaxSnapshots /\ (heap'[b] = Device!NoFlat \/ heap'[b].at = b)
  BY <1>1 DEF SnapshotInv, Within
<1> QED BY <1>1, <1>2 DEF Within

LEMMA WithinQueries ==
    ASSUME SnapshotInv, RunInv, Within, NEW t \in Thread,
           \/ Device!Query(t) \/ Device!Lock(t) \/ Device!Ensure(t) \/ Device!Fill(t)
           \/ Device!Filled(t) \/ Device!Run(t) \/ Device!Fail(t) \/ Device!Drop(t)
           \/ Device!Reference(t)
    PROVE  Within'
<1>1. /\ Part \in Nat \ {0} /\ MaxSnapshots \in Nat /\ MaxFailures \in Nat
      /\ flat \in [Thread -> Snapshot] /\ flat[t].id \in Nat /\ flat[t].id <= MaxSnapshots
  BY DeviceAssumption DEF Device!DeviceAssumption, SnapshotInv, Snapshot, Within
<1>2. /\ UNCHANGED <<heap, snapshots>> /\ faults' \in 0 .. MaxFailures /\ resident' \in BOOLEAN
      /\ deviceMutex' \in Thread \cup {Device!Free}
  <2>1. UNCHANGED <<heap, snapshots>>
    BY DEF Device!Query, Device!Lock, Device!Ensure, Device!Fill, Device!Filled, Device!Run,
       Device!Fail, Device!Drop, Device!Reference
  <2>2. resident' \in BOOLEAN /\ deviceMutex' \in Thread \cup {Device!Free}
    BY DEF Device!Query, Device!Lock, Device!Ensure, Device!Fill, Device!Filled, Device!Run,
       Device!Fail, Device!Drop, Device!Reference, Device!deviceVars, Within
  <2>3. faults' = faults \/ (faults < MaxFailures /\ faults' = faults + 1)
    BY DEF Device!Query, Device!Lock, Device!Ensure, Device!Fill, Device!Filled, Device!Run,
       Device!Fail, Device!Drop, Device!Reference
  <2> QED BY <1>1, <2>1, <2>2, <2>3 DEF Within
<1>3. uploaded' \in [Thread -> 0 .. Part]
  BY <1>1 DEF Device!Query, Device!Lock, Device!Ensure, Device!Fill, Device!Filled, Device!Run,
     Device!Fail, Device!Drop, Device!Reference, Within
<1>4. parts' = parts \/ parts' = [p \in 1 .. Part |-> flat[t].id]
  BY DEF Device!Query, Device!Lock, Device!Ensure, Device!Fill, Device!Filled, Device!Run,
     Device!Fail, Device!Drop, Device!Reference, Device!deviceVars
<1>5. \A p \in 1 .. Part : parts'[p] <= MaxSnapshots
  BY <1>1, <1>4 DEF Within
<1>6. flat' = flat \/ \E a \in Address : flat' = [flat EXCEPT ![t] = heap[a]]
  BY DEF Device!Query, Device!Lock, Device!Ensure, Device!Fill, Device!Filled, Device!Run,
     Device!Fail, Device!Drop, Device!Reference
<1>7. \A u \in Thread : flat'[u].id <= MaxSnapshots
  BY <1>1, <1>6 DEF Within
<1>8. answer' = answer \/ \E S \in {{}, {flat[t].id}, {parts[p] : p \in 1 .. Part}} :
                             answer' = [answer EXCEPT ![t] = S]
  BY DEF Device!Query, Device!Lock, Device!Ensure, Device!Fill, Device!Filled, Device!Run,
     Device!Fail, Device!Drop, Device!Reference
<1>9. \A u \in Thread : \A s \in answer'[u] : s <= MaxSnapshots
  <2>1. \A S \in {{}, {flat[t].id}, {parts[p] : p \in 1 .. Part}} : \A s \in S : s <= MaxSnapshots
    BY <1>1 DEF Within
  <2> QED BY <1>8, <2>1 DEF SnapshotInv, Within
<1> QED BY <1>2, <1>3, <1>5, <1>7, <1>9 DEF Within

LEMMA SnapshotStep ==
    ASSUME DeviceInv, NEW a \in Address,
           Device!Flatten(a) \/ Device!HandBuild(a) \/ Device!FreeFlat(a)
    PROVE  DeviceInv'
<1>1. /\ UNCHANGED <<deviceMutex, resident, key, parts, pc, flat, uploaded, answer>>
      /\ \E f \in Snapshot : Sane(f) /\ heap' = [heap EXCEPT ![a] = f]
      /\ snapshots' \in Nat
  BY DEF Device!Flatten, Device!HandBuild, Device!FreeFlat, Device!deviceVars,
     Device!threadVars, DeviceInv, SnapshotInv, Sane,
         Snapshot, Device!NoFlat
<1>2. SnapshotInv'
  BY <1>1 DEF DeviceInv, SnapshotInv, Sane
<1> QED
  BY <1>1, <1>2 DEF DeviceInv, LockInv, ResidentInv, RunInv, Device!AnsweredFromOwnSnapshot

LEMMA QueryStep ==
    ASSUME DeviceInv, NEW t \in Thread,
           \/ Device!Query(t) \/ Device!Lock(t) \/ Device!Ensure(t) \/ Device!Fill(t)
                  \/ Device!Filled(t)
           \/ Device!Run(t) \/ Device!Fail(t) \/ Device!Drop(t) \/ Device!Reference(t)
    PROVE  DeviceInv'
<1> USE DEF DeviceInv
<1>0. Sane(flat[t]) /\ flat[t] \in Snapshot /\ flat[t].id \in Nat
  BY DEF SnapshotInv, Sane, Snapshot
<1>1. CASE Device!Query(t)
  <2>1. PICK a \in Address : flat' = [flat EXCEPT ![t] = heap[a]]
    BY <1>1 DEF Device!Query
  <2>2. Device!Go(t, "lock") /\ answer' = [answer EXCEPT ![t] = {}]
        /\ UNCHANGED <<heap, snapshots, deviceMutex, resident, key, parts>>
    BY <1>1 DEF Device!Query, Device!deviceVars
  <2>3. pc'[t] = "lock" /\ \A u \in Thread : u # t => pc'[u] = pc[u] /\ flat'[u] = flat[u]
                                                      /\ answer'[u] = answer[u]
    BY <2>1, <2>2, GoesTo DEF SnapshotInv
  <2>4. SnapshotInv'
    BY <2>1, <2>2 DEF SnapshotInv, Device!Go, Sane
  <2>5. LockInv' /\ ResidentInv'
    BY <2>2, <2>3 DEF LockInv, ResidentInv
  <2>6. RunInv' /\ Device!AnsweredFromOwnSnapshot'
    BY <2>2, <2>3 DEF RunInv, Device!AnsweredFromOwnSnapshot
  <2> QED BY <2>4, <2>5, <2>6
<1>2. CASE Device!Lock(t)
  <2>1. \A u \in Thread : pc[u] \notin {"ensure", "fill", "run"}
    BY <1>2, AloneAtBuffers DEF Device!Lock
  <2>2. pc'[t] = "ensure" /\ \A u \in Thread : u # t => pc'[u] = pc[u]
    BY <1>2, GoesTo DEF Device!Lock
  <2>3. SnapshotInv'
    BY <1>2 DEF Device!Lock, SnapshotInv, Device!Go, Sane
  <2>4. LockInv'
    BY <1>2, <2>1, <2>2 DEF Device!Lock, LockInv
  <2> QED
    BY <1>2, <2>2, <2>3, <2>4 DEF Device!Lock, ResidentInv, RunInv,
       Device!AnsweredFromOwnSnapshot
<1>3. CASE Device!Ensure(t)
  <2>1. pc'[t] \in {"run", "fill"} /\ \A u \in Thread : u # t => pc'[u] = pc[u]
    BY <1>3, GoesTo DEF Device!Ensure
  <2>2. /\ pc[t] = "ensure" /\ (resident' => resident)
        /\ UNCHANGED <<heap, snapshots, deviceMutex, key, parts, flat, answer>>
    BY <1>3 DEF Device!Ensure
  <2>3. SnapshotInv'
    BY <1>3 DEF Device!Ensure, SnapshotInv, Device!Go, Sane
  <2>4. LockInv' /\ ResidentInv' /\ Device!AnsweredFromOwnSnapshot'
    BY <2>1, <2>2 DEF LockInv, ResidentInv, Device!AnsweredFromOwnSnapshot
  <2>5. ASSUME pc'[t] = "run" PROVE \A p \in 1 .. Part : parts[p] = flat[t].id
    <3>1. Device!NamesResident(flat[t])
      <4>1. CASE Device!Go(t, "fill")
        BY <2>5, <4>1, GoesTo
      <4> QED BY <1>3, <4>1 DEF Device!Ensure
    <3>2. key.serial = flat[t].serial
      BY <1>0, <3>1 DEF Device!NamesResident, Device!Key, Snapshot
    <3> QED BY <1>0, <3>1, <3>2 DEF Device!NamesResident, ResidentInv, Sane
  <2>6. RunInv'
    BY <2>1, <2>2, <2>5 DEF RunInv
  <2> QED BY <2>3, <2>4, <2>6
<1>4. CASE Device!Fill(t)
  BY <1>4 DEF Device!Fill, SnapshotInv, Sane, LockInv, ResidentInv, RunInv,
     Device!AnsweredFromOwnSnapshot
<1>5. CASE Device!Filled(t)
  <2>1. \A u \in Thread : u # t => pc[u] \notin {"ensure", "fill", "run"}
    BY <1>5, AloneAtBuffers DEF Device!Filled
  <2>2. pc'[t] = "run" /\ \A u \in Thread : u # t => pc'[u] = pc[u]
    BY <1>5, GoesTo DEF Device!Filled
  <2>3. SnapshotInv'
    BY <1>0, <1>5 DEF Device!Filled, SnapshotInv, Device!Go, Sane
  <2>4. LockInv' /\ Device!AnsweredFromOwnSnapshot'
    BY <1>5, <2>2 DEF Device!Filled, LockInv, Device!AnsweredFromOwnSnapshot
  <2>5. ResidentInv'
    <3>1. key'.serial = flat[t].serial
      BY <1>0, <1>5 DEF Device!Filled, Device!Key, Snapshot
    <3> QED BY <1>0, <1>5, <3>1 DEF Device!Filled, ResidentInv, Sane
  <2>6. RunInv'
    BY <1>5, <2>1, <2>2 DEF Device!Filled, RunInv
  <2> QED BY <2>3, <2>4, <2>5, <2>6
<1>6. CASE Device!Run(t)
  <2>1. \A u \in Thread : u # t => pc[u] \notin {"ensure", "fill", "run"}
    BY <1>6, AloneAtBuffers DEF Device!Run
  <2>2. pc'[t] = "answered" /\ \A u \in Thread : u # t => pc'[u] = pc[u]
    BY <1>6, GoesTo DEF Device!Run
  <2>3. {parts[p] : p \in 1 .. Part} = {flat[t].id}
    <3>1. \A p \in 1 .. Part : parts[p] = flat[t].id
      BY <1>6 DEF Device!Run, RunInv
    <3>2. 1 \in 1 .. Part
      BY DeviceAssumption DEF Device!DeviceAssumption
    <3> QED BY <3>1, <3>2
  <2>4. answer' = [answer EXCEPT ![t] = {flat[t].id}]
    BY <1>6, <2>3 DEF Device!Run
  <2>5. SnapshotInv'
    BY <1>0, <1>6, <2>4 DEF Device!Run, SnapshotInv, Device!Go, Sane
  <2>6. LockInv' /\ ResidentInv' /\ RunInv'
    BY <1>6, <2>1, <2>2 DEF Device!Run, LockInv, ResidentInv, RunInv
  <2>7. Device!AnsweredFromOwnSnapshot'
    BY <1>6, <2>2, <2>4 DEF Device!Run, SnapshotInv, Device!AnsweredFromOwnSnapshot
  <2> QED BY <2>5, <2>6, <2>7
<1>7. CASE Device!Fail(t)
  <2>1. \A u \in Thread : u # t => pc[u] \notin {"ensure", "fill", "run"}
    BY <1>7, AloneAtBuffers DEF Device!Fail
  <2>2. pc'[t] = "reference" /\ \A u \in Thread : u # t => pc'[u] = pc[u]
    BY <1>7, GoesTo DEF Device!Fail
  <2>3. SnapshotInv'
    BY <1>7 DEF Device!Fail, SnapshotInv, Device!Go, Sane
  <2> QED
    BY <1>7, <2>1, <2>2, <2>3
    DEF Device!Fail, LockInv, ResidentInv, RunInv, Device!AnsweredFromOwnSnapshot
\* The handler is that of the other backend.
<1>8. CASE Device!Drop(t)
  BY <1>8 DEF Device!Drop, SnapshotInv
<1>9. CASE Device!Reference(t)
  <2>1. pc'[t] = "answered" /\ \A u \in Thread : u # t => pc'[u] = pc[u]
    BY <1>9, GoesTo DEF Device!Reference
  <2>2. SnapshotInv'
    BY <1>0, <1>9 DEF Device!Reference, SnapshotInv, Device!Go, Sane, Device!deviceVars
  <2> QED
    BY <1>9, <2>1, <2>2
    DEF Device!Reference, SnapshotInv, LockInv, ResidentInv, RunInv,
       Device!AnsweredFromOwnSnapshot, Device!deviceVars
<1> QED BY <1>1, <1>2, <1>3, <1>4, <1>5, <1>6, <1>7, <1>8, <1>9

DeviceFull == DeviceInv /\ Within

LEMMA DeviceStep == ASSUME DeviceFull, [Device!Next]_(Device!vars) PROVE DeviceFull'
<1> USE DEF DeviceFull
<1>1. CASE UNCHANGED Device!vars
  BY <1>1 DEF Device!vars, Device!deviceVars, Device!threadVars, DeviceInv, SnapshotInv, Sane,
     LockInv,
             ResidentInv, RunInv, Device!AnsweredFromOwnSnapshot, Within
<1>2. CASE Device!Next
  <2>1. ASSUME NEW a \in Address, Device!Flatten(a) \/ Device!HandBuild(a) \/ Device!FreeFlat(a)
        PROVE  DeviceFull'
    BY <2>1, SnapshotStep, WithinSnapshots DEF DeviceInv
  <2>2. ASSUME NEW t \in Thread,
               \/ Device!Query(t) \/ Device!Lock(t) \/ Device!Ensure(t) \/ Device!Fill(t)
               \/ Device!Filled(t) \/ Device!Run(t) \/ Device!Fail(t) \/ Device!Drop(t)
               \/ Device!Reference(t)
        PROVE  DeviceFull'
    BY <2>2, QueryStep, WithinQueries DEF DeviceInv
  <2> QED BY <1>2, <2>1, <2>2 DEF Device!Next
<1> QED BY <1>1, <1>2

LEMMA DeviceSound ==
    ASSUME DeviceFull
    PROVE  Device!TypeOK /\ Device!AnsweredFromOwnSnapshot /\ Device!KeyNamesBuffers
<1>1. Device!TypeOK
  <2>1. \A p \in 1 .. Part : parts[p] \in 0 .. MaxSnapshots
    BY SMTT(40) DEF DeviceFull, DeviceInv, SnapshotInv, Within
  <2>2. \A t \in Thread : flat[t].id \in 0 .. MaxSnapshots /\ answer[t] \subseteq 0 .. MaxSnapshots
    BY DEF DeviceFull, DeviceInv, SnapshotInv, Snapshot, Within
  <2>3. snapshots \in 0 .. MaxSnapshots
    BY DEF DeviceFull, DeviceInv, SnapshotInv, Within
  <2> QED BY <2>1, <2>2, <2>3 DEF Device!TypeOK, DeviceFull, DeviceInv, SnapshotInv, Within
<1>2. Device!KeyNamesBuffers
  <2>1. SUFFICES ASSUME resident, NEW a \in Address, Device!NamesResident(heap[a]),
                        NEW p \in 1 .. Part
                 PROVE  parts[p] = heap[a].id
    BY DEF Device!KeyNamesBuffers
  <2>2. heap[a] \in Snapshot /\ heap[a].serial = heap[a].id
    BY <2>1 DEF DeviceFull, DeviceInv, SnapshotInv, Sane, Device!NamesResident
  <2>3. key.serial = heap[a].serial
    BY <2>1, <2>2 DEF Device!NamesResident, Device!Key, Snapshot
  <2> QED BY <2>1, <2>2, <2>3 DEF DeviceFull, DeviceInv, ResidentInv, Device!NamesResident
<1> QED BY <1>1, <1>2 DEF DeviceFull, DeviceInv

\* CudaBackend answers a query from the snapshot it was asked about, whatever fails
\* and however threads and addresses are reused: what ensureBvhResident() leaves
\* behind is the whole of one snapshot or nothing, and it is keyed as that one.
THEOREM AtomicAnswers ==
    MCSpec => [](Device!TypeOK /\ Device!AnsweredFromOwnSnapshot /\ Device!KeyNamesBuffers)
<1>1. MCInit => DeviceFull
  BY InitDevice, InitWithin DEF MCInit, DeviceFull
<1>2. DeviceFull /\ [MCNext]_allVars => DeviceFull'
  <2> SUFFICES ASSUME DeviceFull, [MCNext]_allVars PROVE DeviceFull'
    OBVIOUS
  <2>1. [Device!Next]_(Device!vars)
    BY DEF MCNext, PassMoves, BuildMoves, DeviceMoves, BakeMoves, BundleMoves, MergeMoves,
       FramesMove, ImageMoves, FlowMoves, RemeshMoves, allVars, deviceVars, Device!vars,
       Device!deviceVars, Device!threadVars
  <2> QED BY <2>1, DeviceStep
<1>3. DeviceFull => Device!TypeOK /\ Device!AnsweredFromOwnSnapshot /\ Device!KeyNamesBuffers
  BY DeviceSound, SMTT(40)
<1> QED BY <1>1, <1>2, <1>3, PTL DEF MCSpec

-----------------------------------------------------------------------------
(* The framing of the bridge *)

\* The theorems of StreamProofs, about the stream, the bakes and the hierarchy of MCEngine.
Streams == INSTANCE StreamProofs WITH
    Radix <- 2, HeaderBytes <- 2, Limit <- 2, RecvBuffer <- 3, Payload <- MCPayload,
    MaxFrames <- 2, MaxConnections <- 2, failed <- refused,
    Width <- 2, Height <- 7, Radii <- {0, 1, 2}, Bounds <- {0, 13},
    Kinds <- {"scalar", "id", "density", "field"}, ValueMin <- 0, ValueMax <- 100,
    Coverages <- MCCoverages,
    Shaded <- [t \in 1 .. 2 |->
        [p \in BakeTexel |-> 3 + ((7 * p[1] + 11 * p[2] * p[2] + 5 * t) % 13)]],
    scratch <- rows, seen <- noted,
    Refs <- 6, Worker <- {"w1", "w2"}, LeafSize <- 1, MaxDepth <- 8, PollSpan <- 3,
    TaskDepth <- 2, token <- buildToken

\* The two instances of FrameStream are the same module, definition by definition.
LEMMA FramingStep == Frames!Next => Streams!Frames!Next
BY DEF Frames!Byte, Streams!Frames!Byte, Frames!Shifted, Streams!Frames!Shifted, Frames!Smaller,
   Streams!Frames!Smaller, Frames!Take, Streams!Frames!Take, Frames!Skip, Streams!Frames!Skip,
   Frames!Header, Streams!Frames!Header, Frames!encodeFrame, Streams!Frames!encodeFrame,
   Frames!HasHeader, Streams!Frames!HasHeader, Frames!Announced, Streams!Frames!Announced,
   Frames!Oversize, Streams!Frames!Oversize, Frames!Complete, Streams!Frames!Complete,
   Frames!SenderOnly, Streams!Frames!SenderOnly, Frames!sendFrame, Streams!Frames!sendFrame,
   Frames!Write, Streams!Frames!Write, Frames!Breaks, Streams!Frames!Breaks,
   Frames!ReceiverOnly, Streams!Frames!ReceiverOnly, Frames!Pop, Streams!Frames!Pop,
   Frames!Refuse, Streams!Frames!Refuse, Frames!Starved, Streams!Frames!Starved, Frames!Recv,
   Streams!Frames!Recv, Frames!Disconnected, Streams!Frames!Disconnected, Frames!Reconnect,
   Streams!Frames!Reconnect, Frames!Writes, Streams!Frames!Writes, Frames!Receives,
   Streams!Frames!Receives, Frames!Next, Streams!Frames!Next

LEMMA FramingRuns == MCSpec => Streams!Frames!Spec
<1>1. MCInit => Streams!Frames!Init
  BY DEF MCInit, Frames!Init, Streams!Frames!Init
<1>2. [MCNext]_allVars => [Streams!Frames!Next]_(Streams!Frames!vars)
  BY FramingStep DEF MCNext, PassMoves, BuildMoves, DeviceMoves, BakeMoves, BundleMoves,
     MergeMoves,
     FramesMove, ImageMoves, FlowMoves, RemeshMoves, allVars, frameVars, Streams!Frames!vars
<1> QED BY <1>1, <1>2, PTL DEF MCSpec, Streams!Frames!Spec

LEMMA FramingAssumption == Streams!Frames!StreamAssumption
BY FramesAssumption DEF Frames!StreamAssumption, Streams!Frames!StreamAssumption, Frames!Byte,
   Streams!Frames!Byte, Frames!Shifted, Streams!Frames!Shifted

\* A message above the limit is neither sent nor taken in, nor a connection given up
\* for anything else, and the buffer stays within its bound (server.cpp, protocol.cpp).
THEOREM EngineKeepsLimit == MCSpec => []LimitKept
<1>1. Streams!Frames!LimitKept => LimitKept
  BY DEF LimitKept, Frames!LimitKept, Streams!Frames!LimitKept, Frames!TypeOK,
     Streams!Frames!TypeOK, Frames!RefusedForCause, Streams!Frames!RefusedForCause,
     Frames!BufferBounded, Streams!Frames!BufferBounded, Frames!Byte, Streams!Frames!Byte
<1>2. Streams!Frames!Spec => []Streams!Frames!LimitKept
  BY FramingAssumption, Streams!LimitIsKept
<1> QED BY <1>1, <1>2, FramingRuns, PTL

\* Payloads come out of the framing as they went in, in their order, whatever pieces
\* recv() takes the stream in: the framing implements the channel of FrameChannel.
THEOREM EngineFramesAreChannel == MCSpec => ImplementsChannel
<1>1. Streams!Frames!Spec => Streams!Frames!ImplementsChannel
  BY FramingAssumption, Streams!StreamIsChannel
<1>2. Streams!Frames!ImplementsChannel => ImplementsChannel
  BY SMTT(40) DEF ImplementsChannel, Frames!ImplementsChannel, Streams!Frames!ImplementsChannel,
     Frames!Channel!Spec, Streams!Frames!Channel!Spec, Frames!Channel!Init,
     Streams!Frames!Channel!Init, Frames!Channel!Next, Streams!Frames!Channel!Next,
     Frames!Channel!Send, Streams!Frames!Channel!Send, Frames!Channel!Deliver,
     Streams!Frames!Channel!Deliver, Frames!Channel!Close, Streams!Frames!Channel!Close,
     Frames!Channel!Reconnect, Streams!Frames!Channel!Reconnect, Frames!Channel!NextPayload,
     Streams!Frames!Channel!NextPayload
<1> QED BY <1>1, <1>2, FramingRuns, PTL

-----------------------------------------------------------------------------
(* The remeshing pipeline, the merge of charts and the export bundle *)

\* The theorems of AssetProofs, about the runs, charts, bundles, flows and images of
\* MCEngine.
Assets == INSTANCE AssetProofs WITH
    Runs <- MCRuns, Made <- {1, 3}, Arity <- {4, 5},
    pc <- stage, rows <- audit, best <- told, cancelled <- stopped, status <- ending,
    mergeStatus <- status, givenCharts <- given, bundleOutcome <- outcome, tile <- mapTile,
    Nodes <- 4, Networks <- MCNetworks, kInf <- 100,
    Widths <- {0, 1, 2}, Heights <- {0, 1, 2, 4}, Channels <- 1 .. 4,
    kMaxBlock <- 4, LengthLimit <- 80

\* The two instances of RemeshPipeline are the same module, definition by definition.
LEMMA PipelineStep == Remesh!Next => Assets!Next
BY DEF Remesh!Guidance, Assets!Guidance, Remesh!RunType, Assets!RunType, Remesh!NoRow,
   Assets!NoRow, Remesh!NoIsland, Assets!NoIsland, Remesh!exceeds, Assets!exceeds,
   Remesh!Ended, Assets!Ended, Remesh!Cancel, Assets!Cancel, Remesh!Begin, Assets!Begin,
   Remesh!Index, Assets!Index, Remesh!Weight, Assets!Weight, Remesh!QuadCover,
   Assets!QuadCover, Remesh!TakeIsland, Assets!TakeIsland, Remesh!Leave, Assets!Leave,
   Remesh!Isotropic, Assets!Isotropic, Remesh!Refused, Assets!Refused, Remesh!Quadrangulating,
   Assets!Quadrangulating, Remesh!Tell, Assets!Tell, Remesh!Report, Assets!Report,
   Remesh!StageStops, Assets!StageStops, Remesh!IsotropicRemesh, Assets!IsotropicRemesh,
   Remesh!Lost, Assets!Lost, Remesh!IsotropicFails, Assets!IsotropicFails, Remesh!Diagnosed,
   Assets!Diagnosed, Remesh!RecoveryFails, Assets!RecoveryFails, Remesh!Offered,
   Assets!Offered, Remesh!Offers, Assets!Offers, Remesh!Recovers, Assets!Recovers,
   Remesh!MethodRefused, Assets!MethodRefused, Remesh!Quadrangulate, Assets!Quadrangulate,
   Remesh!QuadrangulateFails, Assets!QuadrangulateFails, Remesh!SmallPatches,
   Assets!SmallPatches, Remesh!Ok, Assets!Ok, Remesh!Of, Assets!Of, Remesh!Total,
   Assets!Total, Remesh!MergeRefused, Assets!MergeRefused, Remesh!Kept, Assets!Kept,
   Remesh!Merge, Assets!Merge, Remesh!FillHoles, Assets!FillHoles, Remesh!SubdivisionRefused,
   Assets!SubdivisionRefused, Remesh!Subdivide, Assets!Subdivide, Remesh!OutputRefused,
   Assets!OutputRefused, Remesh!Count, Assets!Count, Remesh!Working, Assets!Working,
   Remesh!Next, Assets!Next, Remesh!progressVars, Assets!progressVars, Remesh!resultVars,
   Assets!resultVars, Remesh!SumOf, Assets!SumOf, Remesh!Ascending, Assets!Ascending

LEMMA PipelineSame == Assets!PipelineSound => Remesh!PipelineSound
BY DEF Remesh!TypeOK, Assets!TypeOK, Remesh!EveryIslandAccounted, Assets!EveryIslandAccounted,
   Remesh!CancelledHasNothing, Assets!CancelledHasNothing, Remesh!WithinCeilings,
   Assets!WithinCeilings, Remesh!GuidanceAudited, Assets!GuidanceAudited,
   Remesh!FallbackTried, Assets!FallbackTried, Remesh!Whole, Assets!Whole,
   Remesh!FullMeansDelivered, Assets!FullMeansDelivered, Remesh!PipelineSound,
   Assets!PipelineSound, Remesh!Delivered, Assets!Delivered, Remesh!exceeds, Assets!exceeds,
   Remesh!Ok, Assets!Ok, Remesh!QuadCover, Assets!QuadCover, Remesh!SumOf, Assets!SumOf

\* What the host of a run may rely on, in the engine (PipelineIsSound).
THEOREM EngineRunsSound == MCSpec => []PipelineSound
<1>1. Assets!PipelineAssumption
  BY RemeshAssumption DEF Remesh!PipelineAssumption, Assets!PipelineAssumption,
     Remesh!RunType, Assets!RunType, Remesh!Guidance, Assets!Guidance
<1>2. MCInit => Assets!FullInv
  <2>1. MCInit => Assets!Init
    <3>1. MCInit => Remesh!Init
      BY DEF MCInit
    <3> QED BY <3>1 DEF Remesh!Init, Assets!Init, Remesh!NoIsland, Assets!NoIsland,
       Remesh!NoRow, Assets!NoRow
  <2> QED BY <1>1, <2>1, Assets!InitFull
<1>3. Assets!FullInv /\ [MCNext]_allVars => Assets!FullInv'
  <2>1. [MCNext]_allVars => [Assets!Next]_(Assets!vars)
    BY PipelineStep DEF MCNext, PassMoves, BuildMoves, DeviceMoves, BakeMoves, BundleMoves,
       MergeMoves,
       FramesMove, ImageMoves, FlowMoves, RemeshMoves, allVars, remeshVars, Assets!vars,
       Assets!progressVars, Assets!resultVars
  <2> QED BY <1>1, <2>1, Assets!StepKeepsFull
<1>4. Assets!FullInv => PipelineSound
  BY <1>1, Assets!FullIsSound, PipelineSame DEF PipelineSound
<1> QED BY <1>2, <1>3, <1>4, PTL DEF MCSpec

\* So are the two of ChartMerge and of ExportBundle.
LEMMA MergeSame ==
    /\ Merge!MergeAssumption => Assets!Unwrap!MergeAssumption
    /\ Merge!Init => Assets!Unwrap!Init
    /\ [Merge!Next]_(Merge!vars) => [Assets!Unwrap!Next]_(Assets!Unwrap!vars)
BY DEF Merge!Chart, Assets!Unwrap!Chart, Merge!Before, Assets!Unwrap!Before,
   Merge!MergeAssumption, Assets!Unwrap!MergeAssumption, Merge!memoVars, Assets!Unwrap!memoVars,
   Merge!vars, Assets!Unwrap!vars, Merge!Lesser, Assets!Unwrap!Lesser, Merge!Greater,
   Assets!Unwrap!Greater, Merge!FacesOf, Assets!Unwrap!FacesOf, Merge!Init, Assets!Unwrap!Init,
   Merge!Key, Assets!Unwrap!Key, Merge!Stamp, Assets!Unwrap!Stamp, Merge!isKnownRejected,
   Assets!Unwrap!isKnownRejected, Merge!Put, Assets!Unwrap!Put, Merge!reject,
   Assets!Unwrap!reject, Merge!A, Assets!Unwrap!A, Merge!B, Assets!Unwrap!B, Merge!Question,
   Assets!Unwrap!Question, Merge!Visiting, Assets!Unwrap!Visiting, Merge!Onwards,
   Assets!Unwrap!Onwards, Merge!Skip, Assets!Unwrap!Skip, Merge!Asked, Assets!Unwrap!Asked,
   Merge!Rejected, Assets!Unwrap!Rejected, Merge!Merged, Assets!Unwrap!Merged, Merge!Cancelled,
   Assets!Unwrap!Cancelled, Merge!AnotherRound, Assets!Unwrap!AnotherRound, Merge!Labelled,
   Assets!Unwrap!Labelled, Merge!FirstFaces, Assets!Unwrap!FirstFaces, Merge!NewLabel,
   Assets!Unwrap!NewLabel, Merge!Relabel, Assets!Unwrap!Relabel, Merge!Pass, Assets!Unwrap!Pass,
   Merge!Next, Assets!Unwrap!Next, Merge!Cardinality, Assets!Unwrap!Cardinality, Merge!Range,
   Assets!Unwrap!Range, Merge!Ascending, Assets!Unwrap!Ascending

LEMMA MergeSameProperties ==
    ASSUME Assets!Unwrap!TypeOK, Assets!Unwrap!MemoIsAccept, Assets!Unwrap!NeverAskedTwice,
           Assets!Unwrap!FixpointReached, Assets!Unwrap!ListsAreCharts, Assets!Unwrap!LabellingRight
    PROVE  /\ Merge!TypeOK /\ Merge!MemoIsAccept /\ Merge!NeverAskedTwice
           /\ Merge!FixpointReached /\ Merge!ListsAreCharts /\ Merge!LabellingRight
BY DEF Merge!TypeOK, Assets!Unwrap!TypeOK, Merge!Faces, Assets!Unwrap!Faces, Merge!RootOf,
   Assets!Unwrap!RootOf, Merge!MemoIsAccept, Assets!Unwrap!MemoIsAccept, Merge!NeverAskedTwice,
   Assets!Unwrap!NeverAskedTwice, Merge!FixpointReached, Assets!Unwrap!FixpointReached,
   Merge!ListsAreCharts, Assets!Unwrap!ListsAreCharts, Merge!LabellingRight,
   Assets!Unwrap!LabellingRight, Merge!Chart, Assets!Unwrap!Chart, Merge!isKnownRejected,
   Assets!Unwrap!isKnownRejected, Merge!Key, Assets!Unwrap!Key, Merge!Stamp, Assets!Unwrap!Stamp,
   Merge!Lesser, Assets!Unwrap!Lesser, Merge!Greater, Assets!Unwrap!Greater, Merge!ToSet,
   Assets!Unwrap!ToSet, Merge!IsInjective, Assets!Unwrap!IsInjective

LEMMA BundleSame ==
    /\ Bundle!BundleAssumption => Assets!Bundle!BundleAssumption
    /\ Bundle!Init => Assets!Bundle!Init
    /\ [Bundle!Next]_(Bundle!vars) => [Assets!Bundle!Next]_(Assets!Bundle!vars)
BY DEF Bundle!BundleAssumption, Assets!Bundle!BundleAssumption, Bundle!paramVars,
   Assets!Bundle!paramVars, Bundle!vars, Assets!Bundle!vars,
   Bundle!Path, Assets!Bundle!Path, Bundle!Absent, Assets!Bundle!Absent,
   Bundle!Content, Assets!Bundle!Content, Bundle!OnDisk, Assets!Bundle!OnDisk, Bundle!Init,
   Assets!Bundle!Init, Bundle!Maps, Assets!Bundle!Maps, Bundle!BakedTiles,
   Assets!Bundle!BakedTiles, Bundle!MapPath, Assets!Bundle!MapPath, Bundle!Begin,
   Assets!Bundle!Begin, Bundle!Ends, Assets!Bundle!Ends, Bundle!Stays, Assets!Bundle!Stays,
   Bundle!CannotStart, Assets!Bundle!CannotStart, Bundle!OneNameForAll,
   Assets!Bundle!OneNameForAll, Bundle!RefusedBeforeWriting, Assets!Bundle!RefusedBeforeWriting,
   Bundle!ExportMesh, Assets!Bundle!ExportMesh, Bundle!ExportMeshFails,
   Assets!Bundle!ExportMeshFails, Bundle!MapStops, Assets!Bundle!MapStops, Bundle!StartMap,
   Assets!Bundle!StartMap, Bundle!AllWritten, Assets!Bundle!AllWritten, Bundle!Unusable,
   Assets!Bundle!Unusable, Bundle!BakeWhole, Assets!Bundle!BakeWhole, Bundle!LastTile,
   Assets!Bundle!LastTile, Bundle!NextTile, Assets!Bundle!NextTile, Bundle!Report,
   Assets!Bundle!Report, Bundle!WriteMap, Assets!Bundle!WriteMap, Bundle!WriteMapFails,
   Assets!Bundle!WriteMapFails, Bundle!ResolvePath, Assets!Bundle!ResolvePath, Bundle!OpenNext,
   Assets!Bundle!OpenNext, Bundle!FinishFile, Assets!Bundle!FinishFile, Bundle!Abandoned,
   Assets!Bundle!Abandoned, Bundle!StreamStops, Assets!Bundle!StreamStops, Bundle!Next,
   Assets!Bundle!Next

LEMMA BundleSameProperties ==
    ASSUME Assets!Bundle!TypeOK, Assets!Bundle!ReportTrue, Assets!Bundle!NoCutMapWhenBounded,
           Assets!Bundle!RefusedLeavesNothing, Assets!Bundle!OthersUntouched, Assets!Bundle!OkIsComplete
    PROVE  /\ Bundle!TypeOK /\ Bundle!ReportTrue /\ Bundle!NoCutMapWhenBounded
           /\ Bundle!RefusedLeavesNothing /\ Bundle!OthersUntouched /\ Bundle!OkIsComplete
BY DEF Bundle!TypeOK, Assets!Bundle!TypeOK, Bundle!ReportTrue, Assets!Bundle!ReportTrue,
   Bundle!NoCutMapWhenBounded, Assets!Bundle!NoCutMapWhenBounded, Bundle!RefusedLeavesNothing,
   Assets!Bundle!RefusedLeavesNothing, Bundle!OthersUntouched, Assets!Bundle!OthersUntouched,
   Bundle!OkIsComplete, Assets!Bundle!OkIsComplete,
   Bundle!Path, Assets!Bundle!Path, Bundle!Maps, Assets!Bundle!Maps, Bundle!BakedTiles,
   Assets!Bundle!BakedTiles, Bundle!MapPath, Assets!Bundle!MapPath

\* The memo of greedyMergeCharts() changes nothing, in the engine (MemoChangesNothing).
THEOREM EngineMergesRight == MCSpec => []MergeRight
<1>1. Assets!Unwrap!MergeAssumption
  BY ChartsAssumption, MergeSame
<1>2. MCInit => Assets!ChartInv
  BY <1>1, MergeSame, Assets!InitCharts DEF MCInit
<1>3. Assets!ChartInv /\ [MCNext]_allVars => Assets!ChartInv'
  <2>1. [MCNext]_allVars => [Merge!Next]_(Merge!vars)
    BY DEF MCNext, PassMoves, BuildMoves, DeviceMoves, BakeMoves, BundleMoves, MergeMoves,
       FramesMove, ImageMoves, FlowMoves, RemeshMoves, allVars, chartVars, Merge!vars,
       Merge!memoVars
  <2> QED BY <1>1, <2>1, MergeSame, Assets!ChartStep
<1>4. Assets!ChartInv => MergeRight
  BY <1>1, Assets!ChartsSound, MergeSameProperties DEF MergeRight
<1> QED BY <1>2, <1>3, <1>4, PTL DEF MCSpec

\* What a bundle reports is so, in the engine, whatever names its maps and its mesh
\* have: only a mesh whose path a map has taken may be gone (BundlesTellTheTruth).
THEOREM EngineBundlesTrue == MCSpec => []BundleTrue
<1>1. Assets!Bundle!BundleAssumption
  BY BundlesAssumption, BundleSame
<1>2. MCInit => Assets!BundleInv
  BY <1>1, BundleSame, Assets!InitBundle DEF MCInit
<1>3. Assets!BundleInv /\ [MCNext]_allVars => Assets!BundleInv'
  <2>1. [MCNext]_allVars => [Bundle!Next]_(Bundle!vars)
    BY DEF MCNext, PassMoves, BuildMoves, DeviceMoves, BakeMoves, BundleMoves, MergeMoves,
       FramesMove, ImageMoves, FlowMoves, RemeshMoves, allVars, bundleVars, Bundle!vars,
       Bundle!paramVars
  <2> QED BY <1>1, <2>1, BundleSame, Assets!BundleStep
<1>4. Assets!BundleInv => BundleTrue
  BY <1>1, Assets!BundleSound, BundleSameProperties DEF BundleTrue
<1> QED BY <1>2, <1>3, <1>4, PTL DEF MCSpec

LEMMA FlowSame ==
    /\ Flow!FlowAssumption => Assets!Flow!FlowAssumption
    /\ Flow!Init => Assets!Flow!Init
    /\ [Flow!Next]_(Flow!vars) => [Assets!Flow!Next]_(Assets!Flow!vars)
BY ZenonT(60) DEF Flow!FlowAssumption, Assets!Flow!FlowAssumption, Flow!Node, Assets!Flow!Node, Flow!source,
   Assets!Flow!source, Flow!sink, Assets!Flow!sink, Flow!EdgesOf, Assets!Flow!EdgesOf, Flow!Edge,
   Assets!Flow!Edge, Flow!Twin, Assets!Flow!Twin, Flow!Arc, Assets!Flow!Arc, Flow!To,
   Assets!Flow!To, Flow!cap, Assets!Flow!cap, Flow!cost, Assets!Flow!cost, Flow!Residual,
   Assets!Flow!Residual, Flow!adj, Assets!Flow!adj, Flow!Idle, Assets!Flow!Idle, Flow!None,
   Assets!Flow!None, Flow!Fresh, Assets!Flow!Fresh, Flow!Init, Assets!Flow!Init, Flow!Leaves,
   Assets!Flow!Leaves, Flow!Visit, Assets!Flow!Visit, Flow!Relax, Assets!Flow!Relax,
   Flow!Visited, Assets!Flow!Visited, Flow!Searched, Assets!Flow!Searched, Flow!PathTo,
   Assets!Flow!PathTo, Flow!Bottleneck, Assets!Flow!Bottleneck, Flow!Augment,
   Assets!Flow!Augment, Flow!NoPath, Assets!Flow!NoPath, Flow!Next, Assets!Flow!Next,
   Flow!search, Assets!Flow!search, Flow!vars, Assets!Flow!vars, Flow!SumOf, Assets!Flow!SumOf,
   Flow!Ascending, Assets!Flow!Ascending, Flow!Min, Assets!Flow!Min

LEMMA FlowSameProperties == Assets!Flow!FlowOptimal => Flow!FlowOptimal
BY ZenonT(60) DEF Flow!TypeOK, Assets!Flow!TypeOK, Flow!NetOut, Assets!Flow!NetOut, Flow!CostOf,
   Assets!Flow!CostOf, Flow!Flows, Assets!Flow!Flows, Flow!Pushed, Assets!Flow!Pushed,
   Flow!CheapestSoFar, Assets!Flow!CheapestSoFar, Flow!MostWhenSolved,
   Assets!Flow!MostWhenSolved, Flow!DistancesFinal, Assets!Flow!DistancesFinal, Flow!FlowOptimal,
   Assets!Flow!FlowOptimal, Flow!Node, Assets!Flow!Node, Flow!source, Assets!Flow!source,
   Flow!sink, Assets!Flow!sink, Flow!Edge, Assets!Flow!Edge, Flow!EdgesOf, Assets!Flow!EdgesOf,
   Flow!Residual, Assets!Flow!Residual, Flow!cap, Assets!Flow!cap, Flow!cost, Assets!Flow!cost,
   Flow!To, Assets!Flow!To, Flow!Twin, Assets!Flow!Twin, Flow!Arc, Assets!Flow!Arc, Flow!None,
   Assets!Flow!None, Flow!Idle, Assets!Flow!Idle, Flow!Searched, Assets!Flow!Searched,
   Flow!SumOf, Assets!Flow!SumOf

\* The flow solver finds the cheapest flow, in the engine (FlowsAreCheapest).
THEOREM EngineFlowsCheapest == MCSpec => []FlowOptimal
<1>1. Assets!Flow!FlowAssumption
  BY FlowsAssumption, FlowSame
<1>2. MCInit => Assets!SolverInv
  BY <1>1, FlowSame, Assets!InitFlow DEF MCInit
<1>3. Assets!SolverInv /\ [MCNext]_allVars => Assets!SolverInv'
  <2>1. [MCNext]_allVars => [Flow!Next]_(Flow!vars)
    BY DEF MCNext, PassMoves, BuildMoves, DeviceMoves, BakeMoves, BundleMoves, MergeMoves,
       FramesMove, ImageMoves, FlowMoves, RemeshMoves, allVars, flowVars, Flow!vars,
       Flow!search
  <2> QED BY <1>1, <2>1, FlowSame, Assets!FlowStep
<1>4. Assets!SolverInv => FlowOptimal
  BY <1>1, Assets!FlowSound, FlowSameProperties DEF FlowOptimal
<1> QED BY <1>2, <1>3, <1>4, PTL DEF MCSpec

-----------------------------------------------------------------------------
(* Maps made in parts *)

\* The instances of RegionedBake and of ImageStream are the same modules, too.  What is
\* padded is compared by itself.
LEMMA PadSame ==
    ASSUME NEW f, NEW C, NEW ids, NEW k, NEW range, NEW w,
           w = Bake!padBorders(f, C, ids, k, range)
    PROVE  w = Streams!padBorders(f, C, ids, k, range)
BY DEF Bake!padBorders, Streams!padBorders, Bake!growRing, Streams!growRing, Bake!Sources,
   Streams!Sources, Bake!Off, Streams!Off, Bake!kCompass, Streams!kCompass, Bake!nearest,
   Streams!nearest, Bake!Lowest, Streams!Lowest, Bake!clamped, Streams!clamped, Bake!Highest,
   Streams!Highest, Bake!extrapolate, Streams!extrapolate, Bake!SumOf, Streams!SumOf,
   Bake!Cardinality, Streams!Cardinality

LEMMA PaddedSame ==
    \A f, C, ids, k, range :
        Bake!padBorders(f, C, ids, k, range) = Streams!padBorders(f, C, ids, k, range)
BY PadSame

\* What the whole bake pads of a tile, and the range it clamps to.
Shades == [t \in 1 .. 2 |-> [p \in BakeTexel |-> 3 + ((7 * p[1] + 11 * p[2] * p[2] + 5 * t) % 13)]]
Unpadded(t, m) ==
    [p \in Bake!Texel |->
        IF p \in covered[t]
        THEN Bake!Normalized(Shades[t][p], m, {Shades[t][q] : q \in covered[t]}) ELSE 0]

LEMMA WholeSame ==
    ASSUME NEW t, NEW m
    PROVE  Bake!Whole(t, m) = Streams!Whole(t, m)
<1> DEFINE f == Unpadded(t, m)
           range == Bake!PadRange({f[p] : p \in covered[t]})
<1>1. Bake!Whole(t, m) =
          IF covered[t] = {} THEN [values |-> f, filled |-> {}]
          ELSE Bake!padBorders(f, covered[t], kind = "id", radius, range)
  BY SMTT(40) DEF Bake!Whole, Unpadded, Shades
<1>2. Streams!Whole(t, m) =
          IF covered[t] = {} THEN [values |-> f, filled |-> {}]
          ELSE Streams!padBorders(f, covered[t], kind = "id", radius, range)
  BY DEF Bake!Texel, Streams!Texel, Bake!Rows, Streams!Rows, Bake!Column, Streams!Column,
     Streams!Whole, Unpadded, Shades, Bake!Normalized, Streams!Normalized, Bake!Highest,
     Streams!Highest, Bake!Lowest, Streams!Lowest, Bake!PadRange, Streams!PadRange
<1> HIDE DEF f, range
<1> QED BY <1>1, <1>2, PaddedSame

LEMMA MeanSame ==
    /\ Bake!WholeMean = Streams!WholeMean
    /\ \A m, f, S : Bake!Accumulated(m, f, S) = Streams!Accumulated(m, f, S)
BY DEF Bake!WholeMean, Streams!WholeMean, Bake!SumOf, Streams!SumOf, Bake!Tiles, Streams!Tiles,
   Bake!Total, Streams!Total, Bake!Cardinality, Streams!Cardinality, Bake!Accumulated,
   Streams!Accumulated

\* The rows of a tile, from its texels.
Lines(f) == [y \in 1 .. 7 |-> [x \in 0 .. 1 |-> f[<<x, y - 1>>]]]

LEMMA LinesSame ==
    ASSUME NEW t
    PROVE  Bake!WholeRows(t) = Streams!WholeRows(t)
<1>1. Bake!WholeRows(t) = Lines(Bake!Whole(t, Bake!WholeMean).values)
  BY DEF Bake!WholeRows, Bake!Column, Lines
<1>2. Streams!WholeRows(t) = Lines(Streams!Whole(t, Streams!WholeMean).values)
  BY SMTT(40) DEF Streams!WholeRows, Streams!Column, Lines
<1> QED BY <1>1, <1>2, WholeSame, MeanSame

LEMMA MemorySame == ASSUME Bake!BakeInMemory PROVE Streams!BakeInMemory
<1> DEFINE b == Bake!Whole(tile, Bake!Accumulated(Bake!NoMean, Shades[tile], covered[tile]))
           s == Streams!Whole(tile, Streams!Accumulated(Streams!NoMean, Shades[tile], covered[tile]))
           same == /\ pass = "memory" /\ peak' = Bake!Highest({peak, 2 * 7})
                   /\ pass' = "done" /\ report' = DOMAIN covered
                   /\ UNCHANGED <<covered, radius, bound, kind, tile, row, rows, mean, samples, noted>>
<1>1. /\ emitted' = [emitted EXCEPT ![tile] = Lines(b.values)]
      /\ filled' = [filled EXCEPT ![tile] = Bake!Cardinality(b.filled)] /\ same
  BY DEF Bake!BakeInMemory, Bake!Column, Bake!InFlight, Bake!Tile, Bake!inputVars, Lines, Shades
<1>2. b = s
  <2>1. Bake!NoMean = Streams!NoMean
    BY DEF Bake!NoMean, Streams!NoMean
  <2> QED BY <2>1, WholeSame, MeanSame
<1>3. \A S : Bake!Cardinality(S) = Streams!Cardinality(S)
  BY DEF Bake!Cardinality, Streams!Cardinality
<1>4. /\ emitted' = [emitted EXCEPT ![tile] = Lines(s.values)]
      /\ filled' = [filled EXCEPT ![tile] = Streams!Cardinality(s.filled)] /\ same
  <2> HIDE DEF b, s, same
  <2> QED BY <1>1, <1>2, <1>3, ZenonT(60)
<1> QED BY <1>4, SMTT(40) DEF Streams!BakeInMemory, Streams!Column, Streams!InFlight, Streams!Tile,
       Streams!inputVars, Bake!Highest, Streams!Highest, Lines, Shades

LEMMA ShadeSame == ASSUME Bake!ShadeRegion PROVE Streams!ShadeRegion
BY ZenonT(60) DEF Bake!ShadeRegion, Streams!ShadeRegion, Bake!Rows, Streams!Rows, Bake!Column,
   Streams!Column, Bake!RowEnd, Streams!RowEnd, Bake!Lowest, Streams!Lowest, Bake!regionRows,
   Streams!regionRows, Bake!regionHaloRows, Streams!regionHaloRows, Bake!Highest,
   Streams!Highest, Bake!kDerivativeFootprintTexels, Streams!kDerivativeFootprintTexels,
   Bake!Written, Streams!Written, Bake!Background, Streams!Background, Bake!Accumulated,
   Streams!Accumulated, Bake!Total, Streams!Total, Bake!SumOf, Streams!SumOf, Bake!Cardinality,
   Streams!Cardinality, Bake!InFlight, Streams!InFlight, Bake!GoTo, Streams!GoTo, Bake!Tiles,
   Streams!Tiles, Bake!inputVars, Streams!inputVars

LEMMA FinalizeSame == ASSUME Bake!FinalizeBand PROVE Streams!FinalizeBand
BY ZenonT(90) DEF Bake!FinalizeBand, Streams!FinalizeBand, Bake!Stores, Streams!Stores,
   Bake!RowEnd, Streams!RowEnd, Bake!Lowest, Streams!Lowest, Bake!regionRows, Streams!regionRows,
   Bake!regionHaloRows, Streams!regionHaloRows, Bake!Highest, Streams!Highest,
   Bake!kDerivativeFootprintTexels, Streams!kDerivativeFootprintTexels, Bake!Read, Streams!Read,
   Bake!Rows, Streams!Rows, Bake!Column, Streams!Column, Bake!Normalized, Streams!Normalized,
   Bake!Written, Streams!Written, Bake!InFlight, Streams!InFlight, Bake!Cardinality,
   Streams!Cardinality, Bake!inputVars, Streams!inputVars

LEMMA AssembleSame == ASSUME Bake!AssembleRegion PROVE Streams!AssembleRegion
BY ZenonT(60) DEF Bake!AssembleRegion, Streams!AssembleRegion, Bake!Highest, Streams!Highest,
   Bake!haloRows, Streams!haloRows, Bake!regionCount, Streams!regionCount, Bake!regionRows,
   Streams!regionRows, Bake!regionHaloRows, Streams!regionHaloRows,
   Bake!kDerivativeFootprintTexels, Streams!kDerivativeFootprintTexels, Bake!Lowest,
   Streams!Lowest, Bake!RowEnd, Streams!RowEnd, Bake!Read, Streams!Read, Bake!Rows, Streams!Rows,
   Bake!Column, Streams!Column, Bake!Stores, Streams!Stores, Bake!padBorders, Streams!padBorders,
   Bake!growRing, Streams!growRing, Bake!Sources, Streams!Sources, Bake!Off, Streams!Off,
   Bake!kCompass, Streams!kCompass, Bake!nearest, Streams!nearest, Bake!clamped, Streams!clamped,
   Bake!extrapolate, Streams!extrapolate, Bake!SumOf, Streams!SumOf, Bake!Cardinality,
   Streams!Cardinality, Bake!PadRange, Streams!PadRange, Bake!Counted, Streams!Counted,
   Bake!InFlight, Streams!InFlight, Bake!GoTo, Streams!GoTo, Bake!Tiles, Streams!Tiles,
   Bake!Tile, Streams!Tile, Bake!inputVars, Streams!inputVars

LEMMA StopSame == ASSUME Bake!Stops \/ UNCHANGED Bake!vars PROVE Streams!Stops \/ UNCHANGED Streams!vars
BY DEF Bake!Stops, Streams!Stops, Bake!vars, Streams!vars, Bake!inputVars, Streams!inputVars,
   Bake!placeVars, Streams!placeVars

LEMMA BakeSame ==
    /\ Bake!BakeAssumption => Streams!BakeAssumption
    /\ Bake!Init => Streams!Init
    /\ [Bake!Next]_(Bake!vars) => [Streams!Next]_(Streams!vars)
<1>1. Bake!BakeAssumption => Streams!BakeAssumption
  BY ZenonT(60) DEF Bake!BakeAssumption, Streams!BakeAssumption, Bake!Texel, Streams!Texel, Bake!Rows,
     Streams!Rows, Bake!Column, Streams!Column
<1>2. Bake!Init => Streams!Init
  BY DEF Bake!Init, Streams!Init, Bake!regionCount, Streams!regionCount, Bake!regionRows,
     Streams!regionRows, Bake!regionHaloRows, Streams!regionHaloRows, Bake!Highest,
     Streams!Highest, Bake!kDerivativeFootprintTexels, Streams!kDerivativeFootprintTexels,
     Bake!Lowest, Streams!Lowest, Bake!Tiles, Streams!Tiles, Bake!Tile, Streams!Tile,
     Bake!NoMean, Streams!NoMean
<1>3. [Bake!Next]_(Bake!vars) => [Streams!Next]_(Streams!vars)
  BY MemorySame, ShadeSame, FinalizeSame, AssembleSame, StopSame DEF Bake!Next, Streams!Next
<1> QED BY <1>1, <1>2, <1>3

LEMMA BakeSameProperties ==
    ASSUME Streams!TypeOK, Streams!RowsOfTheWholeBake, Streams!ReportOfTheWholeBake,
           Streams!WorkingSetKept
    PROVE  /\ Bake!TypeOK /\ Bake!RowsOfTheWholeBake /\ Bake!ReportOfTheWholeBake
           /\ Bake!WorkingSetKept
<1>1. Bake!TypeOK
  BY DEF Bake!TypeOK, Streams!TypeOK, Bake!Tile, Streams!Tile
<1>2. Bake!RowsOfTheWholeBake
  BY LinesSame DEF Bake!RowsOfTheWholeBake, Streams!RowsOfTheWholeBake, Bake!Tile, Streams!Tile
<1>3. Bake!ReportOfTheWholeBake
  <2>1. \A S : Bake!Cardinality(S) = Streams!Cardinality(S)
    BY SMTT(40) DEF Bake!Cardinality, Streams!Cardinality
  <2> QED BY <2>1, WholeSame, MeanSame DEF Bake!ReportOfTheWholeBake,
         Streams!ReportOfTheWholeBake, Bake!Tile, Streams!Tile
<1>4. Bake!WorkingSetKept
  BY SMTT(40) DEF Bake!WorkingSetKept, Streams!WorkingSetKept, Bake!workingSetTexels,
     Streams!workingSetTexels, Bake!regionCount, Streams!regionCount, Bake!regionRows,
     Streams!regionRows, Bake!regionHaloRows, Streams!regionHaloRows, Bake!Highest,
     Streams!Highest, Bake!kDerivativeFootprintTexels, Streams!kDerivativeFootprintTexels,
     Bake!Lowest, Streams!Lowest, Bake!boundReached, Streams!boundReached
<1> QED BY <1>1, <1>2, <1>3, <1>4

LEMMA ImageSame ==
    /\ Image!StreamAssumption => Assets!Image!StreamAssumption
    /\ Image!Init => Assets!Image!Init
    /\ [Image!Next]_(Image!vars) => [Assets!Image!Next]_(Assets!Image!vars)
BY DEF Image!StreamAssumption, Assets!Image!StreamAssumption, Image!writerVars,
   Assets!Image!writerVars, Image!vars, Assets!Image!vars, Image!NoFile, Assets!Image!NoFile,
   Image!Torn, Assets!Image!Torn, Image!NoCall, Assets!Image!NoCall, Image!Images,
   Assets!Image!Images, Image!Init, Assets!Image!Init, Image!fileChannels,
   Assets!Image!fileChannels, Image!RowBytes, Assets!Image!RowBytes, Image!RawRow,
   Assets!Image!RawRow, Image!Raw, Assets!Image!Raw, Image!zlibStoredSize,
   Assets!Image!zlibStoredSize, Image!Prologue, Assets!Image!Prologue, Image!Block,
   Assets!Image!Block, Image!Checks, Assets!Image!Checks, Image!Layout, Assets!Image!Layout,
   Image!BlockStride, Assets!Image!BlockStride, Image!ExrTable, Assets!Image!ExrTable,
   Image!ExrRow, Assets!Image!ExrRow, Image!Saved, Assets!Image!Saved, Image!Scanlines,
   Assets!Image!Scanlines, Image!zlibStored, Assets!Image!zlibStored, Image!OneShotPng,
   Assets!Image!OneShotPng, Image!OneShotExr, Assets!Image!OneShotExr, Image!OneShot,
   Assets!Image!OneShot, Image!Usable, Assets!Image!Usable, Image!Fits, Assets!Image!Fits,
   Image!Refuse, Assets!Image!Refuse, Image!OpenFails, Assets!Image!OpenFails, Image!Open,
   Assets!Image!Open, Image!Return, Assets!Image!Return, Image!fail, Assets!Image!fail,
   Image!FinishRefused, Assets!Image!FinishRefused, Image!RowsRefused,
   Assets!Image!RowsRefused, Image!writeRows, Assets!Image!writeRows, Image!BlockDue,
   Assets!Image!BlockDue, Image!Writing, Assets!Image!Writing, Image!appendRow,
   Assets!Image!appendRow, Image!Emit, Assets!Image!Emit, Image!emitBlock,
   Assets!Image!emitBlock, Image!Label, Assets!Image!Label, Image!writeScanline,
   Assets!Image!writeScanline, Image!rowsDone, Assets!Image!rowsDone, Image!finish,
   Assets!Image!finish, Image!emitLastBlock, Assets!Image!emitLastBlock, Image!close,
   Assets!Image!close, Image!writeFails, Assets!Image!writeFails, Image!Next,
   Assets!Image!Next, Image!FlattenSeq, Assets!Image!FlattenSeq

LEMMA ImageSameProperties == Assets!Image!BandsAsWhole => Image!BandsAsWhole
<1>1. Assets!Image!TypeOK => Image!TypeOK
  BY DEF Image!Images, Assets!Image!Images, Image!TypeOK, Assets!Image!TypeOK
<1>2. Assets!Image!CompleteIsOneShot => Image!CompleteIsOneShot
  <2>1. \A q : Assets!Image!FlattenSeq(q) = Image!FlattenSeq(q)
    BY Zenon DEF Image!FlattenSeq, Assets!Image!FlattenSeq
  <2>2. Assets!Image!Scanlines = Image!Scanlines
    BY <2>1 DEF Image!Scanlines, Assets!Image!Scanlines, Image!Saved, Assets!Image!Saved,
       Image!fileChannels, Assets!Image!fileChannels
  <2>3. \A raw : Assets!Image!zlibStored(raw) = Image!zlibStored(raw)
    BY DEF Image!zlibStored, Assets!Image!zlibStored, Image!Block, Assets!Image!Block
  <2>4. Assets!Image!OneShotPng = Image!OneShotPng
    BY <2>1, <2>2, <2>3 DEF Image!OneShotPng, Assets!Image!OneShotPng, Image!Prologue,
       Assets!Image!Prologue, Image!Checks, Assets!Image!Checks
  <2>5. Assets!Image!OneShotExr = Image!OneShotExr
    BY SMTT(40) DEF Image!OneShotExr, Assets!Image!OneShotExr, Image!ExrTable, Assets!Image!ExrTable,
       Image!ExrRow, Assets!Image!ExrRow, Image!BlockStride, Assets!Image!BlockStride,
       Image!Layout, Assets!Image!Layout
  <2> QED BY <2>4, <2>5 DEF Image!CompleteIsOneShot, Assets!Image!CompleteIsOneShot,
       Image!Complete, Assets!Image!Complete, Image!NoCall, Assets!Image!NoCall, Image!OneShot,
       Assets!Image!OneShot
<1>3. Assets!Image!NothingLost => Image!NothingLost
  BY DEF Image!NoCall, Assets!Image!NoCall, Image!fileChannels, Assets!Image!fileChannels,
     Image!RowBytes, Assets!Image!RowBytes, Image!RawRow, Assets!Image!RawRow, Image!Raw,
     Assets!Image!Raw, Image!NothingLost, Assets!Image!NothingLost, Image!FlattenSeq,
     Assets!Image!FlattenSeq
<1>4. Assets!Image!FailureIsTold => Image!FailureIsTold
  BY DEF Image!NoFile, Assets!Image!NoFile, Image!NoCall, Assets!Image!NoCall,
     Image!fileChannels, Assets!Image!fileChannels, Image!RowBytes, Assets!Image!RowBytes,
     Image!zlibStoredSize, Assets!Image!zlibStoredSize, Image!Usable, Assets!Image!Usable,
     Image!Fits, Assets!Image!Fits, Image!FailureIsTold, Assets!Image!FailureIsTold
<1> QED BY <1>1, <1>2, <1>3, <1>4 DEF Image!BandsAsWhole, Assets!Image!BandsAsWhole

\* A map made in parts is the map made at once, in the engine (RegionsWhole, BandsWhole).
THEOREM EngineMapsAsWhole == MCSpec => []MapsAsWhole
<1>1. Streams!BakeAssumption /\ Assets!Image!StreamAssumption
  BY MapsAssumption, ImagesAssumption, BakeSame, ImageSame
<1>2. MCInit => Streams!BakeInv /\ Assets!ImageInv
  BY <1>1, BakeSame, ImageSame, Streams!InitBake, Assets!InitImage DEF MCInit
<1>3. Streams!BakeInv /\ [MCNext]_allVars => Streams!BakeInv'
  <2>1. [MCNext]_allVars => [Bake!Next]_(Bake!vars)
    BY DEF MCNext, PassMoves, BuildMoves, DeviceMoves, BakeMoves, BundleMoves, MergeMoves,
       FramesMove, ImageMoves, FlowMoves, RemeshMoves, allVars, bakeVars, Bake!vars,
       Bake!inputVars, Bake!placeVars
  <2> QED BY <1>1, <2>1, BakeSame, Streams!StepBake
<1>4. Assets!ImageInv /\ [MCNext]_allVars => Assets!ImageInv'
  <2>1. [MCNext]_allVars => [Image!Next]_(Image!vars)
    BY DEF MCNext, PassMoves, BuildMoves, DeviceMoves, BakeMoves, BundleMoves, MergeMoves,
       FramesMove, ImageMoves, FlowMoves, RemeshMoves, allVars, imageVars, Image!vars,
       Image!writerVars
  <2> QED BY <1>1, <2>1, ImageSame, Assets!StepImage
<1>5. Streams!BakeInv /\ Assets!ImageInv => MapsAsWhole
  <2>1. Streams!BakeInv => Bake!TypeOK /\ Bake!RowsOfTheWholeBake /\ Bake!ReportOfTheWholeBake
                           /\ Bake!WorkingSetKept
    BY <1>1, Streams!BakeIsWhole, BakeSameProperties
  <2>2. Assets!ImageInv => Image!BandsAsWhole
    BY <1>1, Assets!ImageIsWhole, ImageSameProperties
  <2> QED BY <2>1, <2>2 DEF MapsAsWhole
<1> QED BY <1>2, <1>3, <1>4, <1>5, PTL DEF MCSpec

-----------------------------------------------------------------------------
(* The hierarchy *)

\* The two instances of BvhBuild are one module, too.
LEMMA BuildSame ==
    /\ Build!BuildAssumption => Streams!Build!BuildAssumption
    /\ Build!Init => Streams!Build!Init
    /\ [Build!Next]_(Build!vars) => [Streams!Build!Next]_(Streams!Build!vars)
<1>1. Build!BuildAssumption => Streams!Build!BuildAssumption
  BY DEF Build!BuildAssumption, Streams!Build!BuildAssumption
<1>2. Build!Init => Streams!Build!Init
  BY SMTT(40) DEF Build!Placeholder, Streams!Build!Placeholder, Build!Nothing, Streams!Build!Nothing,
     Build!Init, Streams!Build!Init
<1>3. [Build!Next]_(Build!vars) => [Streams!Build!Next]_(Streams!Build!vars)
  BY ZenonT(60) DEF Build!buildVars, Streams!Build!buildVars, Build!workVars, Streams!Build!workVars,
     Build!vars, Streams!Build!vars, Build!Placeholder, Streams!Build!Placeholder, Build!Leaf,
     Streams!Build!Leaf, Build!Inner, Streams!Build!Inner, Build!Nothing, Streams!Build!Nothing,
     Build!Small, Streams!Build!Small, Build!Stops, Streams!Build!Stops, Build!Middles,
     Streams!Build!Middles, Build!RangeOf, Streams!Build!RangeOf, Build!With, Streams!Build!With,
     Build!Noted, Streams!Build!Noted, Build!Halves, Streams!Build!Halves, Build!SplitTask,
     Streams!Build!SplitTask, Build!NextLevel, Streams!Build!NextLevel, Build!LevelsEnd,
     Streams!Build!LevelsEnd, Build!TakeTask, Streams!Build!TakeTask, Build!BuildNode,
     Streams!Build!BuildNode, Build!TaskBuilt, Streams!Build!TaskBuilt, Build!Joined,
     Streams!Build!Joined, Build!GivesUp, Streams!Build!GivesUp, Build!Shifted,
     Streams!Build!Shifted, Build!Fold, Streams!Build!Fold, Build!Folded, Streams!Build!Folded,
     Build!RequestCancel, Streams!Build!RequestCancel, Build!Serial, Streams!Build!Serial,
     Build!Parallel, Streams!Build!Parallel, Build!Working, Streams!Build!Working, Build!Next,
     Streams!Build!Next, Build!FlattenSeq, Streams!Build!FlattenSeq, Build!Cardinality,
     Streams!Build!Cardinality
<1> QED BY <1>1, <1>2, <1>3

LEMMA BuildSameProperties ==
    Streams!Build!TypeOK /\ Streams!Build!SameHierarchy /\ Streams!Build!NoTruncatedTree
        => Build!TypeOK /\ Build!SameHierarchy /\ Build!NoTruncatedTree
BY ZenonT(60) DEF Build!Leaf, Streams!Build!Leaf, Build!Range0, Streams!Build!Range0, Build!TypeOK,
   Streams!Build!TypeOK, Build!Children, Streams!Build!Children, Build!Levels,
   Streams!Build!Levels, Build!Below, Streams!Build!Below, Build!Under, Streams!Build!Under,
   Build!Layout, Streams!Build!Layout, Build!SameHierarchy, Streams!Build!SameHierarchy,
   Build!NoTruncatedTree, Streams!Build!NoTruncatedTree, Build!FlattenSeq,
   Streams!Build!FlattenSeq

\* The hierarchy that is built in parallel is the one that is built serially, in the
\* engine (BuildsAreSerial), and a device answers from the snapshot it is asked about
\* (AtomicAnswers).
THEOREM EngineHierarchySound == MCSpec => []HierarchySound
<1>1. Streams!Build!BuildAssumption
  BY BuildsAssumption, BuildSame
<1>2. MCInit => Streams!BuildInv
  BY <1>1, BuildSame, Streams!InitBuild DEF MCInit
<1>3. Streams!BuildInv /\ [MCNext]_allVars => Streams!BuildInv'
  <2>1. [MCNext]_allVars => [Build!Next]_(Build!vars)
    BY DEF MCNext, PassMoves, BuildMoves, DeviceMoves, BakeMoves, BundleMoves, MergeMoves,
       FramesMove, ImageMoves, FlowMoves, RemeshMoves, allVars, hierarchyVars, Build!vars,
       Build!buildVars, Build!workVars
  <2> QED BY <1>1, <2>1, BuildSame, Streams!NextKeepsBuild
<1>4. Streams!BuildInv => Build!TypeOK /\ Build!SameHierarchy /\ Build!NoTruncatedTree
  BY <1>1, Streams!BuildSafe, BuildSameProperties
<1>5. MCSpec => []Streams!BuildInv
  BY <1>2, <1>3, PTL DEF MCSpec
<1>6. /\ Build!TypeOK /\ Build!SameHierarchy /\ Build!NoTruncatedTree
      /\ Device!TypeOK /\ Device!AnsweredFromOwnSnapshot /\ Device!KeyNamesBuffers
      => HierarchySound
  BY DEF HierarchySound
<1> QED BY <1>4, <1>5, <1>6, AtomicAnswers, PTL
=============================================================================
