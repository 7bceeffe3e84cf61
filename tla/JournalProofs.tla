---------------------------- MODULE JournalProofs ----------------------------
(***************************************************************************)
(* Proofs about module Journal, for every set of meshes, every sizes and    *)
(* budgets and every number of commands: the history is one line through   *)
(* the document, a clean document is saved, and the journal implements the *)
(* Timeline.                                                               *)
(***************************************************************************)
EXTENDS Journal, SumsProofs

Chained(cmds) == \A i \in 1 .. Len(cmds) - 1 : cmds[i].after = cmds[i + 1].before

SeqInv ==
    /\ editMesh \in Snapshot /\ saved \in Snapshot /\ dirty \in BOOLEAN
    /\ undo \in Seq(Command) /\ redo \in Seq(Command)

EditInv == SeqInv /\ HistoryChains /\ CleanMeansSaved

\* No edit comes between the sink and the return of autosaveIfDirty().
SaveInv == saving = "written" => editMesh = saved

IndInv == EditInv /\ SaveInv

-----------------------------------------------------------------------------
(* Sequences of commands *)

LEMMA FunctionIsSeq ==
    ASSUME NEW S, NEW n \in Nat, NEW f \in [1 .. n -> S]
    PROVE  f \in Seq(S) /\ Len(f) = n
<1>1. f \in Seq(S)
  BY SeqDef
<1>2. Len(f) \in Nat /\ 1 .. Len(f) = 1 .. n
  BY <1>1, LenProperties
<1> QED BY <1>1, <1>2

LEMMA AppendChained ==
    ASSUME NEW cmds \in Seq(Command), NEW cmd \in Command, Chained(cmds),
           cmds # <<>> => cmds[Len(cmds)].after = cmd.before
    PROVE  Chained(Append(cmds, cmd))
<1>1. /\ Len(Append(cmds, cmd)) = Len(cmds) + 1 /\ Len(cmds) \in Nat
      /\ \A i \in 1 .. Len(cmds) : Append(cmds, cmd)[i] = cmds[i]
      /\ Append(cmds, cmd)[Len(cmds) + 1] = cmd
  BY AppendProperties, LenProperties
<1>2. ASSUME NEW i \in 1 .. Len(cmds)
      PROVE  Append(cmds, cmd)[i].after = Append(cmds, cmd)[i + 1].before
  <2>1. CASE i = Len(cmds)
    BY <1>1, <2>1, EmptySeq
  <2>2. CASE i # Len(cmds)
    BY <1>1, <2>2 DEF Chained
  <2> QED BY <2>1, <2>2
<1> QED BY <1>1, <1>2 DEF Chained

LEMMA PopFacts ==
    ASSUME NEW cmds \in Seq(Command), cmds # <<>>
    PROVE  /\ Len(cmds) \in Nat \ {0}
           /\ Pop(cmds) \in Seq(Command) /\ Len(Pop(cmds)) = Len(cmds) - 1
           /\ \A i \in 1 .. Len(cmds) - 1 : Pop(cmds)[i] = cmds[i]
           /\ Last(cmds) = cmds[Len(cmds)] /\ Last(cmds) \in Command
<1>1. Len(cmds) \in Nat \ {0} /\ \A i \in 1 .. Len(cmds) : cmds[i] \in Command
  BY EmptySeq, ElementOfSeq
<1>2. /\ Pop(cmds) \in Seq(Command) /\ Len(Pop(cmds)) = Len(cmds) - 1
      /\ \A i \in 1 .. Len(cmds) - 1 : Pop(cmds)[i] = cmds[i]
  <2>1. 1 \in Int /\ Len(cmds) - 1 \in Int /\ \A i \in 1 .. Len(cmds) - 1 : cmds[i] \in Command
    BY <1>1
  <2> DEFINE n == Len(cmds) - 1
             p == SubSeq(cmds, 1, n)
  <2>2. /\ p \in Seq(Command)
        /\ Len(p) = IF 1 <= n THEN n - 1 + 1 ELSE 0
        /\ \A i \in 1 .. n - 1 + 1 : p[i] = cmds[1 + i - 1]
    BY <2>1, SubSeqProperties
  <2>3. Pop(cmds) = p
    BY DEF Pop
  <2> HIDE DEF p
  <2>4. p \in Seq(Command) /\ Len(p) = n /\ \A i \in 1 .. n : p[i] = cmds[i]
    <3>1. n \in Nat /\ n - 1 + 1 = n
      BY <1>1
    <3> HIDE DEF n
    <3>2. Len(p) = n
      <4>1. CASE 1 <= n
        BY <2>2, <3>1, <4>1
      <4>2. CASE ~(1 <= n)
        BY <2>2, <3>1, <4>2
      <4> QED BY <4>1, <4>2
    <3>3. \A i \in 1 .. n : 1 + i - 1 = i
      BY <3>1
    <3>4. \A i \in 1 .. n : p[i] = cmds[i]
      BY <2>2, <3>1, <3>3
    <3> QED BY <2>2, <3>2, <3>4
  <2> QED BY <2>3, <2>4
<1> QED BY <1>1, <1>2 DEF Last

LEMMA PopChained ==
    ASSUME NEW cmds \in Seq(Command), cmds # <<>>, Chained(cmds)
    PROVE  /\ Chained(Pop(cmds))
           /\ Pop(cmds) # <<>> => Pop(cmds)[Len(Pop(cmds))].after = Last(cmds).before
<1>1. Pop(cmds) # <<>> => Len(cmds) - 1 \in Nat \ {0}
  BY PopFacts, EmptySeq
<1>2. Chained(Pop(cmds))
  <2>1. ASSUME NEW i \in 1 .. Len(cmds) - 1 - 1
        PROVE  Pop(cmds)[i].after = Pop(cmds)[i + 1].before
    <3>1. i \in 1 .. Len(cmds) - 1 /\ i + 1 \in 1 .. Len(cmds) - 1
      BY PopFacts
    <3>2. Pop(cmds)[i] = cmds[i] /\ Pop(cmds)[i + 1] = cmds[i + 1]
      BY <3>1, PopFacts
    <3> QED BY <3>1, <3>2 DEF Chained
  <2> QED BY <2>1, PopFacts DEF Chained
<1>3. ASSUME Pop(cmds) # <<>>
      PROVE  Pop(cmds)[Len(Pop(cmds))].after = Last(cmds).before
  <2>1. Len(cmds) - 1 \in 1 .. Len(cmds) - 1
    BY <1>1, <1>3, PopFacts
  <2>2. cmds[Len(cmds) - 1].after = cmds[Len(cmds) - 1 + 1].before
    BY <2>1 DEF Chained
  <2> QED BY <2>1, <2>2, PopFacts, SMTT(40)
<1> QED BY <1>2, <1>3

-----------------------------------------------------------------------------
(* What commands cost *)

\* The bytes of the commands, one by one.
Weights(cmds) == [i \in DOMAIN cmds |-> Bytes(cmds[i])]

LEMMA BytesNat == ASSUME JournalAssumption, NEW cmd \in Command PROVE Bytes(cmd) \in Nat
BY DEF JournalAssumption, Command, Snapshot, Bytes

LEMMA WeightsFacts ==
    ASSUME JournalAssumption, NEW cmds \in Seq(Command)
    PROVE  /\ Weights(cmds) \in Seq(Nat) /\ Weights(cmds) \in Seq(Int)
           /\ Len(Weights(cmds)) = Len(cmds)
           /\ \A i \in 1 .. Len(cmds) : Weights(cmds)[i] = Bytes(cmds[i])
           /\ Cost(cmds) = SumOf(Weights(cmds))
<1>1. Len(cmds) \in Nat /\ DOMAIN cmds = 1 .. Len(cmds) /\ \A i \in 1 .. Len(cmds) : cmds[i] \in Command
  BY LenProperties, ElementOfSeq
<1>2. \A i \in 1 .. Len(cmds) : Bytes(cmds[i]) \in Nat
  BY <1>1, BytesNat
<1>3. Weights(cmds) \in [1 .. Len(cmds) -> Nat]
  BY <1>1, <1>2 DEF Weights
<1>4. Weights(cmds) \in Seq(Nat) /\ Len(Weights(cmds)) = Len(cmds)
  BY <1>1, <1>3, FunctionIsSeq
<1>5. \A i \in 1 .. Len(cmds) : Weights(cmds)[i] = Bytes(cmds[i])
  BY <1>1 DEF Weights
<1>6. Weights(cmds) \in Seq(Int)
  BY <1>4, SeqMonotonic
<1> QED BY <1>4, <1>5, <1>6 DEF Cost, Weights

LEMMA CostNat ==
    ASSUME JournalAssumption, NEW cmds \in Seq(Command)
    PROVE  /\ Cost(cmds) \in Nat
           /\ cmds = <<>> => Cost(cmds) = 0
           /\ Len(cmds) = 1 => Cost(cmds) = Bytes(cmds[1])
<1>1. Cost(cmds) \in Nat
  BY WeightsFacts, SumPositive
<1>2. cmds = <<>> => Cost(cmds) = 0
  BY WeightsFacts, SumEmpty, EmptySeq
<1>3. Len(cmds) = 1 => Cost(cmds) = Bytes(cmds[1])
  BY WeightsFacts, SumOne
<1> QED BY <1>1, <1>2, <1>3

\* The cost of commands is that of those up to k and of those after them.
LEMMA CostSplits ==
    ASSUME JournalAssumption, NEW cmds \in Seq(Command),
           NEW older \in Seq(Command), NEW newer \in Seq(Command),
           Len(cmds) = Len(older) + Len(newer),
           \A i \in 1 .. Len(older) : cmds[i] = older[i],
           \A i \in 1 .. Len(newer) : cmds[Len(older) + i] = newer[i]
    PROVE  Cost(cmds) = Cost(older) + Cost(newer)
<1> DEFINE w == Weights(cmds)
           u == Weights(older)
           v == Weights(newer)
<1>1. Len(older) \in Nat /\ Len(newer) \in Nat
  BY LenProperties
<1>2. w \in Seq(Int) /\ u \in Seq(Int) /\ v \in Seq(Int) /\ Len(w) = Len(u) + Len(v)
  BY WeightsFacts
<1>3. ASSUME NEW i \in 1 .. Len(u) PROVE w[i] = u[i]
  <2>1. i \in 1 .. Len(older) /\ i \in 1 .. Len(cmds)
    BY <1>1, WeightsFacts
  <2>2. w[i] = Bytes(cmds[i])
    BY <2>1, WeightsFacts
  <2>3. u[i] = Bytes(older[i])
    BY <2>1, WeightsFacts
  <2> QED BY <2>1, <2>2, <2>3
<1>4. ASSUME NEW i \in 1 .. Len(v) PROVE w[Len(u) + i] = v[i]
  <2>1. Len(u) = Len(older) /\ i \in 1 .. Len(newer) /\ Len(older) + i \in 1 .. Len(cmds)
    BY <1>1, WeightsFacts
  <2>2. w[Len(older) + i] = Bytes(cmds[Len(older) + i])
    BY <2>1, WeightsFacts
  <2>3. v[i] = Bytes(newer[i])
    BY <2>1, WeightsFacts
  <2>4. cmds[Len(older) + i] = newer[i]
    BY <2>1
  <2> QED BY <2>1, <2>2, <2>3, <2>4
<1>5. Cost(cmds) = SumOf(w) /\ Cost(older) = SumOf(u) /\ Cost(newer) = SumOf(v)
  BY WeightsFacts
<1> HIDE DEF w, u, v
<1>6. SumOf(w) = SumOf(u) + SumOf(v)
  BY <1>2, <1>3, <1>4, SumSplits
<1> QED BY <1>5, <1>6

LEMMA PartOf ==
    ASSUME NEW cmds \in Seq(Command), NEW m \in Nat, NEW n \in Nat, m <= n, n <= Len(cmds)
    PROVE  /\ SubSeq(cmds, m + 1, n) \in Seq(Command)
           /\ Len(SubSeq(cmds, m + 1, n)) = n - m
           /\ \A i \in 1 .. n - m : SubSeq(cmds, m + 1, n)[i] = cmds[m + i]
<1>1. Len(cmds) \in Nat /\ \A i \in 1 .. Len(cmds) : cmds[i] \in Command
  BY LenProperties, ElementOfSeq
<1>2. m + 1 \in Int /\ n \in Int /\ \A i \in m + 1 .. n : cmds[i] \in Command
  BY <1>1
<1> DEFINE p == SubSeq(cmds, m + 1, n)
<1>3. /\ p \in Seq(Command)
      /\ Len(p) = IF m + 1 <= n THEN n - (m + 1) + 1 ELSE 0
      /\ \A i \in 1 .. n - (m + 1) + 1 : p[i] = cmds[m + 1 + i - 1]
  BY <1>2, SubSeqProperties
<1> HIDE DEF p
<1>4. Len(p) = n - m /\ n - (m + 1) + 1 = n - m
  BY <1>3
<1>5. ASSUME NEW i \in 1 .. n - m PROVE p[i] = cmds[m + i]
  <2>1. m + 1 + i - 1 = m + i
    OBVIOUS
  <2> QED BY <1>3, <1>4, <2>1
<1> QED BY <1>3, <1>4, <1>5 DEF p

LEMMA HeadOf ==
    ASSUME NEW cmds \in Seq(Command), NEW k \in Nat, k <= Len(cmds)
    PROVE  /\ SubSeq(cmds, 1, k) \in Seq(Command) /\ Len(SubSeq(cmds, 1, k)) = k
           /\ \A i \in 1 .. k : SubSeq(cmds, 1, k)[i] = cmds[i]
<1> DEFINE m == 0
           head == SubSeq(cmds, m + 1, k)
<1>1. m \in Nat /\ m <= k /\ m + 1 = 1
  OBVIOUS
<1>2. /\ head \in Seq(Command) /\ Len(head) = k - m
      /\ \A i \in 1 .. k - m : head[i] = cmds[m + i]
  <2> HIDE DEF m
  <2> QED BY <1>1, PartOf
<1>3. head = SubSeq(cmds, 1, k)
  BY <1>1
<1> HIDE DEF head
<1>4. head \in Seq(Command) /\ Len(head) = k /\ \A i \in 1 .. k : head[i] = cmds[i]
  BY <1>2
<1> QED BY <1>3, <1>4

LEMMA CostAt ==
    ASSUME JournalAssumption, NEW cmds \in Seq(Command), NEW k \in Nat, k <= Len(cmds)
    PROVE  Cost(cmds) = Cost(SubSeq(cmds, 1, k)) + Cost(SubSeq(cmds, k + 1, Len(cmds)))
<1> DEFINE older == SubSeq(cmds, 1, k)
           newer == SubSeq(cmds, k + 1, Len(cmds))
<1>1. Len(cmds) \in Nat
  BY LenProperties
<1>2. /\ older \in Seq(Command) /\ Len(older) = k
      /\ \A i \in 1 .. k : older[i] = cmds[i]
  BY HeadOf
<1>3. /\ newer \in Seq(Command) /\ Len(newer) = Len(cmds) - k
      /\ \A i \in 1 .. Len(cmds) - k : newer[i] = cmds[k + i]
  BY <1>1, PartOf
<1> HIDE DEF older, newer
<1>4. /\ Len(cmds) = Len(older) + Len(newer)
      /\ \A i \in 1 .. Len(older) : cmds[i] = older[i]
      /\ \A i \in 1 .. Len(newer) : cmds[Len(older) + i] = newer[i]
  <2>1. Len(older) = k /\ Len(newer) = Len(cmds) - k
    BY <1>2, <1>3
  <2>2. \A i \in 1 .. Len(older) : cmds[i] = older[i]
    BY <1>2, <2>1
  <2>3. \A i \in 1 .. Len(newer) : cmds[Len(older) + i] = newer[i]
    BY <1>3, <2>1
  <2> QED BY <1>1, <2>1, <2>2, <2>3
<1>5. Cost(cmds) = Cost(older) + Cost(newer)
  BY <1>2, <1>3, <1>4, CostSplits
<1> QED BY <1>5 DEF older, newer

LEMMA CostAppends ==
    ASSUME JournalAssumption, NEW cmds \in Seq(Command), NEW cmd \in Command
    PROVE  Cost(Append(cmds, cmd)) = Cost(cmds) + Bytes(cmd)
<1> DEFINE all == Append(cmds, cmd)
           one == <<cmd>>
<1>1. /\ Len(cmds) \in Nat /\ all \in Seq(Command) /\ Len(all) = Len(cmds) + 1
      /\ \A i \in 1 .. Len(cmds) : all[i] = cmds[i]
      /\ all[Len(cmds) + 1] = cmd
  BY AppendProperties, LenProperties
<1>2. one \in Seq(Command) /\ Len(one) = 1 /\ one[1] = cmd
  OBVIOUS
<1> HIDE DEF all, one
<1>3. /\ Len(all) = Len(cmds) + Len(one)
      /\ \A i \in 1 .. Len(one) : all[Len(cmds) + i] = one[i]
  BY <1>1, <1>2
<1>4. Cost(all) = Cost(cmds) + Cost(one)
  BY <1>1, <1>2, <1>3, CostSplits
<1>5. Cost(one) = Bytes(cmd)
  BY <1>2, CostNat
<1> QED BY <1>4, <1>5 DEF all

LEMMA CostPops ==
    ASSUME JournalAssumption, NEW cmds \in Seq(Command), cmds # <<>>
    PROVE  Cost(cmds) = Cost(Pop(cmds)) + Bytes(Last(cmds))
<1> DEFINE n == Len(cmds) - 1
           one == <<Last(cmds)>>
<1>1. /\ Len(cmds) \in Nat \ {0} /\ Pop(cmds) \in Seq(Command) /\ Len(Pop(cmds)) = n
      /\ \A i \in 1 .. n : Pop(cmds)[i] = cmds[i]
      /\ Last(cmds) = cmds[Len(cmds)] /\ Last(cmds) \in Command
  BY PopFacts
<1>2. one \in Seq(Command) /\ Len(one) = 1 /\ one[1] = Last(cmds)
  BY <1>1
<1> HIDE DEF one
<1>3. /\ Len(cmds) = Len(Pop(cmds)) + Len(one)
      /\ \A i \in 1 .. Len(Pop(cmds)) : cmds[i] = Pop(cmds)[i]
      /\ \A i \in 1 .. Len(one) : cmds[Len(Pop(cmds)) + i] = one[i]
  BY <1>1, <1>2
<1>4. Cost(cmds) = Cost(Pop(cmds)) + Cost(one)
  BY <1>1, <1>2, <1>3, CostSplits
<1>5. Cost(one) = Bytes(Last(cmds))
  BY <1>2, CostNat
<1> QED BY <1>4, <1>5

\* What enforceBudget() leaves is the newer end of the history, never empty
\* when the history was not.
LEMMA BudgetKeepsNewest ==
    ASSUME NEW cmds \in Seq(Command), NEW bytes, NEW limit,
           EnforceBudget(cmds, bytes, limit)
    PROVE  \E k \in Nat :
             /\ k < Len(cmds) \/ (cmds = <<>> /\ k = 0)
             /\ undo' \in Seq(Command) /\ Len(undo') = Len(cmds) - k
             /\ \A i \in 1 .. Len(cmds) - k : undo'[i] = cmds[k + i]
<1>1. PICK k \in 0 .. Len(cmds) :
        /\ k < Len(cmds) \/ cmds = <<>>
        /\ undo' = SubSeq(cmds, k + 1, Len(cmds))
  BY DEF EnforceBudget
<1>2. Len(cmds) \in Nat /\ k \in Nat /\ \A i \in 1 .. Len(cmds) : cmds[i] \in Command
  BY LenProperties, ElementOfSeq
<1>3. cmds = <<>> => k = 0
  BY <1>2, EmptySeq
<1>4. /\ undo' \in Seq(Command) /\ Len(undo') = Len(cmds) - k
      /\ \A i \in 1 .. Len(cmds) - k : undo'[i] = cmds[k + i]
  <2>1. k + 1 \in Int /\ Len(cmds) \in Int /\ \A i \in k + 1 .. Len(cmds) : cmds[i] \in Command
    BY <1>2
  <2>2. /\ SubSeq(cmds, k + 1, Len(cmds)) \in Seq(Command)
        /\ Len(SubSeq(cmds, k + 1, Len(cmds)))
             = IF k + 1 <= Len(cmds) THEN Len(cmds) - (k + 1) + 1 ELSE 0
        /\ \A i \in 1 .. Len(cmds) - (k + 1) + 1 :
             SubSeq(cmds, k + 1, Len(cmds))[i] = cmds[k + 1 + i - 1]
    BY <2>1, SubSeqProperties
  <2> QED BY <1>1, <1>2, <2>2
<1> QED BY <1>1, <1>2, <1>3, <1>4

-----------------------------------------------------------------------------
(* The invariant *)

LEMMA InitEditInv == Init => EditInv
<1> SUFFICES ASSUME Init PROVE EditInv
  OBVIOUS
<1>1. undo = <<>> /\ redo = <<>> /\ Len(undo) = 0 /\ Len(redo) = 0
  BY EmptySeq DEF Init
<1>2. undo \in Seq(Command) /\ redo \in Seq(Command)
  BY <1>1, EmptySeq
<1>3. SeqInv
  BY <1>2 DEF Init, SeqInv, Snapshot
<1>4. HistoryChains
  BY <1>1 DEF HistoryChains
<1>5. CleanMeansSaved
  BY DEF Init, CleanMeansSaved
<1> QED BY <1>3, <1>4, <1>5 DEF EditInv

\* HistoryChains in terms of Chained.
LEMMA ChainsAsChained ==
    HistoryChains <=>
      /\ Chained(undo)
      /\ undo # <<>> => undo[Len(undo)].after = editMesh
      /\ \A i \in 1 .. Len(redo) - 1 : redo[i].before = redo[i + 1].after
      /\ redo # <<>> => redo[Len(redo)].before = editMesh
BY DEF HistoryChains, Chained

\* Evicting from a chained history that ends in the document keeps it so.
LEMMA BudgetKeepsChain ==
    ASSUME NEW cmds \in Seq(Command), NEW bytes, NEW limit, NEW mesh,
           Chained(cmds), cmds # <<>> => cmds[Len(cmds)].after = mesh,
           EnforceBudget(cmds, bytes, limit)
    PROVE  /\ undo' \in Seq(Command) /\ Chained(undo')
           /\ undo' # <<>> => undo'[Len(undo')].after = mesh
<1>1. PICK k \in Nat :
        /\ k < Len(cmds) \/ (cmds = <<>> /\ k = 0)
        /\ undo' \in Seq(Command) /\ Len(undo') = Len(cmds) - k
        /\ \A i \in 1 .. Len(cmds) - k : undo'[i] = cmds[k + i]
  BY BudgetKeepsNewest
<1>2. Len(cmds) \in Nat
  BY LenProperties
<1>3. ASSUME NEW i \in 1 .. Len(undo') - 1
      PROVE  undo'[i].after = undo'[i + 1].before
  <2>1. i \in 1 .. Len(cmds) - k /\ i + 1 \in 1 .. Len(cmds) - k
        /\ k + i \in 1 .. Len(cmds) - 1 /\ k + (i + 1) = (k + i) + 1
    BY <1>1, <1>2
  <2>2. undo'[i] = cmds[k + i] /\ undo'[i + 1] = cmds[(k + i) + 1]
    BY <1>1, <2>1
  <2> QED BY <2>1, <2>2 DEF Chained
<1>4. ASSUME undo' # <<>> PROVE undo'[Len(undo')].after = mesh
  <2>1. Len(undo') \in Nat \ {0}
    BY <1>1, <1>4, EmptySeq
  <2>2. Len(cmds) - k \in 1 .. Len(cmds) - k /\ k + (Len(cmds) - k) = Len(cmds)
    BY <1>1, <1>2, <2>1
  <2>3. undo'[Len(undo')] = cmds[Len(cmds)] /\ cmds # <<>>
    BY <1>1, <2>1, <2>2, EmptySeq
  <2> QED BY <2>3
<1> QED BY <1>1, <1>3, <1>4 DEF Chained

\* A command appended to a chained history, and the document that ends it.
LEMMA AppendEnds ==
    ASSUME NEW cmds \in Seq(Command), NEW cmd \in Command
    PROVE  /\ Append(cmds, cmd) \in Seq(Command) /\ Append(cmds, cmd) # <<>>
           /\ Len(Append(cmds, cmd)) = Len(cmds) + 1
           /\ Append(cmds, cmd)[Len(Append(cmds, cmd))] = cmd
BY AppendProperties

LEMMA EditStep ==
    ASSUME EditInv, NEW mesh \in Mesh, PartialRetopology(mesh) PROVE EditInv'
<1> DEFINE cmd == [before |-> editMesh, after |-> mesh]
<1>1. cmd \in Command /\ undo \in Seq(Command)
  BY DEF EditInv, SeqInv, Command, Snapshot
<1>2. Chained(Append(undo, cmd))
  BY <1>1, AppendChained, ChainsAsChained DEF EditInv
<1>3. Append(undo, cmd)[Len(Append(undo, cmd))].after = mesh
  BY <1>1, AppendEnds
<1>4. EnforceBudget(Append(undo, cmd), used + Bytes(cmd), budget)
  BY DEF PartialRetopology
<1>5. /\ undo' \in Seq(Command) /\ Chained(undo')
      /\ undo' # <<>> => undo'[Len(undo')].after = mesh
  <2> DEFINE line == Append(undo, cmd)
             cost == used + Bytes(cmd)
  <2>1. /\ line \in Seq(Command) /\ Chained(line) /\ line[Len(line)].after = mesh
        /\ EnforceBudget(line, cost, budget)
    BY <1>1, <1>2, <1>3, <1>4, AppendEnds
  <2> HIDE DEF line, cost
  <2> QED BY <2>1, BudgetKeepsChain
<1>6. /\ redo' = <<>> /\ editMesh' = mesh /\ dirty' = TRUE /\ saved' = saved
  BY DEF PartialRetopology, Replace
<1>7. redo' \in Seq(Command) /\ Len(redo') = 0
  BY <1>6, EmptySeq
<1>8. SeqInv'
  BY <1>5, <1>6, <1>7 DEF EditInv, SeqInv, Snapshot
<1>9. HistoryChains'
  BY <1>5, <1>6, <1>7 DEF HistoryChains, Chained
<1> QED BY <1>6, <1>8, <1>9 DEF EditInv, CleanMeansSaved

LEMMA UndoStep == ASSUME EditInv, Undo PROVE EditInv'
<1> DEFINE cmd == Last(undo)
<1>1. /\ undo \in Seq(Command) /\ undo # <<>> /\ redo \in Seq(Command)
      /\ cmd \in Command /\ cmd = undo[Len(undo)] /\ cmd.after = editMesh
  BY PopFacts DEF EditInv, SeqInv, Undo, HistoryChains
<1>2. /\ undo' = Pop(undo) /\ redo' = Append(redo, cmd)
      /\ editMesh' = cmd.before /\ dirty' = TRUE /\ saved' = saved
  BY DEF Undo, Replace
<1>3. /\ undo' \in Seq(Command) /\ Chained(undo')
      /\ undo' # <<>> => undo'[Len(undo')].after = editMesh'
  BY <1>1, <1>2, PopFacts, PopChained, ChainsAsChained DEF EditInv
<1> HIDE DEF cmd
<1>4. /\ redo' \in Seq(Command) /\ Len(redo') = Len(redo) + 1 /\ Len(redo) \in Nat
      /\ redo'[Len(redo')] = cmd
      /\ \A i \in 1 .. Len(redo) : redo'[i] = redo[i]
  BY <1>1, <1>2, AppendProperties, LenProperties
<1>5. ASSUME NEW i \in 1 .. Len(redo') - 1
      PROVE  redo'[i].before = redo'[i + 1].after
  <2>1. CASE i = Len(redo)
    <3>1. redo # <<>> /\ redo'[i] = redo[Len(redo)] /\ redo'[i + 1] = cmd
      BY <1>4, <2>1, EmptySeq
    <3> QED BY <1>1, <3>1 DEF EditInv, HistoryChains
  <2>2. CASE i # Len(redo)
    <3>1. i \in 1 .. Len(redo) - 1 /\ redo'[i] = redo[i] /\ redo'[i + 1] = redo[i + 1]
      BY <1>4, <2>2
    <3> QED BY <3>1 DEF EditInv, HistoryChains
  <2> QED BY <2>1, <2>2
<1>6. HistoryChains'
  BY <1>2, <1>3, <1>4, <1>5 DEF HistoryChains, Chained
<1>7. SeqInv'
  BY <1>1, <1>2, <1>3, <1>4 DEF EditInv, SeqInv, Command
<1> QED BY <1>2, <1>6, <1>7 DEF EditInv, CleanMeansSaved

LEMMA RedoStep == ASSUME EditInv, Redo PROVE EditInv'
<1> DEFINE cmd == Last(redo)
           line == Append(undo, cmd)
           cost == used + Bytes(cmd)
<1>1. /\ undo \in Seq(Command) /\ redo # <<>> /\ redo \in Seq(Command)
      /\ cmd \in Command /\ cmd = redo[Len(redo)] /\ cmd.before = editMesh
  BY PopFacts DEF EditInv, SeqInv, Redo, HistoryChains
<1>2. /\ EnforceBudget(line, cost, budget) /\ redo' = Pop(redo)
      /\ editMesh' = cmd.after /\ dirty' = TRUE /\ saved' = saved
  BY DEF Redo, Replace
<1>3. line \in Seq(Command) /\ Chained(line) /\ line[Len(line)] = cmd
  BY <1>1, AppendChained, AppendEnds, ChainsAsChained DEF EditInv
<1>4. redo' \in Seq(Command) /\ Len(redo') = Len(redo) - 1 /\ Len(redo) \in Nat \ {0}
      /\ \A i \in 1 .. Len(redo) - 1 : redo'[i] = redo[i]
  BY <1>1, <1>2, PopFacts
<1> HIDE DEF cmd, line, cost
<1>5. /\ undo' \in Seq(Command) /\ Chained(undo')
      /\ undo' # <<>> => undo'[Len(undo')].after = editMesh'
  BY <1>2, <1>3, BudgetKeepsChain
<1>6. ASSUME NEW i \in 1 .. Len(redo') - 1
      PROVE  redo'[i].before = redo'[i + 1].after
  <2>1. i \in 1 .. Len(redo) - 1 /\ redo'[i] = redo[i] /\ redo'[i + 1] = redo[i + 1]
    BY <1>4
  <2> QED BY <2>1 DEF EditInv, HistoryChains
<1>7. ASSUME redo' # <<>> PROVE redo'[Len(redo')].before = editMesh'
  <2>1. Len(redo) - 1 \in 1 .. Len(redo) - 1
    BY <1>4, <1>7, EmptySeq
  <2>2. /\ redo'[Len(redo')] = redo[Len(redo) - 1] /\ Len(redo) - 1 + 1 = Len(redo)
        /\ redo[Len(redo) - 1].before = redo[Len(redo) - 1 + 1].after
    BY <1>4, <2>1 DEF EditInv, HistoryChains
  <2> QED BY <1>1, <1>2, <2>2
<1>8. HistoryChains'
  BY <1>5, <1>6, <1>7 DEF HistoryChains, Chained
<1>9. SeqInv'
  BY <1>1, <1>2, <1>4, <1>5 DEF EditInv, SeqInv, Command
<1> QED BY <1>2, <1>8, <1>9 DEF EditInv, CleanMeansSaved

LEMMA SetBudgetStep == ASSUME EditInv, NEW bytes, SetBudget(bytes) PROVE EditInv'
<1>1. /\ undo \in Seq(Command) /\ Chained(undo)
      /\ undo # <<>> => undo[Len(undo)].after = editMesh
      /\ EnforceBudget(undo, used, bytes)
  BY ChainsAsChained DEF EditInv, SeqInv, SetBudget
<1>2. UNCHANGED <<editMesh, dirty, redo, saved>>
  BY DEF SetBudget, documentVars
<1>3. /\ undo' \in Seq(Command) /\ Chained(undo')
      /\ undo' # <<>> => undo'[Len(undo')].after = editMesh
  BY <1>1, BudgetKeepsChain
<1> QED BY <1>2, <1>3 DEF EditInv, SeqInv, HistoryChains, Chained, CleanMeansSaved

\* clear() and a restart leave no history at all.
LEMMA EmptyStep ==
    ASSUME EditInv, undo' = <<>>, redo' = <<>>, saved' = saved,
           UNCHANGED documentVars \/ (editMesh' = saved /\ dirty' = FALSE)
    PROVE  EditInv'
<1>1. /\ undo' \in Seq(Command) /\ redo' \in Seq(Command)
      /\ Len(undo') = 0 /\ Len(redo') = 0
  BY EmptySeq
<1>2. SeqInv'
  BY <1>1 DEF EditInv, SeqInv, documentVars
<1>3. HistoryChains'
  BY <1>1 DEF HistoryChains
<1> QED BY <1>2, <1>3 DEF EditInv, CleanMeansSaved, documentVars

LEMMA SavesStep == ASSUME IndInv, Saves PROVE IndInv'
<1>1. UNCHANGED <<editMesh, undo, redo>> /\ saved' \in {saved, editMesh} /\ dirty' \in {dirty, FALSE}
  BY DEF Saves, Autosave, SinkWrites, AutosaveReturns, SinkThrows, documentVars, stackVars
<1>2. SeqInv' /\ HistoryChains'
  BY <1>1 DEF IndInv, EditInv, SeqInv, HistoryChains
<1>3. CleanMeansSaved' /\ SaveInv'
  BY DEF IndInv, EditInv, CleanMeansSaved, SaveInv, Saves, Autosave, SinkWrites, AutosaveReturns,
         SinkThrows, documentVars
<1> QED BY <1>2, <1>3 DEF IndInv, EditInv

LEMMA Stutter == ASSUME EditInv, UNCHANGED vars PROVE EditInv'
BY DEF EditInv, SeqInv, HistoryChains, CleanMeansSaved, vars, documentVars, stackVars

LEMMA NextIndInv == IndInv /\ [ReliableNext]_vars => IndInv'
<1> SUFFICES ASSUME IndInv, [ReliableNext]_vars PROVE IndInv'
  OBVIOUS
<1>1. CASE Edits
  <2>1. EditInv
    BY DEF IndInv
  <2>2. ASSUME NEW mesh \in Mesh, PartialRetopology(mesh) PROVE EditInv'
    BY <2>1, <2>2, EditStep
  <2>3. ASSUME NEW bytes \in Budgets, SetBudget(bytes) PROVE EditInv'
    BY <2>1, <2>3, SetBudgetStep
  <2>4. ASSUME Undo PROVE EditInv'
    BY <2>1, <2>4, UndoStep
  <2>5. ASSUME Redo PROVE EditInv'
    BY <2>1, <2>5, RedoStep
  <2>6. ASSUME Clear PROVE EditInv'
    BY <2>1, <2>6, EmptyStep DEF Clear
  <2>7. EditInv'
    BY <1>1, <2>2, <2>3, <2>4, <2>5, <2>6 DEF Edits
  <2>8. SaveInv'
    BY <1>1 DEF Edits, SaveInv
  <2> QED BY <2>7, <2>8 DEF IndInv
<1>2. CASE Saves
  BY <1>2, SavesStep
<1>3. CASE Restart
  <2>1. EditInv'
    BY <1>3, EmptyStep DEF Restart, IndInv
  <2> QED BY <1>3, <2>1 DEF Restart, SaveInv, IndInv
<1>4. CASE UNCHANGED vars
  <2>1. EditInv'
    BY <1>4, Stutter DEF IndInv
  <2> QED BY <1>4, <2>1 DEF vars, documentVars, SaveInv, IndInv
<1> QED BY <1>1, <1>2, <1>3, <1>4 DEF ReliableNext

\* Where no allocation fails, the history stays one line through the document
\* and the dirty flag honest.
THEOREM Invariance == ReliableSpec => []IndInv
<1>1. Init => IndInv
  BY InitEditInv DEF IndInv, SaveInv, Init
<1> QED BY <1>1, NextIndInv, PTL DEF ReliableSpec

\* Undo and redo restore exactly the meshes the commands found and made:
\* UndoStack's two vectors always chain through the document.
THEOREM ChainHolds == ReliableSpec => []HistoryChains
<1>1. IndInv => HistoryChains
  BY DEF IndInv, EditInv
<1> QED BY <1>1, Invariance, PTL

\* autosaveIfDirty() may skip a clean document: it is what its sink wrote last, also
\* when a sink threw or the process ended within an autosave.
THEOREM CleanIsSaved == ReliableSpec => []CleanMeansSaved
<1>1. IndInv => CleanMeansSaved
  BY DEF IndInv, EditInv
<1> QED BY <1>1, Invariance, PTL

-----------------------------------------------------------------------------
(* The journal implements the Timeline *)

LEMMA PrependFacts ==
    ASSUME NEW S, NEW e \in S, NEW s \in Seq(S)
    PROVE  /\ <<e>> \o s \in Seq(S) /\ Len(<<e>> \o s) = Len(s) + 1
           /\ (<<e>> \o s)[1] = e /\ \A i \in 1 .. Len(s) : (<<e>> \o s)[i + 1] = s[i]
<1> DEFINE one == <<e>>
           line == one \o s
<1>1. one \in Seq(S) /\ Len(one) = 1 /\ one[1] = e /\ Len(s) \in Nat
  BY LenProperties
<1> HIDE DEF one
<1>2. /\ line \in Seq(S) /\ Len(line) = Len(one) + Len(s)
      /\ \A i \in 1 .. Len(one) + Len(s) :
           line[i] = IF i <= Len(one) THEN one[i] ELSE s[i - Len(one)]
  BY <1>1, ConcatProperties
<1> HIDE DEF line
<1>3. line[1] = e /\ \A i \in 1 .. Len(s) : line[i + 1] = s[i]
  BY <1>1, <1>2
<1>4. Len(line) = Len(s) + 1
  BY <1>1, <1>2
<1> QED BY <1>2, <1>3, <1>4 DEF line, one

LEMMA PastFacts ==
    ASSUME undo \in Seq(Command)
    PROVE  /\ Past \in Seq(Snapshot) /\ Len(Past) = Len(undo) /\ Len(undo) \in Nat
           /\ \A i \in 1 .. Len(undo) : Past[i] = undo[i].before
<1>1. Len(undo) \in Nat /\ \A i \in 1 .. Len(undo) : undo[i] \in Command
  BY LenProperties, ElementOfSeq
<1>2. Past \in [1 .. Len(undo) -> Snapshot]
  BY <1>1 DEF Past, Command
<1> QED BY <1>1, <1>2, FunctionIsSeq DEF Past

LEMMA FutureFacts ==
    ASSUME redo \in Seq(Command)
    PROVE  /\ Future \in Seq(Snapshot) /\ Len(Future) = Len(redo) /\ Len(redo) \in Nat
           /\ \A i \in 1 .. Len(redo) : Future[i] = redo[Len(redo) + 1 - i].after
<1>1. Len(redo) \in Nat /\ \A i \in 1 .. Len(redo) : redo[i] \in Command
  BY LenProperties, ElementOfSeq
<1>2. \A i \in 1 .. Len(redo) : Len(redo) + 1 - i \in 1 .. Len(redo)
  BY <1>1
<1>3. Future \in [1 .. Len(redo) -> Snapshot]
  BY <1>1, <1>2 DEF Future, Command
<1> QED BY <1>1, <1>3, FunctionIsSeq DEF Future

\* The same facts about the next state.
LEMMA PastNext ==
    ASSUME undo' \in Seq(Command)
    PROVE  /\ Past' \in Seq(Snapshot) /\ Len(Past') = Len(undo') /\ Len(undo') \in Nat
           /\ \A i \in 1 .. Len(undo') : Past'[i] = undo'[i].before
<1>1. Len(undo') \in Nat /\ \A i \in 1 .. Len(undo') : undo'[i] \in Command
  BY LenProperties, ElementOfSeq
<1>2. Past' \in [1 .. Len(undo') -> Snapshot]
  BY <1>1 DEF Past, Command
<1> QED BY <1>1, <1>2, FunctionIsSeq DEF Past

LEMMA FutureNext ==
    ASSUME redo' \in Seq(Command)
    PROVE  /\ Future' \in Seq(Snapshot) /\ Len(Future') = Len(redo') /\ Len(redo') \in Nat
           /\ \A i \in 1 .. Len(redo') : Future'[i] = redo'[Len(redo') + 1 - i].after
<1>1. Len(redo') \in Nat /\ \A i \in 1 .. Len(redo') : redo'[i] \in Command
  BY LenProperties, ElementOfSeq
<1>2. \A i \in 1 .. Len(redo') : Len(redo') + 1 - i \in 1 .. Len(redo')
  BY <1>1
<1>3. Future' \in [1 .. Len(redo') -> Snapshot]
  BY <1>1, <1>2 DEF Future, Command
<1> QED BY <1>1, <1>3, FunctionIsSeq DEF Future

\* Evicting commands forgets the states they found, oldest first.
LEMMA EvictionMoves ==
    ASSUME NEW cmds \in Seq(Command), NEW bytes, NEW limit, cmds # <<>>,
           EnforceBudget(cmds, bytes, limit),
           NEW states \in Seq(Snapshot), Len(states) = Len(cmds),
           \A i \in 1 .. Len(cmds) : states[i] = cmds[i].before
    PROVE  Line!Moves(states)
<1>1. PICK k \in Nat :
        /\ k < Len(cmds)
        /\ undo' \in Seq(Command) /\ Len(undo') = Len(cmds) - k
        /\ \A i \in 1 .. Len(cmds) - k : undo'[i] = cmds[k + i]
  BY BudgetKeepsNewest
<1>2. Len(cmds) \in Nat
  BY LenProperties
<1> DEFINE rest == SubSeq(states, k + 1, Len(states))
<1>3. /\ rest \in Seq(Snapshot) /\ Len(rest) = Len(cmds) - k
      /\ \A i \in 1 .. Len(cmds) - k : rest[i] = states[k + i]
  <2>1. k + 1 \in Int /\ Len(states) \in Int
        /\ \A i \in k + 1 .. Len(states) : states[i] \in Snapshot
    BY <1>1, <1>2, ElementOfSeq
  <2>2. /\ rest \in Seq(Snapshot)
        /\ Len(rest) = IF k + 1 <= Len(states) THEN Len(states) - (k + 1) + 1 ELSE 0
        /\ \A i \in 1 .. Len(states) - (k + 1) + 1 : rest[i] = states[k + 1 + i - 1]
    BY <2>1, SubSeqProperties
  <2> HIDE DEF rest
  <2> QED BY <1>1, <1>2, <2>2
<1>4. Past' = rest
  <2> HIDE DEF rest
  <2>1. ASSUME NEW i \in 1 .. Len(cmds) - k PROVE Past'[i] = rest[i]
    <3>1. k + i \in 1 .. Len(cmds)
      BY <1>1, <1>2
    <3>2. undo'[i] = cmds[k + i] /\ rest[i] = states[k + i] /\ Past'[i] = undo'[i].before
      BY <1>1, <1>3, PastNext
    <3> QED BY <3>1, <3>2
  <2>2. Past' \in Seq(Snapshot) /\ Len(Past') = Len(cmds) - k
    BY <1>1, PastNext
  <2> QED BY <1>3, <2>1, <2>2, SeqEqual
<1>5. k \in 0 .. Len(states) - 1
  BY <1>1, <1>2
<1> QED BY <1>4, <1>5 DEF Line!Moves, Line!Newest

\* A command appended to the history found the document as it stands.
LEMMA AppendLine ==
    ASSUME EditInv, NEW cmd \in Command, cmd.before = editMesh
    PROVE  LET cmds == Append(undo, cmd)
               states == Append(Past, editMesh)
           IN  /\ cmds \in Seq(Command) /\ cmds # <<>> /\ states \in Seq(Snapshot)
               /\ Len(states) = Len(cmds)
               /\ \A i \in 1 .. Len(cmds) : states[i] = cmds[i].before
<1> DEFINE cmds == Append(undo, cmd)
           states == Append(Past, editMesh)
<1>1. /\ undo \in Seq(Command) /\ Past \in Seq(Snapshot) /\ editMesh \in Snapshot
      /\ Len(Past) = Len(undo) /\ Len(undo) \in Nat
      /\ \A i \in 1 .. Len(undo) : Past[i] = undo[i].before
  BY PastFacts DEF EditInv, SeqInv
<1>2. /\ cmds \in Seq(Command) /\ cmds # <<>> /\ Len(cmds) = Len(undo) + 1
      /\ cmds[Len(undo) + 1] = cmd /\ \A i \in 1 .. Len(undo) : cmds[i] = undo[i]
  BY <1>1, AppendProperties
<1>3. /\ states \in Seq(Snapshot) /\ Len(states) = Len(undo) + 1
      /\ states[Len(undo) + 1] = editMesh
      /\ \A i \in 1 .. Len(undo) : states[i] = Past[i]
  <2>1. /\ states \in Seq(Snapshot) /\ Len(states) = Len(Past) + 1
        /\ states[Len(Past) + 1] = editMesh
        /\ \A i \in 1 .. Len(Past) : states[i] = Past[i]
    BY <1>1, AppendProperties
  <2> HIDE DEF states
  <2> QED BY <1>1, <2>1
<1> HIDE DEF cmds, states
<1>4. ASSUME NEW i \in 1 .. Len(undo) + 1 PROVE states[i] = cmds[i].before
  <2>1. CASE i = Len(undo) + 1
    BY <1>2, <1>3, <2>1
  <2>2. CASE i # Len(undo) + 1
    <3>1. i \in 1 .. Len(undo)
      BY <1>1, <2>2
    <3> QED BY <1>1, <1>2, <1>3, <3>1
  <2> QED BY <2>1, <2>2
<1>5. /\ cmds \in Seq(Command) /\ cmds # <<>> /\ states \in Seq(Snapshot)
      /\ Len(states) = Len(cmds) /\ \A i \in 1 .. Len(cmds) : states[i] = cmds[i].before
  BY <1>2, <1>3, <1>4
<1> QED BY <1>5 DEF cmds, states

LEMMA EditLine ==
    ASSUME EditInv, NEW mesh \in Mesh, PartialRetopology(mesh) PROVE Line!Edit
<1> DEFINE cmd == [before |-> editMesh, after |-> mesh]
           cmds == Append(undo, cmd)
           states == Append(Past, editMesh)
           cost == used + Bytes(cmd)
<1>1. cmd \in Command /\ cmd.before = editMesh
  BY DEF EditInv, SeqInv, Command, Snapshot
<1>2. EnforceBudget(cmds, cost, budget)
  BY DEF PartialRetopology
<1>3. /\ cmds \in Seq(Command) /\ cmds # <<>> /\ states \in Seq(Snapshot)
      /\ Len(states) = Len(cmds)
      /\ \A i \in 1 .. Len(cmds) : states[i] = cmds[i].before
  <2> HIDE DEF cmd
  <2> QED BY <1>1, AppendLine
<1>4. Line!Moves(states)
  <2> HIDE DEF cmds, states, cost
  <2> QED BY <1>2, <1>3, EvictionMoves
<1>5. editMesh' \in Snapshot /\ saved' = saved /\ redo' = <<>>
  BY DEF PartialRetopology, Replace, Snapshot
<1>6. Future' = <<>>
  <2>1. redo' \in Seq(Command) /\ Len(redo') = 0
    BY <1>5, EmptySeq
  <2>2. Future' \in Seq(Snapshot) /\ Len(Future') = 0
    BY <2>1, FutureNext
  <2> QED BY <2>2, EmptySeq
<1> QED BY <1>4, <1>5, <1>6 DEF Line!Edit

LEMMA UndoLine == ASSUME EditInv, Undo PROVE Line!Undo
<1> DEFINE cmd == Last(undo)
<1>1. /\ undo \in Seq(Command) /\ redo \in Seq(Command) /\ undo # <<>>
      /\ cmd \in Command /\ cmd = undo[Len(undo)] /\ cmd.after = editMesh
      /\ Len(undo) \in Nat \ {0}
  BY PopFacts DEF EditInv, SeqInv, HistoryChains, Undo
<1>2. /\ undo' = Pop(undo) /\ redo' = Append(redo, cmd)
      /\ editMesh' = cmd.before /\ saved' = saved
  BY DEF Undo, Replace
<1>3. /\ undo' \in Seq(Command) /\ Len(undo') = Len(undo) - 1
      /\ \A i \in 1 .. Len(undo) - 1 : undo'[i] = undo[i]
  BY <1>1, <1>2, PopFacts
<1> HIDE DEF cmd
<1>4. /\ redo' \in Seq(Command) /\ Len(redo') = Len(redo) + 1 /\ Len(redo) \in Nat
      /\ redo'[Len(redo) + 1] = cmd /\ \A i \in 1 .. Len(redo) : redo'[i] = redo[i]
  BY <1>1, <1>2, AppendProperties, LenProperties
<1>5. Past # <<>> /\ editMesh' = Past[Len(Past)]
  <2>1. Len(Past) = Len(undo) /\ Past[Len(undo)] = undo[Len(undo)].before
    BY <1>1, PastFacts
  <2> QED BY <1>1, <1>2, <2>1, EmptySeq
<1>6. Past' = SubSeq(Past, 1, Len(Past) - 1)
  <2> DEFINE n == Len(Past) - 1
             p == SubSeq(Past, 1, n)
  <2>1. Len(Past) = Len(undo) /\ (\A i \in 1 .. Len(undo) : Past[i] = undo[i].before)
        /\ (\A i \in 1 .. Len(Past) : Past[i] \in Snapshot)
    BY <1>1, PastFacts, ElementOfSeq
  <2>2. n \in Nat /\ n = Len(undo) - 1 /\ \A i \in 1 .. n : Past[i] \in Snapshot
    BY <1>1, <2>1
  <2> HIDE DEF n
  <2>3. /\ p \in Seq(Snapshot) /\ Len(p) = IF 1 <= n THEN n - 1 + 1 ELSE 0
        /\ \A i \in 1 .. n - 1 + 1 : p[i] = Past[1 + i - 1]
    BY <2>2, SubSeqProperties
  <2> HIDE DEF p
  <2>4. Len(p) = n
    <3>1. CASE 1 <= n
      BY <2>2, <2>3, <3>1
    <3>2. CASE ~(1 <= n)
      BY <2>2, <2>3, <3>2
    <3> QED BY <3>1, <3>2
  <2>5. ASSUME NEW i \in 1 .. n PROVE Past'[i] = p[i]
    <3>1. /\ i \in 1 .. Len(undo) - 1 /\ i \in 1 .. Len(undo) /\ i \in 1 .. Len(undo')
          /\ i \in 1 .. n - 1 + 1 /\ 1 + i - 1 = i
      BY <1>1, <1>3, <2>2
    <3>2. Past'[i] = undo'[i].before
      BY <1>3, <3>1, PastNext
    <3> QED BY <1>3, <2>1, <2>3, <3>1, <3>2
  <2>6. Past' \in Seq(Snapshot) /\ Len(Past') = n
    BY <1>3, <2>2, PastNext
  <2>7. Past' = p
    BY <2>3, <2>4, <2>5, <2>6, SeqEqual
  <2> QED BY <2>7 DEF p, n
<1>7. Future' = <<editMesh>> \o Future
  <2> DEFINE line == <<editMesh>> \o Future
  <2>1. editMesh \in Snapshot
    BY DEF EditInv, SeqInv
  <2>2. Future \in Seq(Snapshot) /\ Len(Future) = Len(redo)
        /\ \A i \in 1 .. Len(redo) : Future[i] = redo[Len(redo) + 1 - i].after
    BY <1>1, FutureFacts
  <2>3. /\ line \in Seq(Snapshot) /\ Len(line) = Len(Future) + 1 /\ line[1] = editMesh
        /\ \A i \in 1 .. Len(Future) : line[i + 1] = Future[i]
    BY <2>1, <2>2, PrependFacts
  <2> HIDE DEF line
  <2>4. /\ Future' \in Seq(Snapshot) /\ Len(Future') = Len(redo) + 1
        /\ \A i \in 1 .. Len(redo') : Future'[i] = redo'[Len(redo') + 1 - i].after
    BY <1>4, FutureNext
  <2>5. ASSUME NEW i \in 1 .. Len(redo) + 1 PROVE Future'[i] = line[i]
    <3>1. CASE i = 1
      <4>1. Future'[i] = cmd.after
        BY <1>4, <2>4, <3>1
      <4> QED BY <1>1, <1>4, <2>1, <2>3, <3>1, <4>1
    <3>2. CASE i # 1
      <4>1. /\ i - 1 \in 1 .. Len(redo) /\ Len(redo') + 1 - i = Len(redo) + 1 - (i - 1)
            /\ Len(redo) + 1 - (i - 1) \in 1 .. Len(redo) /\ i \in 1 .. Len(redo')
            /\ i - 1 + 1 = i
        BY <1>4, <3>2
      <4>2. Future'[i] = redo[Len(redo) + 1 - (i - 1)].after
        BY <1>4, <2>4, <4>1
      <4>3. line[i] = Future[i - 1]
        BY <2>2, <2>3, <4>1
      <4> QED BY <2>2, <4>1, <4>2, <4>3
    <3> QED BY <3>1, <3>2
  <2>6. Len(Future') = Len(line) /\ \A i \in 1 .. Len(Future') : Future'[i] = line[i]
    BY <1>4, <2>2, <2>3, <2>4, <2>5
  <2>7. Future' = line
    BY <2>3, <2>4, <2>6, SeqEqual
  <2> QED BY <2>7 DEF line
<1> QED BY <1>2, <1>5, <1>6, <1>7 DEF Line!Undo

LEMMA RedoLine == ASSUME EditInv, Redo PROVE Line!Redo
<1> DEFINE cmd == Last(redo)
           cmds == Append(undo, cmd)
           states == Append(Past, editMesh)
           cost == used + Bytes(cmd)
<1>1. /\ redo \in Seq(Command) /\ redo # <<>> /\ Len(redo) \in Nat \ {0}
      /\ cmd \in Command /\ cmd = redo[Len(redo)] /\ cmd.before = editMesh
  BY PopFacts DEF EditInv, SeqInv, HistoryChains, Redo
<1>2. /\ EnforceBudget(cmds, cost, budget) /\ redo' = Pop(redo)
      /\ editMesh' = cmd.after /\ saved' = saved
  BY DEF Redo, Replace
<1>3. /\ redo' \in Seq(Command) /\ Len(redo') = Len(redo) - 1
      /\ \A i \in 1 .. Len(redo) - 1 : redo'[i] = redo[i]
  BY <1>1, <1>2, PopFacts
<1> HIDE DEF cmd
<1>4. /\ cmds \in Seq(Command) /\ cmds # <<>> /\ states \in Seq(Snapshot)
      /\ Len(states) = Len(cmds)
      /\ \A i \in 1 .. Len(cmds) : states[i] = cmds[i].before
  BY <1>1, AppendLine
<1>5. Line!Moves(states)
  <2> HIDE DEF cmds, states, cost
  <2> QED BY <1>2, <1>4, EvictionMoves
<1>6. /\ Future \in Seq(Snapshot) /\ Future # <<>> /\ Len(Future) = Len(redo)
      /\ \A i \in 1 .. Len(redo) : Future[i] = redo[Len(redo) + 1 - i].after
  BY <1>1, FutureFacts, EmptySeq
<1>7. editMesh' = Head(Future)
  <2>1. Head(Future) = Future[1] /\ 1 \in 1 .. Len(redo) /\ Len(redo) + 1 - 1 = Len(redo)
    BY <1>1, <1>6
  <2> QED BY <1>1, <1>2, <1>6, <2>1
<1>8. Future' = Tail(Future)
  <2> DEFINE tail == Tail(Future)
  <2>1. /\ tail \in Seq(Snapshot) /\ Len(tail) = Len(Future) - 1
        /\ \A i \in 1 .. Len(tail) : tail[i] = Future[i + 1]
    BY <1>6, HeadTailProperties
  <2> HIDE DEF tail
  <2>2. /\ Future' \in Seq(Snapshot) /\ Len(Future') = Len(redo) - 1
        /\ \A i \in 1 .. Len(redo') : Future'[i] = redo'[Len(redo') + 1 - i].after
    BY <1>3, FutureNext
  <2>3. ASSUME NEW i \in 1 .. Len(redo) - 1 PROVE Future'[i] = tail[i]
    <3>1. /\ i + 1 \in 1 .. Len(redo) /\ Len(redo) + 1 - (i + 1) \in 1 .. Len(redo) - 1
          /\ Len(redo') + 1 - i = Len(redo) + 1 - (i + 1)
          /\ i \in 1 .. Len(redo') /\ i \in 1 .. Len(tail)
      <4>1. Len(redo) \in Nat /\ Len(redo') = Len(redo) - 1 /\ Len(tail) = Len(redo) - 1
        BY <1>1, <1>3, <1>6, <2>1
      <4> QED BY <4>1
    <3>2. Future'[i] = redo[Len(redo) + 1 - (i + 1)].after
      BY <1>3, <2>2, <3>1
    <3>3. tail[i] = Future[i + 1]
      BY <2>1, <3>1
    <3> QED BY <1>6, <3>1, <3>2, <3>3
  <2>4. Len(Future') = Len(tail) /\ \A i \in 1 .. Len(Future') : Future'[i] = tail[i]
    BY <1>1, <1>6, <2>1, <2>2, <2>3
  <2>5. Future' = tail
    BY <2>1, <2>2, <2>4, SeqEqual
  <2> QED BY <2>5 DEF tail
<1> QED BY <1>2, <1>5, <1>6, <1>7, <1>8 DEF Line!Redo

\* A new budget forgets states, or with nothing to undo changes nothing.
LEMMA SetBudgetLine ==
    ASSUME EditInv, NEW bytes, SetBudget(bytes)
    PROVE  Line!Forget \/ UNCHANGED Line!vars
<1>1. /\ undo \in Seq(Command) /\ EnforceBudget(undo, used, bytes)
      /\ UNCHANGED <<editMesh, redo, saved>>
  BY DEF EditInv, SeqInv, SetBudget, documentVars
<1>2. Future' = Future
  BY <1>1 DEF Future
<1>3. CASE undo = <<>>
  <2>1. Len(undo) = 0
    BY <1>3, EmptySeq
  <2>2. undo' = <<>>
    <3>1. undo' \in Seq(Command) /\ Len(undo') = 0
      <4>1. PICK k \in Nat :
              /\ k < Len(undo) \/ (undo = <<>> /\ k = 0)
              /\ undo' \in Seq(Command) /\ Len(undo') = Len(undo) - k
        BY <1>1, BudgetKeepsNewest
      <4> QED BY <2>1, <4>1
    <3> QED BY <3>1, EmptySeq
  <2>3. Past' = Past
    BY <1>3, <2>2 DEF Past
  <2> QED BY <1>1, <1>2, <2>3 DEF Line!vars
<1>4. CASE undo # <<>>
  <2>1. /\ Past \in Seq(Snapshot) /\ Len(Past) = Len(undo)
        /\ \A i \in 1 .. Len(undo) : Past[i] = undo[i].before
    BY <1>1, PastFacts
  <2>2. Line!Moves(Past)
    BY <1>1, <1>4, <2>1, EvictionMoves
  <2>3. Past # <<>>
    BY <1>1, <1>4, <2>1, EmptySeq
  <2> QED BY <1>1, <1>2, <2>2, <2>3 DEF Line!Forget
<1> QED BY <1>3, <1>4

LEMMA EmptyLine ==
    ASSUME undo' = <<>>, redo' = <<>> PROVE Past' = <<>> /\ Future' = <<>>
<1>1. /\ undo' \in Seq(Command) /\ redo' \in Seq(Command)
      /\ Len(undo') = 0 /\ Len(redo') = 0
  BY EmptySeq
<1>2. /\ Past' \in Seq(Snapshot) /\ Future' \in Seq(Snapshot)
      /\ Len(Past') = 0 /\ Len(Future') = 0
  BY <1>1, PastNext, FutureNext
<1> QED BY <1>2, EmptySeq

LEMMA InitLine == Init => Line!Init
<1> SUFFICES ASSUME Init PROVE Line!Init
  OBVIOUS
<1>1. /\ undo \in Seq(Command) /\ redo \in Seq(Command)
      /\ Len(undo) = 0 /\ Len(redo) = 0
  BY EmptySeq DEF Init
<1>2. Past = <<>> /\ Future = <<>>
  BY <1>1, PastFacts, FutureFacts, EmptySeq
<1> QED BY <1>2 DEF Init, Line!Init, Snapshot

LEMMA NextLine == EditInv /\ [ReliableNext]_vars => [Line!Next]_(Line!vars)
<1> SUFFICES ASSUME EditInv, [ReliableNext]_vars PROVE [Line!Next]_(Line!vars)
  OBVIOUS
<1>1. CASE Edits
  <2>1. ASSUME NEW mesh \in Mesh, PartialRetopology(mesh) PROVE Line!Edit
    BY <2>1, EditLine
  <2>2. ASSUME NEW bytes \in Budgets, SetBudget(bytes) PROVE Line!Forget \/ UNCHANGED Line!vars
    BY <2>2, SetBudgetLine
  <2>3. CASE Undo
    BY <2>3, UndoLine DEF Line!Next
  <2>4. CASE Redo
    BY <2>4, RedoLine DEF Line!Next
  <2>5. CASE Clear
    BY <2>5, EmptyLine DEF Clear, documentVars, Line!Next, Line!Clear
  <2> QED BY <1>1, <2>1, <2>2, <2>3, <2>4, <2>5 DEF Edits, Line!Next
<1>2. CASE Saves
  <2>1. UNCHANGED <<editMesh, undo, redo>> /\ saved' \in {saved, editMesh}
    BY <1>2 DEF Saves, Autosave, SinkWrites, AutosaveReturns, SinkThrows, documentVars, stackVars
  <2>2. Past' = Past /\ Future' = Future
    BY <2>1 DEF Past, Future
  <2> QED BY <2>1, <2>2 DEF Line!Next, Line!Save, Line!vars
<1>3. CASE Restart
  BY <1>3, EmptyLine DEF Restart, Line!Next, Line!Restart
<1>4. CASE UNCHANGED vars
  BY <1>4 DEF vars, documentVars, stackVars, Past, Future, Line!vars
<1> QED BY <1>1, <1>2, <1>3, <1>4 DEF ReliableNext

\* UndoStack with ReplaceEditMeshCommand implements the Timeline: every undo,
\* redo, edit, budget change, clear, autosave and restart is its counterpart on
\* the line of document states, whatever was evicted before.
THEOREM Refinement == ReliableSpec => ImplementsTimeline
<1>1. Init => Line!Init
  BY InitLine
<1>2. EditInv /\ [ReliableNext]_vars => [Line!Next]_(Line!vars)
  BY NextLine
<1>3. ReliableSpec => []EditInv
  <2>1. IndInv => EditInv
    BY DEF IndInv
  <2> QED BY <2>1, Invariance, PTL
<1> QED BY <1>1, <1>2, <1>3, PTL DEF ReliableSpec, ImplementsTimeline, Line!Spec

-----------------------------------------------------------------------------
(* The accounts *)

\* What the accounts rest on, whatever throws: m_used is short of nothing the
\* journal holds, by the same amount before and after each eviction.
AccountsInv ==
    /\ JournalAccounts
    /\ evicted + Len(undo) + Len(redo) <= MaxCommands

\* enforceBudget() takes off m_used what the evicted commands cost, stops as soon as
\* it may, and the last command that it evicts is over the limit still.
LEMMA BudgetAccounts ==
    ASSUME JournalAssumption, NEW cmds \in Seq(Command), NEW bytes \in Int, NEW limit \in Nat,
           evicted \in Nat, EnforceBudget(cmds, bytes, limit)
    PROVE  /\ undo' \in Seq(Command) /\ used' \in Int /\ evicted' \in Nat
           /\ used' - Cost(undo') = bytes - Cost(cmds)
           /\ evicted' + Len(undo') = evicted + Len(cmds)
           /\ used' <= limit \/ Len(undo') <= 1
           /\ LET k == evicted' - evicted
              IN  k > 0 => /\ k < Len(cmds)
                           /\ bytes - Cost(cmds) + Bytes(cmds[k]) + Cost(undo') > limit
<1> DEFINE left(j) == bytes - Cost(SubSeq(cmds, 1, j))
           over(j) == left(j) > limit /\ Len(cmds) - j > 1
<1>1. PICK k \in 0 .. Len(cmds) :
        /\ ~over(k) /\ \A j \in 0 .. k - 1 : over(j)
        /\ k < Len(cmds) \/ cmds = <<>>
        /\ undo' = SubSeq(cmds, k + 1, Len(cmds))
        /\ used' = left(k)
        /\ evicted' = evicted + k
  BY DEF EnforceBudget
<1>2. Len(cmds) \in Nat /\ k \in Nat /\ k <= Len(cmds) /\ (cmds = <<>> => k = 0 /\ Len(cmds) = 0)
  BY LenProperties, EmptySeq
<1>3. undo' \in Seq(Command) /\ Len(undo') = Len(cmds) - k
  BY <1>1, <1>2, PartOf
<1>4. /\ Cost(cmds) = Cost(SubSeq(cmds, 1, k)) + Cost(undo')
      /\ Cost(cmds) \in Nat /\ Cost(SubSeq(cmds, 1, k)) \in Nat /\ Cost(undo') \in Nat
  <2>1. Cost(cmds) = Cost(SubSeq(cmds, 1, k)) + Cost(undo')
    BY <1>1, <1>2, CostAt
  <2>2. SubSeq(cmds, 1, k) \in Seq(Command)
    BY <1>2, HeadOf
  <2>3. Cost(SubSeq(cmds, 1, k)) \in Nat
    BY <2>2, CostNat
  <2> QED BY <1>3, <2>1, <2>3, CostNat
<1>5. /\ used' \in Int /\ evicted' \in Nat /\ used' - Cost(undo') = bytes - Cost(cmds)
      /\ evicted' + Len(undo') = evicted + Len(cmds)
  <2>1. used' = bytes - Cost(SubSeq(cmds, 1, k)) /\ evicted' = evicted + k
    BY <1>1
  <2> HIDE DEF left, over
  <2> QED BY <1>2, <1>3, <1>4, <2>1, SMTT(40)
<1>6. used' <= limit \/ Len(undo') <= 1
  BY <1>1, <1>2, <1>3, <1>5
<1>7. ASSUME k > 0
      PROVE  k < Len(cmds) /\ bytes - Cost(cmds) + Bytes(cmds[k]) + Cost(undo') > limit
  <2>1. k < Len(cmds) /\ k - 1 \in 0 .. k - 1 /\ k - 1 \in Nat /\ k - 1 <= Len(cmds)
    BY <1>1, <1>2, <1>7
  <2>2. left(k - 1) > limit
    BY <1>1, <2>1
  <2> DEFINE first == SubSeq(cmds, 1, k)
             fewer == SubSeq(cmds, 1, k - 1)
             one == <<cmds[k]>>
  <2>3. /\ first \in Seq(Command) /\ Len(first) = k
        /\ \A i \in 1 .. k : first[i] = cmds[i]
    BY <1>2, HeadOf
  <2>4. /\ fewer \in Seq(Command) /\ Len(fewer) = k - 1
        /\ \A i \in 1 .. k - 1 : fewer[i] = cmds[i]
    BY <2>1, HeadOf
  <2>5. cmds[k] \in Command /\ one \in Seq(Command) /\ Len(one) = 1 /\ one[1] = cmds[k]
    <3>1. k \in 1 .. Len(cmds)
      BY <1>2, <1>7
    <3>2. cmds[k] \in Command
      BY <3>1, ElementOfSeq
    <3> QED BY <3>2
  <2> HIDE DEF first, fewer, one
  <2>6. Cost(first) = Cost(fewer) + Cost(one)
    <3>1. Len(first) = Len(fewer) + Len(one)
      BY <1>2, <2>3, <2>4, <2>5
    <3>2. \A i \in 1 .. Len(fewer) : first[i] = fewer[i]
      BY <1>2, <2>3, <2>4
    <3>3. \A i \in 1 .. Len(one) : first[Len(fewer) + i] = one[i]
      BY <1>2, <1>7, <2>3, <2>4, <2>5
    <3> QED BY <2>3, <2>4, <2>5, <3>1, <3>2, <3>3, CostSplits
  <2>7. Cost(one) = Bytes(cmds[k])
    BY <2>5, CostNat
  <2>8. Bytes(cmds[k]) \in Nat /\ Cost(fewer) \in Nat
    BY <2>4, <2>5, BytesNat, CostNat
  <2>9. Cost(cmds) = Cost(first) + Cost(undo') /\ bytes - Cost(fewer) > limit
    BY <1>4, <2>2 DEF first, fewer
  <2>10. Cost(undo') \in Nat /\ Cost(one) \in Nat
    BY <1>4, <2>7, <2>8
  <2> HIDE DEF left, over
  <2> QED BY <2>1, <2>6, <2>7, <2>8, <2>9, <2>10
<1>8. evicted' - evicted = k
  BY <1>1, <1>2
<1> HIDE DEF left, over
<1> QED BY <1>3, <1>5, <1>6, <1>7, <1>8

LEMMA Accounts ==
    ASSUME JournalAssumption, AccountsInv
    PROVE  /\ undo \in Seq(Command) /\ redo \in Seq(Command) /\ budget \in Budgets /\ budget \in Nat
           /\ used \in Int /\ evicted \in Nat /\ Len(undo) \in Nat /\ Len(redo) \in Nat
           /\ evicted + Len(undo) + Len(redo) <= MaxCommands /\ MaxCommands \in Nat
           /\ Cost(undo) \in Nat /\ used >= Cost(undo)
           /\ failures = 0 => used = Cost(undo) /\ (used <= budget \/ Len(undo) <= 1)
           /\ editMesh \in Snapshot /\ saved \in Snapshot /\ dirty \in BOOLEAN
           /\ failures \in 0 .. MaxFailures
<1>1. undo \in Seq(Command) /\ redo \in Seq(Command) /\ budget \in Nat /\ evicted \in Nat
  BY DEF AccountsInv, JournalAccounts, TypeOK, JournalAssumption
<1>2. Cost(undo) \in Nat /\ Len(undo) \in Nat /\ Len(redo) \in Nat
  BY <1>1, CostNat, LenProperties
<1> QED
  BY <1>1, <1>2 DEF AccountsInv, JournalAccounts, TypeOK, UsedCoversHistory, UsedExact, BudgetKept,
                    JournalAssumption

LEMMA AccountsFrom ==
    ASSUME JournalAssumption,
           undo' \in Seq(Command), redo' \in Seq(Command), budget' \in Budgets, used' \in Int,
           evicted' \in Nat, editMesh' \in Snapshot, saved' \in Snapshot, dirty' \in BOOLEAN,
           failures' \in 0 .. MaxFailures,
           evicted' + Len(undo') + Len(redo') <= MaxCommands,
           used' >= Cost(undo'),
           failures' = 0 => used' = Cost(undo') /\ (used' <= budget' \/ Len(undo') <= 1)
    PROVE  saving' \in Phase => AccountsInv'
<1> SUFFICES ASSUME saving' \in Phase PROVE AccountsInv'
  OBVIOUS
<1>1. Len(undo') \in Nat /\ Len(redo') \in Nat /\ MaxCommands \in Nat
  BY LenProperties DEF JournalAssumption
<1>2. evicted' \in 0 .. MaxCommands
  BY <1>1
<1>3. TypeOK'
  BY <1>2 DEF TypeOK
<1> QED BY <1>3 DEF AccountsInv, JournalAccounts, UsedCoversHistory, UsedExact, BudgetKept

\* A command is pushed, by an edit or a redo.
LEMMA PushAccounts ==
    ASSUME JournalAssumption, AccountsInv, NEW cmd \in Command,
           EnforceBudget(Append(undo, cmd), used + Bytes(cmd), budget),
           UNCHANGED <<budget, saved, failures>>,
           redo' \in Seq(Command), evicted + Len(undo) + 1 + Len(redo') <= MaxCommands,
           editMesh' \in Snapshot, dirty' \in BOOLEAN
    PROVE  saving' \in Phase => AccountsInv'
<1> DEFINE cmds == Append(undo, cmd)
           bytes == used + Bytes(cmd)
<1>1. /\ cmds \in Seq(Command) /\ Len(cmds) = Len(undo) + 1
      /\ Cost(cmds) = Cost(undo) + Bytes(cmd) /\ Bytes(cmd) \in Nat
  BY Accounts, AppendEnds, CostAppends, BytesNat
<1>2. bytes \in Int /\ bytes - Cost(cmds) = used - Cost(undo)
  BY <1>1, Accounts, SMTT(40)
<1>3. EnforceBudget(cmds, bytes, budget) /\ budget \in Nat /\ evicted \in Nat
  BY Accounts
<1> HIDE DEF cmds, bytes
<1>4. /\ undo' \in Seq(Command) /\ used' \in Int /\ evicted' \in Nat
      /\ used' - Cost(undo') = bytes - Cost(cmds)
      /\ evicted' + Len(undo') = evicted + Len(cmds)
      /\ used' <= budget \/ Len(undo') <= 1
  BY <1>1, <1>2, <1>3, BudgetAccounts
<1>5. Cost(undo') \in Nat /\ Len(undo') \in Nat /\ Len(redo') \in Nat
  BY <1>4, CostNat, LenProperties
<1>6. used' >= Cost(undo') /\ (used = Cost(undo) => used' = Cost(undo'))
  <2>1. used' - Cost(undo') = used - Cost(undo)
    BY <1>2, <1>4
  <2>2. used \in Int /\ Cost(undo) \in Nat /\ used >= Cost(undo)
    BY Accounts
  <2> QED BY <1>4, <1>5, <2>1, <2>2, SMTT(40)
<1>7. evicted' + Len(undo') + Len(redo') <= MaxCommands
  <2>1. Len(undo) \in Nat /\ MaxCommands \in Nat
    BY Accounts
  <2> QED BY <1>1, <1>3, <1>4, <1>5, <2>1
<1>8. failures' = 0 => used = Cost(undo)
  BY Accounts
<1> QED BY <1>4, <1>6, <1>7, <1>8, Accounts, AccountsFrom

LEMMA EditAccounts ==
    ASSUME JournalAssumption, AccountsInv, NEW mesh \in Mesh, PartialRetopology(mesh)
    PROVE  saving' \in Phase => AccountsInv'
<1> DEFINE cmd == [before |-> editMesh, after |-> mesh]
<1>1. cmd \in Command /\ editMesh' \in Snapshot /\ dirty' \in BOOLEAN
  BY Accounts DEF PartialRetopology, Replace, Command, Snapshot
<1>2. redo' = <<>> /\ redo' \in Seq(Command) /\ Len(redo') = 0
  BY EmptySeq DEF PartialRetopology
<1>3. evicted + Len(undo) + 1 + Len(redo') <= MaxCommands
  BY <1>2, Accounts DEF PartialRetopology
<1>4. EnforceBudget(Append(undo, cmd), used + Bytes(cmd), budget)
  BY DEF PartialRetopology
<1>5. UNCHANGED <<budget, saved, failures>>
  BY DEF PartialRetopology
<1> HIDE DEF cmd
<1> QED BY <1>1, <1>2, <1>3, <1>4, <1>5, PushAccounts

LEMMA RedoAccounts == ASSUME JournalAssumption, AccountsInv, Redo PROVE saving' \in Phase => AccountsInv'
<1> DEFINE cmd == Last(redo)
<1>1. redo \in Seq(Command) /\ redo # <<>>
  BY Accounts DEF Redo
<1>2. cmd \in Command /\ redo' \in Seq(Command) /\ Len(redo') = Len(redo) - 1 /\ redo' = Pop(redo)
  BY <1>1, PopFacts DEF Redo
<1>3. editMesh' \in Snapshot /\ dirty' \in BOOLEAN
  BY <1>2 DEF Redo, Replace, Command
<1>4. evicted + Len(undo) + 1 + Len(redo') <= MaxCommands
  BY <1>2, Accounts, SMTT(40)
<1>5. EnforceBudget(Append(undo, cmd), used + Bytes(cmd), budget) /\ UNCHANGED <<budget, saved, failures>>
  BY DEF Redo
<1> HIDE DEF cmd
<1> QED BY <1>2, <1>3, <1>4, <1>5, PushAccounts

LEMMA UndoAccounts == ASSUME JournalAssumption, AccountsInv, Undo PROVE saving' \in Phase => AccountsInv'
<1> DEFINE cmd == Last(undo)
<1>1. undo \in Seq(Command) /\ undo # <<>> /\ redo \in Seq(Command)
  BY Accounts DEF Undo
<1>2. /\ cmd \in Command /\ undo' = Pop(undo) /\ undo' \in Seq(Command) /\ Len(undo') = Len(undo) - 1
      /\ redo' = Append(redo, cmd) /\ used' = used - Bytes(cmd)
      /\ UNCHANGED <<budget, evicted, saved, failures>>
  BY <1>1, PopFacts DEF Undo
<1>3. Cost(undo) = Cost(undo') + Bytes(cmd) /\ Bytes(cmd) \in Nat /\ Cost(undo') \in Nat
  BY <1>1, <1>2, CostPops, BytesNat, CostNat
<1>4. redo' \in Seq(Command) /\ Len(redo') = Len(redo) + 1
  BY <1>1, <1>2, AppendEnds
<1>5. editMesh' \in Snapshot /\ dirty' \in BOOLEAN
  BY <1>2 DEF Undo, Replace, Command
<1> HIDE DEF cmd
<1>6. used' \in Int /\ used' >= Cost(undo') /\ (used = Cost(undo) => used' = Cost(undo'))
  <2>1. used \in Int /\ used >= Cost(undo)
    BY Accounts
  <2> QED BY <1>2, <1>3, <2>1
<1>7. evicted' \in Nat /\ evicted' + Len(undo') + Len(redo') <= MaxCommands
  <2>1. /\ Len(undo) \in Nat /\ Len(redo) \in Nat /\ evicted \in Nat
        /\ evicted + Len(undo) + Len(redo) <= MaxCommands /\ MaxCommands \in Nat
    BY Accounts
  <2> QED BY <1>2, <1>4, <2>1
<1>8. failures' = 0 => used' = Cost(undo') /\ (used' <= budget' \/ Len(undo') <= 1)
  <2>1. /\ failures = 0 => used = Cost(undo) /\ (used <= budget \/ Len(undo) <= 1)
        /\ used \in Int /\ budget \in Nat /\ Len(undo) \in Nat
    BY Accounts
  <2> QED BY <1>2, <1>3, <1>6, <2>1
<1> QED BY <1>2, <1>4, <1>5, <1>6, <1>7, <1>8, Accounts, AccountsFrom

LEMMA SetBudgetAccounts ==
    ASSUME JournalAssumption, AccountsInv, NEW bytes \in Budgets, SetBudget(bytes)
    PROVE  saving' \in Phase => AccountsInv'
<1>1. EnforceBudget(undo, used, bytes) /\ bytes \in Nat /\ budget' = bytes
  BY DEF SetBudget, JournalAssumption
<1>2. /\ undo' \in Seq(Command) /\ used' \in Int /\ evicted' \in Nat
      /\ used' - Cost(undo') = used - Cost(undo)
      /\ evicted' + Len(undo') = evicted + Len(undo)
      /\ used' <= bytes \/ Len(undo') <= 1
  BY <1>1, Accounts, BudgetAccounts
<1>3. Cost(undo') \in Nat /\ Len(undo') \in Nat
  BY <1>2, CostNat, LenProperties
<1>4. UNCHANGED <<documentVars, redo, saved, failures>>
  BY DEF SetBudget
<1>5. used' >= Cost(undo') /\ (used = Cost(undo) => used' = Cost(undo'))
  <2>1. used \in Int /\ Cost(undo) \in Nat /\ used >= Cost(undo)
    BY Accounts
  <2> QED BY <1>2, <1>3, <2>1
<1>7. evicted' + Len(undo') + Len(redo') <= MaxCommands
  <2>1. /\ Len(undo) \in Nat /\ Len(redo) \in Nat /\ evicted \in Nat
        /\ evicted + Len(undo) + Len(redo) <= MaxCommands /\ MaxCommands \in Nat
    BY Accounts
  <2> QED BY <1>2, <1>3, <1>4, <2>1
<1>8. failures' = 0 => used' = Cost(undo') /\ (used' <= budget' \/ Len(undo') <= 1)
  BY <1>1, <1>2, <1>4, <1>5, Accounts
<1>6. editMesh' \in Snapshot /\ saved' \in Snapshot /\ dirty' \in BOOLEAN /\ redo' \in Seq(Command)
      /\ failures' \in 0 .. MaxFailures
  BY <1>4, Accounts DEF documentVars
<1> QED BY <1>1, <1>2, <1>5, <1>6, <1>7, <1>8, AccountsFrom

\* The journal is emptied, by its host or with the process.
LEMMA EmptyAccounts ==
    ASSUME JournalAssumption, AccountsInv, Clear \/ Restart
    PROVE  saving' \in Phase => AccountsInv'
<1>1. undo' = <<>> /\ redo' = <<>> /\ used' = 0 /\ evicted' = 0 /\ UNCHANGED <<budget, saved, failures>>
  BY DEF Clear, Restart
<1>2. /\ undo' \in Seq(Command) /\ redo' \in Seq(Command) /\ Len(undo') = 0 /\ Len(redo') = 0
      /\ Cost(undo') = 0
  BY <1>1, CostNat, EmptySeq
<1>3. editMesh' \in Snapshot /\ dirty' \in BOOLEAN
  BY Accounts DEF Clear, Restart, documentVars
<1>4. /\ used' >= Cost(undo') /\ evicted' + Len(undo') + Len(redo') <= MaxCommands
      /\ used' \in Int /\ evicted' \in Nat /\ Len(undo') <= 1 /\ used' = Cost(undo')
  BY <1>1, <1>2, Accounts
<1> QED BY <1>1, <1>2, <1>3, <1>4, Accounts, AccountsFrom

LEMMA SavesAccounts == ASSUME AccountsInv, Saves PROVE AccountsInv'
<1>1. UNCHANGED <<editMesh, stackVars, budget, failures>> /\ saved' \in {saved, editMesh}
      /\ dirty' \in {dirty, FALSE} /\ saving' \in Phase
  BY DEF Saves, Autosave, SinkWrites, AutosaveReturns, SinkThrows, documentVars, stackVars,
         Phase
<1> QED
  BY <1>1 DEF AccountsInv, JournalAccounts, TypeOK, UsedCoversHistory, UsedExact, BudgetKept,
              stackVars

LEMMA StutterAccounts == ASSUME AccountsInv, UNCHANGED vars PROVE AccountsInv'
BY DEF AccountsInv, JournalAccounts, TypeOK, UsedCoversHistory, UsedExact, BudgetKept, vars,
       documentVars, stackVars

\* Of what throws a mesh may be left torn.
LEMMA HalfReplacedMesh == ASSUME JournalAssumption, AccountsInv, HalfReplaced
                          PROVE  editMesh' \in Snapshot /\ dirty' \in BOOLEAN
BY Accounts DEF HalfReplaced, Snapshot

LEMMA ThrowsFacts ==
    ASSUME JournalAssumption, AccountsInv, Throws
    PROVE  /\ failures' \in 0 .. MaxFailures /\ failures' # 0
           /\ UNCHANGED <<budget, evicted, saved>>
BY Accounts, SMTT(40) DEF Throws, JournalAssumption

LEMMA PushThrowsAccounts ==
    ASSUME JournalAssumption, AccountsInv, NEW mesh \in Mesh, PushThrows(mesh)
    PROVE  saving' \in Phase => AccountsInv'
<1> DEFINE cmd == [before |-> editMesh, after |-> mesh]
<1>1. cmd \in Command /\ Bytes(cmd) \in Nat
  BY Accounts, BytesNat DEF Command, Snapshot
<1>2. /\ editMesh' \in Snapshot /\ dirty' \in BOOLEAN
      /\ used' = used \/ used' = used + Bytes(cmd)
  BY HalfReplacedMesh DEF PushThrows, Replace, Snapshot
<1>3. UNCHANGED <<undo, redo>> /\ Throws
  BY DEF PushThrows
<1> HIDE DEF cmd
<1>4. used' \in Int /\ used' >= Cost(undo')
  BY <1>1, <1>2, <1>3, Accounts, SMTT(40)
<1> QED BY <1>2, <1>3, <1>4, Accounts, ThrowsFacts, AccountsFrom

LEMMA UndoThrowsAccounts == ASSUME JournalAssumption, AccountsInv, UndoThrows PROVE saving' \in Phase => AccountsInv'
<1> DEFINE cmd == Last(undo)
<1>1. undo \in Seq(Command) /\ undo # <<>>
  BY Accounts DEF UndoThrows
<1>2. /\ cmd \in Command /\ undo' = Pop(undo) /\ undo' \in Seq(Command)
      /\ Len(undo') = Len(undo) - 1 /\ redo' = redo /\ Throws
  BY <1>1, PopFacts DEF UndoThrows
<1>3. Cost(undo) = Cost(undo') + Bytes(cmd) /\ Bytes(cmd) \in Nat /\ Cost(undo') \in Nat
  BY <1>1, <1>2, CostPops, BytesNat, CostNat
<1>4. /\ editMesh' \in Snapshot /\ dirty' \in BOOLEAN
      /\ used' = used \/ used' = used - Bytes(cmd)
  BY <1>2, HalfReplacedMesh DEF UndoThrows, Replace, Command
<1> HIDE DEF cmd
<1>5. used' \in Int /\ used' >= Cost(undo')
  <2>1. used \in Int /\ used >= Cost(undo)
    BY Accounts
  <2> QED BY <1>2, <1>3, <1>4, <2>1
<1>6. evicted + Len(undo') + Len(redo') <= MaxCommands
  <2>1. /\ Len(undo) \in Nat /\ Len(redo) \in Nat /\ evicted \in Nat
        /\ evicted + Len(undo) + Len(redo) <= MaxCommands /\ MaxCommands \in Nat
    BY Accounts
  <2> QED BY <1>2, <2>1
<1> QED BY <1>2, <1>4, <1>5, <1>6, Accounts, ThrowsFacts, AccountsFrom

LEMMA RedoThrowsAccounts == ASSUME JournalAssumption, AccountsInv, RedoThrows PROVE saving' \in Phase => AccountsInv'
<1> DEFINE cmd == Last(redo)
<1>1. redo \in Seq(Command) /\ redo # <<>>
  BY Accounts DEF RedoThrows
<1>2. /\ cmd \in Command /\ redo' = Pop(redo) /\ redo' \in Seq(Command)
      /\ Len(redo') = Len(redo) - 1 /\ undo' = undo /\ Throws
  BY <1>1, PopFacts DEF RedoThrows
<1>3. Bytes(cmd) \in Nat
  BY <1>2, BytesNat
<1>4. /\ editMesh' \in Snapshot /\ dirty' \in BOOLEAN
      /\ used' = used \/ used' = used + Bytes(cmd)
  BY <1>2, HalfReplacedMesh DEF RedoThrows, Replace, Command
<1> HIDE DEF cmd
<1>5. used' \in Int /\ used' >= Cost(undo') /\ evicted + Len(undo') + Len(redo') <= MaxCommands
  BY <1>2, <1>3, <1>4, Accounts, SMTT(40)
<1> QED BY <1>2, <1>4, <1>5, Accounts, ThrowsFacts, AccountsFrom

LEMMA InitAccounts == ASSUME JournalAssumption, Init PROVE AccountsInv
<1>1. /\ undo \in Seq(Command) /\ redo \in Seq(Command) /\ Len(undo) = 0 /\ Len(redo) = 0
      /\ Cost(undo) = 0
  BY CostNat, EmptySeq DEF Init
<1>2. TypeOK
  <2>1. used = 0 /\ evicted = 0 /\ failures = 0 /\ MaxCommands \in Nat /\ MaxFailures \in Nat
    BY DEF Init, JournalAssumption
  <2>2. used \in Int /\ evicted \in 0 .. MaxCommands /\ failures \in 0 .. MaxFailures
    BY <2>1
  <2>3. /\ editMesh \in Snapshot /\ saved \in Snapshot /\ dirty \in BOOLEAN /\ budget \in Budgets
        /\ saving \in Phase
    BY DEF Init, Snapshot, Phase
  <2> QED BY <1>1, <2>2, <2>3 DEF TypeOK
<1> QED BY <1>1, <1>2 DEF AccountsInv, JournalAccounts, UsedCoversHistory, UsedExact, BudgetKept,
                          Init, JournalAssumption

LEMMA NextAccounts == ASSUME JournalAssumption, AccountsInv, [Next]_vars PROVE AccountsInv'
<1>1. CASE Edits
  <2>1. saving' \in Phase
    BY <1>1 DEF Edits, Phase
  <2>2. ASSUME NEW mesh \in Mesh, PartialRetopology(mesh) PROVE AccountsInv'
    BY <2>1, <2>2, EditAccounts
  <2>3. ASSUME NEW bytes \in Budgets, SetBudget(bytes) PROVE AccountsInv'
    BY <2>1, <2>3, SetBudgetAccounts
  <2>4. CASE Undo
    BY <2>1, <2>4, UndoAccounts
  <2>5. CASE Redo
    BY <2>1, <2>5, RedoAccounts
  <2>6. CASE Clear
    BY <2>1, <2>6, EmptyAccounts
  <2> QED BY <1>1, <2>2, <2>3, <2>4, <2>5, <2>6 DEF Edits
<1>2. CASE Saves
  BY <1>2, SavesAccounts
<1>3. CASE Restart
  <2>1. saving' \in Phase
    BY <1>3 DEF Restart, Phase
  <2> QED BY <1>3, <2>1, EmptyAccounts
<1>4. CASE FailingNext
  <2>1. saving' \in Phase
    BY <1>4 DEF FailingNext, Phase
  <2>2. ASSUME NEW mesh \in Mesh, PushThrows(mesh) PROVE AccountsInv'
    BY <2>1, <2>2, PushThrowsAccounts
  <2>3. CASE UndoThrows
    BY <2>1, <2>3, UndoThrowsAccounts
  <2>4. CASE RedoThrows
    BY <2>1, <2>4, RedoThrowsAccounts
  <2> QED BY <1>4, <2>2, <2>3, <2>4 DEF FailingNext
<1>5. CASE UNCHANGED vars
  BY <1>5, StutterAccounts
<1> QED BY <1>1, <1>2, <1>3, <1>4, <1>5 DEF Next, ReliableNext

\* m_used is what the undoable commands own and within the budget, until an operation
\* throws; and it covers them ever after, so that taking a command off never wraps it:
\* UndoStack's accounting through any mix of its operations and of allocations that fail.
THEOREM AccountsHold == Spec => []JournalAccounts
<1>1. Init => AccountsInv
  BY JournalAssumption, InitAccounts
<1>2. AccountsInv /\ [Next]_vars => AccountsInv'
  BY JournalAssumption, NextAccounts
<1>3. AccountsInv => JournalAccounts
  BY DEF AccountsInv
<1> QED BY <1>1, <1>2, <1>3, PTL DEF Spec

-----------------------------------------------------------------------------
(* What is dropped *)

\* The last command evicted would not have fitted, if m_used is exact.
ExactInv == AccountsInv /\ failures = 0
DropsOver == LET k == evicted' - evicted IN k > 0 => Bytes(undo[k]) + Cost(undo') > budget'

LEMMA PushDrops ==
    ASSUME JournalAssumption, AccountsInv, failures = 0, NEW cmd \in Command,
           EnforceBudget(Append(undo, cmd), used + Bytes(cmd), budget), UNCHANGED budget
    PROVE  DropsOver
<1> DEFINE cmds == Append(undo, cmd)
           bytes == used + Bytes(cmd)
           k == evicted' - evicted
<1>1. /\ cmds \in Seq(Command) /\ Len(cmds) = Len(undo) + 1
      /\ Cost(cmds) = Cost(undo) + Bytes(cmd) /\ Bytes(cmd) \in Nat
  BY Accounts, AppendEnds, CostAppends, BytesNat
<1>2. \A i \in 1 .. Len(undo) : cmds[i] = undo[i]
  BY Accounts, AppendProperties
<1>3. bytes \in Int /\ bytes - Cost(cmds) = 0
  BY <1>1, Accounts
<1>4. EnforceBudget(cmds, bytes, budget) /\ budget \in Nat /\ evicted \in Nat
  BY Accounts
<1> HIDE DEF cmds, bytes
<1>5. /\ evicted' \in Nat /\ undo' \in Seq(Command)
      /\ k > 0 => k < Len(cmds) /\ bytes - Cost(cmds) + Bytes(cmds[k]) + Cost(undo') > budget
  BY <1>1, <1>3, <1>4, BudgetAccounts
<1>6. ASSUME k > 0 PROVE Bytes(undo[k]) + Cost(undo') > budget
  <2>1. k \in 1 .. Len(undo)
    <3>1. k < Len(undo) + 1 /\ k > 0
      BY <1>1, <1>5, <1>6
    <3>2. evicted' \in Nat /\ evicted \in Nat /\ Len(undo) \in Nat
      BY <1>5, Accounts
    <3>3. k \in Int
      BY <3>2
    <3> HIDE DEF k
    <3> QED BY <3>1, <3>2, <3>3
  <2>2. cmds[k] = undo[k] /\ undo[k] \in Command
    BY <1>2, <2>1, Accounts, ElementOfSeq
  <2>3. Bytes(undo[k]) \in Nat /\ Cost(undo') \in Nat
    BY <1>5, <2>2, BytesNat, CostNat
  <2>4. 0 + Bytes(undo[k]) + Cost(undo') > budget
    BY <1>3, <1>5, <1>6, <2>2
  <2> QED BY <1>4, <2>3, <2>4
<1> QED BY <1>6 DEF DropsOver

LEMMA SetBudgetDrops ==
    ASSUME JournalAssumption, AccountsInv, failures = 0, NEW bytes \in Budgets, SetBudget(bytes)
    PROVE  DropsOver
<1> DEFINE k == evicted' - evicted
<1>1. EnforceBudget(undo, used, bytes) /\ bytes \in Nat /\ budget' = bytes
  BY DEF SetBudget, JournalAssumption
<1>2. /\ evicted' \in Nat /\ undo' \in Seq(Command)
      /\ k > 0 => k < Len(undo) /\ used - Cost(undo) + Bytes(undo[k]) + Cost(undo') > bytes
  BY <1>1, Accounts, BudgetAccounts
<1>3. ASSUME k > 0 PROVE Bytes(undo[k]) + Cost(undo') > bytes
  <2>1. k \in 1 .. Len(undo)
    BY <1>2, <1>3, Accounts
  <2>2. undo[k] \in Command
    BY <2>1, Accounts, ElementOfSeq
  <2>3. Bytes(undo[k]) \in Nat /\ Cost(undo') \in Nat
    BY <1>2, <2>2, BytesNat, CostNat
  <2>4. used - Cost(undo) = 0
    BY Accounts
  <2> QED BY <1>1, <1>2, <1>3, <2>3, <2>4
<1> QED BY <1>1, <1>3 DEF DropsOver

LEMMA NextDrops ==
    ASSUME JournalAssumption, AccountsInv, failures = 0, [ReliableNext]_vars
    PROVE  DropsOver \/ UNCHANGED vars
<1>1. ASSUME NEW mesh \in Mesh, PartialRetopology(mesh) PROVE DropsOver
  <2> DEFINE cmd == [before |-> editMesh, after |-> mesh]
  <2>1. cmd \in Command /\ EnforceBudget(Append(undo, cmd), used + Bytes(cmd), budget) /\ UNCHANGED budget
    BY <1>1, Accounts DEF PartialRetopology, Command, Snapshot
  <2> HIDE DEF cmd
  <2> QED BY <2>1, PushDrops
<1>2. ASSUME Redo PROVE DropsOver
  <2> DEFINE cmd == Last(redo)
  <2>1. EnforceBudget(Append(undo, cmd), used + Bytes(cmd), budget) /\ UNCHANGED budget /\ redo # <<>>
    BY <1>2 DEF Redo
  <2>2. cmd \in Command
    BY <2>1, Accounts, PopFacts
  <2> HIDE DEF cmd
  <2> QED BY <2>1, <2>2, PushDrops
<1>3. ASSUME NEW bytes \in Budgets, SetBudget(bytes) PROVE DropsOver
  BY <1>3, SetBudgetDrops
<1>4. ASSUME Undo \/ Clear \/ Saves \/ Restart PROVE DropsOver
  <2>1. evicted' = evicted \/ evicted' = 0
    BY <1>4 DEF Undo, Clear, Saves, Autosave, SinkWrites, AutosaveReturns, SinkThrows, Restart,
                stackVars
  <2>2. ~(evicted' - evicted > 0)
    BY <2>1, Accounts
  <2> QED BY <2>2 DEF DropsOver
<1> QED BY <1>1, <1>2, <1>3, <1>4 DEF ReliableNext, Edits

\* "Once the undo stack exceeds the budget the oldest commands are evicted" (undo.hpp),
\* and none before: what a journal keeps would not fit together with the newest command
\* that it let go, in a push, a redo or a smaller budget.
THEOREM EvictsOnlyOverBudget == ReliableSpec => DropsOnlyOverBudget
<1>1. Init => ExactInv
  BY JournalAssumption, InitAccounts DEF Init, ExactInv
<1>2. ExactInv /\ [ReliableNext]_vars => ExactInv'
  <2>1. [ReliableNext]_vars => [Next]_vars /\ UNCHANGED failures
    BY DEF ReliableNext, Edits, Saves, Next, vars, PartialRetopology, SetBudget, Undo, Redo, Clear,
           Autosave, SinkWrites, AutosaveReturns, SinkThrows, Restart
  <2> QED BY <2>1, JournalAssumption, NextAccounts DEF ExactInv
<1>3. ExactInv /\ [ReliableNext]_vars => [DropsOver]_vars
  BY JournalAssumption, NextDrops DEF ExactInv
<1>4. DropsOnlyOverBudget <=> [][DropsOver]_vars
  BY DEF DropsOnlyOverBudget, DropsOver
<1> QED BY <1>1, <1>2, <1>3, <1>4, PTL DEF ReliableSpec
=============================================================================
