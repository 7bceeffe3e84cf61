------------------------------- MODULE SumsProofs -------------------------------
(***************************************************************************)
(* Induction over the natural numbers, with a set in place of a predicate, *)
(* and by it what a running sum is: it exists, it is the only one, and it  *)
(* grows, splits and stays positive as a sum should; that the ordered list *)
(* of a set of indices holds each of them once; what FlattenSeq() makes of *)
(* sequences, put one after the other; and what the parts of a sequence    *)
(* are, and the products that say where they begin.                        *)
(***************************************************************************)
EXTENDS SequencesExt, Sums, FiniteSetTheorems, SequenceTheorems, WellFoundedInduction, TLAPS

\* A number that adding it to itself leaves as it is.
LEMMA OnlyZero == \A x \in Int : x = x + 1 * x => x = 0
OBVIOUS

LEMMA NatsFrom ==
    ASSUME NEW S, 0 \in S, \A k \in Nat : k \in S => k + 1 \in S
    PROVE  \A k \in Nat : k \in S
<1> DEFINE Below == {ss \in Nat \X Nat : ss[1] < ss[2]}
           Bad == {k \in Nat : k \notin S}
<1>1. SUFFICES ASSUME Bad # {} PROVE FALSE
  OBVIOUS
<1>2. PICK x \in Bad : \A y \in Bad : ~(<<y, x>> \in Below)
  <2>1. IsWellFoundedOn(Below, Nat)
    BY NatLessThanWellFounded DEF OpToRel
  <2>2. Bad \subseteq Nat
    OBVIOUS
  <2> HIDE DEF Bad, Below
  <2> QED BY <1>1, <2>1, <2>2, WFMin
<1>3. \A y \in Bad : ~(y < x)
  BY <1>2
<1>4. x \in Nat /\ x # 0 /\ x - 1 \in Nat
  OBVIOUS
<1>5. x - 1 \in S
  BY <1>3, <1>4
<1> QED BY <1>4, <1>5

-----------------------------------------------------------------------------
\* f is the running sum of w.
Running(f, w) ==
    /\ f \in [0 .. Len(w) -> Int] /\ f[0] = 0
    /\ \A i \in 1 .. Len(w) : f[i] = f[i - 1] + w[i]

LEMMA RunningExists ==
    ASSUME NEW w \in Seq(Int)
    PROVE  \E f : Running(f, w)
<1> DEFINE n == Len(w)
           Upto(f, k) == /\ f \in [0 .. k -> Int] /\ f[0] = 0
                         /\ \A i \in 1 .. k : f[i] = f[i - 1] + w[i]
           S == {k \in Nat : k <= n => \E f : Upto(f, k)}
<1>1. n \in Nat /\ \A i \in 1 .. n : w[i] \in Int
  BY LenProperties, ElementOfSeq
<1> HIDE DEF n
<1>2. 0 \in S
  <2>1. Upto([i \in 0 .. 0 |-> 0], 0)
    OBVIOUS
  <2> QED BY <2>1
<1>3. ASSUME NEW k \in Nat, k \in S PROVE k + 1 \in S
  <2>1. SUFFICES ASSUME k + 1 <= n PROVE \E g : Upto(g, k + 1)
    OBVIOUS
  <2>2. PICK f : Upto(f, k)
    <3>1. k <= n
      BY <1>1, <2>1
    <3> HIDE DEF Upto
    <3> QED BY <1>3, <3>1
  <2> DEFINE g == [i \in 0 .. k + 1 |-> IF i <= k THEN f[i] ELSE f[k] + w[k + 1]]
  <2>3. g \in [0 .. k + 1 -> Int] /\ g[0] = 0
    BY <1>1, <2>1, <2>2
  <2>4. ASSUME NEW i \in 1 .. k + 1 PROVE g[i] = g[i - 1] + w[i]
    <3>1. CASE i <= k
      BY <2>2, <3>1
    <3>2. CASE ~(i <= k)
      BY <2>2, <3>2, SMTT(40)
    <3> QED BY <3>1, <3>2
  <2>5. Upto(g, k + 1)
    BY <2>3, <2>4
  <2> HIDE DEF g, Upto
  <2> QED BY <2>5
<1>4. n \in S
  <2> HIDE DEF S
  <2> QED BY <1>1, <1>2, <1>3, NatsFrom
<1> QED BY <1>1, <1>4 DEF Running, n

LEMMA RunningUnique ==
    ASSUME NEW w \in Seq(Int), NEW f, NEW g, Running(f, w), Running(g, w)
    PROVE  \A k \in 0 .. Len(w) : f[k] = g[k]
<1> DEFINE S == {k \in Nat : k <= Len(w) => f[k] = g[k]}
<1>1. Len(w) \in Nat
  BY LenProperties
<1>2. 0 \in S
  BY DEF Running
<1>3. ASSUME NEW k \in Nat, k \in S PROVE k + 1 \in S
  <2>1. SUFFICES ASSUME k + 1 <= Len(w) PROVE f[k + 1] = g[k + 1]
    OBVIOUS
  <2>2. k + 1 \in 1 .. Len(w) /\ k + 1 - 1 = k /\ f[k] = g[k]
    BY <1>1, <1>3, <2>1
  <2> QED BY <2>2 DEF Running
<1>4. \A k \in Nat : k \in S
  <2> HIDE DEF S
  <2> QED BY <1>2, <1>3, NatsFrom
<1> QED BY <1>1, <1>4

\* SumOf is the last value of the running sum.
LEMMA SumIs ==
    ASSUME NEW w \in Seq(Int), NEW f, Running(f, w)
    PROVE  SumOf(w) = f[Len(w)]
<1> DEFINE upTo == CHOOSE u : u = [i \in 0 .. Len(w) |-> IF i = 0 THEN 0 ELSE u[i - 1] + w[i]]
<1>1. Len(w) \in Nat /\ \A i \in 1 .. Len(w) : w[i] \in Int
  BY LenProperties, ElementOfSeq
<1>2. f = [i \in 0 .. Len(w) |-> IF i = 0 THEN 0 ELSE f[i - 1] + w[i]]
  BY <1>1 DEF Running
<1>3. upTo = [i \in 0 .. Len(w) |-> IF i = 0 THEN 0 ELSE upTo[i - 1] + w[i]]
  BY <1>2
<1> HIDE DEF upTo
<1> DEFINE S == {k \in Nat : k <= Len(w) => upTo[k] = f[k]}
<1>4. 0 \in S
  BY <1>1, <1>3 DEF Running
<1>5. ASSUME NEW k \in Nat, k \in S PROVE k + 1 \in S
  <2>1. SUFFICES ASSUME k + 1 <= Len(w) PROVE upTo[k + 1] = f[k + 1]
    OBVIOUS
  <2>2. k + 1 \in 1 .. Len(w) /\ k + 1 # 0 /\ k + 1 - 1 = k /\ upTo[k] = f[k]
    BY <1>1, <1>5, <2>1
  <2>3. upTo[k + 1] = upTo[k] + w[k + 1]
    BY <1>3, <2>2
  <2> QED BY <2>2, <2>3 DEF Running
<1>6. Len(w) \in S
  <2> HIDE DEF S
  <2> QED BY <1>1, <1>4, <1>5, NatsFrom
<1>7. SumOf(w) = upTo[Len(w)]
  BY DEF SumOf, upTo
<1> QED BY <1>1, <1>6, <1>7

-----------------------------------------------------------------------------
LEMMA SumInt == ASSUME NEW w \in Seq(Int) PROVE SumOf(w) \in Int
<1>1. PICK f : Running(f, w)
  BY RunningExists
<1>2. Len(w) \in 0 .. Len(w)
  BY LenProperties
<1> QED BY <1>1, <1>2, SumIs DEF Running

LEMMA SumEmpty == ASSUME NEW w \in Seq(Int), Len(w) = 0 PROVE SumOf(w) = 0
<1>1. PICK f : Running(f, w)
  BY RunningExists
<1> QED BY <1>1, SumIs DEF Running

\* The sum up to k and the sum of what follows make the sum.
LEMMA SumSplits ==
    ASSUME NEW w \in Seq(Int), NEW u \in Seq(Int), NEW v \in Seq(Int),
           Len(w) = Len(u) + Len(v),
           \A i \in 1 .. Len(u) : w[i] = u[i],
           \A i \in 1 .. Len(v) : w[Len(u) + i] = v[i]
    PROVE  SumOf(w) = SumOf(u) + SumOf(v)
<1> DEFINE k == Len(u)
           n == Len(v)
<1>1. k \in Nat /\ n \in Nat /\ Len(w) = k + n
  BY LenProperties
<1>2. PICK f : Running(f, w)
  BY RunningExists
<1> DEFINE g == [i \in 0 .. k |-> f[i]]
           h == [i \in 0 .. n |-> f[k + i] - f[k]]
<1>3. Running(g, u)
  <2>1. g \in [0 .. Len(u) -> Int] /\ g[0] = 0
    BY <1>1, <1>2 DEF Running
  <2>2. ASSUME NEW i \in 1 .. Len(u) PROVE g[i] = g[i - 1] + u[i]
    <3>1. i \in 0 .. k /\ i - 1 \in 0 .. k /\ i \in 1 .. Len(w)
      BY <1>1
    <3>2. f[i] = f[i - 1] + w[i]
      BY <1>2, <3>1 DEF Running
    <3> QED BY <3>1, <3>2
  <2> HIDE DEF g
  <2> QED BY <2>1, <2>2 DEF Running
<1>4. Running(h, v)
  <2>1. h \in [0 .. Len(v) -> Int] /\ h[0] = 0
    <3>1. \A i \in 0 .. n : k + i \in 0 .. Len(w) /\ k \in 0 .. Len(w)
      BY <1>1
    <3>2. ASSUME NEW i \in 0 .. n PROVE f[k + i] - f[k] \in Int
      <4>1. k + i \in 0 .. Len(w) /\ k \in 0 .. Len(w)
        BY <3>1
      <4>2. f[k + i] \in Int /\ f[k] \in Int
        BY <1>2, <4>1 DEF Running
      <4> QED BY <4>2
    <3>3. f[k + 0] - f[k] = 0 /\ 0 \in 0 .. n
      <4>1. k + 0 = k /\ k \in 0 .. Len(w) /\ 0 \in 0 .. n
        BY <1>1
      <4>2. f[k] \in Int
        BY <1>2, <4>1 DEF Running
      <4> QED BY <4>1, <4>2
    <3> QED BY <3>2, <3>3
  <2>2. ASSUME NEW i \in 1 .. Len(v) PROVE h[i] = h[i - 1] + v[i]
    <3>1. /\ i \in 0 .. n /\ i - 1 \in 0 .. n /\ k + i \in 1 .. Len(w)
          /\ k + (i - 1) = (k + i) - 1
          /\ k + i \in 0 .. Len(w) /\ k + i - 1 \in 0 .. Len(w) /\ k \in 0 .. Len(w)
      BY <1>1
    <3>2. f[k + i] = f[k + i - 1] + w[k + i] /\ w[k + i] = v[i] /\ v[i] \in Int
          /\ f[k + i] \in Int /\ f[k + i - 1] \in Int /\ f[k] \in Int
      BY <1>2, <3>1, ElementOfSeq DEF Running
    <3> DEFINE a == f[k + i]
               b == f[k + i - 1]
               c == f[k]
    <3>3. h[i] = a - c /\ h[i - 1] = b - c
      BY <3>1
    <3>4. a \in Int /\ b \in Int /\ c \in Int /\ v[i] \in Int /\ a = b + v[i]
      BY <3>2
    <3>5. a - c = (b - c) + v[i]
      <4> DEFINE d == v[i]
      <4>1. a \in Int /\ b \in Int /\ c \in Int /\ d \in Int /\ a = b + d
        BY <3>4
      <4> HIDE DEF a, b, c, d
      <4>2. a - c = (b - c) + d
        BY <4>1
      <4> QED BY <4>2 DEF d
    <3> HIDE DEF a, b, c, h
    <3> QED BY <3>3, <3>5
  <2> HIDE DEF h
  <2> QED BY <2>1, <2>2 DEF Running
<1>5. SumOf(w) = f[k + n] /\ SumOf(u) = g[k] /\ SumOf(v) = h[n]
  BY <1>1, <1>2, <1>3, <1>4, SumIs
<1>6. g[k] = f[k] /\ h[n] = f[k + n] - f[k] /\ f[k] \in Int /\ f[k + n] \in Int
  <2>1. k \in 0 .. k /\ n \in 0 .. n /\ k \in 0 .. Len(w) /\ k + n \in 0 .. Len(w)
    BY <1>1
  <2> QED BY <1>2, <2>1 DEF Running
<1> HIDE DEF g, h
<1> QED BY <1>5, <1>6

LEMMA SumOne == ASSUME NEW w \in Seq(Int), Len(w) = 1 PROVE SumOf(w) = w[1]
<1>1. PICK f : Running(f, w)
  BY RunningExists
<1>2. 1 \in 1 .. Len(w) /\ 1 - 1 = 0 /\ w[1] \in Int
  BY ElementOfSeq
<1>3. f[1] = w[1]
  <2>1. f[1] = f[1 - 1] + w[1] /\ f[0] = 0
    BY <1>1, <1>2 DEF Running
  <2> QED BY <1>2, <2>1
<1>4. SumOf(w) = f[Len(w)]
  BY <1>1, SumIs
<1> QED BY <1>3, <1>4

LEMMA SumPositive ==
    ASSUME NEW w \in Seq(Nat)
    PROVE  SumOf(w) \in Nat
<1>0. w \in Seq(Int) /\ Len(w) \in Nat /\ \A i \in 1 .. Len(w) : w[i] \in Nat
  BY LenProperties, ElementOfSeq, SeqMonotonic
<1>1. PICK f : Running(f, w)
  BY <1>0, RunningExists
<1> DEFINE S == {k \in Nat : k <= Len(w) => f[k] \in Nat}
<1>2. 0 \in S
  BY <1>1 DEF Running
<1>3. ASSUME NEW k \in Nat, k \in S PROVE k + 1 \in S
  <2>1. SUFFICES ASSUME k + 1 <= Len(w) PROVE f[k + 1] \in Nat
    OBVIOUS
  <2>2. k + 1 \in 1 .. Len(w) /\ k + 1 - 1 = k /\ f[k] \in Nat
    BY <1>0, <1>3, <2>1
  <2> QED BY <1>0, <1>1, <2>2, SMTT(40) DEF Running
<1>4. Len(w) \in S
  <2> HIDE DEF S
  <2> QED BY <1>0, <1>2, <1>3, NatsFrom
<1> QED BY <1>0, <1>1, <1>4, SumIs

\* The running sum of positive numbers rises.
LEMMA RunningRises ==
    ASSUME NEW w \in Seq(Nat \ {0}), NEW f, Running(f, w)
    PROVE  /\ \A k \in 0 .. Len(w) : f[k] \in Nat /\ f[k] <= f[Len(w)]
           /\ \A k \in 1 .. Len(w) : f[k] = f[k - 1] + w[k] /\ w[k] \in Nat \ {0}
           /\ Len(w) \in Nat
<1> DEFINE n == Len(w)
<1>1. n \in Nat /\ \A k \in 1 .. n : w[k] \in Nat \ {0}
  BY LenProperties, ElementOfSeq
<1>2. f \in [0 .. n -> Int] /\ f[0] = 0 /\ \A k \in 1 .. n : f[k] = f[k - 1] + w[k]
  BY DEF Running
<1> DEFINE S == {k \in Nat : k <= n => f[k] \in Nat}
           D == {m \in Nat : m <= n => f[n - m] <= f[n]}
<1> HIDE DEF n
<1>3. \A k \in Nat : k \in S
  <2>1. 0 \in S
    BY <1>2
  <2>2. ASSUME NEW k \in Nat, k \in S PROVE k + 1 \in S
    <3>1. SUFFICES ASSUME k + 1 <= n PROVE f[k + 1] \in Nat
      OBVIOUS
    <3>2. k + 1 \in 1 .. n /\ k + 1 - 1 = k /\ f[k] \in Nat
      BY <1>1, <2>2, <3>1
    <3>3. f[k + 1] = f[k] + w[k + 1] /\ w[k + 1] \in Nat
      BY <1>1, <1>2, <3>2
    <3> QED BY <3>2, <3>3
  <2> HIDE DEF S
  <2> QED BY <2>1, <2>2, NatsFrom
<1>4. \A k \in 0 .. n : f[k] \in Nat
  BY <1>1, <1>3
<1>5. \A m \in Nat : m \in D
  <2>1. 0 \in D
    <3>1. n \in 0 .. n /\ n - 0 = n
      BY <1>1
    <3>2. f[n] \in Nat
      BY <1>4, <3>1
    <3> QED BY <3>1, <3>2
  <2>2. ASSUME NEW m \in Nat, m \in D PROVE m + 1 \in D
    <3>1. SUFFICES ASSUME m + 1 <= n PROVE f[n - (m + 1)] <= f[n]
      OBVIOUS
    <3>2. n - m \in 1 .. n /\ n - (m + 1) = n - m - 1 /\ n - m - 1 \in 0 .. n /\ n \in 0 .. n
          /\ n - m \in 0 .. n
      BY <1>1, <3>1
    <3>3. f[n - m] = f[n - m - 1] + w[n - m] /\ w[n - m] \in Nat
      BY <1>1, <1>2, <3>2
    <3>4. f[n - m] <= f[n]
      BY <1>1, <2>2, <3>1
    <3>5. f[n - m] \in Nat /\ f[n - m - 1] \in Nat /\ f[n] \in Nat
      BY <1>4, <3>2
    <3> QED BY <3>2, <3>3, <3>4, <3>5, SMTT(40)
  <2> HIDE DEF D
  <2> QED BY <2>1, <2>2, NatsFrom
<1>6. ASSUME NEW k \in 0 .. n PROVE f[k] <= f[n]
  <2>1. n - k \in Nat /\ n - k <= n /\ n - (n - k) = k
    BY <1>1
  <2>2. n - k \in D
    BY <1>5, <2>1
  <2> QED BY <2>1, <2>2
<1> QED BY <1>1, <1>2, <1>4, <1>6 DEF n

-----------------------------------------------------------------------------
(* Sums of two sequences, term by term *)

LEMMA Distributes ==
    \A c, p, q, x, y \in Int : (p + x) + c * (q + y) = (p + c * q) + (x + c * y)
OBVIOUS

LEMMA SumLinear ==
    ASSUME NEW n \in Nat, NEW u \in [1 .. n -> Int], NEW v \in [1 .. n -> Int], NEW c \in Int,
           NEW w \in [1 .. n -> Int], \A i \in 1 .. n : w[i] = u[i] + c * v[i]
    PROVE  SumOf(w) = SumOf(u) + c * SumOf(v)
<1>1. /\ u \in Seq(Int) /\ v \in Seq(Int) /\ w \in Seq(Int)
      /\ Len(u) = n /\ Len(v) = n /\ Len(w) = n
  OBVIOUS
<1>2. PICK f : Running(f, u)
  BY <1>1, RunningExists
<1>3. PICK g : Running(g, v)
  BY <1>1, RunningExists
<1>4. /\ f \in [0 .. n -> Int] /\ f[0] = 0 /\ \A i \in 1 .. n : f[i] = f[i - 1] + u[i]
      /\ g \in [0 .. n -> Int] /\ g[0] = 0 /\ \A i \in 1 .. n : g[i] = g[i - 1] + v[i]
  BY <1>1, <1>2, <1>3 DEF Running
<1> DEFINE h == [i \in 0 .. n |-> f[i] + c * g[i]]
<1>5. Running(h, w)
  <2>1. h \in [0 .. n -> Int] /\ h[0] = 0
    <3>1. ASSUME NEW i \in 0 .. n PROVE f[i] + c * g[i] \in Int
      <4>1. f[i] \in Int /\ g[i] \in Int
        BY <1>4
      <4> QED BY <4>1
    <3>2. 0 \in 0 .. n /\ f[0] + c * g[0] = 0
      BY <1>4
    <3> QED BY <3>1, <3>2
  <2>2. ASSUME NEW i \in 1 .. n PROVE h[i] = h[i - 1] + w[i]
    <3>1. /\ i \in 0 .. n /\ i - 1 \in 0 .. n
          /\ f[i] = f[i - 1] + u[i] /\ g[i] = g[i - 1] + v[i] /\ w[i] = u[i] + c * v[i]
      BY <1>4, SMTT(40)
    <3>2. f[i - 1] \in Int /\ g[i - 1] \in Int /\ u[i] \in Int /\ v[i] \in Int
      BY <1>4, <3>1
    <3>3. (f[i - 1] + u[i]) + c * (g[i - 1] + v[i])
              = (f[i - 1] + c * g[i - 1]) + (u[i] + c * v[i])
      BY <3>2, Distributes, SMTT(40)
    <3>4. h[i] = f[i] + c * g[i] /\ h[i - 1] = f[i - 1] + c * g[i - 1]
      BY <3>1
    <3> HIDE DEF h
    <3> QED BY <3>1, <3>3, <3>4
  <2> HIDE DEF h
  <2> QED BY <1>1, <2>1, <2>2 DEF Running
<1>6. SumOf(w) = h[n] /\ SumOf(u) = f[n] /\ SumOf(v) = g[n]
  <2> HIDE DEF h
  <2> QED BY <1>1, <1>2, <1>3, <1>5, SumIs
<1> QED BY <1>6

LEMMA SumAtMost ==
    ASSUME NEW n \in Nat, NEW u \in [1 .. n -> Int], NEW v \in [1 .. n -> Int],
           \A i \in 1 .. n : u[i] <= v[i]
    PROVE  SumOf(u) <= SumOf(v)
<1> DEFINE d == [i \in 1 .. n |-> v[i] - u[i]]
<1>1. d \in Seq(Nat) /\ d \in [1 .. n -> Int] /\ \A i \in 1 .. n : v[i] = u[i] + 1 * d[i]
  <2>1. ASSUME NEW i \in 1 .. n PROVE d[i] \in Nat /\ v[i] = u[i] + 1 * d[i]
    BY u[i] <= v[i], u[i] \in Int, v[i] \in Int
  <2>2. d \in [1 .. n -> Nat]
    BY <2>1
  <2> QED BY <2>1, <2>2
<1> HIDE DEF d
<1>2. SumOf(v) = SumOf(u) + 1 * SumOf(d)
  <2>1. 1 \in Int
    OBVIOUS
  <2> QED BY <1>1, <2>1, SumLinear, ZenonT(60)
<1>3. SumOf(u) \in Int /\ SumOf(v) \in Int /\ SumOf(d) \in Nat
  <2>1. u \in Seq(Int) /\ v \in Seq(Int)
    OBVIOUS
  <2> QED BY <1>1, <2>1, SumInt, SumPositive
<1> QED BY <1>2, <1>3

\* One term alone makes the sum.
LEMMA SumSpike ==
    ASSUME NEW n \in Nat, NEW u \in [1 .. n -> Int], NEW j \in 1 .. n,
           \A i \in 1 .. n : i # j => u[i] = 0
    PROVE  SumOf(u) = u[j]
<1>1. u \in Seq(Int) /\ Len(u) = n
  OBVIOUS
<1> DEFINE f == [i \in 0 .. n |-> IF i < j THEN 0 ELSE u[j]]
<1>2. Running(f, u)
  <2>1. f \in [0 .. n -> Int] /\ f[0] = 0
    OBVIOUS
  <2>2. ASSUME NEW i \in 1 .. n PROVE f[i] = f[i - 1] + u[i]
    <3>1. i \in 0 .. n /\ i - 1 \in 0 .. n /\ u[i] \in Int /\ u[j] \in Int
      OBVIOUS
    <3>2. f[i] = (IF i < j THEN 0 ELSE u[j]) /\ f[i - 1] = (IF i - 1 < j THEN 0 ELSE u[j])
      BY <3>1
    <3> HIDE DEF f
    <3>3. CASE i = j
      BY <3>1, <3>2, <3>3
    <3>4. CASE i # j
      <4>1. u[i] = 0
        BY <3>4
      <4> QED BY <3>1, <3>2, <3>4, <4>1
    <3> QED BY <3>3, <3>4
  <2> HIDE DEF f
  <2> QED BY <1>1, <2>1, <2>2 DEF Running
<1>3. SumOf(u) = f[n]
  <2> HIDE DEF f
  <2> QED BY <1>1, <1>2, SumIs
<1>4. n \in 0 .. n /\ ~(n < j)
  OBVIOUS
<1> QED BY <1>3, <1>4

\* A finite list of numbers has one above them.
LEMMA Bounded ==
    ASSUME NEW n \in Nat, NEW f \in [0 .. n - 1 -> Int]
    PROVE  \E c \in Int : \A i \in 0 .. n - 1 : f[i] <= c
<1> DEFINE S == {k \in Nat : k <= n => \E c \in Int : \A i \in 0 .. k - 1 : f[i] <= c}
<1>1. 0 \in S
  <2>1. 0 \in Int /\ 0 .. 0 - 1 = {}
    OBVIOUS
  <2> QED BY <2>1
<1>2. ASSUME NEW k \in Nat, k \in S PROVE k + 1 \in S
  <2>1. SUFFICES ASSUME k + 1 <= n PROVE \E c \in Int : \A i \in 0 .. (k + 1) - 1 : f[i] <= c
    OBVIOUS
  <2>2. PICK c \in Int : \A i \in 0 .. k - 1 : f[i] <= c
    BY <1>2, <2>1
  <2>3. f[k] \in Int /\ \A i \in 0 .. (k + 1) - 1 : i = k \/ i \in 0 .. k - 1
    BY <2>1
  <2>4. CASE f[k] <= c
    BY <2>2, <2>3, <2>4
  <2>5. CASE ~(f[k] <= c)
    <3>1. \A i \in 0 .. (k + 1) - 1 : f[i] <= f[k]
      <4>1. TAKE i \in 0 .. (k + 1) - 1
      <4>2. f[i] \in Int
        BY <2>1
      <4> QED BY <2>2, <2>3, <2>5, <4>2
    <3> QED BY <2>3, <3>1
  <2> QED BY <2>4, <2>5
<1>3. n \in S
  <2> HIDE DEF S
  <2> QED BY <1>1, <1>2, NatsFrom
<1> QED BY <1>3

-----------------------------------------------------------------------------
(* The members of a set in their order *)

\* q lists what S has up to k.
Lists(q, S, k) ==
    /\ q \in Seq(Nat)
    /\ \A j \in 1 .. Len(q) : q[j] \in 1 .. k
    /\ \A j, l \in 1 .. Len(q) : j < l => q[j] < q[l]
    /\ \A i \in 1 .. k : (\E j \in 1 .. Len(q) : q[j] = i) <=> i \in S

LEMMA ListsNext ==
    ASSUME NEW S, NEW k \in Nat, NEW q, Lists(q, S, k)
    PROVE  Lists(IF k + 1 \in S THEN Append(q, k + 1) ELSE q, S, k + 1)
<1>1. q \in Seq(Nat) /\ Len(q) \in Nat /\ \A j \in 1 .. Len(q) : q[j] \in 1 .. k
  BY LenProperties DEF Lists
<1>2. CASE k + 1 \notin S
  <2>1. \A j \in 1 .. Len(q) : q[j] \in 1 .. k + 1 /\ q[j] # k + 1
    BY <1>1
  <2>2. ASSUME NEW i \in 1 .. k + 1 PROVE (\E j \in 1 .. Len(q) : q[j] = i) <=> i \in S
    BY <1>2, <2>1 DEF Lists
  <2> QED BY <1>2, <2>1, <2>2 DEF Lists
<1>3. CASE k + 1 \in S
  <2> DEFINE r == Append(q, k + 1)
             m == Len(q)
  <2>1. /\ r \in Seq(Nat) /\ Len(r) = m + 1 /\ r[m + 1] = k + 1
        /\ \A j \in 1 .. m : r[j] = q[j]
    <3>1. q \in Seq(Nat) /\ k + 1 \in Nat
      BY <1>1
    <3> QED BY <3>1, AppendProperties
  <2> HIDE DEF r
  <2>2. \A j \in 1 .. m + 1 : j \in 1 .. m \/ j = m + 1
    BY <1>1
  <2>3. ASSUME NEW j \in 1 .. m + 1 PROVE r[j] \in 1 .. k + 1
    <3>1. CASE j \in 1 .. m
      <4>1. r[j] = q[j] /\ q[j] \in 1 .. k
        BY <1>1, <2>1, <3>1
      <4> QED BY <4>1
    <3>2. CASE j = m + 1
      BY <2>1, <3>2
    <3> QED BY <2>2, <3>1, <3>2
  <2>4. \A j, l \in 1 .. m + 1 : j < l => r[j] < r[l]
    <3>1. SUFFICES ASSUME NEW j \in 1 .. m + 1, NEW l \in 1 .. m + 1, j < l PROVE r[j] < r[l]
      OBVIOUS
    <3>2. j \in 1 .. m
      BY <1>1, <3>1
    <3>3. r[j] = q[j] /\ q[j] \in 1 .. k
      BY <1>1, <2>1, <3>2
    <3>4. CASE l = m + 1
      BY <2>1, <3>3, <3>4
    <3>5. CASE l \in 1 .. m
      <4>1. q[j] < q[l] /\ r[l] = q[l]
        BY <2>1, <3>1, <3>2, <3>5 DEF Lists
      <4> QED BY <3>3, <4>1
    <3> QED BY <2>2, <3>4, <3>5
  <2>5. ASSUME NEW i \in 1 .. k + 1 PROVE (\E j \in 1 .. m + 1 : r[j] = i) <=> i \in S
    <3>1. CASE i = k + 1
      <4>1. m + 1 \in 1 .. m + 1
        BY <1>1
      <4> QED BY <1>3, <2>1, <3>1, <4>1
    <3>2. CASE i \in 1 .. k
      <4>1. (\E j \in 1 .. m : q[j] = i) <=> i \in S
        BY <3>2 DEF Lists
      <4>2. (\E j \in 1 .. m + 1 : r[j] = i) <=> \E j \in 1 .. m : q[j] = i
        <5>1. ASSUME NEW j \in 1 .. m + 1, r[j] = i PROVE \E l \in 1 .. m : q[l] = i
          <6>1. j # m + 1
            BY <2>1, <3>2, <5>1
          <6>2. j \in 1 .. m /\ r[j] = q[j]
            BY <2>1, <2>2, <6>1
          <6> QED BY <5>1, <6>2
        <5>2. ASSUME NEW j \in 1 .. m, q[j] = i PROVE \E l \in 1 .. m + 1 : r[l] = i
          <6>1. j \in 1 .. m + 1 /\ r[j] = q[j]
            BY <1>1, <2>1
          <6> QED BY <5>2, <6>1
        <5> QED BY <5>1, <5>2
      <4> QED BY <4>1, <4>2
    <3>3. i = k + 1 \/ i \in 1 .. k
      OBVIOUS
    <3> QED BY <3>1, <3>2, <3>3
  <2>6. Lists(r, S, k + 1)
    BY <2>1, <2>3, <2>4, <2>5 DEF Lists
  <2> QED BY <1>3, <2>6 DEF r
<1> QED BY <1>2, <1>3

LEMMA AscendingLists == ASSUME NEW S, NEW n \in Nat PROVE Lists(Ascending(S, n), S, n)
<1> DEFINE Next1(q, k) == IF k \in S THEN Append(q, k) ELSE q
           Goes(f, k) == /\ f = [i \in 0 .. k |-> f[i]] /\ f[0] = <<>>
                         /\ \A i \in 1 .. k : f[i] = Next1(f[i - 1], i)
           E == {k \in Nat : \E f : Goes(f, k)}
<1>1. n \in Nat
  OBVIOUS
<1>2. \A k \in Nat : k \in E
  <2>1. 0 \in E
    <3>1. Goes([i \in 0 .. 0 |-> <<>>], 0)
      OBVIOUS
    <3> QED BY <3>1
  <2>2. ASSUME NEW k \in Nat, k \in E PROVE k + 1 \in E
    <3>1. PICK f : Goes(f, k)
      BY <2>2
    <3> DEFINE g == [i \in 0 .. k + 1 |-> IF i <= k THEN f[i] ELSE Next1(f[k], k + 1)]
    <3> HIDE DEF Next1
    <3>2. g = [i \in 0 .. k + 1 |-> g[i]] /\ g[0] = <<>>
      BY <3>1
    <3>3. ASSUME NEW i \in 1 .. k + 1 PROVE g[i] = Next1(g[i - 1], i)
      <4>1. CASE i <= k
        <5>1. i \in 1 .. k /\ i \in 0 .. k + 1 /\ i - 1 \in 0 .. k + 1 /\ i - 1 <= k
          BY <4>1
        <5>2. f[i] = Next1(f[i - 1], i)
          BY <3>1, <5>1
        <5> QED BY <5>1, <5>2
      <4>2. CASE ~(i <= k)
        <5>1. i = k + 1 /\ i - 1 = k /\ i \in 0 .. k + 1 /\ i - 1 \in 0 .. k + 1
          BY <4>2
        <5> QED BY <5>1
      <4> QED BY <4>1, <4>2
    <3>4. Goes(g, k + 1)
      BY <3>2, <3>3
    <3> HIDE DEF g, Goes
    <3> QED BY <3>4
  <2> HIDE DEF E
  <2> QED BY <2>1, <2>2, NatsFrom
<1>3. PICK f : Goes(f, n)
  BY <1>1, <1>2
<1> DEFINE upTo == CHOOSE u : u = [i \in 0 .. n |->
                      IF i = 0 THEN <<>> ELSE IF i \in S THEN Append(u[i - 1], i) ELSE u[i - 1]]
<1>4. f = [i \in 0 .. n |->
             IF i = 0 THEN <<>> ELSE IF i \in S THEN Append(f[i - 1], i) ELSE f[i - 1]]
  <2>1. \A i \in 0 .. n : f[i] = IF i = 0 THEN <<>> ELSE IF i \in S THEN Append(f[i - 1], i) ELSE f[i - 1]
    <3>1. SUFFICES ASSUME NEW i \in 0 .. n
                   PROVE  f[i] = IF i = 0 THEN <<>>
                                 ELSE IF i \in S THEN Append(f[i - 1], i) ELSE f[i - 1]
      OBVIOUS
    <3>2. CASE i = 0
      BY <1>3, <3>2
    <3>3. CASE i # 0
      <4>1. i \in 1 .. n
        BY <1>1, <3>3
      <4>2. f[i] = Next1(f[i - 1], i)
        BY <1>3, <4>1
      <4> QED BY <3>3, <4>2
    <3> QED BY <3>2, <3>3
  <2>2. f = [i \in 0 .. n |-> f[i]]
    BY <1>3, SMTT(40)
  <2> QED BY <2>1, <2>2
<1>5. upTo = [i \in 0 .. n |->
             IF i = 0 THEN <<>> ELSE IF i \in S THEN Append(upTo[i - 1], i) ELSE upTo[i - 1]]
  BY <1>4
<1>6. Ascending(S, n) = upTo[n]
  BY DEF Ascending
<1> HIDE DEF upTo
<1> DEFINE L == {k \in Nat : k <= n => Lists(upTo[k], S, k)}
<1>7. \A k \in Nat : k \in L
  <2>1. 0 \in L
    <3>1. upTo[0] = <<>>
      <4>1. 0 \in 0 .. n
        BY <1>1
      <4> QED BY <1>5, <4>1
    <3>2. Lists(<<>>, S, 0)
      BY EmptySeq DEF Lists
    <3> QED BY <3>1, <3>2
  <2>2. ASSUME NEW k \in Nat, k \in L PROVE k + 1 \in L
    <3>1. SUFFICES ASSUME k + 1 <= n PROVE Lists(upTo[k + 1], S, k + 1)
      OBVIOUS
    <3>2. k + 1 \in 0 .. n /\ k + 1 # 0 /\ k + 1 - 1 = k /\ Lists(upTo[k], S, k)
      BY <1>1, <2>2, <3>1
    <3>3. upTo[k + 1] = IF k + 1 \in S THEN Append(upTo[k], k + 1) ELSE upTo[k]
      <4> DEFINE table == [i \in 0 .. n |->
             IF i = 0 THEN <<>> ELSE IF i \in S THEN Append(upTo[i - 1], i) ELSE upTo[i - 1]]
      <4>1. \A i \in 0 .. n : table[i] =
             IF i = 0 THEN <<>> ELSE IF i \in S THEN Append(upTo[i - 1], i) ELSE upTo[i - 1]
        BY Zenon
      <4>2. upTo = table
        BY <1>5
      <4> HIDE DEF table
      <4>3. upTo[k + 1] = table[k + 1]
        BY <4>2
      <4>4. upTo[k + 1] = IF k + 1 \in S THEN Append(upTo[k + 1 - 1], k + 1) ELSE upTo[k + 1 - 1]
        BY <3>2, <4>1, <4>3
      <4> QED BY <3>2, <4>4
    <3> QED BY <3>2, <3>3, ListsNext
  <2> HIDE DEF L
  <2> QED BY <2>1, <2>2, NatsFrom
<1> QED BY <1>1, <1>6, <1>7

\* What a sum gains when one term does.
LEMMA SumGains ==
    ASSUME NEW n \in Nat, NEW u \in [1 .. n -> Int], NEW w \in [1 .. n -> Int], NEW j \in 1 .. n,
           NEW d \in Int, w[j] = u[j] + d, \A i \in 1 .. n : i # j => w[i] = u[i]
    PROVE  SumOf(w) = SumOf(u) + d
<1> DEFINE v == [i \in 1 .. n |-> IF i = j THEN d ELSE 0]
<1>1. v \in [1 .. n -> Int] /\ v[j] = d /\ \A i \in 1 .. n : i # j => v[i] = 0
  OBVIOUS
<1>2. \A i \in 1 .. n : w[i] = u[i] + 1 * v[i]
  OBVIOUS
<1> HIDE DEF v
<1>3. SumOf(v) = d
  BY <1>1, SumSpike
<1>4. SumOf(w) = SumOf(u) + 1 * SumOf(v)
  <2>1. /\ 1 \in Int /\ n \in Nat /\ u \in [1 .. n -> Int] /\ v \in [1 .. n -> Int]
        /\ w \in [1 .. n -> Int] /\ \A i \in 1 .. n : w[i] = u[i] + 1 * v[i]
    BY <1>1, <1>2
  <2> QED BY ONLY <2>1, SumLinear, ZenonT(60)
<1>5. SumOf(u) \in Int
  <2>1. u \in Seq(Int)
    BY DEF Seq
  <2> QED BY <2>1, SumInt
<1> QED BY <1>3, <1>4, <1>5

-----------------------------------------------------------------------------
(* Products and quotients *)

\* A product grows with its factors.
LEMMA TimesNext ==
    ASSUME NEW n \in Nat, NEW k \in Nat \ {0}
    PROVE  /\ n * k \in Nat /\ (n + 1) * k = n * k + k /\ n <= n * k
           /\ \A m \in Nat : m * k <= n * k <=> m <= n
<1>1. n * k \in Nat /\ (n + 1) * k = n * k + k
  OBVIOUS
<1>2. ASSUME NEW i \in Nat, NEW j \in Nat, i <= j PROVE i * k <= j * k
  <2>1. j * k = i * k + (j - i) * k /\ (j - i) * k \in Nat /\ i * k \in Nat
    BY <1>2
  <2> QED BY <2>1
<1>3. ASSUME NEW i \in Nat, NEW j \in Nat, i + 1 <= j PROVE i * k < j * k
  <2>1. (i + 1) * k <= j * k
    BY <1>2, <1>3
  <2>2. (i + 1) * k = i * k + k /\ i * k \in Nat /\ j * k \in Nat
    OBVIOUS
  <2> QED BY <2>1, <2>2
<1>4. ASSUME NEW m \in Nat PROVE m * k <= n * k <=> m <= n
  <2>1. CASE m <= n
    BY <1>2, <2>1
  <2>2. CASE n + 1 <= m
    <3>1. n * k < m * k /\ n * k \in Nat /\ m * k \in Nat
      BY <1>3, <2>2
    <3> QED BY <2>2, <3>1
  <2> QED BY <2>1, <2>2
<1>5. n <= n * k
  <2>1. n * k = n + n * (k - 1) /\ n * (k - 1) \in Nat
    OBVIOUS
  <2> QED BY <2>1
<1> QED BY <1>1, <1>4, <1>5

\* How many blocks of k it takes.
LEMMA BlocksOf ==
    ASSUME NEW n \in Nat, NEW k \in Nat \ {0}, NEW len \in Nat, n * k < len, len <= (n + 1) * k
    PROVE  (len + k - 1) \div k = n + 1
<1> DEFINE q == (len + k - 1) \div k
           r == (len + k - 1) % k
<1>1. len + k - 1 \in Nat
  OBVIOUS
<1>2. q \in Nat /\ r \in 0 .. k - 1 /\ len + k - 1 = q * k + r
  BY <1>1
<1> HIDE DEF q, r
<1>3. q * k \in Nat /\ (q + 1) * k = q * k + k /\ n * k \in Nat /\ (n + 1) * k = n * k + k
      /\ (n + 1 + 1) * k = (n + 1) * k + k
  BY <1>2, TimesNext
<1>4. n + 1 <= q
  <2>1. SUFFICES ASSUME q + 1 <= n + 1 PROVE FALSE
    BY <1>2
  <2>2. (q + 1) * k <= (n + 1) * k
    BY <1>2, <2>1, TimesNext
  <2> QED BY <1>1, <1>2, <1>3, <2>2
<1>5. q <= n + 1
  <2>1. SUFFICES ASSUME n + 1 + 1 <= q PROVE FALSE
    BY <1>2
  <2>2. (n + 1 + 1) * k <= q * k
    BY <1>2, <2>1, TimesNext
  <2> QED BY <1>1, <1>2, <1>3, <2>2
<1> QED BY <1>2, <1>4, <1>5 DEF q

-----------------------------------------------------------------------------
(* Parts of sequences *)

\* A part of a sequence.
LEMMA Slice ==
    ASSUME NEW S, NEW s \in Seq(S), NEW i \in Nat, NEW j \in Nat, i <= j, j <= Len(s)
    PROVE  /\ SubSeq(s, i + 1, j) \in Seq(S) /\ Len(SubSeq(s, i + 1, j)) = j - i
           /\ \A k \in 1 .. j - i : SubSeq(s, i + 1, j)[k] = s[i + k]
<1>1. Len(s) \in Nat /\ i + 1 \in Int /\ j \in Int
  BY LenProperties
<1>2. \A k \in i + 1 .. j : k \in 1 .. Len(s)
  BY <1>1
<1>3. \A k \in i + 1 .. j : s[k] \in S
  BY <1>2, ElementOfSeq
<1> DEFINE m == i + 1
           t == SubSeq(s, m, j)
<1>4. /\ t \in Seq(S) /\ Len(t) = (IF m <= j THEN j - m + 1 ELSE 0)
      /\ \A k \in 1 .. j - m + 1 : t[k] = s[m + k - 1]
  <2>1. m \in Int /\ j \in Int /\ \A k \in m .. j : s[k] \in S
    BY <1>1, <1>3
  <2> HIDE DEF m
  <2> QED BY <2>1, SubSeqProperties
<1> HIDE DEF t
<1>5. Len(t) = j - i
  BY <1>4
<1>6. ASSUME NEW k \in 1 .. j - i PROVE t[k] = s[i + k]
  <2>1. k \in 1 .. j - m + 1 /\ m + k - 1 = i + k
    OBVIOUS
  <2> QED BY <1>4, <2>1
<1> QED BY <1>4, <1>5, <1>6 DEF t

\* A part of the first of two sequences is one of both, one after the other.
LEMMA SliceOfConcat ==
    ASSUME NEW S, NEW s \in Seq(S), NEW t \in Seq(S), NEW i \in Nat, NEW j \in Nat,
           i <= j, j <= Len(s)
    PROVE  SubSeq(s \o t, i + 1, j) = SubSeq(s, i + 1, j)
<1> DEFINE c == s \o t
           a == SubSeq(c, i + 1, j)
           b == SubSeq(s, i + 1, j)
<1>1. c \in Seq(S) /\ Len(c) = Len(s) + Len(t) /\ (\A k \in 1 .. Len(s) : c[k] = s[k])
      /\ Len(s) \in Nat /\ Len(t) \in Nat
  BY LenProperties, ConcatProperties
<1> HIDE DEF c
<1>2. j <= Len(c)
  BY <1>1
<1>3. a \in Seq(S) /\ Len(a) = j - i /\ \A k \in 1 .. j - i : a[k] = c[i + k]
  BY <1>1, <1>2, Slice
<1>4. b \in Seq(S) /\ Len(b) = j - i /\ \A k \in 1 .. j - i : b[k] = s[i + k]
  BY Slice
<1> HIDE DEF a, b
<1>5. \A k \in 1 .. Len(a) : a[k] = b[k]
  <2>1. \A k \in 1 .. j - i : i + k \in 1 .. Len(s)
    BY <1>1
  <2> QED BY <1>1, <1>3, <1>4, <2>1
<1>6. a = b
  BY <1>3, <1>4, <1>5, SeqEqual
<1> QED BY <1>6 DEF a, b, c

\* Two parts that meet are one.
LEMMA SliceJoins ==
    ASSUME NEW S, NEW s \in Seq(S), NEW i \in Nat, NEW j \in Nat, i <= j, j <= Len(s)
    PROVE  SubSeq(s, 1, i) \o SubSeq(s, i + 1, j) = SubSeq(s, 1, j)
<1>1. Len(s) \in Nat
  BY LenProperties
<1>2. 1 \in 1 .. Len(s) + 1 /\ i \in 1 - 1 .. Len(s) /\ j \in i .. Len(s)
  BY <1>1
<1> QED BY <1>2, ConcatAdjacentSubSeq

\* What follows a part of the first of two sequences.
LEMMA RestOfConcat ==
    ASSUME NEW S, NEW s \in Seq(S), NEW t \in Seq(S), NEW i \in Nat, i <= Len(s)
    PROVE  SubSeq(s \o t, i + 1, Len(s \o t)) = SubSeq(s, i + 1, Len(s)) \o t
<1> DEFINE c == s \o t
           a == SubSeq(c, i + 1, Len(c))
           b == SubSeq(s, i + 1, Len(s))
           d == b \o t
<1>1. c \in Seq(S) /\ Len(c) = Len(s) + Len(t) /\ Len(s) \in Nat /\ Len(t) \in Nat
      /\ \A k \in 1 .. Len(s) + Len(t) : c[k] = IF k <= Len(s) THEN s[k] ELSE t[k - Len(s)]
  BY LenProperties, ConcatProperties
<1> HIDE DEF c
<1>2. a \in Seq(S) /\ Len(a) = Len(c) - i /\ \A k \in 1 .. Len(c) - i : a[k] = c[i + k]
  <2>1. Len(c) \in Nat /\ i <= Len(c) /\ Len(c) <= Len(c)
    BY <1>1
  <2> QED BY <1>1, <2>1, Slice
<1>3. b \in Seq(S) /\ Len(b) = Len(s) - i /\ \A k \in 1 .. Len(s) - i : b[k] = s[i + k]
  <2>1. Len(s) \in Nat /\ Len(s) <= Len(s)
    BY <1>1
  <2> QED BY <2>1, Slice
<1> HIDE DEF a, b
<1>4. d \in Seq(S) /\ Len(d) = Len(b) + Len(t)
      /\ \A k \in 1 .. Len(b) + Len(t) : d[k] = IF k <= Len(b) THEN b[k] ELSE t[k - Len(b)]
  BY <1>3, ConcatProperties
<1> HIDE DEF d
<1>5. Len(a) = Len(d)
  BY <1>1, <1>2, <1>3, <1>4
<1>6. ASSUME NEW k \in 1 .. Len(a) PROVE a[k] = d[k]
  <2>1. /\ k \in 1 .. Len(c) - i /\ k \in 1 .. Len(b) + Len(t) /\ i + k \in 1 .. Len(s) + Len(t)
        /\ k <= Len(b) <=> i + k <= Len(s) /\ i + k - Len(s) = k - Len(b)
    <3>1. k \in Nat /\ 1 <= k /\ k <= Len(a)
      OBVIOUS
    <3>2. Len(a) = Len(s) + Len(t) - i /\ Len(b) = Len(s) - i /\ Len(c) = Len(s) + Len(t)
          /\ Len(s) \in Nat /\ Len(t) \in Nat /\ i \in Nat
      BY <1>1, <1>2, <1>3
    <3> QED BY ONLY <3>1, <3>2
  <2>2. a[k] = c[i + k]
    BY <1>2, <2>1
  <2>3. c[i + k] = IF i + k <= Len(s) THEN s[i + k] ELSE t[i + k - Len(s)]
    BY <1>1, <2>1
  <2>4. d[k] = IF k <= Len(b) THEN b[k] ELSE t[k - Len(b)]
    BY <1>4, <2>1
  <2>5. k <= Len(b) => b[k] = s[i + k]
    BY <1>3, <2>1
  <2> QED BY <1>3, <2>1, <2>2, <2>3, <2>4, <2>5
<1>7. a = d
  BY <1>2, <1>4, <1>5, <1>6, SeqEqual
<1> QED BY <1>7 DEF a, b, c, d

\* A part of what follows a part.
LEMMA SliceOfRest ==
    ASSUME NEW S, NEW s \in Seq(S), NEW i \in Nat, NEW j \in Nat, i <= j, j <= Len(s), NEW r,
           r = SubSeq(s, i + 1, Len(s))
    PROVE  /\ SubSeq(r, 1, j - i) = SubSeq(s, i + 1, j)
           /\ SubSeq(r, j - i + 1, Len(r)) = SubSeq(s, j + 1, Len(s))
<1>1. Len(s) \in Nat
  BY LenProperties
<1>2. r \in Seq(S) /\ Len(r) = Len(s) - i /\ \A k \in 1 .. Len(s) - i : r[k] = s[i + k]
  <2>1. i <= Len(s) /\ Len(s) <= Len(s)
    BY <1>1
  <2> QED BY <1>1, <2>1, Slice
<1> DEFINE a == SubSeq(r, 0 + 1, j - i)
           b == SubSeq(s, i + 1, j)
           c == SubSeq(r, (j - i) + 1, Len(r))
           d == SubSeq(s, j + 1, Len(s))
<1>3. a \in Seq(S) /\ Len(a) = (j - i) - 0 /\ \A k \in 1 .. (j - i) - 0 : a[k] = r[0 + k]
  <2>1. 0 \in Nat /\ j - i \in Nat /\ 0 <= j - i /\ j - i <= Len(r)
    BY <1>1, <1>2
  <2> QED BY <1>2, <2>1, Slice
<1>4. b \in Seq(S) /\ Len(b) = j - i /\ \A k \in 1 .. j - i : b[k] = s[i + k]
  BY Slice
<1>5. c \in Seq(S) /\ Len(c) = Len(r) - (j - i)
      /\ \A k \in 1 .. Len(r) - (j - i) : c[k] = r[(j - i) + k]
  <2>1. j - i \in Nat /\ Len(r) \in Nat /\ j - i <= Len(r) /\ Len(r) <= Len(r)
    BY <1>1, <1>2
  <2> QED BY <1>2, <2>1, Slice
<1>6. d \in Seq(S) /\ Len(d) = Len(s) - j /\ \A k \in 1 .. Len(s) - j : d[k] = s[j + k]
  <2>1. Len(s) <= Len(s)
    BY <1>1
  <2> QED BY <1>1, <2>1, Slice
<1> HIDE DEF a, b, c, d
<1>7. a = b
  <2>1. Len(a) = Len(b) /\ \A k \in 1 .. Len(a) : a[k] = b[k]
    <3>1. \A k \in 1 .. j - i : k \in 1 .. Len(s) - i /\ k \in 1 .. (j - i) - 0 /\ 0 + k = k
      BY <1>1
    <3> QED BY <1>2, <1>3, <1>4, <3>1
  <2> QED BY <1>3, <1>4, <2>1, SeqEqual
<1>8. c = d
  <2>1. Len(c) = Len(d)
    BY <1>1, <1>2, <1>5, <1>6
  <2>2. ASSUME NEW k \in 1 .. Len(c) PROVE c[k] = d[k]
    <3>1. /\ k \in 1 .. Len(r) - (j - i) /\ k \in 1 .. Len(s) - j /\ (j - i) + k \in 1 .. Len(s) - i
          /\ i + ((j - i) + k) = j + k
      BY <1>1, <1>2, <1>5, SMTT(40)
    <3> QED BY <1>2, <1>5, <1>6, <3>1, ZenonT(60)
  <2> QED BY <1>5, <1>6, <2>1, <2>2, SeqEqual
<1>9. 0 + 1 = 1
  OBVIOUS
<1> QED BY <1>7, <1>8, <1>9 DEF a, b, c, d

\* A list goes on where its first part ends.
LEMMA ListJoins ==
    ASSUME NEW a \in Nat, NEW b \in Nat, a <= b, NEW L, NEW s, NEW r,
           s = [i \in 1 .. a |-> L[i]], r = [i \in 1 .. b - a |-> L[a + i]]
    PROVE  s \o r = [i \in 1 .. b |-> L[i]]
<1> DEFINE S == {L[i] : i \in 1 .. b}
           w == [i \in 1 .. b |-> L[i]]
           m == b - a
<1>1. \A i \in 1 .. b : L[i] \in S
  OBVIOUS
<1> HIDE DEF S
<1>2. m \in Nat /\ a + m = b /\ (\A i \in 1 .. a : i \in 1 .. b) /\ \A i \in 1 .. m : a + i \in 1 .. b
  OBVIOUS
<1>3. s \in Seq(S) /\ Len(s) = a /\ \A i \in 1 .. a : s[i] = L[i]
  BY <1>1, <1>2
<1>4. r \in Seq(S) /\ Len(r) = m /\ \A i \in 1 .. m : r[i] = L[a + i]
  <2>1. r = [i \in 1 .. m |-> L[a + i]]
    OBVIOUS
  <2> HIDE DEF m
  <2> QED BY <1>1, <1>2, <2>1
<1>5. w \in Seq(S) /\ Len(w) = b /\ \A i \in 1 .. b : w[i] = L[i]
  BY <1>1
<1> DEFINE c == s \o r
<1>6. /\ c \in Seq(S) /\ Len(c) = a + m
      /\ \A i \in 1 .. a + m : c[i] = IF i <= a THEN s[i] ELSE r[i - a]
  BY <1>3, <1>4, ConcatProperties
<1> HIDE DEF c, w, m
<1>7. ASSUME NEW i \in 1 .. Len(c) PROVE c[i] = w[i]
  <2>1. i \in 1 .. a + m /\ i \in 1 .. b
    BY <1>2, <1>6
  <2>2. CASE i <= a
    <3>1. i \in 1 .. a
      BY <2>1, <2>2
    <3> QED BY <1>3, <1>5, <1>6, <2>1, <2>2, <3>1
  <2>3. CASE ~(i <= a)
    <3>1. i - a \in 1 .. m /\ a + (i - a) = i
      BY <1>2, <2>1, <2>3
    <3>2. r[i - a] = L[a + (i - a)]
      BY <1>4, <3>1
    <3> QED BY <1>5, <1>6, <2>1, <2>3, <3>1, <3>2
  <2> QED BY <2>2, <2>3
<1>8. c = w
  <2>1. Len(c) = Len(w)
    BY <1>2, <1>5, <1>6
  <2> QED BY <1>5, <1>6, <1>7, <2>1, SeqEqual
<1> QED BY <1>8 DEF c, w

\* What is in a sequence.
Elements(q) == {q[i] : i \in 1 .. Len(q)}

\* What is in two sequences one after the other is in one of them.
LEMMA ElementsOf ==
    ASSUME NEW S, NEW s \in Seq(S), NEW t \in Seq(S)
    PROVE  Elements(s \o t) = Elements(s) \cup Elements(t)
<1> DEFINE u == s \o t
<1>1. /\ Len(s) \in Nat /\ Len(t) \in Nat /\ Len(u) = Len(s) + Len(t)
      /\ \A i \in 1 .. Len(s) + Len(t) : u[i] = IF i <= Len(s) THEN s[i] ELSE t[i - Len(s)]
  BY LenProperties, ConcatProperties
<1> HIDE DEF u
<1>2. ASSUME NEW x \in Elements(u) PROVE x \in Elements(s) \cup Elements(t)
  <2>1. PICK i \in 1 .. Len(u) : x = u[i]
    BY DEF Elements
  <2>2. CASE i <= Len(s)
    <3>1. i \in 1 .. Len(s) /\ x = s[i]
      BY <1>1, <2>1, <2>2
    <3> QED BY <3>1 DEF Elements
  <2>3. CASE ~(i <= Len(s))
    <3>1. i - Len(s) \in 1 .. Len(t) /\ x = t[i - Len(s)]
      BY <1>1, <2>1, <2>3
    <3> QED BY <3>1 DEF Elements
  <2> QED BY <2>2, <2>3
<1>3. ASSUME NEW x \in Elements(s) PROVE x \in Elements(u)
  <2>1. PICK i \in 1 .. Len(s) : x = s[i]
    BY DEF Elements
  <2>2. i \in 1 .. Len(u) /\ x = u[i]
    BY <1>1, <2>1
  <2> QED BY <2>2 DEF Elements
<1>4. ASSUME NEW x \in Elements(t) PROVE x \in Elements(u)
  <2>1. PICK i \in 1 .. Len(t) : x = t[i]
    BY DEF Elements
  <2>2. PICK j \in 1 .. Len(u) : j = i + Len(s)
    BY <1>1
  <2>3. ~(j <= Len(s)) /\ j - Len(s) = i /\ j \in 1 .. Len(s) + Len(t)
    BY <1>1, <2>2
  <2>4. x = u[j]
    BY <1>1, <2>1, <2>3
  <2> QED BY <2>4 DEF Elements
<1> QED BY <1>2, <1>3, <1>4 DEF u

\* Two neighbours of a sequence.
LEMMA PairOf ==
    ASSUME NEW A, NEW q \in Seq(A), NEW l \in 1 .. Len(q) - 1
    PROVE  SubSeq(q, l, l + 1) = <<q[l], q[l + 1]>>
<1>1. Len(q) \in Nat /\ l \in Nat /\ l + 1 \in 1 .. Len(q) /\ l \in 1 .. Len(q)
  BY LenProperties
<1>2. q[l] \in A /\ q[l + 1] \in A
  BY <1>1, ElementOfSeq
<1>3. PICK s : s = SubSeq(q, l, l + 1)
  OBVIOUS
<1>4. s \in Seq(A) /\ Len(s) = 2 /\ s[1] = q[l] /\ s[2] = q[l + 1]
  BY <1>1, <1>3, SubSeqProperties
<1>5. PICK t : t = <<q[l], q[l + 1]>>
  OBVIOUS
<1>6. t \in Seq(A) /\ Len(t) = 2 /\ t[1] = q[l] /\ t[2] = q[l + 1]
  BY <1>2, <1>5
<1>7. \A i \in 1 .. 2 : s[i] = t[i]
  <2>1. \A i \in 1 .. 2 : i = 1 \/ i = 2
    OBVIOUS
  <2> QED BY <1>4, <1>6, <2>1
<1>8. s = t
  BY <1>4, <1>6, <1>7, SeqEqual
<1> QED BY <1>3, <1>5, <1>8

-----------------------------------------------------------------------------
(* Sequences of sequences, one after the other *)

\* f goes through the sequences of q: its i-th value is the first i of them, one after
\* the other, as FlattenSeq() has it.
Flattens(f, q, S) ==
    /\ f \in [1 .. Len(q) -> Seq(S)] /\ f[1] = q[1]
    /\ \A i \in 2 .. Len(q) : f[i] = f[i - 1] \o q[i]

\* There is one such f, and FlattenSeq() is its last value.
LEMMA FlatIs ==
    ASSUME NEW S, NEW q \in Seq(Seq(S)), Len(q) # 0, NEW f, Flattens(f, q, S)
    PROVE  FlattenSeq(q) = f[Len(q)]
<1> DEFINE n == Len(q)
           flatten == CHOOSE u : u = [i \in 1 .. n |-> IF i = 1 THEN q[i] ELSE u[i - 1] \o q[i]]
<1>1. n \in Nat /\ n # 0
  BY LenProperties
<1>2. f = [i \in 1 .. n |-> IF i = 1 THEN q[i] ELSE f[i - 1] \o q[i]]
  <2>1. \A i \in 1 .. n : i # 1 => i \in 2 .. n
    BY <1>1
  <2> QED BY <2>1 DEF Flattens
<1>3. flatten = [i \in 1 .. n |-> IF i = 1 THEN q[i] ELSE flatten[i - 1] \o q[i]]
  BY <1>2
<1> HIDE DEF flatten
<1> DEFINE Same == {k \in Nat : k + 1 <= n => flatten[k + 1] = f[k + 1]}
<1>4. 0 \in Same
  BY <1>1, <1>3 DEF Flattens
<1>5. ASSUME NEW k \in Nat, k \in Same PROVE k + 1 \in Same
  <2>1. SUFFICES ASSUME k + 1 + 1 <= n PROVE flatten[k + 1 + 1] = f[k + 1 + 1]
    OBVIOUS
  <2>2. PICK m : m = k + 1 + 1
    OBVIOUS
  <2>3. m \in 2 .. n /\ m \in 1 .. n /\ m # 1 /\ m - 1 = k + 1
    BY <1>1, <2>1, <2>2
  <2>4. flatten[k + 1] = f[k + 1]
    BY <1>1, <1>5, <2>1
  <2>5. flatten[m] = flatten[m - 1] \o q[m]
    BY ONLY <1>3, <2>3, Zenon
  <2>6. f[m] = f[m - 1] \o q[m]
    BY <2>3, Zenon DEF Flattens
  <2> QED BY <2>2, <2>3, <2>4, <2>5, <2>6, Zenon
<1>6. n - 1 \in Nat /\ n - 1 + 1 = n
  BY <1>1
<1>7. n - 1 \in Same
  <2> HIDE DEF Same, n
  <2> QED BY <1>4, <1>5, <1>6, NatsFrom
<1>8. flatten[n] = f[n]
  BY <1>6, <1>7
<1>9. FlattenSeq(q) = flatten[n]
  BY <1>1 DEF FlattenSeq, flatten
<1> QED BY <1>8, <1>9

LEMMA FlatExists ==
    ASSUME NEW S, NEW q \in Seq(Seq(S)), Len(q) # 0
    PROVE  \E f : Flattens(f, q, S)
<1> DEFINE n == Len(q)
           Upto(f, k) == /\ f \in [1 .. k -> Seq(S)] /\ f[1] = q[1]
                         /\ \A i \in 2 .. k : f[i] = f[i - 1] \o q[i]
           Have == {k \in Nat : k + 1 <= n => \E f : Upto(f, k + 1)}
<1>1. n \in Nat /\ n # 0 /\ \A i \in 1 .. n : q[i] \in Seq(S)
  BY LenProperties, ElementOfSeq
<1> HIDE DEF n
<1>2. 0 \in Have
  <2>1. 0 + 1 = 1
    OBVIOUS
  <2>2. 1 <= n => Upto([i \in 1 .. 1 |-> q[1]], 1)
    BY <1>1
  <2> HIDE DEF Upto
  <2>3. 0 + 1 <= n => \E f : Upto(f, 0 + 1)
    BY ONLY <2>1, <2>2, Zenon
  <2> QED BY <2>3
<1>3. ASSUME NEW k \in Nat, k \in Have PROVE k + 1 \in Have
  <2> HIDE DEF Upto
  <2>1. SUFFICES ASSUME k + 1 + 1 <= n PROVE \E g : Upto(g, k + 1 + 1)
    OBVIOUS
  <2> USE DEF Upto
  <2>2. PICK f : Upto(f, k + 1)
    <3>1. k + 1 <= n
      BY <1>1, <2>1
    <3> HIDE DEF Upto
    <3> QED BY <1>3, <3>1
  <2> DEFINE g == [i \in 1 .. k + 1 + 1 |-> IF i <= k + 1 THEN f[i] ELSE f[k + 1] \o q[k + 2]]
  <2>3. f[k + 1] \in Seq(S) /\ q[k + 2] \in Seq(S)
    BY <1>1, <2>1, <2>2
  <2>4. f[k + 1] \o q[k + 2] \in Seq(S)
    BY <2>3, ConcatProperties
  <2>5. g \in [1 .. k + 1 + 1 -> Seq(S)] /\ g[1] = q[1]
    BY <2>2, <2>4
  <2>6. ASSUME NEW i \in 2 .. k + 1 + 1 PROVE g[i] = g[i - 1] \o q[i]
    <3>1. CASE i <= k + 1
      <4>1. i \in 2 .. k + 1 /\ g[i] = f[i] /\ g[i - 1] = f[i - 1]
        BY <3>1
      <4>2. f[i] = f[i - 1] \o q[i]
        BY <2>2, <4>1, Zenon
      <4> QED BY <4>1, <4>2, Zenon
    <3>2. CASE ~(i <= k + 1)
      <4>1. i = k + 2 /\ i - 1 = k + 1 /\ i \in 1 .. k + 1 + 1 /\ i - 1 \in 1 .. k + 1 + 1
        BY <3>2
      <4>2. i - 1 <= k + 1
        BY <4>1
      <4>3. g[i - 1] = f[i - 1]
        BY ONLY <4>1, <4>2, Zenon DEF g
      <4>4. g[i] = f[k + 1] \o q[k + 2]
        BY ONLY <3>2, <4>1, Zenon DEF g
      <4> QED BY <4>1, <4>3, <4>4, Zenon
    <3> QED BY <3>1, <3>2
  <2>7. Upto(g, k + 1 + 1)
    BY <2>5, <2>6
  <2> HIDE DEF g, Upto
  <2> QED BY <2>7
<1>4. n - 1 \in Nat /\ n - 1 + 1 = n
  BY <1>1
<1>5. n - 1 \in Have
  <2> HIDE DEF Have
  <2> QED BY <1>2, <1>3, <1>4, NatsFrom
<1>6. \E f : Upto(f, n)
  <2> HIDE DEF Upto
  <2> QED BY <1>1, <1>4, <1>5
<1> QED BY <1>6 DEF Flattens, n

\* Of no sequences, of sequences over one set, and of one more than before.
LEMMA FlatEmpty == FlattenSeq(<<>>) = <<>>
<1>1. Len(<<>>) = 0
  BY EmptySeq
<1> QED BY <1>1 DEF FlattenSeq

LEMMA FlatSeq ==
    ASSUME NEW S, NEW q \in Seq(Seq(S)) PROVE FlattenSeq(q) \in Seq(S)
<1>1. Len(q) \in Nat
  BY LenProperties
<1>2. CASE Len(q) = 0
  <2>1. q = <<>>
    BY <1>2, EmptySeq
  <2> QED BY <2>1, FlatEmpty, EmptySeq
<1>3. CASE Len(q) # 0
  <2>1. PICK f : Flattens(f, q, S)
    BY <1>3, FlatExists
  <2>2. FlattenSeq(q) = f[Len(q)] /\ Len(q) \in 1 .. Len(q)
    BY <1>1, <1>3, <2>1, FlatIs
  <2>3. f \in [1 .. Len(q) -> Seq(S)]
    BY <2>1, Zenon DEF Flattens
  <2> QED BY <2>2, <2>3
<1> QED BY <1>2, <1>3

LEMMA FlatAppend ==
    ASSUME NEW S, NEW q \in Seq(Seq(S)), NEW x \in Seq(S)
    PROVE  FlattenSeq(Append(q, x)) = FlattenSeq(q) \o x
<1> DEFINE a == Append(q, x)
<1>1. /\ a \in Seq(Seq(S)) /\ Len(a) = Len(q) + 1 /\ Len(q) \in Nat
      /\ \A i \in 1 .. Len(q) : a[i] = q[i]
      /\ a[Len(q) + 1] = x
  BY AppendProperties, LenProperties
<1> HIDE DEF a
<1>2. PICK f : Flattens(f, a, S)
  BY <1>1, FlatExists
<1>3. FlattenSeq(a) = f[Len(a)]
  BY <1>1, <1>2, FlatIs
<1>4. CASE Len(q) = 0
  <2>1. q = <<>> /\ <<>> \o x = x
    BY <1>4, EmptySeq, ConcatEmptySeq
  <2>2. f[1] = a[1] /\ a[1] = x /\ Len(a) = 1
    BY <1>1, <1>2, <1>4 DEF Flattens
  <2> QED BY <1>3, <2>1, <2>2, FlatEmpty DEF a
<1>5. CASE Len(q) # 0
  <2> DEFINE g == [i \in 1 .. Len(q) |-> f[i]]
  <2>5. ASSUME NEW i \in 2 .. Len(q) PROVE g[i] = g[i - 1] \o q[i]
    <3>1. /\ i \in 2 .. Len(a) /\ i \in 1 .. Len(q) /\ g[i] = f[i] /\ g[i - 1] = f[i - 1]
          /\ a[i] = q[i]
      BY <1>1
    <3>2. f[i] = f[i - 1] \o a[i]
      BY <1>2, <3>1, Zenon DEF Flattens
    <3> QED BY <3>1, <3>2, Zenon
  <2>6. /\ f \in [1 .. Len(a) -> Seq(S)] /\ f[1] = a[1]
    BY <1>2, Zenon DEF Flattens
  <2>7. g \in [1 .. Len(q) -> Seq(S)] /\ g[1] = q[1]
    BY <1>1, <1>5, <2>6
  <2>1. Flattens(g, q, S)
    BY <2>5, <2>7, Zenon DEF Flattens
  <2>2. FlattenSeq(q) = g[Len(q)]
    BY <1>5, <2>1, FlatIs
  <2>3. Len(q) + 1 \in 2 .. Len(a) /\ Len(q) + 1 - 1 = Len(q) /\ g[Len(q)] = f[Len(q)]
    BY <1>1, <1>5
  <2>8. PICK m : m = Len(q) + 1
    OBVIOUS
  <2>9. m \in 2 .. Len(a) /\ m - 1 = Len(q) /\ m = Len(a) /\ a[m] = x
    BY <1>1, <2>3, <2>8
  <2>10. f[m] = f[m - 1] \o a[m]
    BY <1>2, <2>9, Zenon DEF Flattens
  <2>4. f[Len(a)] = f[Len(q)] \o x
    BY <2>9, <2>10, Zenon
  <2> QED BY <1>3, <2>2, <2>3, <2>4 DEF a
<1> QED BY <1>4, <1>5

\* Two ranges from 1 with the same members end alike.
LEMMA SameRange == ASSUME NEW m \in Nat, NEW n \in Nat, 1 .. m = 1 .. n PROVE m = n
<1>1. ~(m < n)
  <2>1. m < n => n \in 1 .. n /\ n \notin 1 .. m
    OBVIOUS
  <2> QED BY <2>1
<1>2. ~(n < m)
  <2>1. n < m => m \in 1 .. m /\ m \notin 1 .. n
    OBVIOUS
  <2> QED BY <2>1
<1> QED BY <1>1, <1>2

\* A list is its first part with its last element appended.
LEMMA FlatSame ==
    ASSUME NEW S, NEW q \in Seq(Seq(S)), NEW n \in Nat, NEW f, f = [i \in 1 .. n |-> q[i]],
           n + 1 = Len(q)
    PROVE  f \in Seq(Seq(S)) /\ Len(f) = n /\ q = Append(f, q[n + 1])
<1>1. \A i \in 1 .. n + 1 : q[i] \in Seq(S)
  BY ElementOfSeq
<1>2. f \in [1 .. n -> Seq(S)]
  BY <1>1
<1>3. f \in Seq(Seq(S)) /\ Len(f) = n
  <2> DEFINE T == Seq(S)
  <2>1. f \in [1 .. n -> T]
    BY <1>2
  <2> HIDE DEF T
  <2>2. f \in Seq(T)
    BY <2>1 DEF Seq
  <2>3. Len(f) \in Nat /\ DOMAIN f = 1 .. Len(f)
    BY <2>2, LenProperties
  <2>4. 1 .. Len(f) = 1 .. n
    BY <2>1, <2>3
  <2> QED BY <2>2, <2>3, <2>4 DEF T
<1>4. q[n + 1] \in Seq(S)
  BY <1>1
<1> DEFINE a == Append(f, q[n + 1])
<1>5. a \in Seq(Seq(S)) /\ Len(a) = n + 1 /\ (\A i \in 1 .. n : a[i] = f[i]) /\ a[n + 1] = q[n + 1]
  BY <1>3, <1>4, AppendProperties
<1> HIDE DEF a
<1>6. \A i \in 1 .. Len(a) : a[i] = q[i]
  BY <1>5
<1>7. a = q
  BY <1>5, <1>6, SeqEqual
<1> QED BY <1>3, <1>7 DEF a

\* No sequences make the empty one.
LEMMA FlatFirst ==
    ASSUME NEW F PROVE FlattenSeq([i \in 1 .. 0 |-> F[i]]) = <<>>
<1>1. [i \in 1 .. 0 |-> F[i]] = <<>>
  OBVIOUS
<1> QED BY <1>1, FlatEmpty

\* One sequence more is put at the end.
LEMMA FlatStep ==
    ASSUME NEW S, NEW n \in Nat, NEW F, \A i \in 1 .. n + 1 : F[i] \in Seq(S)
    PROVE  /\ FlattenSeq([i \in 1 .. n |-> F[i]]) \in Seq(S)
           /\ FlattenSeq([i \in 1 .. n + 1 |-> F[i]])
                = FlattenSeq([i \in 1 .. n |-> F[i]]) \o F[n + 1]
<1> DEFINE f == [i \in 1 .. n |-> F[i]]
           q == [i \in 1 .. n + 1 |-> F[i]]
           U == Seq(S)
<1>1. q \in [1 .. n + 1 -> U] /\ n + 1 \in Nat
  OBVIOUS
<1>2. q \in Seq(U) /\ Len(q) = n + 1
  <2> HIDE DEF q, U
  <2>1. q \in Seq(U)
    BY <1>1 DEF Seq
  <2>2. Len(q) \in Nat /\ DOMAIN q = 1 .. Len(q)
    BY <2>1, LenProperties
  <2>3. 1 .. Len(q) = 1 .. n + 1
    BY <1>1, <2>2
  <2> QED BY <1>1, <2>1, <2>2, <2>3, SameRange
<1>3. f = [i \in 1 .. n |-> q[i]] /\ q[n + 1] = F[n + 1]
  OBVIOUS
<1>4. F[n + 1] \in Seq(S)
  OBVIOUS
<1> HIDE DEF f, q
<1>5. f \in Seq(Seq(S)) /\ q = Append(f, q[n + 1])
  <2>1. q \in Seq(Seq(S))
    BY <1>2
  <2> HIDE DEF U
  <2>2. f = [i \in 1 .. n |-> q[i]] /\ n + 1 = Len(q) /\ n \in Nat
    BY <1>2, <1>3
  <2> QED BY ONLY <2>1, <2>2, FlatSame, SMTT(60)
<1>6. FlattenSeq(q) = FlattenSeq(f) \o F[n + 1]
  BY <1>3, <1>4, <1>5, FlatAppend
<1>7. FlattenSeq(f) \in Seq(S)
  BY <1>5, FlatSeq
<1> QED BY <1>6, <1>7 DEF f, q

\* Sequences over a set make a sequence over it.
LEMMA FlatOf ==
    ASSUME NEW S, NEW n \in Nat, NEW F, \A i \in 1 .. n : F[i] \in Seq(S)
    PROVE  FlattenSeq([i \in 1 .. n |-> F[i]]) \in Seq(S)
<1> DEFINE f == [i \in 1 .. n |-> F[i]]
           U == Seq(S)
<1>1. f \in [1 .. n -> U]
  OBVIOUS
<1>2. f \in Seq(U)
  <2> HIDE DEF f, U
  <2> QED BY <1>1 DEF Seq
<1>3. f \in Seq(Seq(S))
  BY <1>2
<1> HIDE DEF f
<1> QED BY <1>3, FlatSeq DEF f

\* How many of the first i are not empty.
Filled(F, i) == Cardinality({j \in 1 .. i : F[j] # <<>>})

\* The nonempty ones up to i + 1: one more than up to i when the next is nonempty.
LEMMA CountIs ==
    ASSUME NEW F
    PROVE  /\ Filled(F, 0) = 0
           /\ \A i \in Nat : /\ Filled(F, i) \in Nat
                             /\ Filled(F, i + 1) = Filled(F, i) + (IF F[i + 1] = <<>> THEN 0 ELSE 1)
<1>1. ASSUME NEW i \in Nat PROVE IsFiniteSet({j \in 1 .. i : F[j] # <<>>})
  <2>1. IsFiniteSet(1 .. i)
    BY FS_Interval
  <2> QED BY <2>1, FS_Subset
<1>2. {j \in 1 .. 0 : F[j] # <<>>} = {}
  OBVIOUS
<1>3. ASSUME NEW i \in Nat
      PROVE  /\ Filled(F, i) \in Nat
             /\ Filled(F, i + 1) = Filled(F, i) + (IF F[i + 1] = <<>> THEN 0 ELSE 1)
  <2> DEFINE A == {j \in 1 .. i : F[j] # <<>>}
             B == {j \in 1 .. i + 1 : F[j] # <<>>}
  <2>1. IsFiniteSet(A)
    BY <1>1
  <2>2. Cardinality(A) \in Nat
    BY <2>1, FS_CardinalityType
  <2>3. CASE F[i + 1] = <<>>
    <3>1. A = B
      BY <2>3
    <3>2. Filled(F, i) = Cardinality(A) /\ Filled(F, i + 1) = Cardinality(B)
      BY DEF Filled
    <3> HIDE DEF A, B
    <3> QED BY <2>2, <2>3, <3>1, <3>2
  <2>4. CASE F[i + 1] # <<>>
    <3>1. B = A \cup {i + 1} /\ i + 1 \notin A
      BY <2>4
    <3> HIDE DEF A, B
    <3>2. Cardinality(B) = Cardinality(A) + 1
      BY <2>1, <3>1, FS_AddElement
    <3> QED BY <2>2, <2>4, <3>2 DEF Filled, A, B
  <2> QED BY <2>3, <2>4
<1> QED BY <1>2, <1>3, FS_EmptySet DEF Filled

\* Sequences that are empty or pairs, one after the other.
FlatUpto(F, i) == FlattenSeq([j \in 1 .. i |-> F[j]])

PairsAre(F, n) ==
    /\ Len(FlatUpto(F, n)) = 2 * Filled(F, n)
    /\ \A i \in 1 .. n : F[i] # <<>> =>
        /\ Filled(F, i - 1) \in Nat /\ 2 * Filled(F, i - 1) + 2 <= Len(FlatUpto(F, n))
        /\ FlatUpto(F, n)[2 * Filled(F, i - 1) + 1] = F[i][1]
        /\ FlatUpto(F, n)[2 * Filled(F, i - 1) + 2] = F[i][2]
    /\ \A m \in 1 .. Len(FlatUpto(F, n)) : \E i \in 1 .. n :
        F[i] # <<>> /\ (m = 2 * Filled(F, i - 1) + 1 \/ m = 2 * Filled(F, i - 1) + 2)

\* Where each sequence is empty or a pair, the pairs of the whole are where the count
\* of the nonempty ones before says.
LEMMA FlatPairs ==
    ASSUME NEW T, NEW n \in Nat, NEW F,
           \A i \in 1 .. n : F[i] \in Seq(T) /\ (F[i] = <<>> \/ Len(F[i]) = 2)
    PROVE  PairsAre(F, n)
<1> DEFINE S == {k \in Nat : k <= n => PairsAre(F, k)}
<1>1. 0 \in S
  <2>1. FlatUpto(F, 0) = <<>> /\ Len(<<>>) = 0
    BY FlatFirst, EmptySeq DEF FlatUpto
  <2>2. Filled(F, 0) = 0
    BY CountIs
  <2> QED BY <2>1, <2>2 DEF PairsAre
<1>2. ASSUME NEW k \in Nat, k \in S PROVE k + 1 \in S
  <2>1. SUFFICES ASSUME k + 1 <= n PROVE PairsAre(F, k + 1)
    OBVIOUS
  <2>2. PairsAre(F, k)
    <3>1. k <= n
      BY <2>1
    <3> HIDE DEF PairsAre
    <3> QED BY <1>2, <3>1
  <2> DEFINE a == FlatUpto(F, k)
             b == FlatUpto(F, k + 1)
             c == Filled(F, k)
  <2>3. k + 1 \in 1 .. n /\ \A i \in 1 .. k + 1 : F[i] \in Seq(T)
    BY <2>1
  <2>4. a \in Seq(T) /\ b = a \o F[k + 1]
    BY <2>3, FlatStep DEF FlatUpto
  <2>5. /\ c \in Nat /\ Filled(F, k + 1) = c + (IF F[k + 1] = <<>> THEN 0 ELSE 1)
        /\ \A i \in 1 .. k + 1 : Filled(F, i - 1) \in Nat
    <3>1. \A i \in 1 .. k + 1 : i - 1 \in Nat
      OBVIOUS
    <3> QED BY <3>1, CountIs
  <2>6. Len(a) \in Nat /\ Len(a) = 2 * c
    BY <2>2, <2>4, LenProperties DEF PairsAre
  <2>7. CASE F[k + 1] = <<>>
    <3>1. b = a
      BY <2>4, <2>7, ConcatEmptySeq
    <3>2. \A i \in 1 .. k + 1 : F[i] # <<>> => i \in 1 .. k
      BY <2>7
    <3>3. Filled(F, k + 1) = Filled(F, k)
      BY <2>5, <2>7
    <3> HIDE DEF a, b, c
    <3>4. PairsAre(F, k + 1) <=>
            /\ Len(a) = 2 * Filled(F, k)
            /\ \A i \in 1 .. k + 1 : F[i] # <<>> =>
                /\ Filled(F, i - 1) \in Nat /\ 2 * Filled(F, i - 1) + 2 <= Len(a)
                /\ a[2 * Filled(F, i - 1) + 1] = F[i][1]
                /\ a[2 * Filled(F, i - 1) + 2] = F[i][2]
            /\ \A m \in 1 .. Len(a) : \E i \in 1 .. k + 1 :
                F[i] # <<>> /\ (m = 2 * Filled(F, i - 1) + 1 \/ m = 2 * Filled(F, i - 1) + 2)
      BY <3>1, <3>3, Zenon DEF PairsAre, b
    <3>5. \A i \in 1 .. k : i \in 1 .. k + 1
      OBVIOUS
    <3> QED BY <2>2, <3>2, <3>4, <3>5, Zenon DEF PairsAre, a
  <2>8. CASE F[k + 1] # <<>>
    <3> DEFINE x == F[k + 1]
    <3>1. x \in Seq(T) /\ Len(x) = 2
      BY <2>3, <2>8
    <3>2. /\ Len(b) = Len(a) + 2 /\ Filled(F, k + 1) = c + 1
          /\ \A i \in 1 .. Len(a) : b[i] = a[i]
          /\ b[2 * c + 1] = x[1] /\ b[2 * c + 2] = x[2]
      <4> HIDE DEF a, b, x
      <4>1. \A i \in 1 .. Len(a) + Len(x) :
                b[i] = IF i <= Len(a) THEN a[i] ELSE x[i - Len(a)]
        BY <2>4, <3>1, ConcatProperties DEF x
      <4>2. Len(b) = Len(a) + Len(x)
        BY <2>4, <3>1, ConcatProperties DEF x
      <4>3. Filled(F, k + 1) = c + 1
        BY <2>5, <2>8
      <4>4. /\ 2 * c + 1 \in 1 .. Len(a) + Len(x) /\ 2 * c + 2 \in 1 .. Len(a) + Len(x)
            /\ ~(2 * c + 1 <= Len(a)) /\ ~(2 * c + 2 <= Len(a))
            /\ 2 * c + 1 - Len(a) = 1 /\ 2 * c + 2 - Len(a) = 2
            /\ \A i \in 1 .. Len(a) : i \in 1 .. Len(a) + Len(x) /\ i <= Len(a)
        BY <2>5, <2>6, <3>1
      <4>5. b[2 * c + 1] = x[1] /\ b[2 * c + 2] = x[2]
        <5>1. PICK u \in Nat, v \in Nat : u = 2 * c + 1 /\ v = 2 * c + 2
          BY <2>5
        <5>2. b[u] = IF u <= Len(a) THEN a[u] ELSE x[u - Len(a)]
          BY <4>1, <4>4, <5>1, Zenon
        <5>3. b[v] = IF v <= Len(a) THEN a[v] ELSE x[v - Len(a)]
          BY <4>1, <4>4, <5>1, Zenon
        <5>4. ~(u <= Len(a)) /\ ~(v <= Len(a)) /\ u - Len(a) = 1 /\ v - Len(a) = 2
          <6>1. c \in Nat /\ Len(a) = 2 * c
            BY <2>5, <2>6
          <6> HIDE DEF c
          <6> QED BY <5>1, <6>1
        <5>5. b[u] = x[1] /\ b[v] = x[2]
          BY ONLY <5>2, <5>3, <5>4, Zenon
        <5> QED BY <5>1, <5>5, Zenon
      <4>6. \A i \in 1 .. Len(a) : b[i] = a[i]
        BY <4>1, <4>4
      <4> QED BY <3>1, <4>2, <4>3, <4>5, <4>6
    <3> HIDE DEF a, b, c
    <3>3. Len(b) = 2 * Filled(F, k + 1)
      BY <2>5, <2>6, <3>2
    <3>4. ASSUME NEW i \in 1 .. k + 1, F[i] # <<>>
          PROVE  /\ Filled(F, i - 1) \in Nat /\ 2 * Filled(F, i - 1) + 2 <= Len(b)
                 /\ b[2 * Filled(F, i - 1) + 1] = F[i][1] /\ b[2 * Filled(F, i - 1) + 2] = F[i][2]
      <4>1. CASE i \in 1 .. k
        <5> DEFINE d == Filled(F, i - 1)
        <5>1. /\ d \in Nat /\ 2 * d + 2 <= Len(a)
              /\ a[2 * d + 1] = F[i][1] /\ a[2 * d + 2] = F[i][2]
          BY <2>2, <3>4, <4>1, Zenon DEF PairsAre, a
        <5> HIDE DEF d
        <5> QED BY <2>6, <3>2, <5>1 DEF d
      <4>2. CASE i = k + 1
        <5>1. i - 1 = k
          BY <4>2
        <5>2. Filled(F, i - 1) = c
          BY <5>1 DEF c
        <5> QED BY <2>5, <2>6, <3>2, <4>2, <5>2
      <4> QED BY <4>1, <4>2
    <3>5. ASSUME NEW m \in 1 .. Len(b)
          PROVE  \E i \in 1 .. k + 1 :
                    F[i] # <<>> /\ (m = 2 * Filled(F, i - 1) + 1 \/ m = 2 * Filled(F, i - 1) + 2)
      <4>1. CASE m \in 1 .. Len(a)
        <5>1. PICK i \in 1 .. k :
                 F[i] # <<>> /\ (m = 2 * Filled(F, i - 1) + 1 \/ m = 2 * Filled(F, i - 1) + 2)
          BY <2>2, <4>1, Zenon DEF PairsAre, a
        <5>2. i \in 1 .. k + 1
          OBVIOUS
        <5> QED BY <5>1, <5>2, Zenon
      <4>2. CASE m \notin 1 .. Len(a)
        <5>1. m = 2 * c + 1 \/ m = 2 * c + 2
          BY <2>5, <2>6, <3>2, <4>2
        <5>2. k + 1 - 1 = k /\ k + 1 \in 1 .. k + 1
          OBVIOUS
        <5>3. Filled(F, k + 1 - 1) = c
          BY <5>2 DEF c
        <5>4. m = 2 * Filled(F, k + 1 - 1) + 1 \/ m = 2 * Filled(F, k + 1 - 1) + 2
          BY <5>1, <5>3, Zenon
        <5>5. PICK i \in 1 .. k + 1 : i = k + 1
          BY <5>2
        <5>6. F[i] # <<>> /\ (m = 2 * Filled(F, i - 1) + 1 \/ m = 2 * Filled(F, i - 1) + 2)
          <6>1. i - 1 = k /\ F[i] # <<>>
            BY <2>8, <5>5
          <6>2. Filled(F, i - 1) = c
            BY <6>1 DEF c
          <6> QED BY <5>1, <6>1, <6>2, Zenon
        <5> QED BY <5>6
      <4> QED BY <4>1, <4>2
    <3> QED BY <3>3, <3>4, <3>5, Zenon DEF PairsAre, b
  <2> QED BY <2>7, <2>8
<1>3. n \in S
  <2> HIDE DEF S
  <2> QED BY <1>1, <1>2, NatsFrom
<1> QED BY <1>3

\* A function applied again and again.
Iterated(f, U, x, Step, n) ==
    f \in [0 .. n -> U] /\ f[0] = x /\ \A d \in 1 .. n : f[d] = Step[f[d - 1]]

\* A function can be iterated.
LEMMA Iterates ==
    ASSUME NEW U, NEW x \in U, NEW Step \in [U -> U], NEW n \in Nat
    PROVE  \E f : Iterated(f, U, x, Step, n)
<1> USE DEF Iterated
<1> DEFINE Have(f, k) == Iterated(f, U, x, Step, k)
           S == {k \in Nat : \E f : Have(f, k)}
<1>1. 0 \in S
  <2>1. Have([d \in 0 .. 0 |-> x], 0)
    OBVIOUS
  <2> HIDE DEF Have
  <2> QED BY <2>1
<1>2. ASSUME NEW k \in Nat, k \in S PROVE k + 1 \in S
  <2>1. PICK f : Have(f, k)
    <3> HIDE DEF Have
    <3> QED BY <1>2
  <2> DEFINE g == [d \in 0 .. k + 1 |-> IF d <= k THEN f[d] ELSE Step[f[k]]]
  <2>2. g \in [0 .. k + 1 -> U] /\ g[0] = x
    BY <2>1
  <2>3. ASSUME NEW d \in 1 .. k + 1 PROVE g[d] = Step[g[d - 1]]
    <3>1. CASE d <= k
      BY <2>1, <3>1
    <3>2. CASE ~(d <= k)
      BY <2>1, <3>2
    <3> QED BY <3>1, <3>2
  <2>4. Have(g, k + 1)
    BY <2>2, <2>3
  <2> HIDE DEF Have, g
  <2> QED BY <2>4
<1>3. n \in S
  <2> HIDE DEF S
  <2> QED BY <1>1, <1>2, NatsFrom
<1> HIDE DEF Iterated
<1> QED BY <1>3
=============================================================================
