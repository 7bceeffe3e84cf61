------------------------------ MODULE StreamProofs ------------------------------
(***************************************************************************)
(* What is made in parts is the whole: the regions of a bake, the frames   *)
(* of a bridge connection, and the subtrees of a hierarchy, for every      *)
(* size, padding, limit, cut and schedule.                                 *)
(*                                                                         *)
(* A bake in regions makes the rows and the counts of a bake that has the  *)
(* whole tile before it (BakeInv).  In the first pass the scratch files    *)
(* hold the shaded rows above the place the pass has reached, and the      *)
(* mean is summed over the texels above it; the second pass replaces row   *)
(* by row what it finds by what the whole bake would normalize it to; and  *)
(* what the third reads in its window is padded as in the whole tile,      *)
(* since a ring of padding reads two rows above and below a texel, and the *)
(* halo has two for every ring (PadLocal).                                 *)
(*                                                                         *)
(* What is in the decoder of a connection, under way, still to be sent,    *)
(* and lost with a sender that broke off, is one sequence: the frames of   *)
(* the payloads that were not delivered, from the first to the last        *)
(* (Framed).  No write, read or loss changes it; sendFrame() puts a frame  *)
(* at its end and the decoder takes one off its front.  So a header,       *)
(* wherever the bytes were cut, is that of the payload that comes next     *)
(* (HeaderIsNext).                                                         *)
(*                                                                         *)
(* The nodes of a hierarchy under construction are at the places that a    *)
(* serial build gives their ranges (BuildInv).  While the levels are       *)
(* built, splitting a range changes nothing of the levels above and of its *)
(* own; while the subtrees are, it appends to the layout of one of them,   *)
(* since a worker has on its stack what lies to the right of all it has    *)
(* split (UnderGrows, OnStack); and the fold appends one subtree after the *)
(* other to the levels, each with its links moved by what is before it.    *)
(***************************************************************************)
EXTENDS RegionedBake, SumsProofs, FiniteSetTheorems

CONSTANTS
    Radix, HeaderBytes, Limit, RecvBuffer, Payload, MaxFrames, MaxConnections, \* of FrameStream
    Refs, Worker, LeafSize, MaxDepth, PollSpan, TaskDepth                      \* of BvhBuild

VARIABLES
    \* FrameStream
    sent, out, wire, broken, buffer, failed, delivered, closed, connections,
    \* BvhBuild
    phase, nodes, tasks, depth, splits, nextTask, working, stack, subtrees, folded, token, aborted,
    splitAt

Frames == INSTANCE FrameStream
Build == INSTANCE BvhBuild

-----------------------------------------------------------------------------
(* The bake in regions: its invariant *)

\* The values a tile shows before they are normalized, over the whole of it.
Shown(t) == {Shaded[t][p] : p \in covered[t]}

\* What the whole bake normalizes a tile to, and what it was shaded as.
Values(t) == [p \in Texel |-> IF p \in covered[t] THEN Normalized(Shaded[t][p], WholeMean, Shown(t)) ELSE 0]
Plain(t) == Background(t, Texel)

\* ... and a tile of which the second pass has done the rows above n.
Mixed(t, n) == [p \in Texel |-> IF p[2] < n THEN Values(t)[p] ELSE Plain(t)[p]]

\* The rows of a tile with anything in them, and a scratch file that holds those
\* above n, with the values of f.
CoveredRow(t) == {y \in 0 .. Height - 1 : \E x \in Column : <<x, y>> \in covered[t]}
Held(t, f, n) == [y \in {y \in CoveredRow(t) : y < n} |-> [x \in Column |-> f[<<x, y>>]]]

\* A tile of the whole bake, its first rows, and how many texels it fills in them.
WholeOf(t) == Whole(t, WholeMean)
FirstRows(t, n) == [y \in 1 .. n |-> [x \in Column |-> WholeOf(t).values[<<x, y - 1>>]]]
FilledTo(t, n) == Cardinality(WholeOf(t).filled \cap Rows(0, n))

\* How far a pass over all tiles has come in a tile.
Past(t) == IF t < tile THEN Height ELSE IF t = tile THEN row ELSE 0

\* The mean over the rows of every tile above the one given for it.
MeanTo(upto) ==
    [sum |-> SumOf([t \in 1 .. Tiles |-> Total(Shaded[t], covered[t] \cap Rows(0, upto[t]))]),
     defined |-> SumOf([t \in 1 .. Tiles |-> Cardinality(covered[t] \cap Rows(0, upto[t]))])]

\* How many rows of a tile were handed to the sink.
Out(t) == CASE pass = "finalize" -> IF t < tile THEN Height ELSE 0
            [] pass = "assemble" -> Past(t)
            [] pass = "done" -> Height
            [] OTHER -> 0

\* The input is one of those considered, and the place of a pass inside it.
PlaceInv ==
    /\ covered \in Coverages /\ radius \in Radii /\ bound \in Bounds /\ kind \in Kinds
    /\ pass \in {"memory", "shade", "finalize", "assemble", "done", "stopped"}
    /\ tile \in Tile /\ row \in 0 .. Height - 1
    /\ regionCount = 1 => row = 0
    /\ pass = "memory" => regionCount = 1 /\ Tiles = 1
    /\ report = IF pass = "done" THEN Tile ELSE {}

\* peakTexelsInFlight is within the plan.
PeakInv == peak \in Nat /\ peak <= workingSetTexels

\* What a sink has is the first rows of the whole bake, and no more than the pass
\* has come to.
OutInv ==
    /\ DOMAIN emitted = Tile /\ DOMAIN filled = Tile
    /\ \A t \in Tile : \E n \in 0 .. Height :
        /\ emitted[t] = FirstRows(t, n) /\ filled[t] = FilledTo(t, n)
        /\ pass # "stopped" => n = Out(t)

\* What the scratch files, the mean, and the sampled values hold, in each pass.
ScratchInv ==
    /\ DOMAIN scratch = Tile /\ DOMAIN samples = Tile
    /\ \A t \in Tile : DOMAIN scratch[t] \subseteq 0 .. Height - 1
    /\ pass = "shade" =>
        /\ \A t \in Tile :
            /\ scratch[t] = Held(t, Plain(t), Past(t))
            /\ samples[t] = IF kind = "field" THEN {Shaded[t][p] : p \in covered[t] \cap Rows(0, Past(t))} ELSE {}
        /\ mean = IF kind = "density" THEN MeanTo([t \in Tile |-> Past(t)]) ELSE NoMean
        /\ seen = {}
    /\ pass \in {"finalize", "assemble"} =>
        /\ \A t \in Tile : tile < t => scratch[t] = Held(t, Plain(t), Height)
        /\ kind = "density" => mean = WholeMean
        /\ kind = "field" => \A t \in Tile : samples[t] = Shown(t)
    /\ pass = "finalize" =>
        /\ scratch[tile] = Held(tile, Mixed(tile, row), Height)
        /\ seen = {Values(tile)[p] : p \in covered[tile] \cap Rows(0, row)}
    /\ pass = "assemble" =>
        /\ scratch[tile] = Held(tile, Values(tile), Height)
        /\ seen = {Values(tile)[p] : p \in covered[tile]}

-----------------------------------------------------------------------------
(* The plan *)

\* The lesser and the greater of two numbers.
LEMMA Extremes ==
    ASSUME NEW a \in Int, NEW b \in Int
    PROVE  Lowest({a, b}) = (IF a <= b THEN a ELSE b) /\ Highest({a, b}) = (IF a <= b THEN b ELSE a)
<1>1. ASSUME NEW m \in {a, b}, \A n \in {a, b} : m <= n PROVE m = IF a <= b THEN a ELSE b
  BY <1>1
<1>2. \E m \in {a, b} : \A n \in {a, b} : m <= n
  OBVIOUS
<1>3. ASSUME NEW m \in {a, b}, \A n \in {a, b} : n <= m PROVE m = IF a <= b THEN b ELSE a
  BY <1>3
<1>4. \E m \in {a, b} : \A n \in {a, b} : n <= m
  OBVIOUS
<1> DEFINE low == Lowest({a, b})
           high == Highest({a, b})
<1>5. low \in {a, b} /\ \A n \in {a, b} : low <= n
  BY <1>2, Zenon DEF Lowest
<1>6. high \in {a, b} /\ \A n \in {a, b} : n <= high
  BY <1>4, Zenon DEF Highest
<1> HIDE DEF low, high
<1> QED BY <1>1, <1>3, <1>5, <1>6 DEF low, high

\* What is known of the input of a bake.
LEMMA InputIs ==
    ASSUME BakeAssumption, PlaceInv
    PROVE  /\ Width \in Nat \ {0} /\ Height \in Nat \ {0} /\ radius \in Nat /\ bound \in Nat
           /\ Tiles \in Nat \ {0} /\ Tile = 1 .. Tiles /\ tile \in 1 .. Tiles /\ row \in 0 .. Height - 1
           /\ \A t \in Tile : covered[t] \subseteq Texel
           /\ \A t \in Tile : \A p \in covered[t] : Shaded[t][p] \in Int
<1>1. Width \in Nat \ {0} /\ Height \in Nat \ {0} /\ radius \in Nat /\ bound \in Nat
  BY DEF BakeAssumption, PlaceInv
<1>2. covered \in Seq(SUBSET Texel) /\ covered # <<>>
      /\ \A t \in DOMAIN covered : \A p \in covered[t] : Shaded[t][p] \in Int
  BY DEF BakeAssumption, PlaceInv
<1> DEFINE S == SUBSET Texel
<1>3. covered \in Seq(S)
  BY <1>2
<1> HIDE DEF S
<1>4. Len(covered) \in Nat /\ DOMAIN covered = 1 .. Len(covered)
  BY <1>3, LenProperties
<1>5. Len(covered) # 0
  BY <1>2, <1>3, EmptySeq
<1>6. \A t \in 1 .. Len(covered) : covered[t] \in S
  BY <1>3, ElementOfSeq
<1> QED BY <1>1, <1>2, <1>4, <1>5, <1>6 DEF Tile, Tiles, S, PlaceInv

\* The halo has two rows for every ring, and a region at least one row.
LEMMA PlanIs ==
    ASSUME BakeAssumption, PlaceInv
    PROVE  /\ regionHaloRows \in Nat /\ 2 * radius <= regionHaloRows
           /\ regionRows \in 1 .. Height /\ (regionCount = 1 <=> regionRows = Height)
           /\ RowEnd \in Nat /\ row < RowEnd /\ RowEnd <= Height /\ RowEnd <= row + regionRows
           /\ (RowEnd < Height => RowEnd = row + regionRows)
           /\ (regionCount = 1 => RowEnd = Height /\ row = 0)
<1>1. Width \in Nat \ {0} /\ Height \in Nat \ {0} /\ radius \in Nat /\ bound \in Nat
      /\ row \in 0 .. Height - 1
  BY InputIs
<1>2. regionHaloRows \in Nat /\ 2 * radius <= regionHaloRows
  <2>1. 2 * radius \in Int /\ 1 \in Int /\ 2 * radius \in Nat
    BY <1>1
  <2>2. regionHaloRows = IF 2 * radius <= 1 THEN 1 ELSE 2 * radius
    BY <2>1, Extremes DEF regionHaloRows, kDerivativeFootprintTexels
  <2> QED BY <2>1, <2>2
<1>3. regionRows \in 1 .. Height
  <2> DEFINE fit == bound \div Width
             left == IF fit > 2 * regionHaloRows THEN fit - 2 * regionHaloRows ELSE 0
             low == Lowest({left, Height})
  <2>1. fit \in Nat
    BY <1>1
  <2>2. regionRows = IF bound = 0 \/ fit >= Height THEN Height ELSE Highest({1, low})
    BY DEF regionRows
  <2> HIDE DEF fit
  <2>3. left \in Nat
    BY <1>2, <2>1
  <2> HIDE DEF left
  <2>4. low = IF left <= Height THEN left ELSE Height
    BY <1>1, <2>3, Extremes
  <2>5. low \in 0 .. Height
    BY <1>1, <2>3, <2>4
  <2> HIDE DEF low
  <2>6. Highest({1, low}) = IF 1 <= low THEN low ELSE 1
    BY <2>5, Extremes
  <2> QED BY <1>1, <2>2, <2>5, <2>6
<1>4. regionCount = 1 <=> regionRows = Height
  <2> DEFINE R == regionRows
             q == (Height + R - 1) \div R
             r == (Height + R - 1) % R
  <2>1. R \in Nat \ {0} /\ Height + R - 1 \in Nat /\ R <= Height /\ regionCount = q
    BY <1>1, <1>3 DEF regionCount
  <2> HIDE DEF R
  <2> DEFINE m == Height + R - 1
  <2>6. q = m \div R /\ r = m % R /\ m \in Nat
    BY <2>1
  <2> HIDE DEF m, q, r
  <2>7. q \in Nat /\ r \in 0 .. R - 1 /\ m = q * R + r
    BY <2>1, <2>6
  <2>2. q \in Nat /\ r \in 0 .. R - 1 /\ Height + R - 1 = q * R + r
    BY <2>7 DEF m
  <2>3. CASE q = 1
    BY <1>1, <2>1, <2>2, <2>3 DEF R
  <2>4. CASE q = 0
    BY <1>1, <2>1, <2>2, <2>4 DEF R
  <2>5. CASE 2 <= q
    <3>1. 2 * R <= q * R /\ q * R \in Nat
      BY <2>1, <2>2, <2>5, TimesNext
    <3>2. R # Height
      BY <1>1, <2>1, <2>2, <3>1
    <3> QED BY <2>1, <2>5, <3>2 DEF R
  <2> QED BY <2>2, <2>3, <2>4, <2>5
<1>5. RowEnd = IF Height <= row + regionRows THEN Height ELSE row + regionRows
  <2>1. Height \in Int /\ row + regionRows \in Int
    BY <1>1, <1>3
  <2> QED BY <2>1, Extremes DEF RowEnd
<1>6. /\ RowEnd \in Nat /\ row < RowEnd /\ RowEnd <= Height /\ RowEnd <= row + regionRows
      /\ (RowEnd < Height => RowEnd = row + regionRows)
  BY <1>1, <1>3, <1>5
<1>7. regionCount = 1 => RowEnd = Height /\ row = 0
  <2>1. regionCount = 1 => row = 0
    BY DEF PlaceInv
  <2> QED BY <1>1, <1>4, <1>5, <2>1
<1> QED BY <1>2, <1>3, <1>4, <1>6, <1>7

\* The texels of some rows.
LEMMA RowsAre ==
    ASSUME BakeAssumption, NEW a \in Nat, NEW b \in Nat, a <= b
    PROVE  /\ IsFiniteSet(Rows(a, b)) /\ Cardinality(Rows(a, b)) = Width * (b - a)
           /\ \A p : p \in Rows(a, b) <=>
                  \E x \in Column : \E y \in Nat : p = <<x, y>> /\ a <= y /\ y < b
           /\ \A x \in Column, y \in Nat : <<x, y>> \in Rows(a, b) <=> a <= y /\ y < b
<1>1. Width \in Nat \ {0}
  BY DEF BakeAssumption
<1>2. IsFiniteSet(Column) /\ Cardinality(Column) = Width
  BY <1>1, FS_Interval DEF Column
<1>3. IsFiniteSet(a .. b - 1) /\ Cardinality(a .. b - 1) = b - a
  <2>1. IsFiniteSet(a .. b - 1) /\ Cardinality(a .. b - 1) = IF a > b - 1 THEN 0 ELSE b - 1 - a + 1
    BY FS_Interval
  <2> QED BY <2>1
<1>4. IsFiniteSet(Rows(a, b)) /\ Cardinality(Rows(a, b)) = Width * (b - a)
  BY <1>2, <1>3, FS_Product DEF Rows
<1>5. \A p : p \in Rows(a, b) <=>
          \E x \in Column : \E y \in Nat : p = <<x, y>> /\ a <= y /\ y < b
  BY DEF Rows
<1>6. \A x \in Column, y \in Nat : <<x, y>> \in Rows(a, b) <=> a <= y /\ y < b
  BY DEF Rows
<1> QED BY <1>4, <1>5, <1>6

\* Rows and those that follow them.
LEMMA RowsJoin ==
    ASSUME BakeAssumption, NEW a \in Nat, NEW b \in Nat, NEW c \in Nat, a <= b, b <= c
    PROVE  Rows(a, c) = Rows(a, b) \cup Rows(b, c) /\ Rows(a, b) \cap Rows(b, c) = {}
<1>1. \A y : y \in a .. c - 1 <=> y \in a .. b - 1 \/ y \in b .. c - 1
  OBVIOUS
<1>2. \A y : ~(y \in a .. b - 1 /\ y \in b .. c - 1)
  OBVIOUS
<1> QED BY <1>1, <1>2, Zenon DEF Rows

\* The texels of a set in the rows above a, and those from a to b.
LEMMA PartsOf ==
    ASSUME BakeAssumption, NEW S, NEW a \in Nat, NEW b \in Nat, a <= b
    PROVE  /\ S \cap Rows(0, b) = (S \cap Rows(0, a)) \cup (S \cap Rows(a, b))
           /\ (S \cap Rows(0, a)) \cap (S \cap Rows(a, b)) = {}
           /\ IsFiniteSet(S \cap Rows(0, a)) /\ IsFiniteSet(S \cap Rows(a, b))
           /\ Cardinality(S \cap Rows(0, a)) \in Nat
           /\ S \cap Rows(0, 0) = {}
<1>1. Rows(0, b) = Rows(0, a) \cup Rows(a, b) /\ Rows(0, a) \cap Rows(a, b) = {}
  BY RowsJoin
<1> DEFINE X == S \cap Rows(0, a)
           Y == S \cap Rows(a, b)
<1>2. S \cap Rows(0, b) = X \cup Y /\ X \cap Y = {}
  BY <1>1
<1>3. IsFiniteSet(Rows(0, a)) /\ IsFiniteSet(Rows(a, b))
  BY RowsAre
<1>4. IsFiniteSet(X) /\ IsFiniteSet(Y)
  BY <1>3, FS_Intersection
<1>5. Rows(0, 0) = {}
  BY DEF Rows
<1> HIDE DEF X, Y
<1>6. Cardinality(X) \in Nat
  BY <1>4, FS_CardinalityType
<1> QED BY <1>2, <1>4, <1>5, <1>6 DEF X, Y

\* The texels of a set in some rows, and their number.
Part(S, a, b) == S \cap Rows(a, b)

LEMMA CountSplits ==
    ASSUME BakeAssumption, NEW S, NEW a \in Nat, NEW b \in Nat, a <= b
    PROVE  Cardinality(Part(S, 0, b)) = Cardinality(Part(S, 0, a)) + Cardinality(Part(S, a, b))
<1> DEFINE X == S \cap Rows(0, a)
           Y == S \cap Rows(a, b)
           Z == S \cap Rows(0, b)
<1>1. Z = X \cup Y /\ X \cap Y = {}
  <2>1. Rows(0, b) = Rows(0, a) \cup Rows(a, b) /\ Rows(0, a) \cap Rows(a, b) = {}
    BY RowsJoin
  <2> QED BY <2>1
<1>2. IsFiniteSet(X) /\ IsFiniteSet(Y)
  <2>1. IsFiniteSet(Rows(0, a)) /\ IsFiniteSet(Rows(a, b))
    BY RowsAre
  <2> QED BY <2>1, FS_Intersection
<1> HIDE DEF X, Y, Z
<1>3. Cardinality(X \cup Y) = Cardinality(X) + Cardinality(Y) - Cardinality(X \cap Y)
  BY <1>2, FS_Union
<1>4. Cardinality(X) \in Nat /\ Cardinality(Y) \in Nat /\ Cardinality({}) = 0
  BY <1>2, FS_CardinalityType, FS_EmptySet
<1>5. Cardinality(Z) = Cardinality(X) + Cardinality(Y)
  <2>1. Cardinality(X \cap Y) = 0 /\ Cardinality(Z) = Cardinality(X \cup Y)
    BY <1>1, <1>4, Zenon
  <2> QED BY <1>3, <1>4, <2>1
<1>6. Part(S, 0, b) = Z /\ Part(S, 0, a) = X /\ Part(S, a, b) = Y
  BY Zenon DEF Part, X, Y, Z
<1> QED BY <1>5, <1>6

-----------------------------------------------------------------------------
(* Sums over texels and tiles *)

\* The summands of Total().
Term(f, S) ==
    [i \in 1 .. Width * Height |->
        LET p == <<(i - 1) % Width, (i - 1) \div Width>> IN IF p \in S THEN f[p] ELSE 0]

LEMMA TotalIs ==
    ASSUME BakeAssumption, NEW f, NEW S, \A p \in S : f[p] \in Int
    PROVE  Width * Height \in Nat \ {0} /\ Term(f, S) \in [1 .. Width * Height -> Int]
           /\ Total(f, S) = SumOf(Term(f, S)) /\ Total(f, S) \in Int
<1> DEFINE n == Width * Height
<1>1. n \in Nat \ {0}
  <2>1. Width \in Nat \ {0} /\ Height \in Nat \ {0}
    BY DEF BakeAssumption
  <2>2. Width <= Width * Height /\ Width * Height \in Nat
    BY <2>1, TimesNext
  <2> QED BY <2>1, <2>2
<1>2. Term(f, S) \in [1 .. n -> Int]
  BY DEF Term
<1>3. Total(f, S) = SumOf(Term(f, S))
  BY Zenon DEF Total, Term
<1> HIDE DEF n
<1>4. Term(f, S) \in Seq(Int)
  BY <1>1, <1>2 DEF Seq
<1>5. SumOf(Term(f, S)) \in Int
  BY <1>4, SumInt
<1> QED BY <1>1, <1>2, <1>3, <1>5 DEF n

\* The total over two sets that share nothing is the sum of theirs.
LEMMA TotalSplits ==
    ASSUME BakeAssumption, NEW f, NEW S, NEW T, S \cap T = {}, \A p \in S \cup T : f[p] \in Int
    PROVE  Total(f, S \cup T) = Total(f, S) + Total(f, T)
<1> DEFINE n == Width * Height
           u == Term(f, S)
           v == Term(f, T)
           w == Term(f, S \cup T)
<1>1. /\ n \in Nat /\ u \in [1 .. n -> Int] /\ v \in [1 .. n -> Int] /\ w \in [1 .. n -> Int]
      /\ Total(f, S \cup T) = SumOf(w) /\ Total(f, S) = SumOf(u) /\ Total(f, T) = SumOf(v)
      /\ SumOf(u) \in Int /\ SumOf(v) \in Int
  BY TotalIs
<1>2. ASSUME NEW i \in 1 .. n PROVE w[i] = u[i] + 1 * v[i]
  <2> DEFINE p == <<(i - 1) % Width, (i - 1) \div Width>>
  <2>1. /\ w[i] = (IF p \in S \cup T THEN f[p] ELSE 0) /\ u[i] = (IF p \in S THEN f[p] ELSE 0)
        /\ v[i] = IF p \in T THEN f[p] ELSE 0
    BY DEF Term
  <2> HIDE DEF p, u, v, w, n
  <2> QED BY <2>1
<1> HIDE DEF n, u, v, w
<1>3. SumOf(w) = SumOf(u) + 1 * SumOf(v)
  <2>1. 1 \in Int /\ \A i \in 1 .. n : w[i] = u[i] + 1 * v[i]
    BY <1>2
  <2> QED BY ONLY <1>1, <2>1, SumLinear, ZenonT(60)
<1> QED BY <1>1, <1>3

\* The total over nothing.
LEMMA TotalEmpty == ASSUME BakeAssumption, NEW f PROVE Total(f, {}) = 0
<1> DEFINE n == Width * Height
           u == Term(f, {})
<1>1. n \in Nat \ {0} /\ u \in [1 .. n -> Int] /\ Total(f, {}) = SumOf(u)
  BY TotalIs
<1>2. \A i \in 1 .. n : u[i] = 0
  BY DEF Term
<1> HIDE DEF n, u
<1>3. 1 \in 1 .. n
  BY <1>1
<1>4. SumOf(u) = u[1]
  BY <1>1, <1>2, <1>3, SumSpike
<1> QED BY <1>1, <1>2, <1>3, <1>4

-----------------------------------------------------------------------------
(* What padding reads *)

\* b are the first k rings.
Band(b, values, cover, ids, range, k) ==
    /\ b = [i \in 0 .. k |-> b[i]] /\ b[0] = [values |-> values, covered |-> cover]
    /\ \A i \in 1 .. k : b[i] = growRing(b[i - 1], ids, range)

\* padBorders() is its rings one after the other.
LEMMA PadIs ==
    ASSUME NEW values, NEW cover, NEW ids, NEW range, NEW k \in Nat
    PROVE  \E b : /\ Band(b, values, cover, ids, range, k)
                  /\ padBorders(values, cover, ids, k, range)
                        = [values |-> b[k].values, filled |-> b[k].covered \ cover]
<1> DEFINE First == [values |-> values, covered |-> cover]
           Grown(c) == growRing(c, ids, range)
           Goes(f, n) == /\ f = [i \in 0 .. n |-> f[i]] /\ f[0] = First
                         /\ \A i \in 1 .. n : f[i] = Grown(f[i - 1])
           E == {n \in Nat : \E f : Goes(f, n)}
<1> HIDE DEF First, Grown
<1>1. \A n \in Nat : n \in E
  <2>1. 0 \in E
    <3>1. Goes([i \in 0 .. 0 |-> First], 0)
      OBVIOUS
    <3> QED BY <3>1
  <2>2. ASSUME NEW n \in Nat, n \in E PROVE n + 1 \in E
    <3>1. PICK f : Goes(f, n)
      BY <2>2
    <3> DEFINE g == [i \in 0 .. n + 1 |-> IF i <= n THEN f[i] ELSE Grown(f[n])]
    <3>2. g = [i \in 0 .. n + 1 |-> g[i]] /\ g[0] = First
      BY <3>1
    <3>3. ASSUME NEW i \in 1 .. n + 1 PROVE g[i] = Grown(g[i - 1])
      <4>1. CASE i <= n
        <5>1. i \in 1 .. n /\ i \in 0 .. n + 1 /\ i - 1 \in 0 .. n + 1 /\ i - 1 <= n
          BY <4>1
        <5>2. f[i] = Grown(f[i - 1])
          BY <3>1, <5>1
        <5> QED BY <5>1, <5>2
      <4>2. CASE ~(i <= n)
        <5>1. i = n + 1 /\ i - 1 = n /\ i \in 0 .. n + 1 /\ i - 1 \in 0 .. n + 1
          BY <4>2
        <5> QED BY <5>1
      <4> QED BY <4>1, <4>2
    <3>4. Goes(g, n + 1)
      BY <3>2, <3>3
    <3> HIDE DEF g, Goes
    <3> QED BY <3>4
  <2> HIDE DEF E
  <2> QED BY <2>1, <2>2, NatsFrom
<1>2. PICK f : Goes(f, k)
  BY <1>1
<1> DEFINE band == CHOOSE u : u = [i \in 0 .. k |-> IF i = 0 THEN First ELSE Grown(u[i - 1])]
<1>3. f = [i \in 0 .. k |-> IF i = 0 THEN First ELSE Grown(f[i - 1])]
  <2>1. \A i \in 0 .. k : f[i] = IF i = 0 THEN First ELSE Grown(f[i - 1])
    <3>1. SUFFICES ASSUME NEW i \in 0 .. k PROVE f[i] = IF i = 0 THEN First ELSE Grown(f[i - 1])
      OBVIOUS
    <3>2. CASE i = 0
      BY <1>2, <3>2
    <3>3. CASE i # 0
      <4>1. i \in 1 .. k
        BY <3>3
      <4>2. f[i] = Grown(f[i - 1])
        BY <1>2, <4>1
      <4> QED BY <3>3, <4>2
    <3> QED BY <3>2, <3>3
  <2>2. f = [i \in 0 .. k |-> f[i]]
    BY <1>2
  <2> QED BY <2>1, <2>2
<1>4. band = [i \in 0 .. k |-> IF i = 0 THEN First ELSE Grown(band[i - 1])]
  BY <1>3
<1>5. padBorders(values, cover, ids, k, range)
        = [values |-> band[k].values, filled |-> band[k].covered \ cover]
  BY DEF padBorders, First, Grown
<1> HIDE DEF band
<1> DEFINE table == [i \in 0 .. k |-> IF i = 0 THEN First ELSE Grown(band[i - 1])]
<1>6. \A i \in 0 .. k : table[i] = IF i = 0 THEN First ELSE Grown(band[i - 1])
  BY Zenon
<1>7. band = table /\ table = [i \in 0 .. k |-> table[i]]
  BY <1>4, Zenon
<1> HIDE DEF table
<1>8. \A i \in 0 .. k : band[i] = IF i = 0 THEN First ELSE Grown(band[i - 1])
  BY <1>6, <1>7
<1>9. band = [i \in 0 .. k |-> band[i]]
  BY <1>7
<1>10. 0 \in 0 .. k /\ \A i \in 1 .. k : i \in 0 .. k /\ i # 0
  OBVIOUS
<1>11. Band(band, values, cover, ids, range, k)
  <2>1. band[0] = First /\ \A i \in 1 .. k : band[i] = Grown(band[i - 1])
    BY <1>8, <1>10, Zenon
  <2> QED BY <1>9, <2>1, Zenon DEF Band, First, Grown
<1> QED BY <1>5, <1>11

\* A texel reads at most two rows away.
LEMMA OffIs ==
    ASSUME NEW x \in Int, NEW y \in Int, NEW d \in 1 .. 8, NEW n \in {1, 2}
    PROVE  \E v \in Int, w \in Int : Off(<<x, y>>, d, n) = <<v, w>> /\ y - 2 <= w /\ w <= y + 2
<1>1. \E k, l \in {-1, 0, 1} : kCompass[d] = <<k, l>>
  <2>1. d = 1 \/ d = 2 \/ d = 3 \/ d = 4 \/ d = 5 \/ d = 6 \/ d = 7 \/ d = 8
    OBVIOUS
  <2> QED BY <2>1 DEF kCompass
<1>2. PICK k \in {-1, 0, 1}, l \in {-1, 0, 1} : kCompass[d] = <<k, l>>
  BY <1>1
<1>3. Off(<<x, y>>, d, n) = <<x + n * k, y + n * l>>
  BY <1>2 DEF Off
<1>4. x + n * k \in Int /\ y + n * l \in Int /\ y - 2 <= y + n * l /\ y + n * l <= y + 2
  <2>1. n = 1 \/ n = 2
    OBVIOUS
  <2>2. k = -1 \/ k = 0 \/ k = 1
    OBVIOUS
  <2>3. l = -1 \/ l = 0 \/ l = 1
    OBVIOUS
  <2> QED BY <2>1, <2>2, <2>3
<1> QED BY <1>3, <1>4

\* The first direction with a source is one of them.
LEMMA LeastSource ==
    ASSUME NEW S \in SUBSET (1 .. 8), S # {} PROVE Lowest(S) \in S
<1> DEFINE L == {k \in Nat : \A m \in S : k <= m}
<1>1. \E m \in S : \A n \in S : m <= n
  <2>1. SUFFICES ASSUME \A m \in S : \E n \in S : ~(m <= n) PROVE FALSE
    OBVIOUS
  <2>2. 0 \in L
    OBVIOUS
  <2>3. ASSUME NEW k \in Nat, k \in L PROVE k + 1 \in L
    <3>1. k \notin S
      BY <2>1, <2>3
    <3>2. ASSUME NEW m \in S PROVE k + 1 <= m
      BY <2>3, <3>1
    <3> QED BY <3>2
  <2>4. \A k \in Nat : k \in L
    <3> HIDE DEF L
    <3> QED BY <2>2, <2>3, NatsFrom
  <2>5. 9 \in L
    BY <2>4
  <2>6. PICK m \in S : TRUE
    OBVIOUS
  <2>7. 9 <= m /\ m \in 1 .. 8
    BY <2>5
  <2> QED BY <2>7
<1> QED BY <1>1, Zenon DEF Lowest

\* What is filled depends on the texels around.
LEMMA FillSame ==
    ASSUME NEW p, NEW f, NEW g, NEW C, NEW D,
           \A d \in 1 .. 8 : \A n \in {1, 2} :
               /\ Off(p, d, n) \in C <=> Off(p, d, n) \in D
               /\ Off(p, d, n) \in C => f[Off(p, d, n)] = g[Off(p, d, n)]
    PROVE  /\ Sources(p, C) = Sources(p, D)
           /\ extrapolate(p, f, C) = extrapolate(p, g, D)
           /\ Sources(p, C) # {} => nearest(p, f, C) = nearest(p, g, D)
<1>1. Sources(p, C) = Sources(p, D)
  BY DEF Sources
<1>2. Sources(p, C) # {} => nearest(p, f, C) = nearest(p, g, D)
  <2>1. SUFFICES ASSUME Sources(p, C) # {} PROVE nearest(p, f, C) = nearest(p, g, D)
    OBVIOUS
  <2>2. Sources(p, C) \in SUBSET (1 .. 8)
    BY DEF Sources
  <2> DEFINE l == Lowest(Sources(p, C))
  <2>3. l \in Sources(p, C) /\ l = Lowest(Sources(p, D))
    BY <1>1, <2>1, <2>2, LeastSource
  <2> HIDE DEF l
  <2>4. l \in 1 .. 8 /\ Off(p, l, 1) \in C
    BY <2>3 DEF Sources
  <2>5. f[Off(p, l, 1)] = g[Off(p, l, 1)]
    BY <2>4
  <2>6. nearest(p, f, C) = f[Off(p, l, 1)] /\ nearest(p, g, D) = g[Off(p, l, 1)]
    BY <2>3, Zenon DEF nearest, l
  <2> QED BY <2>5, <2>6
<1>3. extrapolate(p, f, C) = extrapolate(p, g, D)
  <2> DEFINE S == Sources(p, C)
             inner(h, d) == h[Off(p, d, 1)]
             beyond(h, E, d) == IF Off(p, d, 2) \in E THEN h[Off(p, d, 2)] ELSE inner(h, d)
             terms(h, E) == [d \in 1 .. 8 |-> IF d \in S THEN 2 * inner(h, d) - beyond(h, E, d) ELSE 0]
  <2>1. extrapolate(p, f, C) = SumOf(terms(f, C)) \div Cardinality(S)
    BY Zenon DEF extrapolate
  <2>2. extrapolate(p, g, D) = SumOf(terms(g, D)) \div Cardinality(S)
    BY <1>1, Zenon DEF extrapolate
  <2>3. ASSUME NEW d \in 1 .. 8, d \in S
        PROVE  inner(f, d) = inner(g, d) /\ beyond(f, C, d) = beyond(g, D, d)
    <3>1. Off(p, d, 1) \in C /\ 1 \in {1, 2} /\ 2 \in {1, 2}
      BY <2>3 DEF Sources
    <3>2. f[Off(p, d, 1)] = g[Off(p, d, 1)]
      BY <3>1
    <3>3. (Off(p, d, 2) \in C <=> Off(p, d, 2) \in D)
          /\ (Off(p, d, 2) \in C => f[Off(p, d, 2)] = g[Off(p, d, 2)])
      BY <3>1
    <3> QED BY <3>2, <3>3
  <2>4. terms(f, C) = terms(g, D)
    <3> HIDE DEF inner, beyond, S
    <3> QED BY <2>3
  <2> HIDE DEF terms, S
  <2> QED BY <2>1, <2>2, <2>4
<1> QED BY <1>1, <1>2, <1>3

-----------------------------------------------------------------------------
(* Padding is local: a ring reads two rows *)

\* f and its covered texels are those of the image, g and its those of a window, and
\* they agree on some rows.
Agree(F, G, top, bottom, lo, hi) ==
    /\ DOMAIN F.values = Texel /\ F.covered \subseteq Texel
    /\ DOMAIN G.values = Rows(top, bottom) /\ G.covered \subseteq Rows(top, bottom)
    /\ \A p \in Rows(lo, hi) : (p \in F.covered <=> p \in G.covered) /\ F.values[p] = G.values[p]

\* Two maps that agree in some rows agree, after a ring, in those two rows further in.
LEMMA RingAgrees ==
    ASSUME BakeAssumption, NEW F, NEW G, NEW ids, NEW range,
           NEW top \in Nat, NEW bottom \in Nat, NEW lo \in Nat, NEW hi \in Int,
           NEW from \in Nat, NEW to \in Int, bottom <= Height, top <= from, to <= bottom,
           (top = 0 /\ lo = 0) \/ lo + 2 <= from, (bottom = Height /\ hi = Height) \/ to <= hi - 2,
           lo <= from, to <= hi,
           Agree(F, G, top, bottom, lo, hi)
    PROVE  Agree(growRing(F, ids, range), growRing(G, ids, range), top, bottom, from, to)
<1>1. Width \in Nat \ {0} /\ Height \in Nat \ {0}
  BY DEF BakeAssumption
<1> DEFINE candidates(H) == {p \in DOMAIN H.values \ H.covered : Sources(p, H.covered) # {}}
           fill(H, p) == IF ids THEN nearest(p, H.values, H.covered)
                         ELSE clamped(extrapolate(p, H.values, H.covered), range)
           ring(H) == growRing(H, ids, range)
<1>2. ASSUME NEW H
      PROVE  /\ ring(H).covered = H.covered \cup candidates(H)
             /\ DOMAIN ring(H).values = DOMAIN H.values
             /\ \A p \in DOMAIN H.values :
                    ring(H).values[p] = IF p \in candidates(H) THEN fill(H, p) ELSE H.values[p]
  BY DEF growRing
<1>3. \A H : candidates(H) \subseteq DOMAIN H.values
  OBVIOUS
<1>4. ASSUME NEW p \in Rows(from, to)
      PROVE  /\ p \in F.covered <=> p \in G.covered
             /\ p \in candidates(F) <=> p \in candidates(G)
             /\ p \in candidates(F) => fill(F, p) = fill(G, p)
             /\ F.values[p] = G.values[p] /\ p \in Texel /\ p \in Rows(top, bottom)
  <2>1. PICK x \in Column, y \in from .. to - 1 : p = <<x, y>>
    BY DEF Rows
  <2>2. p \in Rows(lo, hi) /\ p \in Texel /\ p \in Rows(top, bottom)
    <3>1. y \in lo .. hi - 1 /\ y \in 0 .. Height - 1 /\ y \in top .. bottom - 1
      BY <1>1
    <3> QED BY <2>1, <3>1 DEF Rows, Texel
  <2>3. ASSUME NEW d \in 1 .. 8, NEW n \in {1, 2}, Off(p, d, n) \in Texel
        PROVE  Off(p, d, n) \in Rows(lo, hi)
    <3>1. x \in Int /\ y \in Int
      BY <1>1 DEF Column
    <3>2. PICK v \in Int, w \in Int : Off(<<x, y>>, d, n) = <<v, w>> /\ y - 2 <= w /\ w <= y + 2
      BY <3>1, OffIs
    <3>3. v \in Column /\ w \in 0 .. Height - 1
      BY <2>1, <2>3, <3>2 DEF Texel, Rows
    <3>4. w \in lo .. hi - 1
      BY <1>1, <3>2, <3>3
    <3> QED BY <2>1, <3>2, <3>3, <3>4 DEF Rows
  <2>4. Rows(top, bottom) \subseteq Texel
    <3>1. \A w : w \in top .. bottom - 1 => w \in 0 .. Height - 1
      BY <1>1
    <3> QED BY <3>1 DEF Rows, Texel
  <2>5. \A d \in 1 .. 8 : \A n \in {1, 2} :
            /\ Off(p, d, n) \in F.covered <=> Off(p, d, n) \in G.covered
            /\ Off(p, d, n) \in F.covered => F.values[Off(p, d, n)] = G.values[Off(p, d, n)]
    <3> TAKE d \in 1 .. 8, n \in {1, 2}
    <3> DEFINE q == Off(p, d, n)
    <3>1. q \in F.covered \/ q \in G.covered => q \in Texel
      BY <2>4 DEF Agree
    <3>2. q \in Texel => q \in Rows(lo, hi)
      BY <2>3
    <3> HIDE DEF q
    <3>3. q \in Rows(lo, hi) => (q \in F.covered <=> q \in G.covered) /\ F.values[q] = G.values[q]
      BY DEF Agree
    <3>4. (q \in F.covered <=> q \in G.covered) /\ (q \in F.covered => F.values[q] = G.values[q])
      BY <3>1, <3>2, <3>3
    <3> QED BY <3>4 DEF q
  <2>6. /\ Sources(p, F.covered) = Sources(p, G.covered)
        /\ extrapolate(p, F.values, F.covered) = extrapolate(p, G.values, G.covered)
        /\ Sources(p, F.covered) # {} =>
               nearest(p, F.values, F.covered) = nearest(p, G.values, G.covered)
    <3> DEFINE f == F.values
               g == G.values
               C == F.covered
               D == G.covered
    <3>1. \A d \in 1 .. 8 : \A n \in {1, 2} :
              /\ Off(p, d, n) \in C <=> Off(p, d, n) \in D
              /\ Off(p, d, n) \in C => f[Off(p, d, n)] = g[Off(p, d, n)]
      BY <2>5
    <3> HIDE DEF f, g, C, D
    <3>2. /\ Sources(p, C) = Sources(p, D)
          /\ extrapolate(p, f, C) = extrapolate(p, g, D)
          /\ Sources(p, C) # {} => nearest(p, f, C) = nearest(p, g, D)
      BY ONLY <3>1, FillSame
    <3> QED BY <3>2 DEF f, g, C, D
  <2>7. (p \in F.covered <=> p \in G.covered) /\ F.values[p] = G.values[p]
    BY <2>2 DEF Agree
  <2>8. p \in DOMAIN F.values /\ p \in DOMAIN G.values
    BY <2>2 DEF Agree
  <2>9. p \in candidates(F) <=> p \in candidates(G)
    BY <2>6, <2>7, <2>8
  <2>10. p \in candidates(F) => fill(F, p) = fill(G, p)
    <3>1. p \in candidates(F) => Sources(p, F.covered) # {}
      OBVIOUS
    <3> HIDE DEF candidates
    <3> QED BY <2>6, <3>1
  <2> HIDE DEF candidates, fill
  <2> QED BY <2>2, <2>7, <2>9, <2>10
<1> HIDE DEF candidates, fill, ring
<1>5. /\ DOMAIN F.values = Texel /\ F.covered \subseteq Texel
      /\ DOMAIN G.values = Rows(top, bottom) /\ G.covered \subseteq Rows(top, bottom)
  BY DEF Agree
<1>6. /\ DOMAIN ring(F).values = Texel /\ ring(F).covered \subseteq Texel
      /\ DOMAIN ring(G).values = Rows(top, bottom) /\ ring(G).covered \subseteq Rows(top, bottom)
  BY <1>2, <1>3, <1>5
<1>7. ASSUME NEW p \in Rows(from, to)
      PROVE  (p \in ring(F).covered <=> p \in ring(G).covered) /\ ring(F).values[p] = ring(G).values[p]
  <2>1. p \in ring(F).covered <=> p \in ring(G).covered
    BY <1>2, <1>4
  <2>2. p \in DOMAIN F.values /\ p \in DOMAIN G.values
    BY <1>4, <1>5
  <2>3. /\ ring(F).values[p] = IF p \in candidates(F) THEN fill(F, p) ELSE F.values[p]
        /\ ring(G).values[p] = IF p \in candidates(G) THEN fill(G, p) ELSE G.values[p]
    BY <1>2, <2>2
  <2> QED BY <1>4, <2>1, <2>3
<1> QED BY <1>6, <1>7 DEF Agree, ring

\* g is a window of the image f, with k rings of room around the rows from lo to hi.
WindowOf(g, f, C, k, top, bottom, lo, hi) ==
    /\ top \in Nat /\ bottom \in Nat /\ bottom <= Height /\ lo \in Nat /\ hi \in Nat
    /\ top <= lo /\ hi <= bottom /\ (top = 0 \/ top + 2 * k <= lo)
    /\ (bottom = Height \/ hi + 2 * k <= bottom)
    /\ C \subseteq Texel /\ DOMAIN f = Texel /\ DOMAIN g = Rows(top, bottom)
    /\ \A p \in Rows(top, bottom) : f[p] = g[p]

\* Two padded maps agree in some rows.
SamePadded(w, v, lo, hi) ==
    \A p \in Rows(lo, hi) : w.values[p] = v.values[p] /\ (p \in w.filled <=> p \in v.filled)

\* A window of a map with two rows for every ring around what is kept of it is padded
\* there as the whole map is: why regionHaloRows is twice the radius.
LEMMA PadLocal ==
    ASSUME BakeAssumption, NEW f, NEW g, NEW C, NEW ids, NEW range, NEW k \in Nat,
           NEW top, NEW bottom, NEW lo, NEW hi, WindowOf(g, f, C, k, top, bottom, lo, hi)
    PROVE  SamePadded(padBorders(f, C, ids, k, range),
                      padBorders(g, C \cap Rows(top, bottom), ids, k, range), lo, hi)
<1>0. /\ top \in Nat /\ bottom \in Nat /\ bottom <= Height /\ lo \in Nat /\ hi \in Nat
      /\ top <= lo /\ hi <= bottom /\ (top = 0 \/ top + 2 * k <= lo)
      /\ (bottom = Height \/ hi + 2 * k <= bottom)
      /\ C \subseteq Texel /\ DOMAIN f = Texel /\ DOMAIN g = Rows(top, bottom)
      /\ \A p \in Rows(top, bottom) : f[p] = g[p]
  BY Zenon DEF WindowOf
<1> USE <1>0
<1> DEFINE D == C \cap Rows(top, bottom)
           whole == padBorders(f, C, ids, k, range)
           part == padBorders(g, D, ids, k, range)
           from(i) == IF top = 0 THEN 0 ELSE top + 2 * i
           to(i) == IF bottom = Height THEN Height ELSE bottom - 2 * i
<1>1. Width \in Nat \ {0} /\ Height \in Nat \ {0}
  BY DEF BakeAssumption
<1> HIDE DEF D
<1>2. PICK a : /\ Band(a, f, C, ids, range, k)
               /\ padBorders(f, C, ids, k, range) = [values |-> a[k].values, filled |-> a[k].covered \ C]
  BY PadIs
<1>3. PICK b : /\ Band(b, g, D, ids, range, k)
               /\ padBorders(g, D, ids, k, range) = [values |-> b[k].values, filled |-> b[k].covered \ D]
  BY PadIs
<1> USE DEF D
<1> DEFINE S == {i \in Nat : i <= k => Agree(a[i], b[i], top, bottom, from(i), to(i))}
<1>4. 0 \in S
  <2>1. a[0] = [values |-> f, covered |-> C] /\ b[0] = [values |-> g, covered |-> D]
    BY <1>2, <1>3, Zenon DEF Band
  <2>2. Agree([values |-> f, covered |-> C], [values |-> g, covered |-> D], top, bottom, from(0), to(0))
    <3>1. from(0) = top /\ to(0) = bottom
      OBVIOUS
    <3>2. \A p \in Rows(top, bottom) : (p \in C <=> p \in D) /\ f[p] = g[p]
      OBVIOUS
    <3> QED BY <3>1, <3>2 DEF Agree
  <2> HIDE DEF D, from, to
  <2> QED BY <2>1, <2>2
<1>5. ASSUME NEW i \in Nat, i \in S PROVE i + 1 \in S
  <2>1. SUFFICES ASSUME i + 1 <= k
                 PROVE  Agree(a[i + 1], b[i + 1], top, bottom, from(i + 1), to(i + 1))
    OBVIOUS
  <2>2. i + 1 \in 1 .. k /\ (i + 1) - 1 = i /\ i <= k
    BY <2>1
  <2> DEFINE F == a[i]
             G == b[i]
  <2>3. a[i + 1] = growRing(F, ids, range) /\ b[i + 1] = growRing(G, ids, range)
    <3>1. a[i + 1] = growRing(a[(i + 1) - 1], ids, range) /\ b[i + 1] = growRing(b[(i + 1) - 1], ids, range)
      BY <1>2, <1>3, <2>2, Zenon DEF Band
    <3> QED BY <2>2, <3>1
  <2>4. Agree(F, G, top, bottom, from(i), to(i))
    BY <1>5, <2>2
  <2> DEFINE l == from(i)
             h == to(i)
             m == from(i + 1)
             n == to(i + 1)
  <2>5. /\ l \in Nat /\ h \in Int /\ m \in Nat /\ n \in Int /\ top <= m /\ n <= bottom
        /\ (top = 0 /\ l = 0) \/ l + 2 <= m
        /\ (bottom = Height /\ h = Height) \/ n <= h - 2
        /\ l <= m /\ n <= h
    BY <1>1
  <2> HIDE DEF F, G, l, h, m, n, from, to
  <2>6. Agree(F, G, top, bottom, l, h)
    BY <2>4 DEF l, h
  <2>7. Agree(growRing(F, ids, range), growRing(G, ids, range), top, bottom, m, n)
    BY <2>5, <2>6, RingAgrees
  <2> QED BY <2>3, <2>7 DEF m, n
<1>6. k \in S
  <2> HIDE DEF S
  <2> QED BY <1>4, <1>5, NatsFrom
<1>7. Agree(a[k], b[k], top, bottom, from(k), to(k))
  BY <1>6
<1>8. SUFFICES ASSUME NEW p \in Rows(lo, hi)
               PROVE  whole.values[p] = part.values[p] /\ (p \in whole.filled <=> p \in part.filled)
  BY Zenon DEF whole, part, D, SamePadded
<1> HIDE DEF S, D, whole, part
<1>9. p \in Rows(from(k), to(k)) /\ p \in Rows(top, bottom)
  <2>1. \A y \in lo .. hi - 1 : y \in from(k) .. to(k) - 1 /\ y \in top .. bottom - 1
    BY <1>1
  <2> HIDE DEF from, to
  <2> QED BY <2>1 DEF Rows
<1>10. (p \in a[k].covered <=> p \in b[k].covered) /\ a[k].values[p] = b[k].values[p]
  <2> HIDE DEF from, to
  <2> QED BY <1>7, <1>9 DEF Agree
<1>11. p \in C <=> p \in D
  BY <1>9 DEF D
<1> QED BY <1>2, <1>3, <1>10, <1>11 DEF whole, part

\* Nothing is filled around nothing.
LEMMA PadNone ==
    ASSUME NEW f, NEW ids, NEW range, NEW k \in Nat, f = [p \in DOMAIN f |-> f[p]]
    PROVE  padBorders(f, {}, ids, k, range) = [values |-> f, filled |-> {}]
<1>0. k \in Nat
  OBVIOUS
<1>1. ASSUME NEW e
      PROVE  \E b : /\ Band(b, f, e, ids, range, k)
                    /\ padBorders(f, e, ids, k, range) = [values |-> b[k].values, filled |-> b[k].covered \ e]
  BY ONLY <1>0, PadIs
<1>2. PICK b : /\ Band(b, f, {}, ids, range, k)
               /\ padBorders(f, {}, ids, k, range) = [values |-> b[k].values, filled |-> b[k].covered \ {}]
  BY <1>1
<1> DEFINE First == [values |-> f, covered |-> {}]
           E == {i \in Nat : i <= k => b[i] = First}
<1>3. growRing(First, ids, range) = First
  <2>1. \A p : Sources(p, {}) = {}
    BY DEF Sources
  <2> DEFINE S == DOMAIN f
  <2>2. First.values = f /\ First.covered = {} /\ DOMAIN f = S
    OBVIOUS
  <2> DEFINE candidates == {p \in DOMAIN First.values \ First.covered : Sources(p, First.covered) # {}}
             fill(p) == IF ids THEN nearest(p, First.values, First.covered)
                        ELSE clamped(extrapolate(p, First.values, First.covered), range)
  <2>3. growRing(First, ids, range) =
            [values |-> [p \in DOMAIN First.values |-> IF p \in candidates THEN fill(p) ELSE First.values[p]],
             covered |-> First.covered \cup candidates]
    BY Zenon DEF growRing
  <2>4. candidates = {}
    BY <2>1, <2>2
  <2> HIDE DEF candidates, fill, S
  <2>5. [p \in DOMAIN First.values |-> IF p \in candidates THEN fill(p) ELSE First.values[p]] = f
    <3>1. [p \in S |-> IF p \in {} THEN fill(p) ELSE f[p]] = [p \in S |-> f[p]]
      OBVIOUS
    <3>2. f = [p \in S |-> f[p]]
      BY DEF S
    <3> QED BY <2>2, <2>4, <3>1, <3>2
  <2>6. First.covered \cup candidates = {}
    BY <2>2, <2>4
  <2> QED BY <2>3, <2>5, <2>6, Zenon
<1>4. 0 \in E
  BY <1>2 DEF Band
<1>5. ASSUME NEW i \in Nat, i \in E PROVE i + 1 \in E
  <2>1. SUFFICES ASSUME i + 1 <= k PROVE b[i + 1] = First
    OBVIOUS
  <2>2. i + 1 \in 1 .. k /\ (i + 1) - 1 = i /\ i <= k
    BY <2>1
  <2>3. b[i] = First
    BY <1>5, <2>2
  <2>4. b[i + 1] = growRing(b[(i + 1) - 1], ids, range)
    BY <1>2, <2>2, Zenon DEF Band
  <2> HIDE DEF First
  <2> QED BY <1>3, <2>2, <2>3, <2>4
<1>6. \A i \in Nat : i \in E
  <2> HIDE DEF E
  <2> QED BY <1>4, <1>5, NatsFrom
<1>7. b[k] = First
  BY <1>6
<1> QED BY <1>2, <1>7

\* Padding fills only texels of the map.
LEMMA PadWithin ==
    ASSUME NEW f, NEW S, DOMAIN f = S, NEW C, C \subseteq S, NEW ids, NEW range, NEW k \in Nat
    PROVE  padBorders(f, C, ids, k, range).filled \subseteq S
<1>1. PICK b : /\ Band(b, f, C, ids, range, k)
               /\ padBorders(f, C, ids, k, range) = [values |-> b[k].values, filled |-> b[k].covered \ C]
  BY PadIs
<1> DEFINE E == {i \in Nat : i <= k => DOMAIN b[i].values = S /\ b[i].covered \subseteq S}
<1>2. 0 \in E
  BY <1>1 DEF Band
<1>3. ASSUME NEW i \in Nat, i \in E PROVE i + 1 \in E
  <2>1. SUFFICES ASSUME i + 1 <= k
                 PROVE  DOMAIN b[i + 1].values = S /\ b[i + 1].covered \subseteq S
    OBVIOUS
  <2>2. i + 1 \in 1 .. k /\ (i + 1) - 1 = i /\ i <= k
    BY <2>1
  <2>3. b[i + 1] = growRing(b[(i + 1) - 1], ids, range)
    BY <1>1, <2>2, Zenon DEF Band
  <2> DEFINE c == b[i]
  <2>4. DOMAIN c.values = S /\ c.covered \subseteq S
    BY <1>3, <2>2
  <2>5. b[i + 1] = growRing(c, ids, range)
    BY <2>2, <2>3
  <2> HIDE DEF c
  <2>6. DOMAIN growRing(c, ids, range).values = S /\ growRing(c, ids, range).covered \subseteq S
    BY <2>4 DEF growRing
  <2> QED BY <2>5, <2>6
<1>4. \A i \in Nat : i \in E
  <2> HIDE DEF E
  <2> QED BY <1>2, <1>3, NatsFrom
<1>5. b[k].covered \subseteq S
  BY <1>4
<1> QED BY <1>1, <1>5

-----------------------------------------------------------------------------
(* The input stays as it is *)

\* What depends on nothing but the input stays as it is.
LEMMA InputSame ==
    ASSUME UNCHANGED inputVars
    PROVE  /\ Tile' = Tile /\ Tiles' = Tiles /\ WholeMean' = WholeMean
           /\ regionRows' = regionRows /\ regionCount' = regionCount
           /\ workingSetTexels' = workingSetTexels
           /\ \A t : /\ Values(t)' = Values(t) /\ Plain(t)' = Plain(t) /\ Shown(t)' = Shown(t)
                     /\ WholeOf(t)' = WholeOf(t)
                     /\ \A n : Mixed(t, n)' = Mixed(t, n) /\ FirstRows(t, n)' = FirstRows(t, n)
                               /\ FilledTo(t, n)' = FilledTo(t, n)
                     /\ \A f, n : Held(t, f, n)' = Held(t, f, n)
           /\ \A u : MeanTo(u)' = MeanTo(u)
<1>1. covered' = covered /\ radius' = radius /\ bound' = bound /\ kind' = kind
  BY DEF inputVars
<1>2. Tile' = Tile /\ Tiles' = Tiles
  BY <1>1, Zenon DEF Tile, Tiles
<1>3. WholeMean' = WholeMean
  BY <1>1, <1>2, Zenon DEF WholeMean
<1>4. regionHaloRows' = regionHaloRows
  BY <1>1, Zenon DEF regionHaloRows
<1>5. regionRows' = regionRows
  BY <1>1, <1>4, Zenon DEF regionRows
<1>6. regionCount' = regionCount
  BY <1>5, Zenon DEF regionCount
<1>7. workingSetTexels' = workingSetTexels
  BY <1>4, <1>5, <1>6, Zenon DEF workingSetTexels
<1>8. \A v, m, r : Normalized(v, m, r)' = Normalized(v, m, r)
  BY <1>1, Zenon DEF Normalized
<1>9. \A t : Shown(t)' = Shown(t) /\ Values(t)' = Values(t) /\ Plain(t)' = Plain(t)
  BY <1>1, <1>3, <1>8, Zenon DEF Shown, Values, Plain, Background
<1>10. \A t : WholeOf(t)' = WholeOf(t)
  BY <1>1, <1>3, <1>8, Zenon DEF WholeOf, Whole
<1>11. \A t, n : /\ Mixed(t, n)' = Mixed(t, n) /\ FirstRows(t, n)' = FirstRows(t, n)
                 /\ FilledTo(t, n)' = FilledTo(t, n)
  BY <1>9, <1>10, Zenon DEF Mixed, FirstRows, FilledTo
<1>12. \A t, f, n : Held(t, f, n)' = Held(t, f, n)
  BY <1>1, Zenon DEF Held, CoveredRow
<1>13. \A u : MeanTo(u)' = MeanTo(u)
  BY <1>1, <1>2, Zenon DEF MeanTo
<1> QED BY <1>2, <1>3, <1>5, <1>6, <1>7, <1>9, <1>10, <1>11, <1>12, <1>13

-----------------------------------------------------------------------------
(* The rows a scratch file holds *)

\* The rows of the region change values from f's to g's, and those below m become
\* those below n.
Turns(values, f, g, m, n) ==
    /\ m \in Nat /\ n \in Nat
    /\ \A y \in 0 .. Height - 1 : y < n <=> y < m \/ (row <= y /\ y < RowEnd)
    /\ \A x \in Column, y \in 0 .. Height - 1 :
         /\ row <= y /\ y < RowEnd => values[<<x, y>>] = g[<<x, y>>]
         /\ y < m /\ ~(row <= y /\ y < RowEnd) => f[<<x, y>>] = g[<<x, y>>]

\* Storing a region that turns the rows of f into those of g (RegionScratch::write).
LEMMA WrittenRows ==
    ASSUME BakeAssumption, PlaceInv, DOMAIN scratch = Tile, NEW values, NEW f, NEW g, NEW m, NEW n,
           scratch[tile] = Held(tile, f, m), Turns(values, f, g, m, n)
    PROVE  Written(tile, values, row, RowEnd) = [scratch EXCEPT ![tile] = Held(tile, g, n)]
<1> DEFINE C == CoveredRow(tile)
           D == DOMAIN scratch[tile]
           inside == row .. RowEnd - 1
           stores(y) == y \in D \/ \E x \in Column : <<x, y>> \in covered[tile]
           rows == {y \in inside : stores(y)}
           line(h, y) == [x \in Column |-> h[<<x, y>>]]
           new == [y \in rows \cup D |-> IF y \in rows THEN line(values, y) ELSE scratch[tile][y]]
<1>1. /\ Height \in Nat \ {0} /\ row \in 0 .. Height - 1 /\ RowEnd \in Nat /\ RowEnd <= Height
      /\ tile \in Tile
  BY PlanIs, InputIs DEF PlaceInv
<1>2. C \subseteq 0 .. Height - 1
  BY DEF CoveredRow
<1>3. \A y \in 0 .. Height - 1 : y \in C <=> \E x \in Column : <<x, y>> \in covered[tile]
  BY DEF CoveredRow
<1>4. \A h, k : /\ DOMAIN Held(tile, h, k) = {y \in C : y < k}
                /\ Held(tile, h, k) = [y \in {y \in C : y < k} |-> line(h, y)]
  BY Zenon DEF Held
<1>5. D = {y \in C : y < m} /\ \A y \in D : scratch[tile][y] = line(f, y)
  <2>1. Held(tile, f, m) = [y \in {y \in C : y < m} |-> line(f, y)]
    BY Zenon DEF Held
  <2> HIDE DEF C, line
  <2> QED BY <2>1
<1>6. \A y \in inside : y \in 0 .. Height - 1
  BY <1>1
<1>7. \A y : y \in rows <=> y \in C /\ row <= y /\ y < RowEnd
  <2>1. \A y \in 0 .. Height - 1 : y \in inside <=> row <= y /\ y < RowEnd
    BY <1>1
  <2> HIDE DEF C, D, inside
  <2> QED BY <1>2, <1>3, <1>5, <1>6, <2>1
<1>8. rows \cup D = {y \in C : y < n}
  <2>1. \A y \in 0 .. Height - 1 : y < n <=> y < m \/ (row <= y /\ y < RowEnd)
    BY DEF Turns
  <2> HIDE DEF C, rows, D
  <2> QED BY <1>2, <1>5, <1>7, <2>1
<1>9. ASSUME NEW y \in {y \in C : y < n}
      PROVE  (IF y \in rows THEN line(values, y) ELSE scratch[tile][y]) = line(g, y)
  <2>1. y \in 0 .. Height - 1
    BY <1>2
  <2>2. CASE y \in rows
    <3>1. \A x \in Column : values[<<x, y>>] = g[<<x, y>>]
      BY <1>7, <2>1, <2>2 DEF Turns
    <3>2. line(values, y) = line(g, y)
      BY <3>1, Zenon
    <3> QED BY <2>2, <3>2
  <2>3. CASE y \notin rows
    <3>1. y \in D /\ ~(row <= y /\ y < RowEnd) /\ y < m
      <4> HIDE DEF C, rows, D
      <4> QED BY <1>5, <1>7, <1>8, <2>3
    <3>2. \A x \in Column : f[<<x, y>>] = g[<<x, y>>]
      BY <2>1, <3>1 DEF Turns
    <3>3. line(f, y) = line(g, y)
      BY <3>2, Zenon
    <3>4. scratch[tile][y] = line(f, y)
      <4> HIDE DEF line, D, rows, C
      <4> QED BY <1>5, <3>1
    <3> HIDE DEF line, D, rows, C
    <3> QED BY <2>3, <3>3, <3>4
  <2> QED BY <2>2, <2>3
<1>10. new = Held(tile, g, n)
  <2> DEFINE N == {y \in C : y < n}
  <2>1. \A y \in N : (IF y \in rows THEN line(values, y) ELSE scratch[tile][y]) = line(g, y)
    BY <1>9
  <2>2. rows \cup D = N
    BY <1>8
  <2>3. Held(tile, g, n) = [y \in N |-> line(g, y)]
    BY <1>4
  <2> HIDE DEF N, rows, D, C, line
  <2> QED BY <2>1, <2>2, <2>3, Zenon
<1>11. Written(tile, values, row, RowEnd) = [scratch EXCEPT ![tile] = new]
  BY Zenon DEF Written
<1> HIDE DEF new
<1> QED BY <1>10, <1>11

\* A region without covered texels turns nothing.
LEMMA NothingStored ==
    ASSUME BakeAssumption, PlaceInv, DOMAIN scratch = Tile, NEW values, NEW f, NEW g, NEW m, NEW n,
           Turns(values, f, g, m, n), covered[tile] \cap Rows(row, RowEnd) = {}
    PROVE  Held(tile, g, n) = Held(tile, f, m)
<1> DEFINE C == CoveredRow(tile)
           line(h, y) == [x \in Column |-> h[<<x, y>>]]
<1>1. /\ Height \in Nat \ {0} /\ row \in 0 .. Height - 1 /\ RowEnd \in Nat /\ RowEnd <= Height
      /\ tile \in Tile
  BY PlanIs, InputIs DEF PlaceInv
<1>2. ASSUME NEW y \in C PROVE y \in 0 .. Height - 1 /\ ~(row <= y /\ y < RowEnd)
  <2>1. PICK x \in Column : <<x, y>> \in covered[tile] /\ y \in 0 .. Height - 1
    BY DEF CoveredRow
  <2>2. <<x, y>> \notin Rows(row, RowEnd)
    BY <2>1
  <2>3. y \in row .. RowEnd - 1 => <<x, y>> \in Rows(row, RowEnd)
    BY <2>1 DEF Rows
  <2> QED BY <1>1, <2>1, <2>2, <2>3
<1> DEFINE M == {y \in C : y < m}
           N == {y \in C : y < n}
<1>3. M = N
  <2>1. \A y \in 0 .. Height - 1 : y < n <=> y < m \/ (row <= y /\ y < RowEnd)
    BY DEF Turns
  <2> HIDE DEF C
  <2> QED BY <1>2, <2>1
<1>4. ASSUME NEW y \in M PROVE line(f, y) = line(g, y)
  <2>1. \A x \in Column : f[<<x, y>>] = g[<<x, y>>]
    BY <1>2 DEF Turns
  <2> QED BY <2>1, Zenon
<1>5. Held(tile, g, n) = [y \in N |-> line(g, y)] /\ Held(tile, f, m) = [y \in M |-> line(f, y)]
  BY Zenon DEF Held
<1> HIDE DEF M, N, line
<1> QED BY <1>3, <1>4, <1>5, Zenon

-----------------------------------------------------------------------------
(* The sums of a set of tiles *)

\* The means of parts of the tiles are numbers.
LEMMA MeanParts ==
    ASSUME BakeAssumption, PlaceInv, NEW upto, \A t \in Tile : upto[t] \in Nat
    PROVE  /\ [t \in 1 .. Tiles |-> Total(Shaded[t], covered[t] \cap Rows(0, upto[t]))]
                 \in [1 .. Tiles -> Int]
           /\ [t \in 1 .. Tiles |-> Cardinality(covered[t] \cap Rows(0, upto[t]))]
                 \in [1 .. Tiles -> Int]
           /\ MeanTo(upto).sum \in Int /\ MeanTo(upto).defined \in Int
           /\ MeanTo(upto) = [sum |-> MeanTo(upto).sum, defined |-> MeanTo(upto).defined]
<1> DEFINE u == [t \in 1 .. Tiles |-> Total(Shaded[t], covered[t] \cap Rows(0, upto[t]))]
           v == [t \in 1 .. Tiles |-> Cardinality(covered[t] \cap Rows(0, upto[t]))]
           n == Tiles
<1>1. /\ n \in Nat /\ Tile = 1 .. n
      /\ \A t \in Tile : \A p \in covered[t] : Shaded[t][p] \in Int
  BY InputIs
<1>2. ASSUME NEW t \in 1 .. n
      PROVE  /\ Total(Shaded[t], covered[t] \cap Rows(0, upto[t])) \in Int
             /\ Cardinality(covered[t] \cap Rows(0, upto[t])) \in Int
  <2> DEFINE S == covered[t] \cap Rows(0, upto[t])
             f == Shaded[t]
             k == upto[t]
  <2>1. (\A p \in S : f[p] \in Int) /\ k \in Nat /\ k <= k
    BY <1>1
  <2>2. Cardinality(S) \in Nat
    <3> DEFINE C == covered[t]
    <3> HIDE DEF k, C
    <3>1. Cardinality(C \cap Rows(0, k)) \in Nat
      BY <2>1, PartsOf
    <3> QED BY <3>1 DEF C, k
  <2> HIDE DEF S, f
  <2>3. Total(f, S) \in Int
    BY <2>1, TotalIs
  <2> QED BY <2>2, <2>3 DEF S, f
<1>3. u \in [1 .. n -> Int] /\ v \in [1 .. n -> Int]
  BY <1>2
<1>4. MeanTo(upto) = [sum |-> SumOf(u), defined |-> SumOf(v)]
  BY Zenon DEF MeanTo
<1> HIDE DEF u, v, n
<1>5. u \in Seq(Int) /\ v \in Seq(Int)
  BY <1>1, <1>3 DEF Seq
<1>6. SumOf(u) \in Int /\ SumOf(v) \in Int
  BY <1>5, SumInt
<1>7. /\ MeanTo(upto).sum \in Int /\ MeanTo(upto).defined \in Int
      /\ MeanTo(upto) = [sum |-> MeanTo(upto).sum, defined |-> MeanTo(upto).defined]
  BY <1>4, <1>6
<1> QED BY <1>3, <1>7 DEF u, v, n

\* accumulateDensity() over a region adds what the rows of the region have.
LEMMA MeanGains ==
    ASSUME BakeAssumption, PlaceInv
    PROVE  LET here == covered[tile] \cap Rows(row, RowEnd)
               before == MeanTo([t \in Tile |-> Past(t)])
           IN  /\ Accumulated(before, Shaded[tile], here)
                    = MeanTo([t \in Tile |-> IF t = tile THEN RowEnd ELSE Past(t)])
               /\ here = {} => Accumulated(before, Shaded[tile], here) = before
<1> DEFINE here == covered[tile] \cap Rows(row, RowEnd)
           old == [t \in Tile |-> Past(t)]
           new == [t \in Tile |-> IF t = tile THEN RowEnd ELSE Past(t)]
           before == MeanTo(old)
           after == MeanTo(new)
           n == Tiles
           j == tile
           S == covered[tile] \cap Rows(0, row)
           T == covered[tile] \cap Rows(0, RowEnd)
           f == Shaded[tile]
           u(h) == [t \in 1 .. n |-> Total(Shaded[t], covered[t] \cap Rows(0, h[t]))]
           v(h) == [t \in 1 .. n |-> Cardinality(covered[t] \cap Rows(0, h[t]))]
<1>1. /\ n \in Nat /\ Tile = 1 .. n /\ j \in 1 .. n /\ row \in Nat /\ RowEnd \in Nat /\ row <= RowEnd
      /\ Height \in Nat /\ \A p \in covered[tile] : f[p] \in Int
  BY InputIs, PlanIs
<1>2. \A t \in Tile : old[t] \in Nat /\ new[t] \in Nat /\ (t # j => new[t] = old[t])
  BY <1>1 DEF Past
<1>3. old[j] = row /\ new[j] = RowEnd
  BY <1>1 DEF Past
<1>4. /\ u(old) \in [1 .. n -> Int] /\ v(old) \in [1 .. n -> Int]
      /\ before.sum \in Int /\ before.defined \in Int
      /\ before = [sum |-> before.sum, defined |-> before.defined]
  <2> HIDE DEF old
  <2> QED BY <1>2, MeanParts
<1>5. u(new) \in [1 .. n -> Int] /\ v(new) \in [1 .. n -> Int]
  <2> HIDE DEF new
  <2> QED BY <1>2, MeanParts
<1>6. before = [sum |-> SumOf(u(old)), defined |-> SumOf(v(old))]
  BY Zenon DEF MeanTo
<1>7. after = [sum |-> SumOf(u(new)), defined |-> SumOf(v(new))]
  BY Zenon DEF MeanTo
<1>8. /\ T = S \cup here /\ S \cap here = {}
      /\ Cardinality(T) = Cardinality(S) + Cardinality(here) /\ Cardinality(here) \in Nat
  <2> DEFINE C == covered[tile]
             b == RowEnd
  <2>0. BakeAssumption /\ row \in Nat /\ b \in Nat /\ row <= b
    BY <1>1
  <2> HIDE DEF C, b
  <2>1. Rows(0, b) = Rows(0, row) \cup Rows(row, b) /\ Rows(0, row) \cap Rows(row, b) = {}
    BY <2>0, RowsJoin
  <2>3. IsFiniteSet(C \cap Rows(row, b))
    BY <2>0, PartsOf
  <2>4. Cardinality(C \cap Rows(0, b))
          = Cardinality(C \cap Rows(0, row)) + Cardinality(C \cap Rows(row, b))
    <3>1. Cardinality(Part(C, 0, b)) = Cardinality(Part(C, 0, row)) + Cardinality(Part(C, row, b))
      BY <2>0, CountSplits
    <3> QED BY <3>1, Zenon DEF Part
  <2>2. Cardinality(C \cap Rows(row, b)) \in Nat
    BY <2>3, FS_CardinalityType
  <2> QED BY <2>1, <2>2, <2>4 DEF C, b
<1>9. (\A p \in S \cup here : f[p] \in Int) /\ (\A p \in here : f[p] \in Int)
  BY <1>1
<1> HIDE DEF before, after, here, S, T, f
<1>10. Total(f, T) = Total(f, S) + Total(f, here) /\ Total(f, here) \in Int
  BY <1>8, <1>9, TotalSplits, TotalIs
<1>11. u(old)[j] = Total(f, S) /\ u(new)[j] = Total(f, T)
  BY <1>1, <1>3 DEF f, S, T
<1>12. v(old)[j] = Cardinality(S) /\ v(new)[j] = Cardinality(T)
  BY <1>1, <1>3 DEF S, T
<1>13. \A t \in 1 .. n : t # j => u(new)[t] = u(old)[t] /\ v(new)[t] = v(old)[t]
  <2> HIDE DEF old, new
  <2> QED BY <1>1, <1>2
<1> DEFINE d == Total(f, here)
           c == Cardinality(here)
           uo == u(old)
           un == u(new)
           vo == v(old)
           vn == v(new)
<1>14. un[j] = uo[j] + d /\ d \in Int /\ vn[j] = vo[j] + c /\ c \in Int
  BY <1>8, <1>10, <1>11, <1>12
<1>15. /\ uo \in [1 .. n -> Int] /\ un \in [1 .. n -> Int] /\ vo \in [1 .. n -> Int]
       /\ vn \in [1 .. n -> Int]
       /\ \A t \in 1 .. n : t # j => un[t] = uo[t]
       /\ \A t \in 1 .. n : t # j => vn[t] = vo[t]
  BY <1>4, <1>5, <1>13
<1>16. before = [sum |-> SumOf(uo), defined |-> SumOf(vo)]
       /\ after = [sum |-> SumOf(un), defined |-> SumOf(vn)]
  BY <1>6, <1>7
<1>17. Accumulated(before, f, here) = [sum |-> before.sum + d, defined |-> before.defined + c]
  BY Zenon DEF Accumulated
<1>18. here = {} => d = 0 /\ c = 0
  <2>1. SUFFICES ASSUME here = {} PROVE d = 0 /\ c = 0
    OBVIOUS
  <2> QED BY <2>1, TotalEmpty, FS_EmptySet
<1> HIDE DEF d, c, uo, un, vo, vn, u, v, n, j
<1>19. SumOf(un) = SumOf(uo) + d
  BY ONLY <1>1, <1>14, <1>15, SumGains
<1>20. SumOf(vn) = SumOf(vo) + c
  BY ONLY <1>1, <1>14, <1>15, SumGains
<1>21. Accumulated(before, f, here) = after
  BY <1>16, <1>17, <1>19, <1>20
<1>22. here = {} => Accumulated(before, f, here) = before
  BY <1>4, <1>17, <1>18
<1> QED BY <1>21, <1>22 DEF before, after, here, f

\* The whole set is its rows up to the last.
LEMMA MeanOfAll ==
    ASSUME BakeAssumption, PlaceInv, NEW upto, \A t \in Tile : upto[t] = Height
    PROVE  MeanTo(upto) = WholeMean
<1>1. Tile = 1 .. Tiles /\ \A t \in Tile : covered[t] \subseteq Texel
  BY InputIs
<1>2. \A t \in 1 .. Tiles : covered[t] \cap Rows(0, upto[t]) = covered[t]
  <2> TAKE t \in 1 .. Tiles
  <2>1. Rows(0, upto[t]) = Texel
    BY <1>1 DEF Texel
  <2> QED BY <1>1, <2>1
<1>3. [t \in 1 .. Tiles |-> Total(Shaded[t], covered[t] \cap Rows(0, upto[t]))]
        = [t \in 1 .. Tiles |-> Total(Shaded[t], covered[t])]
  BY <1>2, Zenon
<1>4. [t \in 1 .. Tiles |-> Cardinality(covered[t] \cap Rows(0, upto[t]))]
        = [t \in 1 .. Tiles |-> Cardinality(covered[t])]
  BY <1>2, Zenon
<1> QED BY <1>3, <1>4, Zenon DEF MeanTo, WholeMean

LEMMA MeanOfNone ==
    ASSUME BakeAssumption, PlaceInv, NEW upto, \A t \in Tile : upto[t] = 0
    PROVE  MeanTo(upto) = NoMean
<1> DEFINE u == [t \in 1 .. Tiles |-> Total(Shaded[t], covered[t] \cap Rows(0, upto[t]))]
           v == [t \in 1 .. Tiles |-> Cardinality(covered[t] \cap Rows(0, upto[t]))]
           n == Tiles
<1>1. n \in Nat \ {0} /\ Tile = 1 .. n
  BY InputIs
<1>2. u \in [1 .. n -> Int] /\ v \in [1 .. n -> Int]
  <2>1. \A t \in Tile : upto[t] \in Nat
    OBVIOUS
  <2> QED BY <2>1, MeanParts
<1>3. \A t \in 1 .. n : u[t] = 0 /\ v[t] = 0
  <2> TAKE t \in 1 .. n
  <2>1. Rows(0, upto[t]) = {}
    BY <1>1 DEF Rows
  <2>2. covered[t] \cap Rows(0, upto[t]) = {}
    BY <2>1
  <2>3. u[t] = Total(Shaded[t], {}) /\ v[t] = Cardinality({})
    BY <2>2
  <2> QED BY <2>3, TotalEmpty, FS_EmptySet
<1>4. MeanTo(upto) = [sum |-> SumOf(u), defined |-> SumOf(v)]
  BY Zenon DEF MeanTo
<1> HIDE DEF u, v, n
<1>5. 1 \in 1 .. n
  BY <1>1
<1>6. SumOf(u) = u[1] /\ SumOf(v) = v[1]
  BY <1>1, <1>2, <1>3, <1>5, SumSpike
<1> QED BY <1>3, <1>4, <1>5, <1>6 DEF NoMean

\* A region and its halo are within the working set.
LEMMA SpanFits ==
    ASSUME BakeAssumption, PlaceInv
    PROVE  /\ workingSetTexels \in Nat
           /\ \A span \in Nat : span <= Height /\ (span <= regionRows + 2 * regionHaloRows) =>
                  Width * span <= workingSetTexels
           /\ Width * (RowEnd - row) <= workingSetTexels
<1>1. /\ Width \in Nat \ {0} /\ Height \in Nat \ {0} /\ row \in 0 .. Height - 1
      /\ RowEnd \in Nat /\ row < RowEnd /\ RowEnd <= Height /\ RowEnd <= row + regionRows
      /\ regionHaloRows \in Nat /\ regionRows \in 1 .. Height
  BY InputIs, PlanIs DEF PlaceInv
<1> DEFINE reach == regionRows + 2 * regionHaloRows
           most == IF regionCount = 1 THEN Height ELSE Lowest({Height, reach})
<1>2. reach \in Nat /\ Height \in Nat /\ regionRows <= reach
  BY <1>1
<1>3. workingSetTexels = Width * most
  BY Zenon DEF workingSetTexels
<1> HIDE DEF reach
<1>4. Lowest({Height, reach}) = IF Height <= reach THEN Height ELSE reach
  <2>1. Height \in Int /\ reach \in Int
    BY <1>2
  <2> QED BY <2>1, Extremes
<1>5. most \in Nat /\ \A span \in Nat : span <= Height /\ span <= reach => span <= most
  BY <1>2, <1>4
<1> HIDE DEF most
<1>6. ASSUME NEW m \in Nat, NEW n \in Nat, m <= n PROVE Width * m <= Width * n /\ Width * n \in Nat
  <2>1. m * Width <= n * Width /\ n * Width \in Nat
    BY <1>1, <1>6, TimesNext
  <2>2. m * Width = Width * m /\ n * Width = Width * n
    BY <1>1
  <2> QED BY <2>1, <2>2
<1>7. workingSetTexels \in Nat
  BY <1>3, <1>5, <1>6
<1>8. ASSUME NEW span \in Nat, span <= Height, span <= reach PROVE Width * span <= workingSetTexels
  BY <1>3, <1>5, <1>6, <1>8
<1>9. Width * (RowEnd - row) <= workingSetTexels
  <2>1. RowEnd - row \in Nat /\ RowEnd - row <= Height /\ RowEnd - row <= reach
    BY <1>1, <1>2
  <2> QED BY <1>8, <2>1
<1> QED BY <1>7, <1>8, <1>9 DEF reach

-----------------------------------------------------------------------------
(* One region of a pass *)

\* The greatest number of texels in flight stays within the plan.
LEMMA PeakKept ==
    ASSUME BakeAssumption, PlaceInv, PeakInv, NEW p, NEW span \in Nat, Width * span <= workingSetTexels,
           p = peak \/ p = Highest({peak, Width * span})
    PROVE  p \in Nat /\ p <= workingSetTexels
<1> DEFINE c == Width * span
<1>1. peak \in Nat /\ peak <= workingSetTexels
  BY DEF PeakInv
<1>2. c \in Nat
  <2>1. Width \in Nat
    BY InputIs
  <2> QED BY <2>1
<1> HIDE DEF c
<1>3. peak \in Int /\ c \in Int
  BY <1>1, <1>2
<1>4. Highest({peak, c}) = IF peak <= c THEN c ELSE peak
  BY <1>3, Extremes
<1>5. c <= workingSetTexels /\ (p = peak \/ p = Highest({peak, c}))
  BY DEF c
<1> QED BY <1>1, <1>2, <1>4, <1>5

\* What shading a region leaves.
LEMMA ShadeKeeps ==
    ASSUME BakeAssumption, PlaceInv, PeakInv, ScratchInv, ShadeRegion
    PROVE  /\ DOMAIN scratch' = Tile /\ DOMAIN samples' = Tile
           /\ \A t \in Tile :
                /\ scratch'[t] = IF t = tile THEN Held(t, Plain(t), RowEnd) ELSE scratch[t]
                /\ samples'[t] = IF t # tile THEN samples[t]
                                 ELSE IF kind = "field"
                                 THEN {Shaded[t][p] : p \in covered[t] \cap Rows(0, RowEnd)} ELSE {}
           /\ mean' = IF kind # "density" THEN NoMean
                      ELSE MeanTo([t \in Tile |-> IF t = tile THEN RowEnd ELSE Past(t)])
           /\ peak' \in Nat /\ peak' <= workingSetTexels
<1> DEFINE region == Rows(row, RowEnd)
           here == covered[tile] \cap region
           values == Background(tile, region)
           plain == Plain(tile)
<1>1. /\ Width \in Nat \ {0} /\ Height \in Nat \ {0} /\ tile \in Tile /\ row \in 0 .. Height - 1
      /\ RowEnd \in Nat /\ row < RowEnd /\ RowEnd <= Height /\ RowEnd <= row + regionRows
      /\ regionHaloRows \in Nat /\ regionRows \in 1 .. Height
  BY InputIs, PlanIs DEF PlaceInv
<1>2. /\ pass = "shade" /\ DOMAIN scratch = Tile /\ DOMAIN samples = Tile
      /\ Past(tile) = row
      /\ scratch[tile] = Held(tile, plain, row)
      /\ samples[tile] = IF kind = "field" THEN {Shaded[tile][p] : p \in covered[tile] \cap Rows(0, row)} ELSE {}
      /\ mean = IF kind = "density" THEN MeanTo([t \in Tile |-> Past(t)]) ELSE NoMean
  <2>1. pass = "shade"
    BY DEF ShadeRegion
  <2>2. Past(tile) = row
    BY InputIs DEF Past
  <2>3. /\ DOMAIN scratch = Tile /\ DOMAIN samples = Tile
        /\ \A t \in Tile :
            /\ scratch[t] = Held(t, Plain(t), Past(t))
            /\ samples[t] = IF kind = "field" THEN {Shaded[t][p] : p \in covered[t] \cap Rows(0, Past(t))} ELSE {}
        /\ mean = IF kind = "density" THEN MeanTo([t \in Tile |-> Past(t)]) ELSE NoMean
    BY <2>1, Zenon DEF ScratchInv
  <2> QED BY <1>1, <2>1, <2>2, <2>3
<1>3. Turns(values, plain, plain, row, RowEnd)
  <2>1. \A y \in 0 .. Height - 1 : y < RowEnd <=> y < row \/ (row <= y /\ y < RowEnd)
    BY <1>1
  <2>2. ASSUME NEW x \in Column, NEW y \in 0 .. Height - 1, row <= y, y < RowEnd
        PROVE  values[<<x, y>>] = plain[<<x, y>>]
    <3>1. <<x, y>> \in region /\ <<x, y>> \in Texel
      BY <1>1, <2>2 DEF Rows, Texel
    <3> HIDE DEF region
    <3> QED BY <3>1 DEF Plain, Background
  <2> HIDE DEF values, plain
  <2> QED BY <1>1, <2>1, <2>2 DEF Turns
<1>4. Past(tile) = row
  BY <1>2
<1>5. DOMAIN scratch' = Tile
      /\ \A t \in Tile : scratch'[t] = IF t = tile THEN Held(t, plain, RowEnd) ELSE scratch[t]
  <2>1. CASE here = {}
    <3>1. scratch' = scratch
      BY <2>1 DEF ShadeRegion
    <3>2. Held(tile, plain, RowEnd) = Held(tile, plain, row)
      <4> HIDE DEF values, plain
      <4> QED BY <1>2, <1>3, <2>1, NothingStored
    <3> HIDE DEF plain
    <3> QED BY <1>2, <3>1, <3>2
  <2>2. CASE here # {}
    <3>1. scratch' = Written(tile, values, row, RowEnd)
      BY <2>2 DEF ShadeRegion
    <3>2. Written(tile, values, row, RowEnd) = [scratch EXCEPT ![tile] = Held(tile, plain, RowEnd)]
      <4> HIDE DEF values, plain
      <4> QED BY <1>2, <1>3, WrittenRows
    <3> HIDE DEF plain, values
    <3> QED BY <1>1, <1>2, <3>1, <3>2
  <2> QED BY <2>1, <2>2
<1>6. /\ DOMAIN samples' = Tile
      /\ \A t \in Tile :
           samples'[t] = IF t # tile THEN samples[t]
                         ELSE IF kind = "field"
                         THEN {Shaded[t][p] : p \in covered[t] \cap Rows(0, RowEnd)} ELSE {}
  <2> DEFINE below == covered[tile] \cap Rows(0, row)
             upto == covered[tile] \cap Rows(0, RowEnd)
             f == Shaded[tile]
  <2>1. upto = below \cup here
    <3>1. Rows(0, RowEnd) = Rows(0, row) \cup region
      BY <1>1, RowsJoin
    <3> QED BY <3>1
  <2>2. samples' = IF here = {} \/ kind # "field" THEN samples
                   ELSE [samples EXCEPT ![tile] = @ \cup {f[p] : p \in here}]
    BY DEF ShadeRegion
  <2>3. samples[tile] = IF kind = "field" THEN {f[p] : p \in below} ELSE {}
    BY <1>2
  <2> HIDE DEF here, below, f
  <2>4. {f[p] : p \in upto} = {f[p] : p \in below} \cup {f[p] : p \in here}
    BY <2>1
  <2>5. here = {} => {f[p] : p \in upto} = {f[p] : p \in below}
    BY <2>1
  <2> HIDE DEF upto
  <2>6. /\ DOMAIN samples' = Tile
        /\ \A t \in Tile :
             samples'[t] = IF t # tile THEN samples[t]
                           ELSE IF kind = "field" THEN {f[p] : p \in upto} ELSE {}
    BY <1>1, <1>2, <2>2, <2>3, <2>4, <2>5
  <2> QED BY <2>6 DEF upto, f
<1>7. mean' = IF kind # "density" THEN NoMean
              ELSE MeanTo([t \in Tile |-> IF t = tile THEN RowEnd ELSE Past(t)])
  <2> DEFINE before == MeanTo([t \in Tile |-> Past(t)])
             after == MeanTo([t \in Tile |-> IF t = tile THEN RowEnd ELSE Past(t)])
             f == Shaded[tile]
  <2>1. Accumulated(before, f, here) = after /\ (here = {} => Accumulated(before, f, here) = before)
    BY MeanGains, Zenon
  <2>2. mean' = IF here = {} \/ kind # "density" THEN mean ELSE Accumulated(mean, f, here)
    BY DEF ShadeRegion
  <2>3. mean = IF kind = "density" THEN before ELSE NoMean
    BY <1>2
  <2>4. mean' = IF kind # "density" THEN NoMean ELSE after
    <3> HIDE DEF before, after, here, f
    <3> QED BY <2>1, <2>2, <2>3
  <2> QED BY <2>4
<1>8. peak' \in Nat /\ peak' <= workingSetTexels
  <2>1. peak' = peak \/ peak' = Highest({peak, Cardinality(region)})
    BY DEF ShadeRegion, InFlight
  <2>2. Cardinality(region) = Width * (RowEnd - row)
    <3>1. row \in Nat /\ RowEnd \in Nat /\ row <= RowEnd
      BY <1>1
    <3> QED BY <3>1, RowsAre
  <2>3. RowEnd - row \in Nat /\ Width * (RowEnd - row) <= workingSetTexels
    BY <1>1, SpanFits
  <2> QED BY <2>1, <2>2, <2>3, PeakKept
<1> QED BY <1>5, <1>6, <1>7, <1>8

\* What a region of the scratch file reads as.
LEMMA ReadIs ==
    ASSUME BakeAssumption, PlaceInv, NEW f, scratch[tile] = Held(tile, f, Height),
           NEW from \in Nat, NEW to \in Nat, to <= Height
    PROVE  /\ Stores(tile, from, to) <=> covered[tile] \cap Rows(from, to) # {}
           /\ DOMAIN Read(tile, from, to) = Rows(from, to)
           /\ \A x \in Column, y \in from .. to - 1 :
                Read(tile, from, to)[<<x, y>>] = IF y \in CoveredRow(tile) THEN f[<<x, y>>] ELSE 0
<1> DEFINE C == CoveredRow(tile)
           line(y) == [x \in Column |-> f[<<x, y>>]]
           S == {y \in C : y < Height}
           D == DOMAIN scratch[tile]
<1>1. Height \in Nat \ {0} /\ tile \in Tile /\ C \subseteq 0 .. Height - 1 /\ covered[tile] \subseteq Texel
  BY InputIs DEF CoveredRow
<1>2. Held(tile, f, Height) = [y \in S |-> line(y)]
  BY Zenon DEF Held
<1>3. S = C
  <2>1. \A y \in C : y < Height
    BY <1>1
  <2> HIDE DEF C
  <2> QED BY <2>1
<1>4. D = C /\ \A y \in C : scratch[tile][y] = line(y)
  <2>1. scratch[tile] = [y \in S |-> line(y)]
    BY <1>2
  <2> HIDE DEF S, C, line
  <2> QED BY <1>3, <2>1
<1>5. \A y \in from .. to - 1 : y \in 0 .. Height - 1
  BY <1>1
<1>6. Stores(tile, from, to) <=> \E y \in from .. to - 1 : y \in C
  <2>1. Stores(tile, from, to) <=> \E y \in from .. to - 1 : y \in D
    BY Zenon DEF Stores
  <2> HIDE DEF C, D
  <2> QED BY <1>4, <2>1
<1>7. (\E y \in from .. to - 1 : y \in C) <=> covered[tile] \cap Rows(from, to) # {}
  <2>1. ASSUME NEW y \in from .. to - 1, y \in C PROVE covered[tile] \cap Rows(from, to) # {}
    <3>1. PICK x \in Column : <<x, y>> \in covered[tile]
      BY <2>1 DEF CoveredRow
    <3>2. <<x, y>> \in Rows(from, to)
      BY DEF Rows
    <3> QED BY <3>1, <3>2
  <2>2. ASSUME NEW p \in covered[tile] \cap Rows(from, to) PROVE \E y \in from .. to - 1 : y \in C
    <3>1. PICK x \in Column, y \in from .. to - 1 : p = <<x, y>>
      BY DEF Rows
    <3>2. y \in C
      BY <1>5, <3>1 DEF CoveredRow
    <3> QED BY <3>2
  <2> HIDE DEF C
  <2> QED BY <2>1, <2>2
<1>8. \A x \in Column, y \in from .. to - 1 :
          <<x, y>>[1] = x /\ <<x, y>>[2] = y /\ <<x, y>> \in Rows(from, to)
  BY DEF Rows
<1>9. Read(tile, from, to) = [p \in Rows(from, to) |-> IF p[2] \in D THEN scratch[tile][p[2]][p[1]] ELSE 0]
  BY Zenon DEF Read
<1>10. ASSUME NEW x \in Column, NEW y \in from .. to - 1
       PROVE  Read(tile, from, to)[<<x, y>>] = IF y \in C THEN f[<<x, y>>] ELSE 0
  <2>1. Read(tile, from, to)[<<x, y>>] = IF y \in D THEN scratch[tile][y][x] ELSE 0
    <3> HIDE DEF D
    <3> QED BY <1>8, <1>9
  <2>2. y \in C => scratch[tile][y][x] = f[<<x, y>>]
    <3>1. y \in C => scratch[tile][y] = line(y)
      BY <1>4
    <3> HIDE DEF C
    <3> QED BY <3>1
  <2> HIDE DEF C, D
  <2> QED BY <1>4, <2>1, <2>2
<1>11. DOMAIN Read(tile, from, to) = Rows(from, to)
  BY <1>9
<1> HIDE DEF C
<1> QED BY <1>6, <1>7, <1>10, <1>11 DEF C

\* A value of the tile is normalized by what shading gathered as by the whole set.
LEMMA NormalizedSame ==
    ASSUME NEW m, NEW S, NEW m2, NEW S2, NEW v, kind = "density" => m = m2, kind = "field" => S = S2
    PROVE  /\ Normalized(v, m, S) = Normalized(v, m2, S2)
           /\ kind \notin {"density", "field"} => Normalized(v, m, S) = v
BY DEF Normalized

\* What normalizing a region leaves.
LEMMA FinalizeKeeps ==
    ASSUME BakeAssumption, PlaceInv, PeakInv, ScratchInv, FinalizeBand
    PROVE  /\ DOMAIN scratch' = Tile
           /\ \A t \in Tile :
                scratch'[t] = IF t = tile THEN Held(t, Mixed(t, RowEnd), Height) ELSE scratch[t]
           /\ seen' = {Values(tile)[p] : p \in covered[tile] \cap Rows(0, RowEnd)}
           /\ peak' \in Nat /\ peak' <= workingSetTexels
<1> DEFINE region == Rows(row, RowEnd)
           here == covered[tile] \cap region
           shaded == Read(tile, row, RowEnd)
           values == [p \in region |->
                         IF p \in here THEN Normalized(shaded[p], mean, samples[tile]) ELSE shaded[p]]
           f == Mixed(tile, row)
           g == Mixed(tile, RowEnd)
           plain == Plain(tile)
           final == Values(tile)
<1>1. /\ Width \in Nat \ {0} /\ Height \in Nat \ {0} /\ tile \in Tile /\ row \in 0 .. Height - 1
      /\ RowEnd \in Nat /\ row < RowEnd /\ RowEnd <= Height /\ covered[tile] \subseteq Texel
  BY InputIs, PlanIs DEF PlaceInv
<1>2. /\ DOMAIN scratch = Tile /\ scratch[tile] = Held(tile, f, Height)
      /\ seen = {final[p] : p \in covered[tile] \cap Rows(0, row)}
      /\ kind = "density" => mean = WholeMean
      /\ kind = "field" => samples[tile] = Shown(tile)
  <2>1. pass = "finalize"
    BY DEF FinalizeBand
  <2> QED BY <1>1, <2>1, Zenon DEF ScratchInv
<1>3. ASSUME NEW x \in Column, NEW y \in 0 .. Height - 1
      PROVE  /\ <<x, y>> \in Texel
             /\ \A n : Mixed(tile, n)[<<x, y>>] = IF y < n THEN final[<<x, y>>] ELSE plain[<<x, y>>]
             /\ plain[<<x, y>>] = IF <<x, y>> \in covered[tile] THEN Shaded[tile][<<x, y>>] ELSE 0
             /\ final[<<x, y>>] = IF <<x, y>> \in covered[tile]
                                  THEN Normalized(Shaded[tile][<<x, y>>], WholeMean, Shown(tile)) ELSE 0
             /\ <<x, y>> \in covered[tile] => y \in CoveredRow(tile)
  <2>1. <<x, y>> \in Texel /\ <<x, y>>[2] = y
    BY DEF Texel, Rows
  <2>2. \A n : Mixed(tile, n)[<<x, y>>] = IF y < n THEN final[<<x, y>>] ELSE plain[<<x, y>>]
    <3> HIDE DEF final, plain
    <3> QED BY <2>1 DEF Mixed, final, plain
  <2>3. plain[<<x, y>>] = IF <<x, y>> \in covered[tile] THEN Shaded[tile][<<x, y>>] ELSE 0
    BY <2>1 DEF Plain, Background
  <2>4. final[<<x, y>>] = IF <<x, y>> \in covered[tile]
                          THEN Normalized(Shaded[tile][<<x, y>>], WholeMean, Shown(tile)) ELSE 0
    BY <2>1 DEF Values
  <2>5. <<x, y>> \in covered[tile] => y \in CoveredRow(tile)
    BY DEF CoveredRow
  <2> QED BY <2>1, <2>2, <2>3, <2>4, <2>5
<1>4. /\ Stores(tile, row, RowEnd) <=> here # {}
      /\ \A x \in Column, y \in row .. RowEnd - 1 :
             shaded[<<x, y>>] = IF y \in CoveredRow(tile) THEN f[<<x, y>>] ELSE 0
  <2> HIDE DEF f
  <2> QED BY <1>1, <1>2, ReadIs
<1>5. ASSUME NEW x \in Column, NEW y \in row .. RowEnd - 1
      PROVE  /\ <<x, y>> \in region
             /\ values[<<x, y>>] = final[<<x, y>>]
             /\ kind \notin {"density", "field"} => final[<<x, y>>] = plain[<<x, y>>]
  <2> DEFINE p == <<x, y>>
  <2>1. p \in region /\ y \in 0 .. Height - 1 /\ ~(y < row)
    BY <1>1 DEF Rows
  <2>2. /\ shaded[p] = IF y \in CoveredRow(tile) THEN plain[p] ELSE 0
        /\ plain[p] = IF p \in covered[tile] THEN Shaded[tile][p] ELSE 0
        /\ final[p] = IF p \in covered[tile]
                      THEN Normalized(Shaded[tile][p], WholeMean, Shown(tile)) ELSE 0
        /\ p \in covered[tile] => y \in CoveredRow(tile)
    BY <1>3, <1>4, <2>1
  <2>3. p \in here <=> p \in covered[tile]
    BY <2>1
  <2>4. values[p] = IF p \in here THEN Normalized(shaded[p], mean, samples[tile]) ELSE shaded[p]
    BY <2>1
  <2>5. /\ Normalized(Shaded[tile][p], mean, samples[tile])
             = Normalized(Shaded[tile][p], WholeMean, Shown(tile))
        /\ kind \notin {"density", "field"} =>
             Normalized(Shaded[tile][p], WholeMean, Shown(tile)) = Shaded[tile][p]
    BY <1>2, NormalizedSame
  <2> HIDE DEF p, region, here, shaded, values, plain, final
  <2>6. values[p] = final[p] /\ (kind \notin {"density", "field"} => final[p] = plain[p])
    BY <2>2, <2>3, <2>4, <2>5
  <2> QED BY <2>1, <2>6 DEF p
<1>6. Turns(values, f, g, Height, Height)
  <2>1. \A y \in 0 .. Height - 1 : y < Height <=> y < Height \/ (row <= y /\ y < RowEnd)
    BY <1>1
  <2>2. ASSUME NEW x \in Column, NEW y \in 0 .. Height - 1
        PROVE  /\ row <= y /\ y < RowEnd => values[<<x, y>>] = g[<<x, y>>]
               /\ ~(row <= y /\ y < RowEnd) => f[<<x, y>>] = g[<<x, y>>]
    <3>1. /\ f[<<x, y>>] = IF y < row THEN final[<<x, y>>] ELSE plain[<<x, y>>]
          /\ g[<<x, y>>] = IF y < RowEnd THEN final[<<x, y>>] ELSE plain[<<x, y>>]
      BY <1>3
    <3>2. row <= y /\ y < RowEnd => values[<<x, y>>] = final[<<x, y>>]
      <4>1. row <= y /\ y < RowEnd => y \in row .. RowEnd - 1
        BY <1>1
      <4> QED BY <1>5, <4>1
    <3> HIDE DEF values, f, g, final, plain
    <3> QED BY <1>1, <3>1, <3>2
  <2> HIDE DEF values, f, g
  <2> QED BY <1>1, <2>1, <2>2 DEF Turns
<1>7. Held(tile, g, Height) = Held(tile, f, Height) \/ here # {}
  <2> HIDE DEF values, f, g
  <2> QED BY <1>2, <1>6, NothingStored
<1>8. kind \notin {"density", "field"} => Held(tile, g, Height) = Held(tile, f, Height)
  <2>1. SUFFICES ASSUME kind \notin {"density", "field"} PROVE Held(tile, g, Height) = Held(tile, f, Height)
    OBVIOUS
  <2>2. ASSUME NEW y \in CoveredRow(tile) PROVE \A x \in Column : f[<<x, y>>] = g[<<x, y>>]
    <3> TAKE x \in Column
    <3>0. y \in 0 .. Height - 1
      BY DEF CoveredRow
    <3>1. /\ f[<<x, y>>] = IF y < row THEN final[<<x, y>>] ELSE plain[<<x, y>>]
          /\ g[<<x, y>>] = IF y < RowEnd THEN final[<<x, y>>] ELSE plain[<<x, y>>]
      BY <1>3, <3>0
    <3>2. row <= y /\ y < RowEnd => final[<<x, y>>] = plain[<<x, y>>]
      <4>1. row <= y /\ y < RowEnd => y \in row .. RowEnd - 1
        BY <1>1, <3>0
      <4> QED BY <1>5, <2>1, <4>1
    <3> HIDE DEF f, g, final, plain
    <3> QED BY <1>1, <3>0, <3>1, <3>2
  <2> DEFINE line(h, y) == [x \in Column |-> h[<<x, y>>]]
             S == {y \in CoveredRow(tile) : y < Height}
  <2>3. \A y \in S : line(f, y) = line(g, y)
    <3> TAKE y \in S
    <3>1. \A x \in Column : f[<<x, y>>] = g[<<x, y>>]
      BY <2>2
    <3> HIDE DEF f, g
    <3> QED BY <3>1, Zenon
  <2> HIDE DEF f, g
  <2>4. Held(tile, g, Height) = [y \in S |-> line(g, y)] /\ Held(tile, f, Height) = [y \in S |-> line(f, y)]
    BY Zenon DEF Held
  <2> HIDE DEF S, line
  <2> QED BY <2>3, <2>4, Zenon
<1>9. DOMAIN scratch' = Tile
      /\ \A t \in Tile : scratch'[t] = IF t = tile THEN Held(t, g, Height) ELSE scratch[t]
  <2>1. scratch' = IF here = {} \/ kind \notin {"density", "field"} THEN scratch
                   ELSE Written(tile, values, row, RowEnd)
    <3>1. scratch' = IF ~Stores(tile, row, RowEnd) \/ kind \notin {"density", "field"} THEN scratch
                     ELSE Written(tile, values, row, RowEnd)
      BY Zenon DEF FinalizeBand
    <3> HIDE DEF here, values
    <3> QED BY <1>4, <3>1
  <2> HIDE DEF here, values, f, g
  <2>2. Written(tile, values, row, RowEnd) = [scratch EXCEPT ![tile] = Held(tile, g, Height)]
    BY <1>2, <1>6, WrittenRows
  <2> QED BY <1>1, <1>2, <1>7, <1>8, <2>1, <2>2
<1>10. seen' = {final[p] : p \in covered[tile] \cap Rows(0, RowEnd)}
  <2> DEFINE below == covered[tile] \cap Rows(0, row)
             upto == covered[tile] \cap Rows(0, RowEnd)
  <2>1. upto = below \cup here
    <3>1. Rows(0, RowEnd) = Rows(0, row) \cup region
      BY <1>1, RowsJoin
    <3> QED BY <3>1
  <2>2. seen' = IF here = {} THEN seen ELSE seen \cup {values[p] : p \in here}
    <3>1. seen' = IF ~Stores(tile, row, RowEnd) THEN seen ELSE seen \cup {values[p] : p \in here}
      BY Zenon DEF FinalizeBand
    <3> HIDE DEF here, values
    <3> QED BY <1>4, <3>1
  <2>3. \A p \in here : values[p] = final[p]
    <3> TAKE p \in here
    <3>1. PICK x \in Column, y \in row .. RowEnd - 1 : p = <<x, y>>
      BY DEF Rows
    <3> HIDE DEF values, final, here
    <3> QED BY <1>5, <3>1
  <2> HIDE DEF values, final, here, below, upto
  <2>4. {final[p] : p \in upto} = {final[p] : p \in below} \cup {values[p] : p \in here}
    BY <2>1, <2>3
  <2>5. seen = {final[p] : p \in below}
    BY <1>2 DEF below
  <2>6. here = {} => {values[p] : p \in here} = {}
    OBVIOUS
  <2>7. seen' = {final[p] : p \in upto}
    BY <2>2, <2>4, <2>5, <2>6
  <2> QED BY <2>7 DEF upto
<1>11. peak' \in Nat /\ peak' <= workingSetTexels
  <2>1. peak' = peak \/ peak' = Highest({peak, Cardinality(region)})
    BY DEF FinalizeBand, InFlight
  <2>2. Cardinality(region) = Width * (RowEnd - row)
    <3>1. row \in Nat /\ RowEnd \in Nat /\ row <= RowEnd
      BY <1>1
    <3> QED BY <3>1, RowsAre
  <2>3. RowEnd - row \in Nat /\ Width * (RowEnd - row) <= workingSetTexels
    BY <1>1, SpanFits
  <2> QED BY <2>1, <2>2, <2>3, PeakKept
<1> QED BY <1>9, <1>10, <1>11

\* Every row of a window with the region's halo in it, padded, is the image's.
LEMMA WindowPadded ==
    ASSUME BakeAssumption, PlaceInv, scratch[tile] = Held(tile, Values(tile), Height),
           seen = {Values(tile)[p] : p \in covered[tile]}
    PROVE  LET top == Highest({0, row - haloRows})
               bottom == Lowest({Height, RowEnd + haloRows})
               window == Read(tile, top, bottom)
               inside == covered[tile] \cap Rows(top, bottom)
               padded == IF Stores(tile, top, bottom)
                         THEN padBorders(window, inside, kind = "id", radius, PadRange(seen))
                         ELSE [values |-> window, filled |-> {}]
           IN  /\ \A p \in Rows(row, RowEnd) :
                    /\ WholeOf(tile).values[p] = padded.values[p]
                    /\ p \in WholeOf(tile).filled <=> p \in padded.filled
               /\ top \in Nat /\ bottom \in Nat /\ top <= bottom
               /\ Width * (bottom - top) <= workingSetTexels
<1> DEFINE top == Highest({0, row - haloRows})
           bottom == Lowest({Height, RowEnd + haloRows})
           window == Read(tile, top, bottom)
           C == covered[tile]
           inside == C \cap Rows(top, bottom)
           ids == kind = "id"
           range == PadRange(seen)
           padded == IF Stores(tile, top, bottom) THEN padBorders(window, inside, ids, radius, range)
                     ELSE [values |-> window, filled |-> {}]
           final == Values(tile)
<1>1. /\ Width \in Nat \ {0} /\ Height \in Nat \ {0} /\ tile \in Tile /\ row \in 0 .. Height - 1
      /\ RowEnd \in Nat /\ row < RowEnd /\ RowEnd <= Height /\ RowEnd <= row + regionRows
      /\ C \subseteq Texel /\ radius \in Nat /\ regionHaloRows \in Nat /\ 2 * radius <= regionHaloRows
      /\ regionRows \in 1 .. Height
      /\ (regionCount = 1 => RowEnd = Height /\ row = 0)
  BY InputIs, PlanIs DEF PlaceInv
<1>2. haloRows \in Nat /\ (2 * radius <= haloRows \/ (RowEnd = Height /\ row = 0))
      /\ haloRows <= regionHaloRows
  <2>1. haloRows = IF regionCount = 1 THEN 0 ELSE regionHaloRows
    BY DEF haloRows
  <2>2. CASE regionCount = 1
    BY <1>1, <2>1, <2>2
  <2>3. CASE regionCount # 1
    BY <1>1, <2>1, <2>3
  <2> QED BY <2>2, <2>3
<1>3. top = (IF row <= haloRows THEN 0 ELSE row - haloRows)
      /\ bottom = IF Height <= RowEnd + haloRows THEN Height ELSE RowEnd + haloRows
  <2>1. 0 \in Int /\ row - haloRows \in Int /\ Height \in Int /\ RowEnd + haloRows \in Int
    BY <1>1, <1>2
  <2>2. top = IF 0 <= row - haloRows THEN row - haloRows ELSE 0
    BY <2>1, Extremes
  <2>3. bottom = IF Height <= RowEnd + haloRows THEN Height ELSE RowEnd + haloRows
    BY <2>1, Extremes
  <2> HIDE DEF top, bottom
  <2> QED BY <1>1, <1>2, <2>2, <2>3
<1> HIDE DEF top, bottom
<1>4. /\ top \in Nat /\ bottom \in Nat /\ top <= bottom /\ bottom <= Height
      /\ top <= row /\ RowEnd <= bottom
      /\ top = 0 \/ top + 2 * radius <= row
      /\ bottom = Height \/ RowEnd + 2 * radius <= bottom
      /\ bottom - top \in Nat /\ bottom - top <= Height
      /\ bottom - top <= regionRows + 2 * regionHaloRows
  BY <1>1, <1>2, <1>3
<1>5. Width * (bottom - top) <= workingSetTexels
  BY <1>4, SpanFits
<1>6. /\ Stores(tile, top, bottom) <=> inside # {}
      /\ DOMAIN window = Rows(top, bottom)
      /\ \A x \in Column, y \in top .. bottom - 1 :
             window[<<x, y>>] = IF y \in CoveredRow(tile) THEN final[<<x, y>>] ELSE 0
  <2>1. scratch[tile] = Held(tile, final, Height)
    OBVIOUS
  <2> HIDE DEF final, window
  <2> QED BY <1>4, <2>1, ReadIs DEF window
<1>7. \A p \in Rows(top, bottom) : p \in Texel /\ final[p] = window[p]
  <2> TAKE p \in Rows(top, bottom)
  <2>1. PICK x \in Column, y \in top .. bottom - 1 : p = <<x, y>>
    BY DEF Rows
  <2>2. y \in 0 .. Height - 1 /\ p \in Texel
    <3>1. y \in 0 .. Height - 1
      BY <1>1, <1>4
    <3> QED BY <2>1, <3>1 DEF Texel, Rows
  <2>3. p \in C => y \in CoveredRow(tile)
    BY <2>1, <2>2 DEF CoveredRow
  <2>4. p \notin C => final[p] = 0
    BY <2>2 DEF Values
  <2>5. window[p] = IF y \in CoveredRow(tile) THEN final[p] ELSE 0
    BY <1>6, <2>1
  <2> HIDE DEF final, window, C
  <2> QED BY <2>2, <2>3, <2>4, <2>5
<1> DEFINE whole == WholeOf(tile)
<1>8. whole = IF C = {} THEN [values |-> final, filled |-> {}] ELSE padBorders(final, C, ids, radius, range)
  <2>1. seen = {final[p] : p \in C}
    OBVIOUS
  <2>2. whole = IF C = {} THEN [values |-> final, filled |-> {}]
                ELSE padBorders(final, C, ids, radius, PadRange({final[p] : p \in C}))
    BY Zenon DEF WholeOf, Whole, Values, Shown
  <2> QED BY <2>1, <2>2, Zenon
<1>9. DOMAIN final = Texel
  BY DEF Values
<1> HIDE DEF whole, final, window, C, ids, range
<1>10. ASSUME C # {}
       PROVE  padded = padBorders(window, inside, ids, radius, range)
  <2>1. CASE Stores(tile, top, bottom)
    BY <2>1
  <2>2. CASE ~Stores(tile, top, bottom)
    <3>1. inside = {}
      BY <1>6, <2>2
    <3>2. window = [p \in DOMAIN window |-> window[p]]
      BY <1>6, Zenon DEF window, Read
    <3>3. padBorders(window, {}, ids, radius, range) = [values |-> window, filled |-> {}]
      BY <1>1, <3>2, PadNone
    <3> HIDE DEF inside
    <3> QED BY <2>2, <3>1, <3>3
  <2> QED BY <2>1, <2>2
<1>11. ASSUME NEW p \in Rows(row, RowEnd)
       PROVE  whole.values[p] = padded.values[p] /\ (p \in whole.filled <=> p \in padded.filled)
  <2>1. CASE C = {}
    <3>1. whole = [values |-> final, filled |-> {}]
      BY <1>8, <2>1
    <3>2. padded = [values |-> window, filled |-> {}]
      BY <1>6, <2>1
    <3>3. p \in Rows(top, bottom)
      <4>1. \A y \in row .. RowEnd - 1 : y \in top .. bottom - 1
        BY <1>1, <1>4
      <4> QED BY <4>1 DEF Rows
    <3> HIDE DEF padded
    <3> QED BY <1>7, <3>1, <3>2, <3>3
  <2>2. CASE C # {}
    <3> DEFINE b == padBorders(window, inside, ids, radius, range)
               a == padBorders(final, C, ids, radius, range)
    <3>1. whole = a /\ padded = b
      BY <1>8, <1>10, <2>2
    <3>2. \A q \in Rows(row, RowEnd) : a.values[q] = b.values[q] /\ (q \in a.filled <=> q \in b.filled)
      <4>1. WindowOf(window, final, C, radius, top, bottom, row, RowEnd)
        <5>1. row \in Nat /\ \A q \in Rows(top, bottom) : final[q] = window[q]
          BY <1>1, <1>7
        <5> QED BY <1>1, <1>4, <1>6, <1>9, <5>1 DEF WindowOf
      <4>2. SamePadded(a, b, row, RowEnd)
        BY <1>1, <4>1, PadLocal DEF a, b, inside
      <4> QED BY <4>2, Zenon DEF SamePadded
    <3> HIDE DEF a, b, padded
    <3> QED BY <3>1, <3>2
  <2> QED BY <2>1, <2>2
<1>12. /\ \A p \in Rows(row, RowEnd) :
            whole.values[p] = padded.values[p] /\ (p \in whole.filled <=> p \in padded.filled)
       /\ top \in Nat /\ bottom \in Nat /\ top <= bottom
       /\ Width * (bottom - top) <= workingSetTexels
  BY <1>4, <1>5, <1>11
<1> QED BY <1>12, Zenon DEF whole, padded, inside, window, top, bottom, ids, range, C

\* What assembling a region hands to the sink and counts.
LEMMA AssembleKeeps ==
    ASSUME BakeAssumption, PlaceInv, PeakInv, ScratchInv, AssembleRegion,
           DOMAIN emitted = Tile, DOMAIN filled = Tile,
           emitted[tile] = FirstRows(tile, row), filled[tile] = FilledTo(tile, row)
    PROVE  /\ DOMAIN emitted' = Tile /\ DOMAIN filled' = Tile
           /\ \A t \in Tile :
                /\ emitted'[t] = IF t = tile THEN FirstRows(t, RowEnd) ELSE emitted[t]
                /\ filled'[t] = IF t = tile THEN FilledTo(t, RowEnd) ELSE filled[t]
           /\ peak' \in Nat /\ peak' <= workingSetTexels
<1> DEFINE top == Highest({0, row - haloRows})
           bottom == Lowest({Height, RowEnd + haloRows})
           window == Read(tile, top, bottom)
           inside == covered[tile] \cap Rows(top, bottom)
           padded == IF Stores(tile, top, bottom)
                     THEN padBorders(window, inside, kind = "id", radius, PadRange(seen))
                     ELSE [values |-> window, filled |-> {}]
           here == Rows(row, RowEnd)
           more == [i \in 1 .. RowEnd - row |-> [x \in Column |-> padded.values[<<x, row + i - 1>>]]]
           whole == WholeOf(tile)
<1>1. /\ Width \in Nat \ {0} /\ Height \in Nat \ {0} /\ tile \in Tile /\ row \in 0 .. Height - 1
      /\ row \in Nat /\ RowEnd \in Nat /\ row < RowEnd /\ row <= RowEnd /\ RowEnd <= Height
  BY InputIs, PlanIs DEF PlaceInv
<1>2. scratch[tile] = Held(tile, Values(tile), Height) /\ seen = {Values(tile)[p] : p \in covered[tile]}
  <2>1. pass = "assemble"
    BY DEF AssembleRegion
  <2> QED BY <2>1, Zenon DEF ScratchInv
<1>3. /\ \A p \in here : whole.values[p] = padded.values[p] /\ (p \in whole.filled <=> p \in padded.filled)
      /\ top \in Nat /\ bottom \in Nat /\ top <= bottom
      /\ Width * (bottom - top) <= workingSetTexels
  BY <1>2, WindowPadded, Zenon
<1>4. /\ filled' = [filled EXCEPT ![tile] = @ + Cardinality(padded.filled \cap here)]
      /\ emitted' = [emitted EXCEPT ![tile] = @ \o more]
      /\ peak' = Highest({peak, Cardinality(Rows(top, bottom))})
  BY Zenon DEF AssembleRegion, Counted, InFlight
<1> HIDE DEF padded, whole, top, bottom
<1>5. filled[tile] + Cardinality(padded.filled \cap here) = FilledTo(tile, RowEnd)
  <2> DEFINE S == whole.filled
  <2>1. padded.filled \cap here = S \cap here
    BY <1>3
  <2>2. FilledTo(tile, row) = Cardinality(S \cap Rows(0, row))
        /\ FilledTo(tile, RowEnd) = Cardinality(S \cap Rows(0, RowEnd))
    BY DEF FilledTo, whole
  <2> HIDE DEF S
  <2>3. Cardinality(S \cap Rows(0, RowEnd)) = Cardinality(S \cap Rows(0, row)) + Cardinality(S \cap here)
    <3>1. Cardinality(Part(S, 0, RowEnd)) = Cardinality(Part(S, 0, row)) + Cardinality(Part(S, row, RowEnd))
      BY <1>1, CountSplits
    <3> QED BY <3>1, Zenon DEF Part
  <2> QED BY <2>1, <2>2, <2>3
<1>6. emitted[tile] \o more = FirstRows(tile, RowEnd)
  <2> DEFINE L == [i \in 1 .. RowEnd |-> [x \in Column |-> whole.values[<<x, i - 1>>]]]
             s == FirstRows(tile, row)
  <2>1. \A n \in 0 .. RowEnd : FirstRows(tile, n) = [i \in 1 .. n |-> L[i]]
    <3> TAKE n \in 0 .. RowEnd
    <3>1. FirstRows(tile, n) = [i \in 1 .. n |-> [x \in Column |-> whole.values[<<x, i - 1>>]]]
      BY Zenon DEF FirstRows, whole
    <3>2. \A i \in 1 .. n : i \in 1 .. RowEnd
      BY <1>1
    <3>3. \A i \in 1 .. n : L[i] = [x \in Column |-> whole.values[<<x, i - 1>>]]
      BY <3>2, Zenon
    <3> HIDE DEF L
    <3> QED BY <3>1, <3>3, Zenon
  <2>2. more = [i \in 1 .. RowEnd - row |-> L[row + i]]
    <3>1. ASSUME NEW i \in 1 .. RowEnd - row
          PROVE  [x \in Column |-> padded.values[<<x, row + i - 1>>]] = L[row + i]
      <4> DEFINE k == row + i
      <4>1. k \in 1 .. RowEnd /\ k - 1 \in row .. RowEnd - 1 /\ row + i - 1 = k - 1
        BY <1>1
      <4>2. \A x \in Column : <<x, k - 1>> \in here
        BY <4>1 DEF Rows
      <4>3. \A x \in Column : padded.values[<<x, k - 1>>] = whole.values[<<x, k - 1>>]
        <5> HIDE DEF here, k
        <5> QED BY <1>3, <4>2
      <4>4. L[k] = [x \in Column |-> whole.values[<<x, k - 1>>]]
        <5> HIDE DEF k
        <5> QED BY <4>1, Zenon
      <4>5. [x \in Column |-> padded.values[<<x, k - 1>>]] = [x \in Column |-> whole.values[<<x, k - 1>>]]
        <5> HIDE DEF k
        <5> QED BY <4>3, Zenon
      <4>6. [x \in Column |-> padded.values[<<x, row + i - 1>>]] = [x \in Column |-> padded.values[<<x, k - 1>>]]
        BY <4>1
      <4> QED BY <4>4, <4>5, <4>6 DEF k
    <3> HIDE DEF L
    <3> QED BY <3>1, Zenon
  <2>3. s = [i \in 1 .. row |-> L[i]] /\ FirstRows(tile, RowEnd) = [i \in 1 .. RowEnd |-> L[i]]
    <3>1. row \in 0 .. RowEnd /\ RowEnd \in 0 .. RowEnd
      BY <1>1
    <3> HIDE DEF L
    <3> QED BY <2>1, <3>1
  <2>4. s \o more = [i \in 1 .. RowEnd |-> L[i]]
    <3> HIDE DEF L, s, more
    <3> QED BY <1>1, <2>2, <2>3, ListJoins
  <2> QED BY <2>3, <2>4
<1>7. peak' \in Nat /\ peak' <= workingSetTexels
  <2>1. Cardinality(Rows(top, bottom)) = Width * (bottom - top)
    BY <1>3, RowsAre
  <2>2. bottom - top \in Nat
    BY <1>3
  <2> QED BY <1>3, <1>4, <2>1, <2>2, PeakKept
<1> HIDE DEF more
<1>8. /\ DOMAIN emitted' = Tile /\ DOMAIN filled' = Tile
      /\ \A t \in Tile :
           /\ emitted'[t] = IF t = tile THEN FirstRows(t, RowEnd) ELSE emitted[t]
           /\ filled'[t] = IF t = tile THEN FilledTo(t, RowEnd) ELSE filled[t]
  BY <1>1, <1>4, <1>5, <1>6
<1> QED BY <1>7, <1>8

-----------------------------------------------------------------------------
(* The bake, pass by pass *)

\* The inductive invariant of a bake.
BakeInv == PlaceInv /\ PeakInv /\ OutInv /\ ScratchInv

\* Where a pass begins and where it ends.
LEMMA PassEnds ==
    ASSUME BakeAssumption, PlaceInv, NEW t \in Tile
    PROVE  /\ Mixed(t, 0) = Plain(t) /\ Mixed(t, Height) = Values(t)
           /\ covered[t] \cap Rows(0, Height) = covered[t] /\ covered[t] \cap Rows(0, 0) = {}
           /\ \A f : Held(t, f, 0) = [y \in {} |-> 0]
           /\ FirstRows(t, 0) = <<>> /\ FilledTo(t, 0) = 0
<1>1. Height \in Nat \ {0} /\ covered[t] \subseteq Texel
  BY InputIs
<1>2. \A p \in Texel : p[2] \in 0 .. Height - 1
  BY DEF Texel, Rows
<1> DEFINE v == Values(t)
           b == Plain(t)
<1>3. v = [p \in Texel |-> v[p]] /\ b = [p \in Texel |-> b[p]]
  BY Zenon DEF Values, Plain, Background
<1> HIDE DEF v, b
<1>4. \A n : Mixed(t, n) = [p \in Texel |-> IF p[2] < n THEN v[p] ELSE b[p]]
  BY Zenon DEF Mixed, v, b
<1>5. Mixed(t, 0) = b /\ Mixed(t, Height) = v
  <2>1. \A p \in Texel : ~(p[2] < 0) /\ p[2] < Height
    BY <1>1, <1>2
  <2>2. [p \in Texel |-> IF p[2] < 0 THEN v[p] ELSE b[p]] = [p \in Texel |-> b[p]]
        /\ [p \in Texel |-> IF p[2] < Height THEN v[p] ELSE b[p]] = [p \in Texel |-> v[p]]
    BY <2>1, Zenon
  <2>3. Mixed(t, 0) = [p \in Texel |-> IF p[2] < 0 THEN v[p] ELSE b[p]]
        /\ Mixed(t, Height) = [p \in Texel |-> IF p[2] < Height THEN v[p] ELSE b[p]]
    BY Zenon DEF Mixed, v, b
  <2> QED BY <1>3, <2>2, <2>3
<1>6. covered[t] \cap Rows(0, Height) = covered[t]
  BY <1>1 DEF Texel
<1>7. Rows(0, 0) = {}
  BY DEF Rows
<1>8. ASSUME NEW f PROVE Held(t, f, 0) = [y \in {} |-> 0]
  <2>1. {y \in CoveredRow(t) : y < 0} = {}
    BY <1>1 DEF CoveredRow
  <2>2. Held(t, f, 0) = [y \in {y \in CoveredRow(t) : y < 0} |-> [x \in Column |-> f[<<x, y>>]]]
    BY Zenon DEF Held
  <2>3. Held(t, f, 0) = [y \in {} |-> [x \in Column |-> f[<<x, y>>]]]
    BY <2>1, <2>2
  <2> QED BY <2>3
<1>9. FirstRows(t, 0) = <<>>
  BY DEF FirstRows
<1>10. FilledTo(t, 0) = 0
  <2>1. WholeOf(t).filled \cap Rows(0, 0) = {}
    BY <1>7
  <2> QED BY <2>1, FS_EmptySet DEF FilledTo
<1> QED BY <1>5, <1>6, <1>7, <1>8, <1>9, <1>10 DEF v, b

\* A bake begins in it, and each of its steps keeps it.
LEMMA InitBake == ASSUME BakeAssumption, Init PROVE BakeInv
<1>1. covered \in Coverages /\ radius \in Radii /\ bound \in Bounds /\ kind \in Kinds
      /\ pass = (IF regionCount = 1 /\ Tiles = 1 THEN "memory" ELSE "shade") /\ tile = 1 /\ row = 0
      /\ mean = NoMean /\ seen = {} /\ peak = 0 /\ report = {}
      /\ scratch = [t \in Tile |-> [y \in {} |-> 0]] /\ samples = [t \in Tile |-> {}]
      /\ emitted = [t \in Tile |-> <<>>] /\ filled = [t \in Tile |-> 0]
  BY Zenon DEF Init
<1>2. Height \in Nat \ {0} /\ Tile = 1 .. Tiles /\ Tiles \in Nat \ {0}
  <2>1. Height \in Nat \ {0} /\ covered \in Seq(SUBSET Texel) /\ covered # <<>>
    BY <1>1 DEF BakeAssumption
  <2> DEFINE S == SUBSET Texel
  <2>2. covered \in Seq(S)
    BY <2>1
  <2> HIDE DEF S
  <2>3. Len(covered) \in Nat /\ DOMAIN covered = 1 .. Len(covered) /\ Len(covered) # 0
    BY <2>1, <2>2, LenProperties, EmptySeq
  <2> QED BY <2>1, <2>3 DEF Tile, Tiles
<1>3. PlaceInv /\ PeakInv
  <2>1. PlaceInv
    BY <1>1, <1>2 DEF PlaceInv
  <2>2. workingSetTexels \in Nat
    BY <2>1, SpanFits
  <2> QED BY <1>1, <2>1, <2>2 DEF PeakInv
<1>4. \A t \in Tile : Past(t) = 0
  BY <1>1, <1>2 DEF Past
<1>5. OutInv
  <2>1. ASSUME NEW t \in Tile
        PROVE  emitted[t] = FirstRows(t, 0) /\ filled[t] = FilledTo(t, 0) /\ Out(t) = 0 /\ 0 \in 0 .. Height
    BY <1>1, <1>2, <1>3, PassEnds DEF Out
  <2>2. DOMAIN emitted = Tile /\ DOMAIN filled = Tile
    BY <1>1
  <2> QED BY <2>1, <2>2, Zenon DEF OutInv
<1>6. ScratchInv
  <2>1. pass \in {"memory", "shade"} /\ DOMAIN scratch = Tile /\ DOMAIN samples = Tile
        /\ \A t \in Tile : DOMAIN scratch[t] \subseteq 0 .. Height - 1
    BY <1>1
  <2>2. ASSUME NEW t \in Tile
        PROVE  /\ scratch[t] = Held(t, Plain(t), Past(t))
               /\ samples[t] = IF kind = "field" THEN {Shaded[t][p] : p \in covered[t] \cap Rows(0, Past(t))} ELSE {}
    <3>1. covered[t] \cap Rows(0, Past(t)) = {} /\ Held(t, Plain(t), Past(t)) = [y \in {} |-> 0]
      BY <1>3, <1>4, PassEnds
    <3>2. {Shaded[t][p] : p \in covered[t] \cap Rows(0, Past(t))} = {}
      BY <3>1
    <3> QED BY <1>1, <3>1, <3>2
  <2>3. mean = IF kind = "density" THEN MeanTo([t \in Tile |-> Past(t)]) ELSE NoMean
    <3> DEFINE u == [t \in Tile |-> Past(t)]
    <3>1. \A t \in Tile : u[t] = 0
      BY <1>4
    <3> HIDE DEF u
    <3>2. MeanTo(u) = NoMean
      BY <1>3, <3>1, MeanOfNone
    <3> QED BY <1>1, <3>2 DEF u
  <2>4. pass # "finalize" /\ pass # "assemble"
    BY <2>1
  <2> QED BY <1>1, <2>1, <2>2, <2>3, <2>4, Zenon DEF ScratchInv
<1> QED BY <1>3, <1>5, <1>6 DEF BakeInv

\* The place after a region.
LEMMA PlaceNext ==
    ASSUME BakeAssumption, PlaceInv, NEW a, NEW b, NEW c \in Tile, UNCHANGED inputVars, GoTo(a, b, c)
    PROVE  /\ \/ RowEnd < Height /\ row' = RowEnd /\ pass' = pass /\ tile' = tile
              \/ RowEnd = Height /\ tile < Tiles /\ row' = 0 /\ pass' = a /\ tile' = tile + 1
              \/ RowEnd = Height /\ tile = Tiles /\ row' = 0 /\ pass' = b /\ tile' = c
           /\ tile' \in Tile' /\ row' \in 0 .. Height - 1 /\ (regionCount' = 1 => row' = 0)
           /\ covered' \in Coverages /\ radius' \in Radii /\ bound' \in Bounds /\ kind' \in Kinds
<1>1. /\ Height \in Nat \ {0} /\ Tile = 1 .. Tiles /\ tile \in 1 .. Tiles /\ Tiles \in Nat
      /\ RowEnd \in Nat /\ RowEnd <= Height /\ row < RowEnd /\ row \in 0 .. Height - 1
      /\ (regionCount = 1 => RowEnd = Height)
  BY InputIs, PlanIs DEF PlaceInv
<1>2. Tile' = Tile /\ regionCount' = regionCount
  BY InputSame
<1>3. \/ RowEnd < Height /\ row' = RowEnd /\ pass' = pass /\ tile' = tile
      \/ RowEnd = Height /\ tile < Tiles /\ row' = 0 /\ pass' = a /\ tile' = tile + 1
      \/ RowEnd = Height /\ tile = Tiles /\ row' = 0 /\ pass' = b /\ tile' = c
  BY <1>1 DEF GoTo
<1>4. tile' \in Tile' /\ row' \in 0 .. Height - 1 /\ (regionCount' = 1 => row' = 0)
  BY <1>1, <1>2, <1>3
<1>5. covered' \in Coverages /\ radius' \in Radii /\ bound' \in Bounds /\ kind' \in Kinds
  BY DEF inputVars, PlaceInv
<1> QED BY <1>3, <1>4, <1>5

\* Rows handed over stay so.
LEMMA OutStays ==
    ASSUME BakeAssumption, BakeInv, UNCHANGED <<inputVars, emitted, filled>>,
           pass' # "stopped" => \A t \in Tile : Out(t)' = Out(t), pass # "stopped" \/ pass' = "stopped"
    PROVE  OutInv'
<1>1. Tile' = Tile /\ emitted' = emitted /\ filled' = filled
      /\ \A t, n : FirstRows(t, n)' = FirstRows(t, n) /\ FilledTo(t, n)' = FilledTo(t, n)
  BY InputSame
<1>2. DOMAIN emitted = Tile /\ DOMAIN filled = Tile
  BY DEF BakeInv, OutInv
<1>3. ASSUME NEW t \in Tile
      PROVE  \E n \in 0 .. Height : /\ emitted'[t] = FirstRows(t, n)' /\ filled'[t] = FilledTo(t, n)'
                                    /\ pass' # "stopped" => n = Out(t)'
  <2>1. PICK n \in 0 .. Height : /\ emitted[t] = FirstRows(t, n) /\ filled[t] = FilledTo(t, n)
                                 /\ pass # "stopped" => n = Out(t)
    BY DEF BakeInv, OutInv
  <2>2. emitted'[t] = FirstRows(t, n)' /\ filled'[t] = FilledTo(t, n)'
        /\ (pass' # "stopped" => n = Out(t)')
    BY <1>1, <2>1
  <2> QED BY <2>2
<1> QED BY <1>1, <1>2, <1>3, Zenon DEF OutInv

\* A bake that is cancelled, or whose disk or sink fails.
LEMMA StopBake == ASSUME BakeAssumption, BakeInv, Stops PROVE BakeInv'
<1>1. /\ UNCHANGED <<inputVars, tile, row, scratch, mean, samples, seen, emitted, filled, peak>>
      /\ pass' = "stopped" /\ report' = {}
  BY DEF Stops
<1>2. UNCHANGED inputVars /\ UNCHANGED <<inputVars, emitted, filled>>
  BY <1>1
<1>3. Tile' = Tile /\ regionCount' = regionCount /\ workingSetTexels' = workingSetTexels
  BY <1>2, InputSame
<1>4. PlaceInv /\ PeakInv /\ ScratchInv
  BY DEF BakeInv
<1>5. PlaceInv'
  BY <1>1, <1>3, <1>4 DEF PlaceInv, inputVars
<1>6. PeakInv'
  BY <1>1, <1>3, <1>4 DEF PeakInv
<1>7. OutInv'
  BY <1>1, <1>2, OutStays
<1>8. ScratchInv'
  <2>1. /\ DOMAIN scratch = Tile /\ DOMAIN samples = Tile
        /\ \A t \in Tile : DOMAIN scratch[t] \subseteq 0 .. Height - 1
    BY <1>4, Zenon DEF ScratchInv
  <2>2. /\ DOMAIN scratch' = Tile' /\ DOMAIN samples' = Tile'
        /\ \A t \in Tile' : DOMAIN scratch'[t] \subseteq 0 .. Height - 1
    BY <1>1, <1>3, <2>1
  <2>3. pass' # "shade" /\ pass' \notin {"finalize", "assemble"} /\ pass' # "finalize" /\ pass' # "assemble"
    BY <1>1
  <2> QED BY <2>2, <2>3, Zenon DEF ScratchInv
<1> QED BY <1>5, <1>6, <1>7, <1>8 DEF BakeInv

LEMMA StillBake == ASSUME BakeAssumption, BakeInv, UNCHANGED vars PROVE BakeInv'
<1>1. /\ UNCHANGED inputVars /\ UNCHANGED <<inputVars, emitted, filled>>
      /\ pass' = pass /\ tile' = tile /\ row' = row /\ scratch' = scratch /\ mean' = mean
      /\ samples' = samples /\ seen' = seen /\ peak' = peak /\ report' = report
  BY DEF vars, placeVars
<1>2. /\ Tile' = Tile /\ Tiles' = Tiles /\ WholeMean' = WholeMean
      /\ regionCount' = regionCount /\ workingSetTexels' = workingSetTexels
      /\ \A t : Values(t)' = Values(t) /\ Plain(t)' = Plain(t) /\ Shown(t)' = Shown(t)
      /\ \A t, n : Mixed(t, n)' = Mixed(t, n)
      /\ \A t, f, n : Held(t, f, n)' = Held(t, f, n)
      /\ \A u : MeanTo(u)' = MeanTo(u)
  BY <1>1, InputSame
<1>3. covered' = covered /\ radius' = radius /\ bound' = bound /\ kind' = kind
  BY <1>1 DEF inputVars
<1>4. PlaceInv /\ PeakInv /\ ScratchInv
  BY DEF BakeInv
<1>5. PlaceInv'
  BY <1>1, <1>2, <1>3, <1>4 DEF PlaceInv
<1>6. PeakInv'
  BY <1>1, <1>2, <1>4 DEF PeakInv
<1>7. \A t : Past(t)' = Past(t) /\ Out(t)' = Out(t)
  BY <1>1, Zenon DEF Past, Out
<1>8. OutInv'
  <2>1. pass # "stopped" \/ pass' = "stopped"
    BY <1>1
  <2> QED BY <1>1, <1>7, <2>1, OutStays
<1>9. ScratchInv'
  BY <1>1, <1>2, <1>3, <1>4, <1>7, Zenon DEF ScratchInv
<1> QED BY <1>5, <1>6, <1>8, <1>9 DEF BakeInv

\* A scratch file holds rows of the tile.
LEMMA HeldWithin ==
    ASSUME NEW t, NEW f, NEW n PROVE DOMAIN Held(t, f, n) \subseteq 0 .. Height - 1
BY DEF Held, CoveredRow

\* The three passes of RegionedBaker.
LEMMA ShadeBake == ASSUME BakeAssumption, BakeInv, ShadeRegion PROVE BakeInv'
<1>1. PlaceInv /\ PeakInv /\ ScratchInv
  BY DEF BakeInv
<1>2. /\ pass = "shade" /\ GoTo("shade", "finalize", 1)
      /\ UNCHANGED inputVars /\ UNCHANGED <<inputVars, emitted, filled>>
      /\ seen' = seen /\ report' = report
  BY DEF ShadeRegion
<1>3. /\ Height \in Nat \ {0} /\ Tile = 1 .. Tiles /\ Tiles \in Nat \ {0} /\ tile \in 1 .. Tiles
      /\ row \in 0 .. Height - 1 /\ RowEnd \in Nat
  BY <1>1, InputIs, PlanIs
<1>4. /\ \/ RowEnd < Height /\ row' = RowEnd /\ pass' = pass /\ tile' = tile
         \/ RowEnd = Height /\ tile < Tiles /\ row' = 0 /\ pass' = "shade" /\ tile' = tile + 1
         \/ RowEnd = Height /\ tile = Tiles /\ row' = 0 /\ pass' = "finalize" /\ tile' = 1
      /\ tile' \in Tile' /\ row' \in 0 .. Height - 1 /\ (regionCount' = 1 => row' = 0)
      /\ covered' \in Coverages /\ radius' \in Radii /\ bound' \in Bounds /\ kind' \in Kinds
  <2>1. 1 \in Tile
    BY <1>3
  <2> QED BY <1>1, <1>2, <2>1, PlaceNext
<1>5. /\ DOMAIN scratch' = Tile /\ DOMAIN samples' = Tile
      /\ \A t \in Tile :
           /\ scratch'[t] = IF t = tile THEN Held(t, Plain(t), RowEnd) ELSE scratch[t]
           /\ samples'[t] = IF t # tile THEN samples[t]
                            ELSE IF kind = "field"
                            THEN {Shaded[t][p] : p \in covered[t] \cap Rows(0, RowEnd)} ELSE {}
      /\ mean' = IF kind # "density" THEN NoMean
                 ELSE MeanTo([t \in Tile |-> IF t = tile THEN RowEnd ELSE Past(t)])
      /\ peak' \in Nat /\ peak' <= workingSetTexels
  BY <1>1, ShadeKeeps, Zenon
<1>6. /\ Tile' = Tile /\ Tiles' = Tiles /\ WholeMean' = WholeMean
      /\ regionCount' = regionCount /\ workingSetTexels' = workingSetTexels
      /\ \A t : Values(t)' = Values(t) /\ Plain(t)' = Plain(t) /\ Shown(t)' = Shown(t)
      /\ \A t, n : Mixed(t, n)' = Mixed(t, n)
      /\ \A t, f, n : Held(t, f, n)' = Held(t, f, n)
      /\ \A u : MeanTo(u)' = MeanTo(u)
  BY <1>2, InputSame
<1>7. covered' = covered /\ kind' = kind
  BY <1>2 DEF inputVars
<1>8. PlaceInv'
  <2>1. report = {}
    BY <1>1, <1>2 DEF PlaceInv
  <2>2. pass' = "shade" \/ pass' = "finalize"
    BY <1>2, <1>4
  <2> QED BY <1>2, <1>4, <2>1, <2>2 DEF PlaceInv
<1>9. PeakInv'
  BY <1>5, <1>6 DEF PeakInv
<1>10. OutInv'
  <2>1. pass' = "shade" \/ (pass' = "finalize" /\ tile' = 1)
    BY <1>2, <1>4
  <2>2. \A t \in Tile : Out(t) = 0 /\ Out(t)' = 0
    BY <1>2, <1>3, <2>1 DEF Out
  <2>3. pass # "stopped"
    BY <1>2
  <2> QED BY <1>2, <2>2, <2>3, OutStays
<1> DEFINE upto(t) == IF t = tile THEN RowEnd ELSE Past(t)
<1>11. ASSUME NEW t \in Tile
       PROVE  /\ pass' = "shade" => Past(t)' = upto(t)
              /\ pass' = "finalize" => upto(t) = Height
  BY <1>2, <1>3, <1>4 DEF Past
<1>12. ASSUME NEW t \in Tile
       PROVE  /\ scratch'[t] = Held(t, Plain(t), upto(t))
              /\ samples'[t] = IF kind = "field" THEN {Shaded[t][p] : p \in covered[t] \cap Rows(0, upto(t))}
                               ELSE {}
  <2>1. /\ scratch[t] = Held(t, Plain(t), Past(t))
        /\ samples[t] = IF kind = "field" THEN {Shaded[t][p] : p \in covered[t] \cap Rows(0, Past(t))} ELSE {}
    BY <1>1, <1>2, Zenon DEF ScratchInv
  <2>2. CASE t = tile
    BY <1>5, <2>2
  <2>3. CASE t # tile
    BY <1>5, <2>1, <2>3
  <2> QED BY <2>2, <2>3
<1> DEFINE u == [t \in Tile |-> upto(t)]
<1>13. mean' = IF kind = "density" THEN MeanTo(u) ELSE NoMean
  BY <1>5
<1>14. seen' = {}
  BY <1>1, <1>2, Zenon DEF ScratchInv
<1>15. \A t \in Tile : DOMAIN scratch'[t] \subseteq 0 .. Height - 1
  BY <1>12, HeldWithin
<1> HIDE DEF upto
<1>16. ASSUME pass' = "shade"
       PROVE  /\ \A t \in Tile :
                    /\ scratch'[t] = Held(t, Plain(t), Past(t))'
                    /\ samples'[t] = IF kind' = "field"
                                     THEN {Shaded[t][p] : p \in covered'[t] \cap Rows(0, Past(t)')} ELSE {}
              /\ mean' = IF kind' = "density" THEN MeanTo([t \in Tile |-> Past(t)])' ELSE NoMean
  <2>1. \A t \in Tile : Past(t)' = upto(t)
    BY <1>11, <1>16
  <2>2. \A t \in Tile : scratch'[t] = Held(t, Plain(t), Past(t))'
    BY <1>6, <1>12, <2>1
  <2>3. \A t \in Tile : samples'[t] = IF kind' = "field"
                                      THEN {Shaded[t][p] : p \in covered'[t] \cap Rows(0, Past(t)')} ELSE {}
    BY <1>7, <1>12, <2>1
  <2>4. [t \in Tile |-> Past(t)]' = u
    BY <1>6, <2>1, Zenon
  <2>5. MeanTo([t \in Tile |-> Past(t)])' = MeanTo(u)
    BY <1>6, <2>4
  <2> QED BY <1>7, <1>13, <2>2, <2>3, <2>5
<1>17. ASSUME pass' = "finalize"
       PROVE  /\ \A t \in Tile :
                    /\ scratch'[t] = Held(t, Plain(t), Height)'
                    /\ kind' = "field" => samples'[t] = Shown(t)'
              /\ kind' = "density" => mean' = WholeMean'
              /\ scratch'[tile'] = Held(tile, Mixed(tile, row), Height)'
              /\ seen' = {Values(tile)[p] : p \in covered[tile] \cap Rows(0, row)}'
              /\ tile' \in Tile
  <2>1. \A t \in Tile : upto(t) = Height
    BY <1>11, <1>17
  <2>2. \A t \in Tile : scratch'[t] = Held(t, Plain(t), Height)'
    BY <1>6, <1>12, <2>1
  <2>3. \A t \in Tile : kind' = "field" => samples'[t] = Shown(t)'
    <3> TAKE t \in Tile
    <3>1. covered[t] \cap Rows(0, upto(t)) = covered[t]
      BY <1>1, <2>1, PassEnds
    <3>2. kind = "field" => samples'[t] = {Shaded[t][p] : p \in covered[t]}
      BY <1>12, <3>1
    <3>3. Shown(t) = {Shaded[t][p] : p \in covered[t]}
      BY Zenon DEF Shown
    <3> QED BY <1>6, <1>7, <3>2, <3>3
  <2>4. kind' = "density" => mean' = WholeMean'
    <3>1. \A t \in Tile : u[t] = Height
      BY <2>1
    <3> HIDE DEF u
    <3>2. MeanTo(u) = WholeMean
      BY <1>1, <3>1, MeanOfAll
    <3> QED BY <1>6, <1>7, <1>13, <3>2
  <2>5. tile' = 1 /\ row' = 0 /\ 1 \in Tile
    BY <1>2, <1>3, <1>4, <1>17
  <2>6. Mixed(1, 0) = Plain(1) /\ covered[1] \cap Rows(0, 0) = {}
    BY <1>1, <2>5, PassEnds
  <2>7. scratch'[tile'] = Held(tile, Mixed(tile, row), Height)'
    BY <1>6, <2>2, <2>5, <2>6
  <2>8. seen' = {Values(tile)[p] : p \in covered[tile] \cap Rows(0, row)}'
    <3>1. covered'[tile'] \cap Rows(0, row') = {}
      BY <1>7, <2>5, <2>6
    <3> QED BY <1>14, <3>1
  <2> QED BY <2>2, <2>3, <2>4, <2>5, <2>7, <2>8
<1>18. ScratchInv'
  <2>1. pass' = "shade" \/ pass' = "finalize"
    BY <1>2, <1>4
  <2>2. DOMAIN scratch' = Tile' /\ DOMAIN samples' = Tile'
        /\ \A t \in Tile' : DOMAIN scratch'[t] \subseteq 0 .. Height - 1
    BY <1>5, <1>6, <1>15
  <2>3. CASE pass' = "shade"
    <3>1. pass' # "finalize" /\ pass' # "assemble" /\ pass' \notin {"finalize", "assemble"}
      BY <2>3
    <3> QED BY <1>6, <1>14, <1>16, <2>2, <2>3, <3>1, Zenon DEF ScratchInv
  <2>4. CASE pass' = "finalize"
    <3>1. pass' # "shade" /\ pass' # "assemble"
      BY <2>4
    <3> QED BY <1>6, <1>17, <2>2, <2>4, <3>1, Zenon DEF ScratchInv
  <2> QED BY <2>1, <2>3, <2>4
<1> QED BY <1>8, <1>9, <1>10, <1>18 DEF BakeInv

LEMMA FinalizeBake == ASSUME BakeAssumption, BakeInv, FinalizeBand PROVE BakeInv'
<1>1. PlaceInv /\ PeakInv /\ ScratchInv
  BY DEF BakeInv
<1>2. /\ pass = "finalize" /\ tile' = tile
      /\ UNCHANGED inputVars /\ UNCHANGED <<inputVars, emitted, filled>>
      /\ mean' = mean /\ samples' = samples /\ report' = report
      /\ IF RowEnd < Height THEN row' = RowEnd /\ pass' = pass ELSE row' = 0 /\ pass' = "assemble"
  BY DEF FinalizeBand
<1>3. /\ Height \in Nat \ {0} /\ Tile = 1 .. Tiles /\ Tiles \in Nat \ {0} /\ tile \in 1 .. Tiles
      /\ tile \in Tile /\ row \in 0 .. Height - 1 /\ RowEnd \in Nat /\ RowEnd <= Height /\ row < RowEnd
      /\ (regionCount = 1 => RowEnd = Height)
  BY <1>1, InputIs, PlanIs
<1>4. \/ RowEnd < Height /\ row' = RowEnd /\ pass' = "finalize"
      \/ RowEnd = Height /\ row' = 0 /\ pass' = "assemble"
  BY <1>2, <1>3
<1>5. /\ DOMAIN scratch' = Tile
      /\ \A t \in Tile :
           scratch'[t] = IF t = tile THEN Held(t, Mixed(t, RowEnd), Height) ELSE scratch[t]
      /\ seen' = {Values(tile)[p] : p \in covered[tile] \cap Rows(0, RowEnd)}
      /\ peak' \in Nat /\ peak' <= workingSetTexels
  BY <1>1, FinalizeKeeps, Zenon
<1>6. /\ Tile' = Tile /\ Tiles' = Tiles /\ WholeMean' = WholeMean
      /\ regionCount' = regionCount /\ workingSetTexels' = workingSetTexels
      /\ \A t : Values(t)' = Values(t) /\ Plain(t)' = Plain(t) /\ Shown(t)' = Shown(t)
      /\ \A t, n : Mixed(t, n)' = Mixed(t, n)
      /\ \A t, f, n : Held(t, f, n)' = Held(t, f, n)
  BY <1>2, InputSame
<1>7. covered' = covered /\ kind' = kind /\ radius' = radius /\ bound' = bound
  BY <1>2 DEF inputVars
<1>8. PlaceInv'
  <2>1. report = {}
    BY <1>1, <1>2 DEF PlaceInv
  <2>2. covered \in Coverages /\ radius \in Radii /\ bound \in Bounds /\ kind \in Kinds
    BY <1>1 DEF PlaceInv
  <2> QED BY <1>2, <1>3, <1>4, <1>6, <1>7, <2>1, <2>2 DEF PlaceInv
<1>9. PeakInv'
  BY <1>5, <1>6 DEF PeakInv
<1>10. OutInv'
  <2>1. \A t \in Tile : Out(t)' = Out(t)
    BY <1>2, <1>3, <1>4 DEF Out, Past
  <2>2. pass # "stopped"
    BY <1>2
  <2> QED BY <1>2, <2>1, <2>2, OutStays
<1>11. /\ \A t \in Tile : tile < t => scratch[t] = Held(t, Plain(t), Height)
       /\ kind = "density" => mean = WholeMean
       /\ kind = "field" => \A t \in Tile : samples[t] = Shown(t)
       /\ DOMAIN samples = Tile
       /\ \A t \in Tile : DOMAIN scratch[t] \subseteq 0 .. Height - 1
  <2>1. pass \in {"finalize", "assemble"}
    BY <1>2
  <2> QED BY <1>1, <2>1, Zenon DEF ScratchInv
<1>12. /\ \A t \in Tile' : tile' < t => scratch'[t] = Held(t, Plain(t), Height)'
       /\ kind' = "density" => mean' = WholeMean'
       /\ kind' = "field" => \A t \in Tile' : samples'[t] = Shown(t)'
       /\ DOMAIN scratch' = Tile' /\ DOMAIN samples' = Tile'
       /\ \A t \in Tile' : DOMAIN scratch'[t] \subseteq 0 .. Height - 1
  <2>1. \A t \in Tile : tile < t => t # tile
    BY <1>3
  <2>2. \A t \in Tile' : tile' < t => scratch'[t] = Held(t, Plain(t), Height)'
    BY <1>2, <1>5, <1>6, <1>11, <2>1
  <2>3. \A t \in Tile' : DOMAIN scratch'[t] \subseteq 0 .. Height - 1
    BY <1>5, <1>6, <1>11, HeldWithin
  <2> QED BY <1>2, <1>5, <1>6, <1>7, <1>11, <2>2, <2>3
<1>13. ASSUME pass' = "finalize"
       PROVE  /\ scratch'[tile'] = Held(tile, Mixed(tile, row), Height)'
              /\ seen' = {Values(tile)[p] : p \in covered[tile] \cap Rows(0, row)}'
  <2>1. row' = RowEnd
    BY <1>4, <1>13
  <2> QED BY <1>2, <1>3, <1>5, <1>6, <1>7, <2>1
<1>14. ASSUME pass' = "assemble"
       PROVE  /\ scratch'[tile'] = Held(tile, Values(tile), Height)'
              /\ seen' = {Values(tile)[p] : p \in covered[tile]}'
  <2>1. RowEnd = Height
    BY <1>4, <1>14
  <2>2. Mixed(tile, RowEnd) = Values(tile) /\ covered[tile] \cap Rows(0, RowEnd) = covered[tile]
    BY <1>1, <1>3, <2>1, PassEnds
  <2> QED BY <1>2, <1>3, <1>5, <1>6, <1>7, <2>2
<1>15. ScratchInv'
  <2>1. pass' # "shade"
    BY <1>4
  <2> QED BY <1>12, <1>13, <1>14, <2>1, Zenon DEF ScratchInv
<1> QED BY <1>8, <1>9, <1>10, <1>15 DEF BakeInv

LEMMA AssembleBake == ASSUME BakeAssumption, BakeInv, AssembleRegion PROVE BakeInv'
<1>1. PlaceInv /\ PeakInv /\ ScratchInv /\ OutInv
  BY DEF BakeInv
<1>2. /\ pass = "assemble" /\ GoTo("finalize", "done", Tiles) /\ UNCHANGED inputVars
      /\ scratch' = scratch /\ mean' = mean /\ samples' = samples
      /\ seen' = (IF RowEnd < Height THEN seen ELSE {})
      /\ report' = IF pass' = "done" THEN Tile ELSE report
  BY DEF AssembleRegion
<1>3. /\ Height \in Nat \ {0} /\ Tile = 1 .. Tiles /\ Tiles \in Nat \ {0} /\ tile \in 1 .. Tiles
      /\ tile \in Tile /\ row \in 0 .. Height - 1 /\ RowEnd \in Nat /\ RowEnd <= Height /\ row < RowEnd
      /\ Tiles \in Tile
  BY <1>1, InputIs, PlanIs
<1>4. /\ \/ RowEnd < Height /\ row' = RowEnd /\ pass' = pass /\ tile' = tile
         \/ RowEnd = Height /\ tile < Tiles /\ row' = 0 /\ pass' = "finalize" /\ tile' = tile + 1
         \/ RowEnd = Height /\ tile = Tiles /\ row' = 0 /\ pass' = "done" /\ tile' = Tiles
      /\ tile' \in Tile' /\ row' \in 0 .. Height - 1 /\ (regionCount' = 1 => row' = 0)
      /\ covered' \in Coverages /\ radius' \in Radii /\ bound' \in Bounds /\ kind' \in Kinds
  BY <1>1, <1>2, <1>3, PlaceNext
<1>5. /\ DOMAIN emitted = Tile /\ DOMAIN filled = Tile
      /\ \A t \in Tile : emitted[t] = FirstRows(t, Past(t)) /\ filled[t] = FilledTo(t, Past(t))
  <2>1. \A t : Out(t) = Past(t)
    BY <1>2 DEF Out
  <2>2. pass # "stopped"
    BY <1>2
  <2> QED BY <1>1, <2>1, <2>2 DEF OutInv
<1>6. Past(tile) = row
  BY <1>3 DEF Past
<1>7. /\ DOMAIN emitted' = Tile /\ DOMAIN filled' = Tile
      /\ \A t \in Tile :
           /\ emitted'[t] = IF t = tile THEN FirstRows(t, RowEnd) ELSE emitted[t]
           /\ filled'[t] = IF t = tile THEN FilledTo(t, RowEnd) ELSE filled[t]
      /\ peak' \in Nat /\ peak' <= workingSetTexels
  <2>1. emitted[tile] = FirstRows(tile, row) /\ filled[tile] = FilledTo(tile, row)
    BY <1>3, <1>5, <1>6
  <2> QED BY <1>1, <1>5, <2>1, AssembleKeeps, Zenon
<1>8. /\ Tile' = Tile /\ Tiles' = Tiles /\ WholeMean' = WholeMean
      /\ regionCount' = regionCount /\ workingSetTexels' = workingSetTexels
      /\ \A t : Values(t)' = Values(t) /\ Plain(t)' = Plain(t) /\ Shown(t)' = Shown(t)
      /\ \A t, n : /\ Mixed(t, n)' = Mixed(t, n) /\ FirstRows(t, n)' = FirstRows(t, n)
                   /\ FilledTo(t, n)' = FilledTo(t, n)
      /\ \A t, f, n : Held(t, f, n)' = Held(t, f, n)
  BY <1>2, InputSame
<1>9. covered' = covered /\ kind' = kind
  BY <1>2 DEF inputVars
<1>10. pass' \in {"assemble", "finalize", "done"}
  BY <1>2, <1>4
<1>11. PlaceInv'
  <2>1. report' = IF pass' = "done" THEN Tile' ELSE {}
    BY <1>1, <1>2, <1>8 DEF PlaceInv
  <2> QED BY <1>4, <1>10, <2>1 DEF PlaceInv
<1>12. PeakInv'
  BY <1>7, <1>8 DEF PeakInv
<1>13. OutInv'
  <2>1. ASSUME NEW t \in Tile
        PROVE  /\ Out(t)' = (IF t = tile THEN RowEnd ELSE Past(t)) /\ Out(t)' \in 0 .. Height
    BY <1>2, <1>3, <1>4 DEF Out, Past
  <2>2. ASSUME NEW t \in Tile
        PROVE  \E n \in 0 .. Height : /\ emitted'[t] = FirstRows(t, n)' /\ filled'[t] = FilledTo(t, n)'
                                      /\ pass' # "stopped" => n = Out(t)'
    <3>0. PICK n : n = Out(t)'
      OBVIOUS
    <3>1. n \in 0 .. Height /\ n = IF t = tile THEN RowEnd ELSE Past(t)
      BY <2>1, <3>0
    <3>2. emitted'[t] = FirstRows(t, n) /\ filled'[t] = FilledTo(t, n)
      BY <1>5, <1>7, <3>1
    <3>3. emitted'[t] = FirstRows(t, n)' /\ filled'[t] = FilledTo(t, n)'
      BY <1>8, <3>2
    <3> QED BY <3>0, <3>1, <3>3
  <2> QED BY <1>7, <1>8, <2>2, Zenon DEF OutInv
<1>14. /\ \A t \in Tile : tile < t => scratch[t] = Held(t, Plain(t), Height)
       /\ kind = "density" => mean = WholeMean
       /\ kind = "field" => \A t \in Tile : samples[t] = Shown(t)
       /\ scratch[tile] = Held(tile, Values(tile), Height)
       /\ seen = {Values(tile)[p] : p \in covered[tile]}
       /\ DOMAIN scratch = Tile /\ DOMAIN samples = Tile
       /\ \A t \in Tile : DOMAIN scratch[t] \subseteq 0 .. Height - 1
  <2>1. pass \in {"finalize", "assemble"}
    BY <1>2
  <2> QED BY <1>1, <1>2, <2>1, Zenon DEF ScratchInv
<1>15. /\ \A t \in Tile' : tile' < t => scratch'[t] = Held(t, Plain(t), Height)'
       /\ kind' = "density" => mean' = WholeMean'
       /\ kind' = "field" => \A t \in Tile' : samples'[t] = Shown(t)'
       /\ DOMAIN scratch' = Tile' /\ DOMAIN samples' = Tile'
       /\ \A t \in Tile' : DOMAIN scratch'[t] \subseteq 0 .. Height - 1
  <2>1. \A t \in Tile : tile' < t => tile < t
    BY <1>3, <1>4
  <2>2. \A t \in Tile' : tile' < t => scratch'[t] = Held(t, Plain(t), Height)'
    BY <1>2, <1>8, <1>14, <2>1
  <2> QED BY <1>2, <1>8, <1>9, <1>14, <2>2
<1>16. ASSUME pass' = "finalize"
       PROVE  /\ scratch'[tile'] = Held(tile, Mixed(tile, row), Height)'
              /\ seen' = {Values(tile)[p] : p \in covered[tile] \cap Rows(0, row)}'
  <2>1. RowEnd = Height /\ tile' = tile + 1 /\ row' = 0 /\ tile' \in Tile /\ tile < tile'
    BY <1>2, <1>3, <1>4, <1>8, <1>16
  <2>0. PICK k \in Tile : k = tile'
    BY <2>1
  <2>2. Mixed(k, 0) = Plain(k) /\ covered[k] \cap Rows(0, 0) = {}
    BY <1>1, PassEnds
  <2>3. scratch'[tile'] = Held(tile, Mixed(tile, row), Height)'
    <3>1. scratch[k] = Held(k, Plain(k), Height)
      BY <1>14, <2>0, <2>1
    <3> QED BY <1>2, <1>8, <2>0, <2>1, <2>2, <3>1
  <2>4. seen' = {}
    BY <1>2, <1>3, <2>1
  <2>5. covered'[tile'] \cap Rows(0, row') = {}
    BY <1>9, <2>0, <2>1, <2>2
  <2> QED BY <2>3, <2>4, <2>5
<1>17. ASSUME pass' = "assemble"
       PROVE  /\ scratch'[tile'] = Held(tile, Values(tile), Height)'
              /\ seen' = {Values(tile)[p] : p \in covered[tile]}'
  <2>1. RowEnd < Height /\ tile' = tile
    BY <1>4, <1>17
  <2> QED BY <1>2, <1>8, <1>9, <1>14, <2>1
<1>18. ScratchInv'
  <2>1. pass' # "shade"
    BY <1>10
  <2> QED BY <1>15, <1>16, <1>17, <2>1, Zenon DEF ScratchInv
<1> QED BY <1>11, <1>12, <1>13, <1>18 DEF BakeInv

\* All that a whole tile fills is in its rows.
LEMMA WholeWithin ==
    ASSUME BakeAssumption, PlaceInv, NEW t \in Tile
    PROVE  WholeOf(t).filled \cap Rows(0, Height) = WholeOf(t).filled
<1> DEFINE v == Values(t)
           C == covered[t]
           ids == kind = "id"
           range == PadRange({v[p] : p \in C})
<1>1. C \subseteq Texel /\ radius \in Nat /\ DOMAIN v = Texel
  BY InputIs DEF Values
<1>2. WholeOf(t) = IF C = {} THEN [values |-> v, filled |-> {}] ELSE padBorders(v, C, ids, radius, range)
  BY Zenon DEF WholeOf, Whole, Values, Shown
<1> HIDE DEF v, C, ids, range
<1>3. padBorders(v, C, ids, radius, range).filled \subseteq Texel
  BY <1>1, PadWithin
<1>4. WholeOf(t).filled \subseteq Texel
  BY <1>2, <1>3
<1>5. Texel = Rows(0, Height)
  BY Zenon DEF Texel
<1> QED BY <1>4, <1>5

\* A bake that fits in memory, without a scratch file.
LEMMA MemoryBake == ASSUME BakeAssumption, BakeInv, BakeInMemory PROVE BakeInv'
<1>1. PlaceInv /\ PeakInv /\ ScratchInv /\ OutInv
  BY DEF BakeInv
<1>2. /\ pass = "memory" /\ pass' = "done" /\ UNCHANGED inputVars
      /\ tile' = tile /\ row' = row /\ scratch' = scratch /\ samples' = samples /\ report' = Tile
      /\ InFlight(Width * Height)
  BY DEF BakeInMemory
<1>3. /\ regionCount = 1 /\ Tiles = 1 /\ Tile = 1 .. 1 /\ tile = 1 /\ tile \in Tile /\ row = 0
      /\ RowEnd = Height /\ Height \in Nat \ {0}
  <2>1. regionCount = 1 /\ Tiles = 1
    BY <1>1, <1>2 DEF PlaceInv
  <2> QED BY <1>1, <2>1, InputIs, PlanIs
<1>4. /\ Tile' = Tile /\ regionCount' = regionCount /\ workingSetTexels' = workingSetTexels
      /\ \A t, n : FirstRows(t, n)' = FirstRows(t, n) /\ FilledTo(t, n)' = FilledTo(t, n)
  BY <1>2, InputSame
<1>5. Accumulated(NoMean, Shaded[tile], covered[tile]) = WholeMean
  <2> DEFINE before == [t \in Tile |-> Past(t)]
             after == [t \in Tile |-> IF t = tile THEN RowEnd ELSE Past(t)]
             here == covered[tile] \cap Rows(row, RowEnd)
  <2>1. (\A t \in Tile : before[t] = 0) /\ \A t \in Tile : after[t] = Height
    BY <1>3 DEF Past
  <2>2. here = covered[tile]
    BY <1>1, <1>3, PassEnds
  <2>3. Accumulated(MeanTo(before), Shaded[tile], here) = MeanTo(after)
    BY <1>1, MeanGains, Zenon
  <2> HIDE DEF before, after, here
  <2>4. MeanTo(before) = NoMean /\ MeanTo(after) = WholeMean
    BY <1>1, <2>1, MeanOfNone, MeanOfAll
  <2> QED BY <2>2, <2>3, <2>4
<1>6. /\ emitted' = [emitted EXCEPT ![tile] = FirstRows(tile, Height)]
      /\ filled' = [filled EXCEPT ![tile] = FilledTo(tile, Height)]
  <2> DEFINE whole == WholeOf(tile)
  <2>1. /\ emitted' = [emitted EXCEPT ![tile] =
              [y \in 1 .. Height |-> [x \in Column |-> Whole(tile, WholeMean).values[<<x, y - 1>>]]]]
        /\ filled' = [filled EXCEPT ![tile] = Cardinality(Whole(tile, WholeMean).filled)]
    BY <1>5 DEF BakeInMemory
  <2>2. FirstRows(tile, Height) =
            [y \in 1 .. Height |-> [x \in Column |-> Whole(tile, WholeMean).values[<<x, y - 1>>]]]
    BY Zenon DEF FirstRows, WholeOf
  <2>3. FilledTo(tile, Height) = Cardinality(Whole(tile, WholeMean).filled)
    <3>1. WholeOf(tile).filled \cap Rows(0, Height) = WholeOf(tile).filled
      BY <1>1, <1>3, WholeWithin
    <3> QED BY <3>1, Zenon DEF FilledTo, WholeOf
  <2> QED BY <2>1, <2>2, <2>3
<1>7. PlaceInv'
  <2>1. covered \in Coverages /\ radius \in Radii /\ bound \in Bounds /\ kind \in Kinds
    BY <1>1 DEF PlaceInv
  <2>2. covered' = covered /\ radius' = radius /\ bound' = bound /\ kind' = kind
    BY <1>2 DEF inputVars
  <2> QED BY <1>2, <1>3, <1>4, <2>1, <2>2 DEF PlaceInv
<1>8. PeakInv'
  <2>1. Width * Height <= workingSetTexels
    BY <1>1, <1>3, SpanFits
  <2>2. peak' = Highest({peak, Width * Height})
    BY <1>2 DEF InFlight
  <2>3. peak' \in Nat /\ peak' <= workingSetTexels
    BY <1>1, <1>3, <2>1, <2>2, PeakKept
  <2> QED BY <1>4, <2>3 DEF PeakInv
<1>9. OutInv'
  <2>1. DOMAIN emitted = Tile /\ DOMAIN filled = Tile
    BY <1>1 DEF OutInv
  <2>2. ASSUME NEW t \in Tile
        PROVE  \E n \in 0 .. Height : /\ emitted'[t] = FirstRows(t, n)' /\ filled'[t] = FilledTo(t, n)'
                                      /\ pass' # "stopped" => n = Out(t)'
    <3>1. t = tile /\ Height \in 0 .. Height
      BY <1>3
    <3>2. emitted'[t] = FirstRows(t, Height) /\ filled'[t] = FilledTo(t, Height)
      BY <1>3, <1>6, <2>1, <3>1
    <3>3. Out(t)' = Height
      BY <1>2 DEF Out
    <3>4. PICK n : n = Height
      OBVIOUS
    <3>5. emitted'[t] = FirstRows(t, n)' /\ filled'[t] = FilledTo(t, n)'
      BY <1>4, <3>2, <3>4
    <3> QED BY <3>1, <3>3, <3>4, <3>5
  <2>3. DOMAIN emitted' = Tile' /\ DOMAIN filled' = Tile'
    BY <1>4, <1>6, <2>1
  <2> QED BY <1>4, <2>2, <2>3, Zenon DEF OutInv
<1>10. ScratchInv'
  <2>1. /\ DOMAIN scratch = Tile /\ DOMAIN samples = Tile
        /\ \A t \in Tile : DOMAIN scratch[t] \subseteq 0 .. Height - 1
    BY <1>1, Zenon DEF ScratchInv
  <2>2. /\ DOMAIN scratch' = Tile' /\ DOMAIN samples' = Tile'
        /\ \A t \in Tile' : DOMAIN scratch'[t] \subseteq 0 .. Height - 1
    BY <1>2, <1>4, <2>1
  <2>3. pass' # "shade" /\ pass' \notin {"finalize", "assemble"} /\ pass' # "finalize" /\ pass' # "assemble"
    BY <1>2
  <2> QED BY <2>2, <2>3, Zenon DEF ScratchInv
<1> QED BY <1>7, <1>8, <1>9, <1>10 DEF BakeInv

LEMMA StepBake == ASSUME BakeAssumption, BakeInv, [Next]_vars PROVE BakeInv'
<1>1. CASE BakeInMemory
  BY <1>1, MemoryBake
<1>2. CASE ShadeRegion
  BY <1>2, ShadeBake
<1>3. CASE FinalizeBand
  BY <1>3, FinalizeBake
<1>4. CASE AssembleRegion
  BY <1>4, AssembleBake
<1>5. CASE Stops
  BY <1>5, StopBake
<1>6. CASE UNCHANGED vars
  BY <1>6, StillBake
<1> QED BY <1>1, <1>2, <1>3, <1>4, <1>5, <1>6 DEF Next

\* The first elements of a list.
LEMMA RowsTaken ==
    ASSUME NEW L, NEW h \in Nat, NEW n \in 0 .. h
    PROVE  /\ SubSeq([i \in 1 .. h |-> L[i]], 1, n) = [i \in 1 .. n |-> L[i]]
           /\ Len([i \in 1 .. n |-> L[i]]) = n
<1> DEFINE S == {L[i] : i \in 1 .. h}
           w == [i \in 1 .. h |-> L[i]]
           v == [i \in 1 .. n |-> L[i]]
           c == SubSeq(w, 1, n)
<1>1. \A i \in 1 .. h : L[i] \in S /\ w[i] = L[i]
  OBVIOUS
<1>2. \A i \in 1 .. n : i \in 1 .. h /\ v[i] = L[i]
  OBVIOUS
<1> HIDE DEF S, w
<1>3. v \in Seq(S) /\ Len(v) = n
  BY <1>1, <1>2
<1>4. c \in Seq(S) /\ Len(c) = (IF 1 <= n THEN n - 1 + 1 ELSE 0)
      /\ \A i \in 1 .. n - 1 + 1 : c[i] = w[1 + i - 1]
  <2>1. 1 \in Int /\ n \in Int /\ \A i \in 1 .. n : w[i] \in S
    BY <1>1, <1>2
  <2> QED BY <2>1, SubSeqProperties
<1> HIDE DEF c, v
<1>5. Len(c) = n
  BY <1>4
<1>6. \A i \in 1 .. Len(c) : c[i] = v[i]
  <2> TAKE i \in 1 .. Len(c)
  <2>1. i \in 1 .. n /\ i \in 1 .. n - 1 + 1 /\ 1 + i - 1 = i
    BY <1>5
  <2> QED BY <1>1, <1>2, <1>4, <2>1
<1>7. c = v
  BY <1>3, <1>4, <1>5, <1>6, SeqEqual
<1> QED BY <1>3, <1>7 DEF c, v, w

\* What the invariant says of the rows, the counts and the working set.
LEMMA BakeIsWhole ==
    ASSUME BakeAssumption, BakeInv
    PROVE  TypeOK /\ RowsOfTheWholeBake /\ ReportOfTheWholeBake /\ WorkingSetKept
<1>1. PlaceInv /\ PeakInv /\ ScratchInv /\ OutInv
  BY DEF BakeInv
<1>2. Height \in Nat \ {0}
  BY <1>1, InputIs
<1>3. ASSUME NEW t \in Tile
      PROVE  \E n \in 0 .. Height :
               /\ emitted[t] = FirstRows(t, n) /\ filled[t] = FilledTo(t, n)
               /\ pass # "stopped" => n = Out(t)
               /\ SubSeq(WholeRows(t), 1, n) = emitted[t] /\ Len(emitted[t]) = n
  <2>1. PICK n \in 0 .. Height : /\ emitted[t] = FirstRows(t, n) /\ filled[t] = FilledTo(t, n)
                                 /\ pass # "stopped" => n = Out(t)
    BY <1>1 DEF OutInv
  <2> DEFINE v == WholeOf(t).values
             L == [i \in 1 .. Height |-> [x \in Column |-> v[<<x, i - 1>>]]]
  <2>2. WholeRows(t) = [i \in 1 .. Height |-> L[i]]
    <3>1. WholeRows(t) = L
      BY Zenon DEF WholeRows, WholeOf
    <3>2. L = [i \in 1 .. Height |-> L[i]]
      OBVIOUS
    <3> QED BY <3>1, <3>2, Zenon
  <2>3. FirstRows(t, n) = [i \in 1 .. n |-> L[i]]
    <3>1. FirstRows(t, n) = [i \in 1 .. n |-> [x \in Column |-> v[<<x, i - 1>>]]]
      BY Zenon DEF FirstRows
    <3>2. \A i \in 1 .. n : i \in 1 .. Height
      BY <1>2
    <3>3. \A i \in 1 .. n : L[i] = [x \in Column |-> v[<<x, i - 1>>]]
      BY <3>2, Zenon
    <3> HIDE DEF L, v
    <3> QED BY <3>1, <3>3, Zenon
  <2> HIDE DEF L
  <2>4. SubSeq(WholeRows(t), 1, n) = emitted[t] /\ Len(emitted[t]) = n
    BY <1>2, <2>1, <2>2, <2>3, RowsTaken
  <2> QED BY <2>1, <2>4
<1>4. RowsOfTheWholeBake
  <2>1. ASSUME NEW t \in Tile PROVE emitted[t] = SubSeq(WholeRows(t), 1, Len(emitted[t]))
    BY <1>3
  <2> QED BY <2>1, Zenon DEF RowsOfTheWholeBake
<1>5. ReportOfTheWholeBake
  <2>1. ASSUME report # {}, NEW t \in Tile
        PROVE  filled[t] = Cardinality(Whole(t, WholeMean).filled) /\ Len(emitted[t]) = Height
    <3>1. pass = "done"
      BY <1>1, <2>1 DEF PlaceInv
    <3>2. Out(t) = Height
      BY <3>1 DEF Out
    <3>3. filled[t] = FilledTo(t, Height) /\ Len(emitted[t]) = Height
      BY <1>3, <3>1, <3>2
    <3>4. WholeOf(t).filled \cap Rows(0, Height) = WholeOf(t).filled
      BY <1>1, WholeWithin
    <3>5. FilledTo(t, Height) = Cardinality(Whole(t, WholeMean).filled)
      BY <3>4, Zenon DEF FilledTo, WholeOf
    <3> QED BY <3>3, <3>5
  <2> QED BY <2>1, Zenon DEF ReportOfTheWholeBake
<1>6. WorkingSetKept
  <2>1. workingSetTexels \in Nat /\ bound \in Nat /\ peak \in Nat /\ peak <= workingSetTexels
    BY <1>1, SpanFits, InputIs DEF PeakInv
  <2> QED BY <2>1 DEF WorkingSetKept, boundReached
<1>7. TypeOK
  <2>1. ASSUME NEW t \in Tile PROVE Len(emitted[t]) <= Height /\ filled[t] \in Nat
    <3>1. PICK n \in 0 .. Height : filled[t] = FilledTo(t, n) /\ Len(emitted[t]) = n
      BY <1>3
    <3>2. FilledTo(t, n) \in Nat
      <4> DEFINE S == WholeOf(t).filled
      <4>1. IsFiniteSet(Rows(0, n))
        <5>1. n \in Nat /\ 0 \in Nat /\ 0 <= n
          OBVIOUS
        <5> QED BY <5>1, RowsAre
      <4> HIDE DEF S
      <4>2. Cardinality(S \cap Rows(0, n)) \in Nat
        BY <4>1, FS_Intersection, FS_CardinalityType
      <4> QED BY <4>2 DEF S, FilledTo
    <3> QED BY <1>2, <3>1, <3>2
  <2>2. \A t \in Tile : DOMAIN scratch[t] \subseteq 0 .. Height - 1
    BY <1>1, Zenon DEF ScratchInv
  <2>3. /\ pass \in {"memory", "shade", "finalize", "assemble", "done", "stopped"}
        /\ tile \in Tile /\ row \in 0 .. Height - 1 /\ report \in {{}, Tile}
    BY <1>1 DEF PlaceInv
  <2> QED BY <2>1, <2>2, <2>3 DEF TypeOK
<1> QED BY <1>4, <1>5, <1>6, <1>7

\* A bake in regions is the whole bake: whatever the width and height, the tiles, the
\* padding radius and the bound on the working set, the sink of bakeRegions() is handed
\* the rows that a bake of the whole tile would make, the report counts what that fills,
\* and no more texels are in flight than the plan says (bake.cpp, RegionedBaker).
THEOREM RegionsWhole ==
    ASSUME BakeAssumption
    PROVE  Spec => [](TypeOK /\ RowsOfTheWholeBake /\ ReportOfTheWholeBake /\ WorkingSetKept)
<1>1. Init => BakeInv
  BY InitBake
<1>2. BakeInv /\ [Next]_vars => BakeInv'
  BY StepBake
<1>3. BakeInv => TypeOK /\ RowsOfTheWholeBake /\ ReportOfTheWholeBake /\ WorkingSetKept
  BY BakeIsWhole
<1> QED BY <1>1, <1>2, <1>3, PTL DEF Spec

-----------------------------------------------------------------------------
(* The framing of the bridge *)

\* The first elements of a sequence, and those after them.
LEMMA TakeSkip ==
    ASSUME NEW S, NEW s \in Seq(S), NEW k \in 0 .. Len(s)
    PROVE  /\ Frames!Take(s, k) \in Seq(S) /\ Len(Frames!Take(s, k)) = k /\ \A i \in 1 .. k : Frames!Take(s, k)[i] = s[i]
           /\ Frames!Skip(s, k) \in Seq(S) /\ Len(Frames!Skip(s, k)) = Len(s) - k
           /\ \A i \in 1 .. Len(s) - k : Frames!Skip(s, k)[i] = s[k + i]
           /\ Frames!Take(s, k) \o Frames!Skip(s, k) = s
<1>1. Len(s) \in Nat /\ k \in Nat /\ k <= Len(s)
  BY LenProperties
<1>2. \A i \in 1 .. Len(s) : s[i] \in S
  BY ElementOfSeq
<1>3. Frames!Take(s, k) \in Seq(S) /\ Len(Frames!Take(s, k)) = k /\ \A i \in 1 .. k : Frames!Take(s, k)[i] = s[i]
  <2>1. \A i \in 1 .. k : s[i] \in S
    BY <1>1, <1>2
  <2>2. /\ SubSeq(s, 1, k) \in Seq(S) /\ Len(SubSeq(s, 1, k)) = IF 1 <= k THEN k - 1 + 1 ELSE 0
        /\ \A i \in 1 .. k - 1 + 1 : SubSeq(s, 1, k)[i] = s[1 + i - 1]
    BY <1>1, <2>1, SubSeqProperties
  <2> QED BY <1>1, <2>2 DEF Frames!Take
<1>4. /\ Frames!Skip(s, k) \in Seq(S) /\ Len(Frames!Skip(s, k)) = Len(s) - k
      /\ \A i \in 1 .. Len(s) - k : Frames!Skip(s, k)[i] = s[k + i]
  <2>1. \A i \in k + 1 .. Len(s) : s[i] \in S
    BY <1>1, <1>2
  <2>2. /\ SubSeq(s, k + 1, Len(s)) \in Seq(S)
        /\ Len(SubSeq(s, k + 1, Len(s))) = IF k + 1 <= Len(s) THEN Len(s) - (k + 1) + 1 ELSE 0
        /\ \A i \in 1 .. Len(s) - (k + 1) + 1 : SubSeq(s, k + 1, Len(s))[i] = s[(k + 1) + i - 1]
    BY <1>1, <2>1, SubSeqProperties
  <2> QED BY <1>1, <2>2 DEF Frames!Skip
<1>5. Frames!Take(s, k) \o Frames!Skip(s, k) = s
  <2>1. k \in 1 - 1 .. Len(s) /\ Len(s) \in k .. Len(s) /\ 1 \in 1 .. Len(s) + 1
    BY <1>1
  <2>2. SubSeq(s, 1, k) \o SubSeq(s, k + 1, Len(s)) = SubSeq(s, 1, Len(s))
    BY <2>1, ConcatAdjacentSubSeq
  <2> QED BY <2>2, SubSeqFull DEF Frames!Take, Frames!Skip
<1> QED BY <1>3, <1>4, <1>5

\* What follows a prefix of the first of two sequences.
LEMMA SkipConcat ==
    ASSUME NEW S, NEW s \in Seq(S), NEW t \in Seq(S), NEW k \in 0 .. Len(s)
    PROVE  Frames!Skip(s, k) \o t = Frames!Skip(s \o t, k)
<1>1. Len(s) \in Nat /\ Len(t) \in Nat /\ Len(s \o t) = Len(s) + Len(t) /\ s \o t \in Seq(S)
  BY LenProperties, ConcatProperties
<1>2. k \in 0 .. Len(s \o t)
  BY <1>1
<1>3. /\ Frames!Skip(s, k) \in Seq(S) /\ Len(Frames!Skip(s, k)) = Len(s) - k
      /\ \A i \in 1 .. Len(s) - k : Frames!Skip(s, k)[i] = s[k + i]
  BY TakeSkip
<1>4. /\ Frames!Skip(s \o t, k) \in Seq(S) /\ Len(Frames!Skip(s \o t, k)) = Len(s) + Len(t) - k
      /\ \A i \in 1 .. Len(s) + Len(t) - k : Frames!Skip(s \o t, k)[i] = (s \o t)[k + i]
  <2>1. /\ Frames!Skip(s \o t, k) \in Seq(S) /\ Len(Frames!Skip(s \o t, k)) = Len(s \o t) - k
        /\ \A i \in 1 .. Len(s \o t) - k : Frames!Skip(s \o t, k)[i] = (s \o t)[k + i]
    BY <1>1, <1>2, TakeSkip, ZenonT(60)
  <2> QED BY <1>1, <2>1
<1>5. /\ Frames!Skip(s, k) \o t \in Seq(S) /\ Len(Frames!Skip(s, k) \o t) = Len(s) - k + Len(t)
      /\ \A i \in 1 .. Len(s) - k + Len(t) :
            (Frames!Skip(s, k) \o t)[i] = IF i <= Len(s) - k THEN Frames!Skip(s, k)[i] ELSE t[i - (Len(s) - k)]
  <2>1. /\ Frames!Skip(s, k) \o t \in Seq(S) /\ Len(Frames!Skip(s, k) \o t) = Len(Frames!Skip(s, k)) + Len(t)
        /\ \A i \in 1 .. Len(Frames!Skip(s, k)) + Len(t) :
              (Frames!Skip(s, k) \o t)[i] =
                IF i <= Len(Frames!Skip(s, k)) THEN Frames!Skip(s, k)[i] ELSE t[i - Len(Frames!Skip(s, k))]
    BY <1>3, ConcatProperties
  <2> QED BY <1>3, <2>1
<1>6. \A i \in 1 .. Len(s) + Len(t) :
        (s \o t)[i] = IF i <= Len(s) THEN s[i] ELSE t[i - Len(s)]
  BY ConcatProperties
<1>7. ASSUME NEW i \in 1 .. Len(s) - k + Len(t) PROVE (Frames!Skip(s, k) \o t)[i] = Frames!Skip(s \o t, k)[i]
  <2>1. CASE i <= Len(s) - k
    <3>1. i \in 1 .. Len(s) - k /\ k + i \in 1 .. Len(s) + Len(t) /\ k + i <= Len(s)
          /\ i \in 1 .. Len(s) + Len(t) - k
      BY <1>1, <2>1
    <3>2. (Frames!Skip(s, k) \o t)[i] = s[k + i]
      BY <1>3, <1>5, <2>1, <3>1
    <3>3. Frames!Skip(s \o t, k)[i] = s[k + i]
      BY <1>4, <1>6, <3>1
    <3> QED BY <3>2, <3>3
  <2>2. CASE ~(i <= Len(s) - k)
    <3>1. k + i \in 1 .. Len(s) + Len(t) /\ ~(k + i <= Len(s)) /\ i - (Len(s) - k) = k + i - Len(s)
          /\ i \in 1 .. Len(s) + Len(t) - k
      BY <1>1, <2>2
    <3>2. (Frames!Skip(s, k) \o t)[i] = t[k + i - Len(s)]
      BY <1>5, <2>2, <3>1
    <3>3. Frames!Skip(s \o t, k)[i] = t[k + i - Len(s)]
      BY <1>4, <1>6, <3>1
    <3> QED BY <3>2, <3>3
  <2> QED BY <2>1, <2>2
<1>8. Len(Frames!Skip(s, k) \o t) = Len(Frames!Skip(s \o t, k))
  BY <1>1, <1>4, <1>5
<1>9. \A i \in 1 .. Len(Frames!Skip(s, k) \o t) : (Frames!Skip(s, k) \o t)[i] = Frames!Skip(s \o t, k)[i]
  BY <1>5, <1>7
<1> QED BY <1>4, <1>5, <1>8, <1>9, SeqEqual

-----------------------------------------------------------------------------
\* The bytes of a length, shifted out one by one.
LEMMA ShiftedIs ==
    ASSUME Frames!StreamAssumption, NEW n \in Nat
    PROVE  /\ Frames!Shifted(n) \in [0 .. HeaderBytes -> Nat] /\ Frames!Shifted(n)[0] = n
           /\ \A j \in 1 .. HeaderBytes : Frames!Shifted(n)[j] = Frames!Shifted(n)[j - 1] \div Radix
<1>1. HeaderBytes \in Nat /\ Radix \in Nat \ {0}
  BY DEF Frames!StreamAssumption
<1> DEFINE Drops(f, k) == /\ f \in [0 .. k -> Nat] /\ f[0] = n
                          /\ \A j \in 1 .. k : f[j] = f[j - 1] \div Radix
           S == {k \in Nat : \E f : Drops(f, k)}
<1>2. 0 \in S
  <2>1. Drops([j \in 0 .. 0 |-> n], 0)
    OBVIOUS
  <2> QED BY <2>1
<1>3. ASSUME NEW k \in Nat, k \in S PROVE k + 1 \in S
  <2>1. PICK f : Drops(f, k)
    BY <1>3
  <2> DEFINE g == [j \in 0 .. k + 1 |-> IF j <= k THEN f[j] ELSE f[k] \div Radix]
  <2>2. f[k] \in Nat /\ f[k] \div Radix \in Nat
    <3>1. f[k] \in Nat
      BY <2>1
    <3> QED BY <1>1, <3>1
  <2>3. g \in [0 .. k + 1 -> Nat] /\ g[0] = n
    BY <2>1, <2>2
  <2>4. ASSUME NEW j \in 1 .. k + 1 PROVE g[j] = g[j - 1] \div Radix
    <3>1. CASE j <= k
      <4>1. j \in 1 .. k /\ j \in 0 .. k + 1 /\ j - 1 \in 0 .. k + 1 /\ j - 1 <= k
        BY <3>1
      <4>2. f[j] = f[j - 1] \div Radix
        BY <2>1, <4>1
      <4> QED BY <4>1, <4>2
    <3>2. CASE ~(j <= k)
      <4>1. j = k + 1 /\ j - 1 = k /\ j - 1 \in 0 .. k + 1 /\ j \in 0 .. k + 1
        BY <3>2
      <4> QED BY <4>1
    <3> QED BY <3>1, <3>2
  <2>5. Drops(g, k + 1)
    BY <2>3, <2>4
  <2> HIDE DEF g, Drops
  <2> QED BY <2>5
<1>4. HeaderBytes \in S
  <2> HIDE DEF S
  <2> QED BY <1>1, <1>2, <1>3, NatsFrom
<1>5. PICK f : Drops(f, HeaderBytes)
  BY <1>4
<1> DEFINE drop == CHOOSE u : u = [j \in 0 .. HeaderBytes |-> IF j = 0 THEN n ELSE u[j - 1] \div Radix]
<1>6. f = [j \in 0 .. HeaderBytes |-> IF j = 0 THEN n ELSE f[j - 1] \div Radix]
  BY <1>1, <1>5
<1>7. drop = [j \in 0 .. HeaderBytes |-> IF j = 0 THEN n ELSE drop[j - 1] \div Radix]
  BY <1>6
<1>8. Frames!Shifted(n) = drop
  BY DEF Frames!Shifted
<1> HIDE DEF drop
<1>9. drop[0] = n /\ \A j \in 1 .. HeaderBytes : drop[j] = drop[j - 1] \div Radix
  <2>1. 0 \in 0 .. HeaderBytes
    BY <1>1
  <2>2. drop[0] = n
    BY <1>7, <2>1
  <2>3. ASSUME NEW j \in 1 .. HeaderBytes PROVE drop[j] = drop[j - 1] \div Radix
    <3>1. j \in 0 .. HeaderBytes /\ j # 0
      BY <1>1
    <3> QED BY <1>7, <3>1
  <2> QED BY <2>2, <2>3
<1> DEFINE T == {k \in Nat : k <= HeaderBytes => drop[k] \in Nat}
<1>10. 0 \in T
  BY <1>9
<1>11. ASSUME NEW k \in Nat, k \in T PROVE k + 1 \in T
  <2>1. SUFFICES ASSUME k + 1 <= HeaderBytes PROVE drop[k + 1] \in Nat
    OBVIOUS
  <2>2. k + 1 \in 1 .. HeaderBytes /\ k + 1 - 1 = k /\ drop[k] \in Nat
    BY <1>1, <1>11, <2>1
  <2>3. drop[k + 1] = drop[k] \div Radix
    BY <1>9, <2>2
  <2> QED BY <1>1, <2>2, <2>3
<1>12. \A k \in 0 .. HeaderBytes : drop[k] \in Nat
  <2>1. \A k \in Nat : k \in T
    <3> HIDE DEF T
    <3> QED BY <1>10, <1>11, NatsFrom
  <2> QED BY <1>1, <2>1
<1> QED BY <1>7, <1>8, <1>9, <1>12

\* The decoder reads the length the encoder wrote.
LEMMA HeaderTells ==
    ASSUME Frames!StreamAssumption, NEW n \in Nat, Frames!Shifted(n)[HeaderBytes] = 0,
           \A i \in 1 .. HeaderBytes : buffer[i] = Frames!Header(n)[i]
    PROVE  Frames!Announced = n
<1>1. HeaderBytes \in Nat /\ Radix \in Nat \ {0}
  BY DEF Frames!StreamAssumption
<1>2. /\ Frames!Shifted(n) \in [0 .. HeaderBytes -> Nat] /\ Frames!Shifted(n)[0] = n
      /\ \A j \in 1 .. HeaderBytes : Frames!Shifted(n)[j] = Frames!Shifted(n)[j - 1] \div Radix
  BY ShiftedIs
<1> DEFINE f == [i \in 0 .. HeaderBytes |-> Frames!Shifted(n)[HeaderBytes - i]]
<1>3. ASSUME NEW i \in 1 .. HeaderBytes PROVE f[i] = f[i - 1] * Radix + buffer[i]
  <2> DEFINE x == Frames!Shifted(n)[HeaderBytes - i]
             y == Frames!Shifted(n)[HeaderBytes - i + 1]
  <2>1. HeaderBytes - i \in 0 .. HeaderBytes /\ HeaderBytes - i + 1 \in 1 .. HeaderBytes
        /\ HeaderBytes - i + 1 - 1 = HeaderBytes - i /\ HeaderBytes - (i - 1) = HeaderBytes - i + 1
        /\ i \in 0 .. HeaderBytes /\ i - 1 \in 0 .. HeaderBytes
    BY <1>1
  <2>2. x \in Nat /\ y = x \div Radix
    BY <1>2, <2>1
  <2>3. f[i] = x /\ f[i - 1] = y
    BY <2>1
  <2>4. buffer[i] = x % Radix
    BY DEF Frames!Header
  <2> HIDE DEF x, y, f
  <2> DEFINE r == x % Radix
  <2>5. y \in Int /\ r \in Int /\ x = Radix * y + r
    BY <1>1, <2>2
  <2>6. buffer[i] = r
    BY <2>4
  <2> HIDE DEF r
  <2>7. x = y * Radix + r
    BY <1>1, <2>5
  <2> QED BY <2>3, <2>6, <2>7
<1>4. f[0] = 0 /\ f[HeaderBytes] = n
  BY <1>1, <1>2
<1> DEFINE upTo == CHOOSE u : u = [i \in 0 .. HeaderBytes |->
                                     IF i = 0 THEN 0 ELSE u[i - 1] * Radix + buffer[i]]
<1>5. f = [i \in 0 .. HeaderBytes |-> IF i = 0 THEN 0 ELSE f[i - 1] * Radix + buffer[i]]
  <2>1. \A i \in 0 .. HeaderBytes : f[i] = IF i = 0 THEN 0 ELSE f[i - 1] * Radix + buffer[i]
    <3> HIDE DEF f
    <3> QED BY <1>1, <1>3, <1>4
  <2>2. f = [i \in 0 .. HeaderBytes |-> f[i]]
    OBVIOUS
  <2> HIDE DEF f
  <2> QED BY <2>1, <2>2
<1>6. upTo = [i \in 0 .. HeaderBytes |-> IF i = 0 THEN 0 ELSE upTo[i - 1] * Radix + buffer[i]]
  <2> HIDE DEF f
  <2> QED BY <1>5
<1>7. Frames!Announced = upTo[HeaderBytes]
  BY DEF Frames!Announced
<1> HIDE DEF f, upTo
<1> DEFINE S == {k \in Nat : k <= HeaderBytes => upTo[k] = f[k]}
<1>8. 0 \in S
  BY <1>1, <1>4, <1>6
<1>9. ASSUME NEW k \in Nat, k \in S PROVE k + 1 \in S
  <2>1. SUFFICES ASSUME k + 1 <= HeaderBytes PROVE upTo[k + 1] = f[k + 1]
    OBVIOUS
  <2>2. k + 1 \in 1 .. HeaderBytes /\ k + 1 # 0 /\ k + 1 - 1 = k /\ upTo[k] = f[k]
    BY <1>1, <1>9, <2>1
  <2>3. upTo[k + 1] = upTo[k] * Radix + buffer[k + 1]
    <3>1. k + 1 \in 0 .. HeaderBytes
      BY <1>1, <2>1
    <3> DEFINE table == [i \in 0 .. HeaderBytes |->
                           IF i = 0 THEN 0 ELSE upTo[i - 1] * Radix + buffer[i]]
    <3>2. \A i \in 0 .. HeaderBytes :
            table[i] = IF i = 0 THEN 0 ELSE upTo[i - 1] * Radix + buffer[i]
      BY Zenon
    <3>3. upTo = table
      BY <1>6
    <3> HIDE DEF table
    <3>4. upTo[k + 1] = table[k + 1]
      BY <3>3
    <3>5. upTo[k + 1] = upTo[k + 1 - 1] * Radix + buffer[k + 1]
      BY <2>2, <3>1, <3>2, <3>4
    <3> QED BY <2>2, <3>5
  <2> QED BY <1>3, <2>2, <2>3
<1>10. HeaderBytes \in S
  <2> HIDE DEF S
  <2> QED BY <1>1, <1>8, <1>9, NatsFrom
<1> QED BY <1>1, <1>4, <1>7, <1>10

\* The payloads that were not delivered, and the last one that was.
Ahead == Len(delivered) .. Len(sent)

\* The bytes of T are, from the first to the last, the frames of the payloads that
\* were not delivered; b says where each of them ends.
Framed(T, b) ==
    /\ b \in [Ahead -> Nat] /\ b[Len(delivered)] = 0 /\ b[Len(sent)] = Len(T)
    /\ \A i, j \in Ahead : i <= j => b[i] <= b[j]
    /\ \A i \in Len(delivered) + 1 .. Len(sent) :
          /\ b[i] = b[i - 1] + HeaderBytes + Len(sent[i])
          /\ \A k \in 1 .. HeaderBytes + Len(sent[i]) : T[b[i - 1] + k] = Frames!encodeFrame(sent[i])[k]

\* What is in the decoder, under way, to be sent, and lost with the sender.
Stream(lost) == buffer \o (wire \o (out \o lost))

\* ... with what is left out of it lost only if the sender broke off.
Holds(lost, b) ==
    lost \in Seq(Frames!Byte) /\ (broken \/ lost = <<>>) /\ Framed(Stream(lost), b)

\* The inductive invariant of a connection.
FrameInv ==
    /\ Frames!TypeOK /\ delivered \in Seq(Payload) /\ Len(delivered) <= Len(sent)
    /\ broken => out = <<>>
    /\ failed => closed
    /\ \E lost, b : Holds(lost, b)
    /\ Frames!RefusedForCause /\ Frames!BufferBounded

LEMMA EncodeIs ==
    ASSUME Frames!StreamAssumption, NEW p \in Payload
    PROVE  /\ p \in Seq(Frames!Byte) /\ Len(p) \in Nat /\ Frames!Shifted(Len(p))[HeaderBytes] = 0
           /\ Frames!encodeFrame(p) \in Seq(Frames!Byte) /\ Len(Frames!encodeFrame(p)) = HeaderBytes + Len(p)
           /\ \A k \in 1 .. HeaderBytes : Frames!encodeFrame(p)[k] = Frames!Header(Len(p))[k]
           /\ \A k \in 1 .. Len(p) : Frames!encodeFrame(p)[HeaderBytes + k] = p[k]
<1>1. p \in Seq(Frames!Byte) /\ Frames!Shifted(Len(p))[HeaderBytes] = 0 /\ HeaderBytes \in Nat /\ Radix \in Nat \ {0}
  BY DEF Frames!StreamAssumption
<1>2. Len(p) \in Nat
  BY <1>1, LenProperties
<1>3. Frames!Shifted(Len(p)) \in [0 .. HeaderBytes -> Nat]
  BY <1>2, ShiftedIs
<1>4. \A i \in 1 .. HeaderBytes : Frames!Shifted(Len(p))[HeaderBytes - i] % Radix \in Frames!Byte
  <2>1. SUFFICES ASSUME NEW i \in 1 .. HeaderBytes
                 PROVE  Frames!Shifted(Len(p))[HeaderBytes - i] % Radix \in Frames!Byte
    OBVIOUS
  <2>2. HeaderBytes - i \in 0 .. HeaderBytes
    BY <1>1
  <2>3. Frames!Shifted(Len(p))[HeaderBytes - i] \in Nat
    BY <1>3, <2>2
  <2> QED BY <1>1, <2>3 DEF Frames!Byte
<1>5. Frames!Header(Len(p)) \in Seq(Frames!Byte) /\ Len(Frames!Header(Len(p))) = HeaderBytes
  BY <1>1, <1>4 DEF Frames!Header
<1>6. /\ Frames!encodeFrame(p) \in Seq(Frames!Byte) /\ Len(Frames!encodeFrame(p)) = HeaderBytes + Len(p)
      /\ \A k \in 1 .. HeaderBytes + Len(p) : Frames!encodeFrame(p)[k] =
            IF k <= HeaderBytes THEN Frames!Header(Len(p))[k] ELSE p[k - HeaderBytes]
  <2> DEFINE h == Frames!Header(Len(p))
  <2>1. h \in Seq(Frames!Byte) /\ Len(h) = HeaderBytes /\ Frames!encodeFrame(p) = h \o p
    BY <1>5 DEF Frames!encodeFrame
  <2> HIDE DEF h
  <2>2. /\ h \o p \in Seq(Frames!Byte) /\ Len(h \o p) = Len(h) + Len(p)
        /\ \A k \in 1 .. Len(h) + Len(p) : (h \o p)[k] = IF k <= Len(h) THEN h[k] ELSE p[k - Len(h)]
    <3>1. p \in Seq(Frames!Byte)
      BY <1>1
    <3> QED BY <2>1, <3>1, ConcatProperties
  <2> QED BY <2>1, <2>2 DEF h
<1>7. ASSUME NEW k \in 1 .. Len(p) PROVE Frames!encodeFrame(p)[HeaderBytes + k] = p[k]
  <2>1. HeaderBytes + k \in 1 .. HeaderBytes + Len(p) /\ ~(HeaderBytes + k <= HeaderBytes)
        /\ HeaderBytes + k - HeaderBytes = k
    BY <1>1, <1>2
  <2> DEFINE j == HeaderBytes + k
  <2>2. Frames!encodeFrame(p)[j] = IF j <= HeaderBytes THEN Frames!Header(Len(p))[j] ELSE p[j - HeaderBytes]
    BY <1>6, <2>1
  <2> QED BY <1>1, <1>2, <2>1, <2>2
<1>8. \A k \in 1 .. HeaderBytes : k \in 1 .. HeaderBytes + Len(p) /\ k <= HeaderBytes
  BY <1>1, <1>2
<1> QED BY <1>1, <1>2, <1>6, <1>7, <1>8

\* The types of the pieces of the stream, and where they lie in it.
LEMMA StreamIs ==
    ASSUME Frames!StreamAssumption, Frames!TypeOK, NEW lost \in Seq(Frames!Byte)
    PROVE  /\ buffer \in Seq(Frames!Byte) /\ wire \in Seq(Frames!Byte) /\ out \in Seq(Frames!Byte)
           /\ Len(buffer) \in Nat /\ Len(wire) \in Nat /\ Len(out) \in Nat
           /\ wire \o (out \o lost) \in Seq(Frames!Byte) /\ out \o lost \in Seq(Frames!Byte)
           /\ Stream(lost) \in Seq(Frames!Byte) /\ Len(Stream(lost)) \in Nat
           /\ Len(buffer) <= Len(Stream(lost))
           /\ \A k \in 1 .. Len(buffer) : Stream(lost)[k] = buffer[k]
<1>1. buffer \in Seq(Frames!Byte) /\ wire \in Seq(Frames!Byte) /\ out \in Seq(Frames!Byte)
  BY DEF Frames!TypeOK
<1>2. out \o lost \in Seq(Frames!Byte)
  BY <1>1, ConcatProperties
<1>3. wire \o (out \o lost) \in Seq(Frames!Byte)
  BY <1>1, <1>2, ConcatProperties
<1> DEFINE rest == wire \o (out \o lost)
<1>4. rest \in Seq(Frames!Byte) /\ Stream(lost) = buffer \o rest
  BY <1>3 DEF Stream
<1> HIDE DEF rest
<1>5. /\ buffer \o rest \in Seq(Frames!Byte) /\ Len(buffer \o rest) = Len(buffer) + Len(rest)
      /\ \A k \in 1 .. Len(buffer) + Len(rest) :
            (buffer \o rest)[k] = IF k <= Len(buffer) THEN buffer[k] ELSE rest[k - Len(buffer)]
  BY <1>1, <1>4, ConcatProperties
<1>6. Len(buffer) \in Nat /\ Len(rest) \in Nat /\ Len(wire) \in Nat /\ Len(out) \in Nat
  BY <1>1, <1>4, LenProperties
<1>7. \A k \in 1 .. Len(buffer) : (buffer \o rest)[k] = buffer[k]
  BY <1>5, <1>6
<1> QED BY <1>1, <1>2, <1>3, <1>4, <1>5, <1>6, <1>7

\* The payload the decoder comes to next.
FrameAhead == sent[Len(delivered) + 1]

\* Where the decoder has a header, it is that of the payload that comes next, and
\* where it has all the bytes announced they are that payload.
LEMMA HeaderIsNext ==
    ASSUME Frames!StreamAssumption, Frames!TypeOK, delivered \in Seq(Payload), Len(delivered) <= Len(sent),
           NEW lost, NEW b, Holds(lost, b), Frames!HasHeader
    PROVE  /\ Len(delivered) + 1 \in 1 .. Len(sent) /\ FrameAhead \in Payload
           /\ Frames!Announced = Len(FrameAhead) /\ Frames!Announced \in Nat
           /\ b[Len(delivered) + 1] = HeaderBytes + Frames!Announced
           /\ Frames!Complete => SubSeq(buffer, HeaderBytes + 1, HeaderBytes + Frames!Announced) = FrameAhead
<1> DEFINE T == Stream(lost)
           d == Len(delivered)
           p == FrameAhead
<1>1. lost \in Seq(Frames!Byte) /\ Framed(T, b) /\ sent \in Seq(Payload) /\ Len(sent) \in Nat /\ d \in Nat
  BY LenProperties DEF Holds, Frames!TypeOK
<1>2. /\ buffer \in Seq(Frames!Byte) /\ Len(buffer) \in Nat /\ Len(T) \in Nat /\ Len(buffer) <= Len(T)
      /\ \A k \in 1 .. Len(buffer) : T[k] = buffer[k]
  BY <1>1, StreamIs
<1>3. HeaderBytes \in Nat \ {0} /\ Len(buffer) >= HeaderBytes
  BY DEF Frames!StreamAssumption, Frames!HasHeader
<1> HIDE DEF T, p
<1>4. d # Len(sent)
  <2>1. b[d] = 0 /\ b[Len(sent)] = Len(T)
    BY <1>1 DEF Framed
  <2> QED BY <1>2, <1>3, <2>1
<1>5. d + 1 \in 1 .. Len(sent)
  BY <1>1, <1>4
<1>6. p \in Payload
  BY <1>1, <1>5, ElementOfSeq DEF p, FrameAhead
<1>7. /\ p \in Seq(Frames!Byte) /\ Len(p) \in Nat /\ Frames!Shifted(Len(p))[HeaderBytes] = 0
      /\ \A k \in 1 .. HeaderBytes : Frames!encodeFrame(p)[k] = Frames!Header(Len(p))[k]
      /\ \A k \in 1 .. Len(p) : Frames!encodeFrame(p)[HeaderBytes + k] = p[k]
  BY <1>6, EncodeIs
<1>8. b[d + 1] = HeaderBytes + Len(p) /\ \A k \in 1 .. HeaderBytes + Len(p) : T[k] = Frames!encodeFrame(p)[k]
  <2>1. d + 1 \in d + 1 .. Len(sent) /\ d + 1 - 1 = d /\ b[d] = 0
    BY <1>1, <1>5 DEF Framed
  <2>2. /\ b[d + 1] = b[d] + HeaderBytes + Len(sent[d + 1])
        /\ \A k \in 1 .. HeaderBytes + Len(sent[d + 1]) :
              T[b[d] + k] = Frames!encodeFrame(sent[d + 1])[k]
    BY <1>1, <2>1 DEF Framed
  <2> QED BY <1>3, <1>7, <2>1, <2>2 DEF p, FrameAhead
<1>9. Frames!Announced = Len(p)
  <2>1. \A i \in 1 .. HeaderBytes : buffer[i] = Frames!Header(Len(p))[i]
    <3>1. SUFFICES ASSUME NEW i \in 1 .. HeaderBytes PROVE buffer[i] = Frames!Header(Len(p))[i]
      OBVIOUS
    <3>2. i \in 1 .. Len(buffer) /\ i \in 1 .. HeaderBytes + Len(p)
      BY <1>2, <1>3, <1>7
    <3> QED BY <1>2, <1>7, <1>8, <3>2
  <2> QED BY <1>7, <2>1, HeaderTells
<1>10. ASSUME Frames!Complete PROVE SubSeq(buffer, HeaderBytes + 1, HeaderBytes + Frames!Announced) = p
  <2> DEFINE from == HeaderBytes + 1
             to == HeaderBytes + Len(p)
             body == SubSeq(buffer, from, to)
  <2>1. Len(buffer) >= HeaderBytes + Len(p)
    BY <1>9, <1>10 DEF Frames!Complete
  <2>2. \A i \in HeaderBytes + 1 .. HeaderBytes + Len(p) : buffer[i] \in Frames!Byte
    <3>1. \A i \in HeaderBytes + 1 .. HeaderBytes + Len(p) : i \in 1 .. Len(buffer)
      BY <1>2, <1>3, <1>7, <2>1
    <3> QED BY <1>2, <3>1, ElementOfSeq
  <2>3. /\ body \in Seq(Frames!Byte)
        /\ Len(body) = IF from <= to THEN to - from + 1 ELSE 0
        /\ \A i \in 1 .. to - from + 1 : body[i] = buffer[from + i - 1]
    <3>1. from \in Int /\ to \in Int /\ \A i \in from .. to : buffer[i] \in Frames!Byte
      BY <1>3, <1>7, <2>2
    <3> HIDE DEF from, to
    <3> QED BY <3>1, SubSeqProperties
  <2> HIDE DEF body
  <2>4. Len(body) = Len(p)
    BY <1>3, <1>7, <2>3
  <2>5. \A i \in 1 .. Len(body) : body[i] = p[i]
    <3>1. SUFFICES ASSUME NEW i \in 1 .. Len(p) PROVE body[i] = p[i]
      BY <2>4
    <3>2. /\ i \in 1 .. HeaderBytes + Len(p) - (HeaderBytes + 1) + 1
          /\ HeaderBytes + 1 + i - 1 = HeaderBytes + i
          /\ HeaderBytes + i \in 1 .. Len(buffer) /\ HeaderBytes + i \in 1 .. HeaderBytes + Len(p)
      BY <1>2, <1>3, <1>7, <2>1
    <3>3. body[i] = buffer[HeaderBytes + i]
      <4>1. i \in 1 .. to - from + 1 /\ from + i - 1 = HeaderBytes + i
        BY <1>3, <1>7, <3>2
      <4> HIDE DEF from, to
      <4> QED BY <2>3, <4>1
    <3> QED BY <1>2, <1>7, <1>8, <3>2, <3>3
  <2>6. body = p
    BY <1>7, <2>3, <2>4, <2>5, SeqEqual
  <2> QED BY <1>9, <2>6 DEF body
<1> QED BY <1>5, <1>6, <1>7, <1>8, <1>9, <1>10 DEF p

\* Bytes in three parts, in the order in which they are read.
Joined(s, t, r) == s \o (t \o r)

\* Bytes that move from one sequence to the end of the one before it.
LEMMA Moved ==
    ASSUME NEW S, NEW s \in Seq(S), NEW t \in Seq(S), NEW r \in Seq(S), NEW k \in 0 .. Len(t)
    PROVE  Joined(s \o Frames!Take(t, k), Frames!Skip(t, k), r) = Joined(s, t, r)
<1> DEFINE x == Frames!Take(t, k)
           y == Frames!Skip(t, k)
           z == y \o r
<1>1. x \in Seq(S) /\ y \in Seq(S)
  BY TakeSkip
<1>2. x \o y = t
  BY TakeSkip
<1> HIDE DEF x, y
<1>3. z \in Seq(S)
  BY <1>1, ConcatProperties
<1>4. x \o z = (x \o y) \o r
  <2>1. x \in Seq(S) /\ y \in Seq(S) /\ r \in Seq(S)
    BY <1>1
  <2>2. (x \o y) \o r = x \o (y \o r)
    BY ONLY <2>1, ConcatAssociative, SMTT(60)
  <2> QED BY <2>2
<1> HIDE DEF z
<1>5. (s \o x) \o z = s \o (x \o z)
  BY ONLY s \in Seq(S), <1>1, <1>3, ConcatAssociative, SMTT(60)
<1> QED BY <1>2, <1>4, <1>5 DEF x, y, z, Joined

\* Bytes are moved, and nothing else.
LEMMA HoldsStays ==
    ASSUME NEW lost, NEW b, Holds(lost, b), Stream(lost)' = Stream(lost),
           UNCHANGED <<sent, delivered>>, broken \/ ~broken' \/ lost = <<>>, broken => broken'
    PROVE  Holds(lost, b)'
BY DEF Holds, Framed, Ahead

\* A connection that begins.
Fresh ==
    /\ sent = <<>> /\ out = <<>> /\ wire = <<>> /\ broken = FALSE
    /\ buffer = <<>> /\ failed = FALSE /\ delivered = <<>> /\ closed = FALSE
    /\ connections \in 1 .. MaxConnections

LEMMA FreshFrames == ASSUME Frames!StreamAssumption PROVE Fresh => FrameInv
<1> SUFFICES ASSUME Fresh PROVE FrameInv
  OBVIOUS
<1> USE DEF Fresh
<1>1. Frames!TypeOK
  <2>1. <<>> \in Seq(Payload) /\ <<>> \in Seq(Frames!Byte)
    BY EmptySeq
  <2>2. sent \in Seq(Payload) /\ out \in Seq(Frames!Byte) /\ wire \in Seq(Frames!Byte) /\ buffer \in Seq(Frames!Byte)
    BY <2>1
  <2>3. {broken, failed, closed} \subseteq BOOLEAN
    OBVIOUS
  <2>4. connections \in 1 .. MaxConnections
    BY DEF Frames!StreamAssumption
  <2> HIDE DEF Fresh
  <2> QED BY <2>2, <2>3, <2>4 DEF Frames!TypeOK
<1>2. delivered \in Seq(Payload) /\ Len(delivered) = 0 /\ Len(sent) = 0
  BY EmptySeq
<1>3. Holds(<<>>, [i \in 0 .. 0 |-> 0])
  <2>1. <<>> \in Seq(Frames!Byte) /\ <<>> \o <<>> = <<>>
    BY EmptySeq, ConcatEmptySeq
  <2>2. Stream(<<>>) = <<>>
    BY <2>1 DEF Stream
  <2>3. Framed(<<>>, [i \in 0 .. 0 |-> 0])
    BY <1>2 DEF Framed, Ahead
  <2> QED BY <2>1, <2>2, <2>3 DEF Holds
<1>4. Frames!RefusedForCause
  BY DEF Frames!RefusedForCause
<1>5. Frames!BufferBounded
  BY EmptySeq DEF Frames!BufferBounded, Frames!StreamAssumption
<1> QED BY <1>1, <1>2, <1>3, <1>4, <1>5 DEF FrameInv

LEMMA SendKeepsFrames ==
    ASSUME Frames!StreamAssumption, FrameInv, NEW p \in Payload, Frames!sendFrame(p) PROVE FrameInv'
<1> USE DEF Frames!sendFrame, Frames!SenderOnly
<1> DEFINE n == Len(sent)
           e == Frames!encodeFrame(p)
<1>1. PICK lost, b : Holds(lost, b)
  BY DEF FrameInv
<1>t. /\ Frames!TypeOK /\ delivered \in Seq(Payload) /\ Len(delivered) <= n /\ sent \in Seq(Payload)
      /\ n \in Nat /\ Len(delivered) \in Nat
  BY LenProperties DEF FrameInv, Frames!TypeOK
<1>2. lost = <<>> /\ lost \in Seq(Frames!Byte) /\ Framed(Stream(lost), b)
  BY <1>1 DEF Holds
<1>3. e \in Seq(Frames!Byte) /\ Len(e) = HeaderBytes + Len(p) /\ Len(p) \in Nat /\ HeaderBytes \in Nat
      /\ Len(e) \in Nat
  BY EncodeIs DEF Frames!StreamAssumption
<1>4. Len(sent') = n + 1 /\ sent' \in Seq(Payload) /\ sent'[n + 1] = p
      /\ \A i \in 1 .. n : sent'[i] = sent[i]
  BY <1>t, AppendProperties
<1> DEFINE T == buffer \o wire
<1>5. T \in Seq(Frames!Byte) /\ Len(T) \in Nat /\ Stream(lost) = T /\ Stream(<<>>)' = T \o e
  <2>1. buffer \in Seq(Frames!Byte) /\ wire \in Seq(Frames!Byte)
    BY <1>t DEF Frames!TypeOK
  <2>2. T \in Seq(Frames!Byte)
    BY <2>1, ConcatProperties
  <2>3. out \o lost = <<>> /\ wire \o <<>> = wire /\ e \o <<>> = e
    BY <1>2, <1>3, <2>1, ConcatEmptySeq
  <2>4. buffer \o (wire \o e) = T \o e
    <3>1. e \in Seq(Frames!Byte)
      BY <1>3
    <3> HIDE DEF e
    <3>2. buffer \o (wire \o e) = (buffer \o wire) \o e
      BY ONLY <2>1, <3>1, ConcatAssociative, SMTT(40)
    <3> QED BY <3>2
  <2> HIDE DEF e, T
  <2>5. Stream(<<>>)' = buffer \o (wire \o (e \o <<>>))
    BY DEF Stream, e
  <2> QED BY <2>2, <2>3, <2>4, <2>5, LenProperties DEF Stream, T
<1> HIDE DEF e, T
<1>6. /\ T \o e \in Seq(Frames!Byte) /\ Len(T \o e) = Len(T) + Len(e)
      /\ \A i \in 1 .. Len(T) + Len(e) : (T \o e)[i] = IF i <= Len(T) THEN T[i] ELSE e[i - Len(T)]
  <2>1. T \in Seq(Frames!Byte) /\ e \in Seq(Frames!Byte)
    BY <1>3, <1>5
  <2> QED BY <2>1, ConcatProperties
<1> DEFINE c == [i \in Len(delivered) .. n + 1 |-> IF i <= n THEN b[i] ELSE Len(T) + Len(e)]
<1>7. Framed(T, b)
  BY <1>2, <1>5
<1>8. \A i \in Len(delivered) .. n : b[i] \in Nat /\ b[i] <= Len(T) /\ c[i] = b[i]
  <2>1. \A i \in Len(delivered) .. n : b[i] \in Nat /\ b[i] <= b[n] /\ b[n] = Len(T)
    BY <1>t, <1>7 DEF Framed, Ahead
  <2> QED BY <1>t, <2>1
<1>9. c[n + 1] = Len(T) + Len(e) /\ c[n] = Len(T) /\ c[Len(delivered)] = 0
  <2>1. b[n] = Len(T) /\ b[Len(delivered)] = 0
    BY <1>7 DEF Framed
  <2> QED BY <1>t, <2>1
<1>10. c \in [Len(delivered) .. n + 1 -> Nat]
  <2>1. ASSUME NEW i \in Len(delivered) .. n + 1 PROVE c[i] \in Nat
    <3>1. CASE i <= n
      <4>1. i \in Len(delivered) .. n
        BY <1>t, <3>1
      <4> QED BY <1>8, <4>1
    <3>2. CASE i = n + 1
      BY <1>3, <1>5, <1>9, <3>2
    <3> QED BY <1>t, <3>1, <3>2
  <2> QED BY <2>1
<1> HIDE DEF c
<1>11. \A i, j \in Len(delivered) .. n + 1 : i <= j => c[i] <= c[j]
  <2>1. SUFFICES ASSUME NEW i \in Len(delivered) .. n + 1, NEW j \in Len(delivered) .. n + 1, i <= j
                 PROVE  c[i] <= c[j]
    OBVIOUS
  <2>2. CASE j <= n
    <3>1. i \in Len(delivered) .. n /\ j \in Len(delivered) .. n
      BY <1>t, <2>1, <2>2
    <3>2. b[i] <= b[j]
      BY <1>7, <2>1, <3>1 DEF Framed, Ahead
    <3> QED BY <1>8, <3>1, <3>2
  <2>3. CASE i <= n /\ j = n + 1
    <3>1. i \in Len(delivered) .. n
      BY <1>t, <2>3
    <3>2. c[i] = b[i] /\ b[i] \in Nat /\ b[i] <= Len(T) /\ c[j] = Len(T) + Len(e)
      BY <1>8, <1>9, <2>3, <3>1
    <3> QED BY <1>3, <1>5, <3>2
  <2>4. CASE i = n + 1 /\ j = n + 1
    BY <1>3, <1>5, <1>9, <2>4
  <2> QED BY <1>t, <2>1, <2>2, <2>3, <2>4
<1>12. ASSUME NEW i \in Len(delivered) + 1 .. n + 1
       PROVE  /\ c[i] = c[i - 1] + HeaderBytes + Len(sent'[i])
              /\ \A k \in 1 .. HeaderBytes + Len(sent'[i]) :
                    (T \o e)[c[i - 1] + k] = Frames!encodeFrame(sent'[i])[k]
  <2>1. CASE i <= n
    <3>1. i \in Len(delivered) + 1 .. n /\ i \in Len(delivered) .. n /\ i - 1 \in Len(delivered) .. n
          /\ i \in 1 .. n
      BY <1>t, <2>1
    <3>2. /\ b[i] = b[i - 1] + HeaderBytes + Len(sent[i])
          /\ \A k \in 1 .. HeaderBytes + Len(sent[i]) : T[b[i - 1] + k] = Frames!encodeFrame(sent[i])[k]
      BY <1>7, <3>1 DEF Framed
    <3>3. sent'[i] = sent[i] /\ c[i] = b[i] /\ c[i - 1] = b[i - 1] /\ b[i - 1] \in Nat /\ b[i] <= Len(T)
          /\ b[i] \in Nat
      BY <1>4, <1>8, <3>1
    <3>4. Len(sent[i]) \in Nat
      <4>1. sent[i] \in Payload
        BY <1>t, <3>1, ElementOfSeq
      <4> QED BY <4>1, EncodeIs
    <3>5. ASSUME NEW k \in 1 .. HeaderBytes + Len(sent[i])
          PROVE  (T \o e)[b[i - 1] + k] = Frames!encodeFrame(sent[i])[k]
      <4> DEFINE j == b[i - 1] + k
      <4>1. j \in 1 .. Len(T) + Len(e) /\ j <= Len(T)
        <5> DEFINE u == b[i - 1]
                   v == b[i]
                   l == Len(sent[i])
        <5>1. u \in Nat /\ v \in Nat /\ l \in Nat /\ v = u + HeaderBytes + l /\ v <= Len(T)
              /\ k \in 1 .. HeaderBytes + l /\ j = u + k
          BY <3>2, <3>3, <3>4
        <5> HIDE DEF u, v, l, j
        <5> QED BY <1>3, <1>5, <5>1
      <4>2. T[j] = Frames!encodeFrame(sent[i])[k]
        BY <3>2
      <4> HIDE DEF j
      <4>3. (T \o e)[j] = T[j]
        BY <1>6, <4>1
      <4> QED BY <4>2, <4>3 DEF j
    <3> QED BY <3>2, <3>3, <3>5
  <2>2. CASE i = n + 1
    <3>1. i - 1 = n /\ sent'[i] = p
      BY <1>t, <1>4, <2>2
    <3>2. c[i] = Len(T) + Len(e) /\ c[i - 1] = Len(T)
      BY <1>9, <2>2, <3>1
    <3>3. ASSUME NEW k \in 1 .. HeaderBytes + Len(p) PROVE (T \o e)[Len(T) + k] = Frames!encodeFrame(p)[k]
      <4> DEFINE j == Len(T) + k
      <4>1. j \in 1 .. Len(T) + Len(e) /\ ~(j <= Len(T)) /\ j - Len(T) = k
        BY <1>3, <1>5
      <4> HIDE DEF j
      <4>2. (T \o e)[j] = e[k]
        BY <1>6, <4>1
      <4> QED BY <4>2 DEF j, e
    <3>4. Len(T) + Len(e) = Len(T) + HeaderBytes + Len(p)
      BY <1>3, <1>5
    <3> QED BY <3>1, <3>2, <3>3, <3>4
  <2>3. i <= n \/ i = n + 1
    BY <1>t
  <2> QED BY <2>1, <2>2, <2>3
<1>p. Len(T) \in Nat /\ Len(e) \in Nat
  BY <1>3, <1>5
<1> DEFINE A(f) == f \in [Len(delivered) .. n + 1 -> Nat] /\ f[Len(delivered)] = 0
                   /\ f[n + 1] = Len(T) + Len(e)
           B(f) == \A i, j \in Len(delivered) .. n + 1 : i <= j => f[i] <= f[j]
           C(f) == \A i \in Len(delivered) + 1 .. n + 1 :
                     /\ f[i] = f[i - 1] + HeaderBytes + Len(sent'[i])
                     /\ \A k \in 1 .. HeaderBytes + Len(sent'[i]) :
                           (T \o e)[f[i - 1] + k] = Frames!encodeFrame(sent'[i])[k]
<1>13. \E f : A(f) /\ B(f) /\ C(f)
  <2>1. A(c)
    BY <1>9, <1>10
  <2>2. B(c)
    BY <1>11
  <2>3. C(c)
    BY <1>12
  <2> HIDE DEF A, B, C
  <2> QED BY <2>1, <2>2, <2>3
<1> HIDE DEF A, B, C
<1>q. PICK f : A(f) /\ B(f) /\ C(f)
  BY <1>13
<1>14. Framed(Stream(<<>>), f)'
  <2>1. Len(delivered') = Len(delivered) /\ Len(sent') = n + 1 /\ Stream(<<>>)' = T \o e
        /\ Len(T \o e) = Len(T) + Len(e)
    BY <1>4, <1>5, <1>6
  <2>2. Ahead' = Len(delivered) .. n + 1
    BY <2>1 DEF Ahead
  <2>3. \A i \in Len(delivered') + 1 .. Len(sent') :
          /\ f[i] = f[i - 1] + HeaderBytes + Len(sent'[i])
          /\ \A k \in 1 .. HeaderBytes + Len(sent'[i]) :
                Stream(<<>>)'[f[i - 1] + k] = Frames!encodeFrame(sent'[i])[k]
    <3>1. C(f)
      BY <1>q
    <3>2. \A i \in Len(delivered) + 1 .. n + 1 :
            /\ f[i] = f[i - 1] + HeaderBytes + Len(sent'[i])
            /\ \A k \in 1 .. HeaderBytes + Len(sent'[i]) :
                  (T \o e)[f[i - 1] + k] = Frames!encodeFrame(sent'[i])[k]
      BY ONLY <3>1 DEF C
    <3> HIDE DEF n, Frames!sendFrame
    <3> QED BY ONLY <2>1, <3>2, Zenon
  <2>4. f \in [Ahead' -> Nat] /\ f[Len(delivered')] = 0 /\ f[Len(sent')] = Len(Stream(<<>>)')
        /\ \A i, j \in Ahead' : i <= j => f[i] <= f[j]
    BY <1>q, <2>1, <2>2 DEF A, B
  <2> HIDE DEF n, Frames!sendFrame
  <2> QED BY <2>3, <2>4 DEF Framed, Frames!encodeFrame, Frames!Header, Frames!Shifted
<1>15. Holds(<<>>, f)'
  BY <1>14, EmptySeq DEF Holds
<1>16. Frames!TypeOK'
  <2>1. sent' \in Seq(Payload) /\ out' \in Seq(Frames!Byte)
    BY <1>3, <1>4 DEF e
  <2> QED BY <1>t, <2>1 DEF Frames!TypeOK
<1>17. Frames!RefusedForCause'
  <2>1. SUFFICES ASSUME closed PROVE Frames!RefusedForCause'
    BY DEF Frames!RefusedForCause
  <2>2. Len(delivered) < n /\ Len(sent[Len(delivered) + 1]) > Limit
    BY <2>1 DEF FrameInv, Frames!RefusedForCause
  <2>3. Len(delivered) + 1 \in 1 .. n
    BY <1>t, <2>2
  <2>4. sent'[Len(delivered) + 1] = sent[Len(delivered) + 1] /\ Len(delivered) < Len(sent')
    BY <1>4, <1>t, <2>2, <2>3
  <2> QED BY <2>2, <2>4 DEF Frames!RefusedForCause
<1> QED BY <1>4, <1>15, <1>16, <1>17, <1>t DEF FrameInv, Frames!BufferBounded

LEMMA InitFrames == ASSUME Frames!StreamAssumption, Frames!Init PROVE FrameInv
<1>1. Fresh
  BY DEF Frames!Init, Fresh, Frames!StreamAssumption
<1> QED BY <1>1, FreshFrames

LEMMA ReconnectKeepsFrames == ASSUME Frames!StreamAssumption, FrameInv, Frames!Reconnect PROVE FrameInv'
<1>1. Fresh'
  <2>1. connections' \in 1 .. MaxConnections
    <3>1. connections \in 1 .. MaxConnections /\ MaxConnections \in Nat
      BY DEF FrameInv, Frames!TypeOK, Frames!StreamAssumption
    <3> QED BY <3>1 DEF Frames!Reconnect
  <2> QED BY <2>1 DEF Fresh, Frames!Reconnect
<1>2. (Fresh => FrameInv)'
  BY FreshFrames, PTL
<1> QED BY <1>1, <1>2

LEMMA WriteKeepsFrames ==
    ASSUME Frames!StreamAssumption, FrameInv, NEW k \in 1 .. Len(out), Frames!Write(k) PROVE FrameInv'
<1> USE DEF Frames!Write, Frames!SenderOnly
<1>1. PICK lost, b : Holds(lost, b)
  BY DEF FrameInv
<1>2. lost \in Seq(Frames!Byte) /\ wire \in Seq(Frames!Byte) /\ out \in Seq(Frames!Byte)
  BY <1>1 DEF Holds, FrameInv, Frames!TypeOK
<1>3. Len(out) \in Nat /\ k \in 0 .. Len(out) /\ ~broken
  <2>1. Len(out) \in Nat
    BY <1>2, LenProperties
  <2>2. k \in 0 .. Len(out) /\ out # <<>>
    BY <2>1
  <2> QED BY <2>1, <2>2 DEF FrameInv
<1>4. /\ Joined(wire \o Frames!Take(out, k), Frames!Skip(out, k), lost) = Joined(wire, out, lost)
      /\ Frames!Take(out, k) \in Seq(Frames!Byte) /\ Frames!Skip(out, k) \in Seq(Frames!Byte)
  BY ONLY <1>2, <1>3, Moved, TakeSkip
<1>5. Stream(lost)' = Stream(lost)
  <2>1. Stream(lost)' = buffer \o Joined(wire \o Frames!Take(out, k), Frames!Skip(out, k), lost)
    BY DEF Stream, Joined
  <2> QED BY <1>4, <2>1 DEF Stream, Joined
<1>6. Holds(lost, b)'
  BY <1>1, <1>5, HoldsStays
<1>7. Frames!TypeOK'
  <2>1. wire \o Frames!Take(out, k) \in Seq(Frames!Byte)
    BY ONLY <1>2, <1>4, ConcatProperties
  <2>2. wire' \in Seq(Frames!Byte) /\ out' \in Seq(Frames!Byte)
    BY <1>4, <2>1
  <2> QED BY <2>2 DEF FrameInv, Frames!TypeOK
<1> QED BY <1>3, <1>6, <1>7 DEF FrameInv, Frames!RefusedForCause, Frames!BufferBounded

LEMMA BreaksKeepsFrames == ASSUME Frames!StreamAssumption, FrameInv, Frames!Breaks PROVE FrameInv'
<1> USE DEF Frames!Breaks, Frames!SenderOnly
<1>1. PICK lost, b : Holds(lost, b)
  BY DEF FrameInv
<1>2. wire \in Seq(Frames!Byte) /\ out \in Seq(Frames!Byte) /\ lost = <<>>
  BY <1>1 DEF Holds, FrameInv, Frames!TypeOK
<1>3. <<>> \o out = out /\ out \o <<>> = out
  BY ONLY <1>2, ConcatEmptySeq
<1> DEFINE gone == out
<1>4. PICK left : left = out
  OBVIOUS
<1>5. Stream(left)' = Stream(lost)
  BY <1>2, <1>3, <1>4 DEF Stream
<1>6. Holds(left, b)'
  BY <1>1, <1>2, <1>4, <1>5 DEF Holds, Framed, Ahead
<1>7. Frames!TypeOK'
  <2>1. out' \in Seq(Frames!Byte)
    BY EmptySeq
  <2> QED BY <2>1 DEF FrameInv, Frames!TypeOK
<1> QED BY <1>6, <1>7 DEF FrameInv, Frames!RefusedForCause, Frames!BufferBounded

LEMMA RecvKeepsFrames ==
    ASSUME Frames!StreamAssumption, FrameInv, NEW k \in 1 .. RecvBuffer, Frames!Recv(k) PROVE FrameInv'
<1> USE DEF Frames!Recv, Frames!ReceiverOnly
<1>1. PICK lost, b : Holds(lost, b)
  BY DEF FrameInv
<1>2. /\ lost \in Seq(Frames!Byte) /\ wire \in Seq(Frames!Byte) /\ out \in Seq(Frames!Byte) /\ buffer \in Seq(Frames!Byte)
      /\ Frames!TypeOK
  BY <1>1 DEF Holds, FrameInv, Frames!TypeOK
<1>3. Len(wire) \in Nat /\ Len(buffer) \in Nat /\ k \in 0 .. Len(wire) /\ RecvBuffer \in Nat /\ k \in Nat
  <2>1. Len(wire) \in Nat /\ Len(buffer) \in Nat /\ RecvBuffer \in Nat
    BY <1>2, LenProperties DEF Frames!StreamAssumption
  <2> QED BY <2>1 DEF Frames!Smaller
<1>4. out \o lost \in Seq(Frames!Byte)
  BY ONLY <1>2, ConcatProperties
<1>5. /\ Joined(buffer \o Frames!Take(wire, k), Frames!Skip(wire, k), out \o lost) = Joined(buffer, wire, out \o lost)
      /\ Frames!Take(wire, k) \in Seq(Frames!Byte) /\ Len(Frames!Take(wire, k)) = k /\ Frames!Skip(wire, k) \in Seq(Frames!Byte)
  BY ONLY <1>2, <1>3, <1>4, Moved, TakeSkip, ZenonT(60)
<1>6. Stream(lost)' = Stream(lost)
  <2>1. Stream(lost)' = Joined(buffer \o Frames!Take(wire, k), Frames!Skip(wire, k), out \o lost)
    BY DEF Stream, Joined
  <2> QED BY <1>5, <2>1 DEF Stream, Joined
<1>7. Holds(lost, b)'
  BY <1>1, <1>6, HoldsStays
<1>8. buffer \o Frames!Take(wire, k) \in Seq(Frames!Byte) /\ Len(buffer \o Frames!Take(wire, k)) = Len(buffer) + k
  BY ONLY <1>2, <1>5, ConcatProperties
<1>9. Frames!TypeOK'
  <2>1. wire' \in Seq(Frames!Byte) /\ buffer' \in Seq(Frames!Byte)
    BY <1>5, <1>8
  <2> QED BY <1>2, <2>1 DEF Frames!TypeOK
<1>10. Len(buffer) < HeaderBytes + Limit
  <2>1. HeaderBytes \in Nat /\ Limit \in Nat
    BY DEF Frames!StreamAssumption
  <2>2. CASE Frames!HasHeader
    <3>1. Frames!Announced \in Nat
      BY <1>1, <1>2, <2>2, HeaderIsNext DEF FrameInv
    <3> QED BY <1>3, <2>1, <2>2, <3>1 DEF Frames!Starved, Frames!Oversize, Frames!Complete
  <2>3. CASE ~Frames!HasHeader
    BY <1>3, <2>1, <2>3 DEF Frames!HasHeader
  <2> QED BY <2>2, <2>3
<1>11. Frames!BufferBounded'
  <2>1. Len(buffer') = Len(buffer) + k
    BY <1>8
  <2>2. HeaderBytes \in Nat /\ Limit \in Nat
    BY DEF Frames!StreamAssumption
  <2> QED BY <1>3, <1>10, <2>1, <2>2 DEF Frames!BufferBounded
<1> QED BY <1>7, <1>9, <1>11 DEF FrameInv, Frames!RefusedForCause

LEMMA DisconnectedKeepsFrames == ASSUME Frames!StreamAssumption, FrameInv, Frames!Disconnected PROVE FrameInv'
<1> USE DEF Frames!Disconnected, Frames!ReceiverOnly
<1>1. PICK lost, b : Holds(lost, b)
  BY DEF FrameInv
<1>2. Stream(lost)' = Stream(lost)
  BY DEF Stream
<1>3. Holds(lost, b)'
  BY <1>1, <1>2, HoldsStays
<1> QED BY <1>3 DEF FrameInv, Frames!RefusedForCause, Frames!BufferBounded, Frames!TypeOK

LEMMA RefuseKeepsFrames == ASSUME Frames!StreamAssumption, FrameInv, Frames!Refuse PROVE FrameInv'
<1> USE DEF Frames!Refuse, Frames!ReceiverOnly
<1>1. PICK lost, b : Holds(lost, b)
  BY DEF FrameInv
<1>2. Stream(lost)' = Stream(lost)
  BY DEF Stream
<1>3. Holds(lost, b)'
  BY <1>1, <1>2, HoldsStays
<1>4. Len(delivered) + 1 \in 1 .. Len(sent) /\ Frames!Announced = Len(FrameAhead)
  BY <1>1, HeaderIsNext DEF FrameInv
<1>5. Len(delivered) < Len(sent)
  <2>1. Len(delivered) \in Nat /\ Len(sent) \in Nat
    BY LenProperties DEF FrameInv, Frames!TypeOK
  <2> QED BY <1>4, <2>1
<1>6. Frames!RefusedForCause'
  BY <1>4, <1>5 DEF Frames!RefusedForCause, Frames!Oversize, FrameAhead
<1> QED BY <1>3, <1>6 DEF FrameInv, Frames!BufferBounded, Frames!TypeOK

\* A payload is taken from the stream: what is left are the frames after it.
LEMMA PopFrames ==
    ASSUME Frames!StreamAssumption, FrameInv, NEW lost, NEW b, Holds(lost, b), Frames!Pop,
           NEW c, c = [i \in Len(delivered) + 1 .. Len(sent) |-> b[i] - (HeaderBytes + Frames!Announced)]
    PROVE  Holds(lost, c)'
<1> USE DEF Frames!Pop, Frames!ReceiverOnly
<1> DEFINE d == Len(delivered)
           n == HeaderBytes + Frames!Announced
           last == Len(sent)
<1>1. /\ Frames!TypeOK /\ delivered \in Seq(Payload) /\ d \in Nat /\ d <= last /\ sent \in Seq(Payload)
      /\ last \in Nat /\ lost \in Seq(Frames!Byte)
  BY LenProperties DEF FrameInv, Frames!TypeOK, Holds
<1>2. PICK T : T = Stream(lost)
  OBVIOUS
<1>3. PICK h : h = HeaderBytes + Frames!Announced
  OBVIOUS
<1>4. /\ d + 1 \in 1 .. last /\ Frames!Announced = Len(FrameAhead) /\ Frames!Announced \in Nat
      /\ b[d + 1] = h /\ FrameAhead \in Payload
      /\ SubSeq(buffer, HeaderBytes + 1, HeaderBytes + Frames!Announced) = FrameAhead
  BY <1>1, <1>3, HeaderIsNext
<1>5. HeaderBytes \in Nat /\ h \in Nat /\ h <= Len(buffer)
  BY <1>3, <1>4 DEF Frames!StreamAssumption, Frames!Complete
<1>6. Len(delivered') = d + 1 /\ delivered' \in Seq(Payload)
  <2>1. delivered' = Append(delivered, FrameAhead)
    BY <1>4
  <2>2. delivered \in Seq(Payload) /\ FrameAhead \in Payload
    BY <1>1, <1>4
  <2>3. /\ Append(delivered, FrameAhead) \in Seq(Payload)
        /\ Len(Append(delivered, FrameAhead)) = Len(delivered) + 1
    BY ONLY <2>2, AppendProperties
  <2> QED BY <2>1, <2>3
<1>7. /\ buffer \in Seq(Frames!Byte) /\ Len(buffer) \in Nat /\ T \in Seq(Frames!Byte) /\ Len(T) \in Nat
      /\ Len(buffer) <= Len(T) /\ wire \o (out \o lost) \in Seq(Frames!Byte)
  BY <1>1, <1>2, StreamIs
<1>8. PICK rest : rest = wire \o (out \o lost)
  OBVIOUS
<1>9. Stream(lost)' = Frames!Skip(T, h)
  <2>1. buffer \in Seq(Frames!Byte) /\ rest \in Seq(Frames!Byte) /\ h \in 0 .. Len(buffer)
    BY <1>5, <1>7, <1>8
  <2>2. Frames!Skip(buffer, h) \o rest = Frames!Skip(buffer \o rest, h)
    BY ONLY <2>1, SkipConcat
  <2>3. Stream(lost)' = Frames!Skip(buffer, h) \o rest
    BY <1>3, <1>8 DEF Stream
  <2>4. T = buffer \o rest
    BY <1>2, <1>8 DEF Stream
  <2> QED BY <2>2, <2>3, <2>4
<1>10. PICK U : U = Frames!Skip(T, h)
  OBVIOUS
<1>11. U \in Seq(Frames!Byte) /\ Len(U) = Len(T) - h /\ \A i \in 1 .. Len(T) - h : U[i] = T[h + i]
  <2>1. T \in Seq(Frames!Byte) /\ h \in 0 .. Len(T)
    BY <1>5, <1>7
  <2> QED BY ONLY <1>10, <2>1, TakeSkip
<1>12. Framed(T, b)
  BY <1>2 DEF Holds
<1>13. \A i \in d + 1 .. last : b[i] \in Nat /\ h <= b[i] /\ b[i] <= Len(T) /\ c[i] = b[i] - h
  <2>1. SUFFICES ASSUME NEW i \in d + 1 .. last
                 PROVE  b[i] \in Nat /\ h <= b[i] /\ b[i] <= Len(T) /\ c[i] = b[i] - h
    OBVIOUS
  <2>2. i \in d .. last /\ d + 1 \in d .. last /\ last \in d .. last /\ d + 1 <= i /\ i <= last
    BY <1>1, <1>4
  <2>3. b[d + 1] <= b[i] /\ b[i] <= b[last] /\ b[i] \in Nat /\ b[last] = Len(T)
    BY <1>12, <2>2 DEF Framed, Ahead
  <2> QED BY <1>3, <1>4, <2>3
<1>14. c \in [d + 1 .. last -> Nat] /\ c[d + 1] = 0 /\ c[last] = Len(U)
  <2>1. \A i \in d + 1 .. last : b[i] - h \in Nat
    BY <1>5, <1>13
  <2>2. c \in [d + 1 .. last -> Nat]
    BY <1>3, <2>1
  <2>3. d + 1 \in d + 1 .. last /\ last \in d + 1 .. last
    BY <1>1, <1>4
  <2>4. b[last] = Len(T)
    BY <1>12 DEF Framed
  <2>5. c[d + 1] = h - h /\ c[last] = Len(T) - h
    BY <1>4, <1>13, <2>3, <2>4
  <2> QED BY <1>5, <1>7, <1>11, <2>2, <2>5
<1>15. \A i, j \in d + 1 .. last : i <= j => c[i] <= c[j]
  <2>1. SUFFICES ASSUME NEW i \in d + 1 .. last, NEW j \in d + 1 .. last, i <= j PROVE c[i] <= c[j]
    OBVIOUS
  <2>2. i \in d .. last /\ j \in d .. last
    BY <1>1
  <2>3. b[i] <= b[j]
    BY <1>12, <2>1, <2>2 DEF Framed, Ahead
  <2> QED BY <1>5, <1>13, <2>3
<1>16. ASSUME NEW i \in d + 1 + 1 .. last
       PROVE  /\ c[i] = c[i - 1] + HeaderBytes + Len(sent[i])
              /\ \A k \in 1 .. HeaderBytes + Len(sent[i]) : U[c[i - 1] + k] = Frames!encodeFrame(sent[i])[k]
  <2>1. i \in d + 1 .. last /\ i - 1 \in d + 1 .. last /\ i \in 1 .. last
    BY <1>1
  <2>2. PICK l : l = Len(sent[i])
    OBVIOUS
  <2>3. l \in Nat
    <3>1. sent[i] \in Payload
      BY <1>1, <2>1, ElementOfSeq
    <3> QED BY <2>2, <3>1, EncodeIs
  <2>4. PICK u, v : u = b[i - 1] /\ v = b[i]
    OBVIOUS
  <2>5. /\ v = u + HeaderBytes + l
        /\ \A k \in 1 .. HeaderBytes + l : T[u + k] = Frames!encodeFrame(sent[i])[k]
    BY <1>12, <2>1, <2>2, <2>4 DEF Framed
  <2>6. u \in Nat /\ v \in Nat /\ h <= u /\ v <= Len(T) /\ c[i] = v - h /\ c[i - 1] = u - h
    BY <1>13, <2>1, <2>4
  <2>7. c[i] = c[i - 1] + HeaderBytes + l
    BY <1>5, <2>3, <2>5, <2>6
  <2>8. ASSUME NEW k \in 1 .. HeaderBytes + l PROVE U[c[i - 1] + k] = Frames!encodeFrame(sent[i])[k]
    <3>1. u - h + k \in 1 .. Len(T) - h /\ h + (u - h + k) = u + k
      BY <1>5, <1>7, <2>3, <2>5, <2>6, SMTT(40)
    <3>2. U[u - h + k] = T[u + k]
      BY <1>11, <3>1
    <3> QED BY <2>5, <2>6, <3>2
  <2> QED BY <2>2, <2>7, <2>8
<1>17. Framed(Stream(lost), c)'
  <2>1. Stream(lost)' = U /\ Len(delivered') = d + 1 /\ sent' = sent /\ Ahead' = d + 1 .. last
    BY <1>6, <1>9, <1>10 DEF Ahead
  <2>2. \A i \in Len(delivered') + 1 .. Len(sent') :
          /\ c[i] = c[i - 1] + HeaderBytes + Len(sent'[i])
          /\ \A k \in 1 .. HeaderBytes + Len(sent'[i]) :
                Stream(lost)'[c[i - 1] + k] = Frames!encodeFrame(sent'[i])[k]
    BY ONLY <1>16, <2>1
  <2>3. c \in [Ahead' -> Nat] /\ c[Len(delivered')] = 0 /\ c[Len(sent')] = Len(Stream(lost)')
        /\ \A i, j \in Ahead' : i <= j => c[i] <= c[j]
    BY <1>14, <1>15, <2>1
  <2> QED BY <2>2, <2>3 DEF Framed, Frames!encodeFrame, Frames!Header, Frames!Shifted
<1> QED BY <1>1, <1>17 DEF Holds

LEMMA PopKeepsFrames == ASSUME Frames!StreamAssumption, FrameInv, Frames!Pop PROVE FrameInv'
<1> USE DEF Frames!Pop, Frames!ReceiverOnly
<1>1. PICK lost, b : Holds(lost, b)
  BY DEF FrameInv
<1>2. PICK c : c = [i \in Len(delivered) + 1 .. Len(sent) |-> b[i] - (HeaderBytes + Frames!Announced)]
  OBVIOUS
<1>3. Holds(lost, c)'
  BY <1>1, <1>2, PopFrames
<1>4. /\ Len(delivered) + 1 \in 1 .. Len(sent) /\ FrameAhead \in Payload /\ Frames!Announced \in Nat
      /\ SubSeq(buffer, HeaderBytes + 1, HeaderBytes + Frames!Announced) = FrameAhead
  BY <1>1, HeaderIsNext DEF FrameInv
<1>5. /\ delivered \in Seq(Payload) /\ buffer \in Seq(Frames!Byte) /\ Len(buffer) \in Nat
      /\ HeaderBytes + Frames!Announced \in 0 .. Len(buffer) /\ HeaderBytes \in Nat
  BY <1>4, LenProperties DEF FrameInv, Frames!TypeOK, Frames!StreamAssumption, Frames!Complete
<1>6. delivered' \in Seq(Payload) /\ Len(delivered') <= Len(sent')
  <2>1. Len(delivered') = Len(delivered) + 1 /\ delivered' \in Seq(Payload)
    BY <1>4, <1>5, AppendProperties
  <2> QED BY <1>4, <2>1
<1>7. buffer' \in Seq(Frames!Byte) /\ Len(buffer') = Len(buffer) - (HeaderBytes + Frames!Announced)
  <2>1. PICK h : h = HeaderBytes + Frames!Announced
    OBVIOUS
  <2>2. buffer \in Seq(Frames!Byte) /\ h \in 0 .. Len(buffer)
    BY <1>5, <2>1
  <2>3. Frames!Skip(buffer, h) \in Seq(Frames!Byte) /\ Len(Frames!Skip(buffer, h)) = Len(buffer) - h
    BY ONLY <2>2, TakeSkip
  <2> QED BY <2>1, <2>3
<1>8. Frames!TypeOK'
  BY <1>7 DEF FrameInv, Frames!TypeOK
<1>9. Frames!BufferBounded'
  BY <1>4, <1>5, <1>7 DEF FrameInv, Frames!BufferBounded, Frames!StreamAssumption
<1> QED BY <1>3, <1>6, <1>8, <1>9 DEF FrameInv, Frames!RefusedForCause

-----------------------------------------------------------------------------
LEMMA StepKeepsFrames == ASSUME Frames!StreamAssumption, FrameInv, [Frames!Next]_(Frames!vars) PROVE FrameInv'
<1>1. CASE \E p \in Payload : Frames!sendFrame(p)
  BY <1>1, SendKeepsFrames
<1>2. CASE Frames!Writes
  BY <1>2, WriteKeepsFrames DEF Frames!Writes
<1>3. CASE Frames!Breaks
  BY <1>3, BreaksKeepsFrames
<1>4. CASE Frames!Pop
  BY <1>4, PopKeepsFrames
<1>5. CASE Frames!Refuse
  BY <1>5, RefuseKeepsFrames
<1>6. CASE Frames!Disconnected
  BY <1>6, DisconnectedKeepsFrames
<1>7. CASE \E k \in 1 .. RecvBuffer : Frames!Recv(k)
  BY <1>7, RecvKeepsFrames
<1>8. CASE Frames!Reconnect
  BY <1>8, ReconnectKeepsFrames
<1>9. CASE UNCHANGED Frames!vars
  <2> USE <1>9 DEF Frames!vars
  <2>1. PICK lost, b : Holds(lost, b)
    BY DEF FrameInv
  <2>2. Stream(lost)' = Stream(lost)
    BY DEF Stream
  <2>3. Holds(lost, b)'
    BY <2>1, <2>2, HoldsStays
  <2> QED BY <2>3 DEF FrameInv, Frames!RefusedForCause, Frames!BufferBounded, Frames!TypeOK
<1> QED BY <1>1, <1>2, <1>3, <1>4, <1>5, <1>6, <1>7, <1>8, <1>9 DEF Frames!Next, Frames!Receives

\* The frames of a connection lie end to end in what was delivered, is buffered, is
\* under way and is still to send (protocol.cpp, socket_io.cpp).
THEOREM FramesHold == ASSUME Frames!StreamAssumption PROVE Frames!Spec => []FrameInv
<1>1. Frames!Init => FrameInv
  BY InitFrames
<1>2. FrameInv /\ [Frames!Next]_(Frames!vars) => FrameInv'
  BY StepKeepsFrames
<1> QED BY <1>1, <1>2, PTL DEF Frames!Spec

\* Nothing above the limit is delivered, a connection is given up for nothing else,
\* and the decoder's buffer stays within its bound (FrameDecoder::next).
THEOREM LimitIsKept == ASSUME Frames!StreamAssumption PROVE Frames!Spec => []Frames!LimitKept
<1>1. FrameInv => Frames!LimitKept
  BY DEF FrameInv, Frames!LimitKept
<1> QED BY <1>1, FramesHold, PTL

\* Every step of the stream is one of the channel, or none.
LEMMA StepOfChannel ==
    ASSUME Frames!StreamAssumption, FrameInv, [Frames!Next]_(Frames!vars)
    PROVE  [Frames!Channel!Next]_<<sent, delivered, closed>>
<1> USE DEF Frames!Channel!Next
<1>1. CASE \E p \in Payload : Frames!sendFrame(p)
  BY <1>1 DEF Frames!sendFrame, Frames!SenderOnly, Frames!Channel!Send
<1>2. CASE Frames!Writes
  BY <1>2 DEF Frames!Writes, Frames!Write, Frames!SenderOnly
<1>3. CASE Frames!Breaks
  BY <1>3 DEF Frames!Breaks, Frames!SenderOnly
<1>4. CASE Frames!Pop
  <2>1. PICK lost, b : Holds(lost, b)
    BY DEF FrameInv
  <2>2. /\ Len(delivered) + 1 \in 1 .. Len(sent) /\ Frames!Announced = Len(FrameAhead) /\ Frames!Announced \in Nat
        /\ SubSeq(buffer, HeaderBytes + 1, HeaderBytes + Frames!Announced) = FrameAhead
    BY <1>4, <2>1, HeaderIsNext DEF FrameInv, Frames!Pop
  <2>3. Len(delivered) < Len(sent)
    BY <2>2, LenProperties DEF FrameInv, Frames!TypeOK
  <2>4. Len(FrameAhead) <= Limit
    BY <1>4, <2>2 DEF Frames!Pop, Frames!Oversize, Frames!StreamAssumption
  <2> QED BY <1>4, <2>2, <2>3, <2>4 DEF Frames!Pop, Frames!ReceiverOnly, Frames!Channel!Deliver, Frames!Channel!NextPayload, FrameAhead
<1>5. CASE Frames!Refuse
  BY <1>5 DEF Frames!Refuse, Frames!ReceiverOnly, Frames!Channel!Close
<1>6. CASE Frames!Disconnected
  BY <1>6 DEF Frames!Disconnected, Frames!Starved, Frames!ReceiverOnly, Frames!Channel!Close
<1>7. CASE \E k \in 1 .. RecvBuffer : Frames!Recv(k)
  BY <1>7 DEF Frames!Recv, Frames!ReceiverOnly
<1>8. CASE Frames!Reconnect
  BY <1>8 DEF Frames!Reconnect, Frames!Channel!Reconnect
<1>9. CASE UNCHANGED Frames!vars
  BY <1>9 DEF Frames!vars
<1> QED BY <1>1, <1>2, <1>3, <1>4, <1>5, <1>6, <1>7, <1>8, <1>9 DEF Frames!Next, Frames!Receives

\* recvFrame() returns the payloads handed to sendFrame(), in order, whatever pieces
\* recv() returns (socket_io.cpp).
THEOREM StreamIsChannel == ASSUME Frames!StreamAssumption PROVE Frames!Spec => Frames!ImplementsChannel
<1>1. Frames!Init => Frames!Channel!Init
  BY DEF Frames!Init, Frames!Channel!Init
<1>2. FrameInv /\ [Frames!Next]_(Frames!vars) => [Frames!Channel!Next]_<<sent, delivered, closed>>
  BY StepOfChannel
<1> QED BY <1>1, <1>2, FramesHold, PTL DEF Frames!Spec, Frames!ImplementsChannel, Frames!Channel!Spec

-----------------------------------------------------------------------------
(* The hierarchy that is built in parallel: its invariant *)

\* A node, a task, and a range with something in it.
Node == [left : Nat, from : 0 .. Refs, to : 0 .. Refs]
Task == [node : Nat \ {0}, from : 0 .. Refs, to : 0 .. Refs, depth : Nat]
Span == {r \in [from : 0 .. Refs, to : 0 .. Refs] : r.from < r.to}

\* Split points: of ranges, and inside of them.
Proper(at) == DOMAIN at \subseteq Span /\ \A s \in DOMAIN at : at[s] \in s.from + 1 .. s.to - 1

\* How two ranges lie to each other; Clear: R is no part of r.
Inside(r, R) == R.from <= r.from /\ r.to <= R.to
Disjoint(r, s) == r.to <= s.from \/ s.to <= r.from
Clear(R, r) == Disjoint(R, r) \/ (Inside(r, R) /\ (R.from # r.from \/ R.to # r.to))

\* r is no range that the split of s cuts.
Apart(at, s, r) ==
    \/ Disjoint(s, r)
    \/ s.from <= r.from /\ r.to <= at[s]
    \/ at[s] <= r.from /\ r.to <= s.to

Grow(at, r, mid) == Build!With(at, r, mid)

\* the levels above d
Up(at, d) == Build!FlattenSeq([e \in 1 .. d |-> Build!Levels(at)[e - 1]])

\* A range, and what lies below it.
TreeOf(at, R) == <<R>> \o Build!Under(at, R)

\* Node i of N is what range i of R asks for: a leaf, or a link to its halves.
Linked(at, R, N, i) ==
    IF R[i] \notin DOMAIN at THEN N[i] = Build!Leaf(R[i])
    ELSE \E l \in 1 .. Len(R) - 1 :
            N[i] = Build!Inner(l) /\ Build!Children(at, R[i]) = <<R[l], R[l + 1]>>

\* An array of nodes that points nowhere beyond itself.
Array(q) == q \in Seq(Node) /\ \A i \in 1 .. Len(q) : q[i].left < Len(q)

\* The inductive invariant, in its parts.
TypeInv ==
    /\ phase \in {"level", "subtrees", "fold", "done", "cancelled"}
    /\ Array(nodes) /\ tasks \in Seq(Task) /\ depth \in 0 .. TaskDepth
    /\ nextTask \in 1 .. Len(tasks) + 1 /\ folded \in 0 .. Len(tasks)
    /\ working \in [Worker -> 0 .. Len(tasks)] /\ stack \in [Worker -> Seq(Task)]
    /\ phase = "level" =>
        nextTask = 1 /\ folded = 0 /\ (\A w \in Worker : working[w] = 0 /\ stack[w] = <<>>)
            /\ subtrees = <<>>
    /\ phase # "level" => DOMAIN subtrees = 1 .. Len(tasks) /\ \A t \in 1 .. Len(tasks) : Array(subtrees[t])

\* The range of a task.
Of(t) == Build!RangeOf(tasks[t])

\* The tasks of level d are its ranges, which are apart from each other and from those above.
TasksAt(d) ==
    /\ Len(tasks) = Len(Build!Levels(splitAt)[d])
    /\ \A i \in 1 .. Len(tasks) :
        /\ Of(i) = Build!Levels(splitAt)[d][i] /\ tasks[i].node = Len(Up(splitAt, d)) + i
        /\ \A j \in 1 .. Len(tasks) : i # j => Disjoint(Of(i), Of(j))
        /\ \A p \in 1 .. Len(Up(splitAt, d)) : Clear(Up(splitAt, d)[p], Of(i))

\* What was split of the level is in splitAt, and nothing else cuts a range of it.
SplitInv ==
    /\ DOMAIN splits \subseteq 1 .. Len(tasks) /\ (depth = TaskDepth => DOMAIN splits = {})
    /\ \A i \in DOMAIN splits :
        IF splits[i] = tasks[i].to
        THEN Of(i) \notin DOMAIN splitAt /\ nodes[tasks[i].node] = Build!Leaf(tasks[i])
        ELSE Of(i) \in DOMAIN splitAt /\ splitAt[Of(i)] = splits[i]
    /\ \A s \in DOMAIN splitAt, i \in 1 .. Len(tasks) :
        Apart(splitAt, s, Of(i)) \/ (i \in DOMAIN splits /\ s = Of(i))

\* The nodes of the levels above are linked; those of the level come after them.
UpperLinked ==
    /\ Len(nodes) = Len(Up(splitAt, depth)) + Len(tasks)
    /\ \A i \in 1 .. Len(Up(splitAt, depth)) : Linked(splitAt, Up(splitAt, depth + 1), nodes, i)

LevelInv == phase = "level" => TasksAt(depth) /\ SplitInv /\ UpperLinked

Later == phase \in {"subtrees", "fold", "done"}

Tree(t) == TreeOf(splitAt, Of(t))

\* What a worker has still to build of the subtree T of R, in the order of the ranges.
OnStack(at, R, T, q) ==
    \A k \in 1 .. Len(q) :
        /\ Build!RangeOf(q[k]) \in Span /\ Inside(Build!RangeOf(q[k]), R)
        /\ q[k].node \in 1 .. Len(T) /\ T[q[k].node] = Build!RangeOf(q[k])
        /\ \A j \in 1 .. Len(q) : k < j => q[k].to <= q[j].from
        /\ \A p \in 1 .. Len(T) : p # q[k].node => Clear(T[p], Build!RangeOf(q[k]))
        /\ \A s \in DOMAIN at :
            /\ Apart(at, s, Build!RangeOf(q[k]))
            /\ Inside(s, R) => s.from <= q[k].from

Pending(q, i) == \E k \in 1 .. Len(q) : q[k].node = i

\* Workers have tasks of their own, that were taken.
WorkerInv ==
    \A w \in Worker :
        /\ working[w] < nextTask
        /\ working[w] = 0 => stack[w] = <<>>
        /\ \A v \in Worker : v # w /\ working[w] # 0 => working[v] # working[w]

StackInv == \A w \in Worker : OnStack(splitAt, Of(working[w]), Tree(working[w]), stack[w])

\* A node of a subtree is linked, or some worker has it on its stack.
TreesInv ==
    \A t \in 1 .. nextTask - 1 :
        /\ Len(subtrees[t]) = Len(Tree(t))
        /\ \A i \in 1 .. Len(Tree(t)) :
            \/ Linked(splitAt, Tree(t), subtrees[t], i)
            \/ \E w \in Worker : working[w] = t /\ Pending(stack[w], i)

\* Nobody has split within a task that was not taken.
FreshInv == \A t \in nextTask .. Len(tasks), s \in DOMAIN splitAt : Apart(splitAt, s, Of(t))

SubtreeInv == Later => TasksAt(TaskDepth) /\ WorkerInv /\ StackInv /\ TreesInv /\ FreshInv

\* The ranges of the levels and of the first f subtrees.
Sofar(f) == Up(splitAt, TaskDepth + 1)
  \o Build!FlattenSeq([k \in 1 .. f |-> Build!Under(splitAt, Of(k))])

\* They are the nodes, and those are linked that are not the place of a subtree to come.
NodesInv ==
    /\ Len(nodes) = Len(Sofar(folded))
    /\ \A i \in 1 .. Len(Sofar(folded)) :
        \/ Linked(splitAt, Sofar(folded), nodes, i)
        \/ \E t \in folded + 1 .. Len(tasks) : i = tasks[t].node

FoldInv ==
    Later =>
        /\ NodesInv
        /\ phase = "subtrees" => folded = 0
        /\ phase # "subtrees" => nextTask = Len(tasks) + 1 /\ \A w \in Worker : working[w] = 0
        /\ phase = "done" => folded = Len(tasks)

\* A leaf is small enough, and a range of the tree is no deeper than it has lost references.
Fits(n) == n.to - n.from <= LeafSize
Nested(r) == r.to - r.from + r.depth <= Refs
LeafInv ==
    /\ \A i \in 1 .. Len(tasks) : Nested(tasks[i])
    /\ \A w \in Worker : \A k \in 1 .. Len(stack[w]) : Nested(stack[w][k])
    /\ MaxDepth >= Refs /\ ~aborted =>
        /\ \A i \in 1 .. Len(nodes) : Fits(nodes[i])
        /\ phase # "level" => \A t \in 1 .. Len(tasks) : \A i \in 1 .. Len(subtrees[t]) : Fits(subtrees[t][i])
    /\ phase \in {"fold", "done"} => ~aborted
    /\ phase = "cancelled" => nodes = <<>>

BuildInv == TypeInv /\ Proper(splitAt) /\ LevelInv /\ SubtreeInv /\ FoldInv /\ LeafInv

\* The two instances of FlattenSeq() are one.
LEMMA SameFlat == ASSUME NEW q PROVE Build!FlattenSeq(q) = FlattenSeq(q)
BY Zenon DEF Build!FlattenSeq, FlattenSeq

\* ... and so are those of Cardinality().
LEMMA SameCount == ASSUME NEW S PROVE Build!Cardinality(S) = Cardinality(S)
BY DEF Build!Cardinality, Cardinality

-----------------------------------------------------------------------------
(* The serial layout, as its recursive functions have it *)

Pair == [from : 0 .. Refs, to : 0 .. Refs]

\* A range is told by its two ends.
LEMMA PairIs ==
    ASSUME NEW x, NEW a \in 0 .. Refs, NEW b \in 0 .. Refs
    PROVE  /\ [from |-> a, to |-> b] \in Pair
           /\ x \in Pair => (x = [from |-> a, to |-> b] <=> x.from = a /\ x.to = b)
BY DEF Pair

\* The halves of a range that was split are ranges; of another there are none.
LEMMA ChildrenIs ==
    ASSUME Build!BuildAssumption, NEW at, Proper(at), NEW r \in Span
    PROVE  /\ Build!Children(at, r) \in Seq(Span)
           /\ r \notin DOMAIN at => Build!Children(at, r) = <<>>
           /\ r \in DOMAIN at =>
                /\ Build!Children(at, r) # <<>> /\ Len(Build!Children(at, r)) = 2
                /\ at[r] \in r.from + 1 .. r.to - 1
                /\ [from |-> r.from, to |-> at[r]] \in Span
                /\ [from |-> at[r], to |-> r.to] \in Span
                /\ Build!Children(at, r)[1] = [from |-> r.from, to |-> at[r]]
                /\ Build!Children(at, r)[2] = [from |-> at[r], to |-> r.to]
<1>1. CASE r \notin DOMAIN at
  BY <1>1, EmptySeq DEF Build!Children
<1>2. CASE r \in DOMAIN at
  <2>1. at[r] \in r.from + 1 .. r.to - 1 /\ Refs \in Nat /\ r.from \in 0 .. Refs
          /\ r.to \in 0 .. Refs
    BY <1>2 DEF Proper, Span, Build!BuildAssumption
  <2> DEFINE a == [from |-> r.from, to |-> at[r]]
             b == [from |-> at[r], to |-> r.to]
  <2>2. a \in Span /\ b \in Span
    BY <2>1 DEF Span
  <2>3. Build!Children(at, r) = <<a, b>>
    BY <1>2 DEF Build!Children
  <2> HIDE DEF a, b
  <2>4. /\ <<a, b>> \in Seq(Span) /\ Len(<<a, b>>) = 2 /\ <<a, b>> # <<>>
        /\ <<a, b>>[1] = a /\ <<a, b>>[2] = b
    BY <2>2
  <2> QED BY <1>2, <2>1, <2>2, <2>3, <2>4 DEF a, b
<1> QED BY <1>1, <1>2

NextOf(at, q) == Build!FlattenSeq([k \in DOMAIN q |-> Build!Children(at, q[k])])

\* The halves of the ranges of a level are ranges: the next level.
LEMMA NextIs ==
    ASSUME Build!BuildAssumption, NEW at, Proper(at), NEW q \in Seq(Span)
    PROVE  NextOf(at, q) \in Seq(Span)
<1> DEFINE F == [k \in DOMAIN q |-> Build!Children(at, q[k])]
<1>1. Len(q) \in Nat /\ DOMAIN q = 1 .. Len(q) /\ \A k \in 1 .. Len(q) : q[k] \in Span
  BY LenProperties, ElementOfSeq
<1>2. \A k \in 1 .. Len(q) : F[k] \in Seq(Span)
  BY <1>1, ChildrenIs
<1>3. [k \in 1 .. Len(q) |-> F[k]] = F
  BY <1>1
<1> HIDE DEF F
<1>4. Build!FlattenSeq(F) \in Seq(Span)
  <2>1. Build!FlattenSeq([k \in 1 .. Len(q) |-> F[k]]) \in Seq(Span)
    BY <1>1, <1>2, FlatOf, SameFlat
  <2> QED BY <1>3, <2>1
<1> QED BY <1>4 DEF NextOf, F

\* The levels, unfolded: the root, then of each the halves of the one before.
LEMMA LevelsAre ==
    ASSUME Build!BuildAssumption, NEW at, Proper(at)
    PROVE  /\ Build!Levels(at) \in [0 .. TaskDepth -> Seq(Span)]
           /\ Build!Levels(at)[0] = <<Build!Range0>>
           /\ \A d \in 1 .. TaskDepth : Build!Levels(at)[d] = NextOf(at, Build!Levels(at)[d - 1])
<1> DEFINE Step == [q \in Seq(Span) |-> NextOf(at, q)]
<1>1. Step \in [Seq(Span) -> Seq(Span)]
  BY NextIs
<1>2. TaskDepth \in Nat
  BY DEF Build!BuildAssumption
<1>3. <<Build!Range0>> \in Seq(Span)
  <2>1. Build!Range0 \in Span
    BY DEF Build!Range0, Span, Build!BuildAssumption
  <2> HIDE DEF Span
  <2> QED BY <2>1
<1> HIDE DEF Step
<1>4. PICK f : Iterated(f, Seq(Span), <<Build!Range0>>, Step, TaskDepth)
  <2> DEFINE U == Seq(Span)
             x == <<Build!Range0>>
  <2>1. x \in U /\ Step \in [U -> U]
    BY <1>1, <1>3
  <2> HIDE DEF U, x
  <2>2. \E f : Iterated(f, U, x, Step, TaskDepth)
    BY <1>2, <2>1, Iterates
  <2> QED BY <2>2, Zenon DEF U, x
<1>5. \A d \in 1 .. TaskDepth : d - 1 \in 0 .. TaskDepth
  BY <1>2
<1>6. \A d \in 1 .. TaskDepth : f[d] = NextOf(at, f[d - 1])
  BY <1>4, <1>5, Zenon DEF Step, Iterated
<1> DEFINE level == CHOOSE u : u = [d \in 0 .. TaskDepth |->
                IF d = 0 THEN <<Build!Range0>>
                ELSE Build!FlattenSeq([k \in DOMAIN u[d - 1] |-> Build!Children(at, u[d - 1][k])])]
<1>7. f = [d \in 0 .. TaskDepth |-> IF d = 0 THEN <<Build!Range0>> ELSE NextOf(at, f[d - 1])]
  <2>1. \A d \in 0 .. TaskDepth : d # 0 => d \in 1 .. TaskDepth
    BY <1>2
  <2> QED BY <1>4, <1>6, <2>1 DEF Iterated
<1>8. level = [d \in 0 .. TaskDepth |-> IF d = 0 THEN <<Build!Range0>> ELSE NextOf(at, level[d - 1])]
  <2>1. f = [d \in 0 .. TaskDepth |->
                IF d = 0 THEN <<Build!Range0>>
                ELSE Build!FlattenSeq([k \in DOMAIN f[d - 1] |-> Build!Children(at, f[d - 1][k])])]
    BY <1>7, Zenon DEF NextOf
  <2>2. level = [d \in 0 .. TaskDepth |->
                IF d = 0 THEN <<Build!Range0>>
                ELSE Build!FlattenSeq([k \in DOMAIN level[d - 1] |-> Build!Children(at, level[d - 1][k])])]
    BY <2>1, Zenon
  <2> HIDE DEF level
  <2> QED BY <2>2, Zenon DEF NextOf
<1>9. Build!Levels(at) = level
  BY DEF Build!Levels
<1> HIDE DEF level
<1> DEFINE Good == {k \in Nat : k <= TaskDepth => level[k] \in Seq(Span)}
<1>10. level[0] = <<Build!Range0>>
  BY <1>2, <1>8
<1>11. \A d \in 1 .. TaskDepth : level[d] = NextOf(at, level[d - 1])
  <2>1. \A d \in 1 .. TaskDepth : d \in 0 .. TaskDepth /\ d # 0
    BY <1>2
  <2> QED BY <1>8, <2>1, Zenon
<1>12. 0 \in Good
  BY <1>3, <1>10
<1>13. ASSUME NEW k \in Nat, k \in Good PROVE k + 1 \in Good
  <2>1. SUFFICES ASSUME k + 1 <= TaskDepth PROVE level[k + 1] \in Seq(Span)
    OBVIOUS
  <2>2. PICK d \in 1 .. TaskDepth : d = k + 1 /\ d - 1 = k
    BY <1>2, <2>1
  <2>3. level[k] \in Seq(Span)
    BY <1>2, <1>13, <2>1
  <2>4. NextOf(at, level[k]) \in Seq(Span)
    BY <2>3, NextIs
  <2> QED BY <1>11, <2>2, <2>4, Zenon
<1>14. \A k \in Nat : k \in Good
  <2> HIDE DEF Good
  <2> QED BY <1>12, <1>13, NatsFrom
<1>15. \A k \in 0 .. TaskDepth : level[k] \in Seq(Span)
  BY <1>2, <1>14
<1>16. level \in [0 .. TaskDepth -> Seq(Span)]
  <2> DEFINE U == Seq(Span)
  <2>1. \A k \in 0 .. TaskDepth : level[k] \in U
    BY <1>15
  <2>2. level = [k \in 0 .. TaskDepth |-> level[k]]
    BY <1>8, Zenon
  <2> HIDE DEF U
  <2>3. level \in [0 .. TaskDepth -> U]
    BY <2>1, <2>2, Zenon
  <2> QED BY <2>3, Zenon DEF U
<1> QED BY <1>9, <1>10, <1>11, <1>16

\* The halves of a split range.
First(at, r) == [from |-> r.from, to |-> at[r]]
Second(at, r) == [from |-> at[r], to |-> r.to]
Size(r) == r.to - r.from

\* The halves are ranges, and both are smaller.
LEMMA HalvesAre ==
    ASSUME Build!BuildAssumption, NEW at, Proper(at), NEW r \in DOMAIN at
    PROVE  /\ r \in Span /\ r \in Pair /\ Size(r) \in 1 .. Refs
           /\ First(at, r) \in Span /\ Second(at, r) \in Span
           /\ First(at, r) \in Pair /\ Second(at, r) \in Pair
           /\ Size(First(at, r)) = at[r] - r.from /\ Size(Second(at, r)) = r.to - at[r]
           /\ at[r] - r.from \in 1 .. Size(r) - 1 /\ r.to - at[r] \in 1 .. Size(r) - 1
<1>1. /\ r \in Span /\ at[r] \in r.from + 1 .. r.to - 1 /\ Refs \in Nat
      /\ r.from \in 0 .. Refs /\ r.to \in 0 .. Refs /\ r \in Pair
  BY DEF Proper, Span, Build!BuildAssumption, Pair
<1>2. First(at, r) \in Span /\ Second(at, r) \in Span
  BY <1>1, ChildrenIs DEF First, Second
<1>3. /\ First(at, r).from = r.from /\ First(at, r).to = at[r]
      /\ Second(at, r).from = at[r] /\ Second(at, r).to = r.to
  BY DEF First, Second
<1>4. Span \subseteq Pair
  BY DEF Span, Pair
<1> QED BY <1>1, <1>2, <1>3, <1>4 DEF Size

\* What f has below r, when it has what is below its halves.
Gathers(f, at, r, i) ==
    IF Size(r) # i \/ r \notin DOMAIN at THEN <<>>
    ELSE Build!Children(at, r) \o f[at[r] - r.from][First(at, r)] \o f[r.to - at[r]][Second(at, r)]

Gathered(f, at, n) ==
    /\ f \in [1 .. n -> [Pair -> Seq(Span)]]
    /\ \A i \in 1 .. n, r \in Pair : f[i][r] = Gathers(f, at, r, i)

\* What is gathered below a range, from what is below the smaller ones, is a sequence of ranges.
LEMMA GathersSeq ==
    ASSUME Build!BuildAssumption, NEW at, Proper(at), NEW n \in Nat, NEW r \in Pair, NEW f,
           \A j \in 1 .. n - 1, p \in Pair : f[j][p] \in Seq(Span)
    PROVE  Gathers(f, at, r, n) \in Seq(Span)
<1>1. CASE Size(r) # n \/ r \notin DOMAIN at
  <2>1. Gathers(f, at, r, n) = <<>>
    BY <1>1 DEF Gathers
  <2> QED BY <2>1, EmptySeq
<1>2. CASE ~(Size(r) # n \/ r \notin DOMAIN at)
  <2>1. Size(r) = n /\ r \in DOMAIN at
    BY <1>2
  <2> DEFINE x == f[at[r] - r.from][First(at, r)]
             y == f[r.to - at[r]][Second(at, r)]
  <2>2. /\ at[r] - r.from \in 1 .. n - 1 /\ r.to - at[r] \in 1 .. n - 1
        /\ First(at, r) \in Pair /\ Second(at, r) \in Pair /\ r \in Span
    BY <2>1, HalvesAre
  <2>3. x \in Seq(Span) /\ y \in Seq(Span)
    BY <2>2
  <2>4. Build!Children(at, r) \in Seq(Span)
    BY <2>2, ChildrenIs
  <2>5. Gathers(f, at, r, n) = Build!Children(at, r) \o x \o y
    BY <2>1 DEF Gathers
  <2> HIDE DEF x, y
  <2> QED BY <2>3, <2>4, <2>5, ConcatProperties
<1> QED BY <1>1, <1>2

\* There is what lies below the ranges up to a size.
LEMMA GatheredExists ==
    ASSUME Build!BuildAssumption, NEW at, Proper(at), NEW n \in Nat
    PROVE  \E f : Gathered(f, at, n)
<1> DEFINE S == {k \in Nat : \E f : Gathered(f, at, k)}
<1>1. 0 \in S
  <2>1. Gathered([i \in 1 .. 0 |-> 0], at, 0)
    BY DEF Gathered
  <2> QED BY <2>1
<1>2. ASSUME NEW k \in Nat, k \in S PROVE k + 1 \in S
  <2>1. PICK f : Gathered(f, at, k)
    BY <1>2
  <2> DEFINE U == Seq(Span)
             h == [r \in Pair |-> Gathers(f, at, r, k + 1)]
             g == [i \in 1 .. k + 1 |-> IF i <= k THEN f[i] ELSE h]
  <2>2. f \in [1 .. k -> [Pair -> U]] /\ \A i \in 1 .. k, r \in Pair : f[i][r]
          = Gathers(f, at, r, i)
    BY <2>1 DEF Gathered
  <2>3. \A j \in 1 .. k + 1 - 1, p \in Pair : f[j][p] \in Seq(Span)
    <3>1. \A j \in 1 .. k, p \in Pair : f[j][p] \in U
      <4> HIDE DEF U
      <4> QED BY <2>2
    <3> QED BY <3>1
  <2>4. \A r \in Pair : Gathers(f, at, r, k + 1) \in Seq(Span)
    BY <2>3, GathersSeq
  <2>5. h \in [Pair -> U]
    BY <2>4
  <2>6. g \in [1 .. k + 1 -> [Pair -> U]]
    <3> HIDE DEF U, h
    <3> QED BY <2>2, <2>5
  <2>7. ASSUME NEW i \in 1 .. k + 1, NEW r \in Pair
                 PROVE Gathers(g, at, r, i) = Gathers(f, at, r, i)
    <3>1. CASE Size(r) # i \/ r \notin DOMAIN at
      BY <3>1 DEF Gathers
    <3>2. CASE ~(Size(r) # i \/ r \notin DOMAIN at)
      <4>1. at[r] - r.from \in 1 .. i - 1 /\ r.to - at[r] \in 1 .. i - 1
        BY <3>2, HalvesAre
      <4>2. \A j \in 1 .. i - 1 : j \in 1 .. k + 1 /\ j <= k
        OBVIOUS
      <4>3. g[at[r] - r.from] = f[at[r] - r.from] /\ g[r.to - at[r]] = f[r.to - at[r]]
        BY <4>1, <4>2
      <4> HIDE DEF g
      <4> QED BY <4>3, Zenon DEF Gathers
    <3> QED BY <3>1, <3>2
  <2>8. ASSUME NEW i \in 1 .. k + 1, NEW r \in Pair PROVE g[i][r] = Gathers(g, at, r, i)
    <3>1. g[i][r] = Gathers(f, at, r, i)
      <4>1. CASE i <= k
        <5>1. i \in 1 .. k /\ g[i] = f[i]
          BY <4>1
        <5> HIDE DEF g
        <5> QED BY <2>2, <5>1, Zenon
      <4>2. CASE ~(i <= k)
        <5>1. i = k + 1 /\ g[i] = h
          BY <4>2
        <5> HIDE DEF g
        <5> QED BY <5>1, Zenon
      <4> QED BY <4>1, <4>2
    <3> HIDE DEF g
    <3> QED BY <2>7, <3>1, Zenon
  <2>9. Gathered(g, at, k + 1)
    <3> HIDE DEF g
    <3> QED BY <2>6, <2>8, Zenon DEF Gathered, U
  <2> HIDE DEF g
  <2> QED BY <2>9
<1>3. n \in S
  <2> HIDE DEF S
  <2> QED BY <1>1, <1>2, NatsFrom
<1> QED BY <1>3

\* What lies below a range: nothing, or its halves and what lies below them.
LEMMA UnderIs ==
    ASSUME Build!BuildAssumption, NEW at, Proper(at)
    PROVE  /\ \A r \in Span : Build!Under(at, r) \in Seq(Span)
           /\ \A r \in Span : r \notin DOMAIN at => Build!Under(at, r) = <<>>
           /\ \A r \in DOMAIN at :
                Build!Under(at, r) = Build!Children(at, r) \o Build!Under(at, First(at, r))
                  \o Build!Under(at, Second(at, r))
<1> DEFINE below == CHOOSE u : u = [n \in 1 .. Refs |->
               [r \in [from : 0 .. Refs, to : 0 .. Refs] |->
                   IF r.to - r.from # n \/ r \notin DOMAIN at THEN <<>>
                   ELSE Build!Children(at, r) \o u[at[r] - r.from][[from |-> r.from, to |-> at[r]]]
                                        \o u[r.to - at[r]][[from |-> at[r], to |-> r.to]]]]
<1>1. Refs \in Nat /\ Refs # 0
  BY DEF Build!BuildAssumption
<1>2. PICK f : Gathered(f, at, Refs)
  BY <1>1, GatheredExists
<1>3. f = [n \in 1 .. Refs |-> [r \in Pair |-> Gathers(f, at, r, n)]]
  <2> DEFINE U == Seq(Span)
  <2>1. /\ f \in [1 .. Refs -> [Pair -> U]]
        /\ \A i \in 1 .. Refs, r \in Pair : f[i][r] = Gathers(f, at, r, i)
    BY <1>2 DEF Gathered
  <2> HIDE DEF U
  <2>2. \A i \in 1 .. Refs : f[i] = [r \in Pair |-> Gathers(f, at, r, i)]
    BY <2>1
  <2> QED BY <2>1, <2>2, Zenon
<1>4. below = [n \in 1 .. Refs |-> [r \in Pair |-> Gathers(below, at, r, n)]]
  <2>1. f = [n \in 1 .. Refs |->
               [r \in [from : 0 .. Refs, to : 0 .. Refs] |->
                   IF r.to - r.from # n \/ r \notin DOMAIN at THEN <<>>
                   ELSE Build!Children(at, r) \o f[at[r] - r.from][[from |-> r.from, to |-> at[r]]]
                                        \o f[r.to - at[r]][[from |-> at[r], to |-> r.to]]]]
    BY <1>3, Zenon DEF Gathers, Pair, First, Second, Size
  <2>2. below = [n \in 1 .. Refs |->
               [r \in [from : 0 .. Refs, to : 0 .. Refs] |->
                   IF r.to - r.from # n \/ r \notin DOMAIN at THEN <<>>
                   ELSE Build!Children(at, r)
                     \o below[at[r] - r.from][[from |-> r.from, to |-> at[r]]]
                                        \o below[r.to - at[r]][[from |-> at[r], to |-> r.to]]]]
    BY <2>1, Zenon
  <2> HIDE DEF below
  <2> QED BY <2>2, Zenon DEF Gathers, Pair, First, Second, Size
<1>5. Build!Below(at) = below
  BY DEF Build!Below
<1> HIDE DEF below
<1>6. \A n \in 1 .. Refs, r \in Pair : below[n][r] = Gathers(below, at, r, n)
  <2> SUFFICES ASSUME NEW n \in 1 .. Refs, NEW r \in Pair
                        PROVE below[n][r] = Gathers(below, at, r, n)
    OBVIOUS
  <2>1. below[n] = [p \in Pair |-> Gathers(below, at, p, n)]
    BY <1>4, Zenon
  <2> QED BY <2>1, Zenon
<1>7. \A n \in 1 .. Refs, r \in Pair : below[n][r] \in Seq(Span)
  <2> DEFINE S == {k \in Nat : \A n \in 1 .. k, r \in Pair : n <= Refs => below[n][r] \in Seq(Span)}
  <2>1. 0 \in S
    OBVIOUS
  <2>2. ASSUME NEW k \in Nat, k \in S PROVE k + 1 \in S
    <3>1. SUFFICES ASSUME NEW n \in 1 .. k + 1, NEW r \in Pair, n <= Refs
                            PROVE below[n][r] \in Seq(Span)
      OBVIOUS
    <3>2. \A j \in 1 .. n - 1, p \in Pair : below[j][p] \in Seq(Span)
      <4>1. \A j \in 1 .. n - 1 : j \in 1 .. k /\ j <= Refs
        BY <1>1, <3>1
      <4> QED BY <2>2, <4>1
    <3>3. n \in 1 .. Refs /\ n \in Nat
      BY <1>1, <3>1
    <3>4. Gathers(below, at, r, n) \in Seq(Span)
      BY <3>2, <3>3, GathersSeq
    <3> QED BY <1>6, <3>3, <3>4
  <2>3. Refs \in S
    <3> HIDE DEF S
    <3> QED BY <1>1, <2>1, <2>2, NatsFrom
  <2> QED BY <1>1, <2>3
<1>8. ASSUME NEW r \in Span PROVE Size(r) \in 1 .. Refs /\ r \in Pair
               /\ Build!Under(at, r) = below[Size(r)][r]
  BY <1>1, <1>5 DEF Build!Under, Size, Span, Pair
<1>9. \A r \in Span : Build!Under(at, r) \in Seq(Span)
  BY <1>7, <1>8
<1>10. ASSUME NEW r \in Span, r \notin DOMAIN at PROVE Build!Under(at, r) = <<>>
  BY <1>6, <1>8, <1>10 DEF Gathers
<1>11. ASSUME NEW r \in DOMAIN at
       PROVE  Build!Under(at, r) = Build!Children(at, r) \o Build!Under(at, First(at, r))
                \o Build!Under(at, Second(at, r))
  <2>1. /\ r \in Span /\ First(at, r) \in Span /\ Second(at, r) \in Span
        /\ Size(First(at, r)) = at[r] - r.from /\ Size(Second(at, r)) = r.to - at[r]
    BY HalvesAre
  <2>2. Build!Under(at, r) = Gathers(below, at, r, Size(r))
    BY <1>6, <1>8, <2>1
  <2>3. /\ Build!Under(at, First(at, r)) = below[at[r] - r.from][First(at, r)]
        /\ Build!Under(at, Second(at, r)) = below[r.to - at[r]][Second(at, r)]
    BY <1>8, <2>1
  <2> QED BY <1>11, <2>2, <2>3, Zenon DEF Gathers
<1> QED BY <1>9, <1>10, <1>11

-----------------------------------------------------------------------------
(* One more split *)

\* One split more: the others and their halves are as they were.
LEMMA GrowIs ==
    ASSUME Build!BuildAssumption, NEW at, Proper(at), NEW r \in Span, r \notin DOMAIN at,
           NEW mid \in r.from + 1 .. r.to - 1
    PROVE  /\ Proper(Grow(at, r, mid)) /\ DOMAIN Grow(at, r, mid) = DOMAIN at \cup {r}
           /\ Grow(at, r, mid)[r] = mid
           /\ \A s \in DOMAIN at : Grow(at, r, mid)[s] = at[s] /\ s # r
           /\ \A s : s # r => Build!Children(Grow(at, r, mid), s) = Build!Children(at, s)
<1> DEFINE bt == Grow(at, r, mid)
<1>1. DOMAIN bt = DOMAIN at \cup {r} /\ bt[r] = mid /\ \A s \in DOMAIN at : bt[s] = at[s]
  BY DEF Grow, Build!With
<1>2. \A s \in DOMAIN at : s # r
  OBVIOUS
<1> HIDE DEF bt
<1>3. Proper(bt)
  BY <1>1, <1>2 DEF Proper
<1>4. ASSUME NEW s, s # r PROVE Build!Children(bt, s) = Build!Children(at, s)
  <2>1. s \in DOMAIN bt <=> s \in DOMAIN at
    BY <1>1, <1>4
  <2>2. CASE s \in DOMAIN at
    <3>1. bt[s] = at[s]
      BY <1>1, <2>2
    <3> QED BY <2>1, <2>2, <3>1 DEF Build!Children
  <2>3. CASE s \notin DOMAIN at
    BY <2>1, <2>3 DEF Build!Children
  <2> QED BY <2>2, <2>3
<1> QED BY <1>1, <1>2, <1>3, <1>4 DEF bt

\* Below a range that r does not lie in nothing changes.
LEMMA UnderSame ==
    ASSUME Build!BuildAssumption, NEW at, Proper(at), NEW bt, Proper(bt), NEW r \in Span,
           \A s : s # r => Build!Children(bt, s) = Build!Children(at, s),
           DOMAIN bt = DOMAIN at \cup {r}, \A s \in DOMAIN at : bt[s] = at[s]
    PROVE  \A R \in Span : ~Inside(r, R) => Build!Under(bt, R) = Build!Under(at, R)
<1> DEFINE S == {k \in Nat : \A R \in Span : Size(R) <= k /\ ~Inside(r, R) => Build!Under(bt, R) = Build!Under(at, R)}
<1>0. \A R \in Span : Size(R) \in Nat \ {0} /\ R.from \in Nat /\ R.to \in Nat /\ R.from < R.to
                        /\ R.to <= Refs
  BY DEF Span, Size, Build!BuildAssumption
<1>1. 0 \in S
  BY <1>0
<1>2. ASSUME NEW k \in Nat, k \in S PROVE k + 1 \in S
  <2>1. SUFFICES ASSUME NEW R \in Span, Size(R) <= k + 1, ~Inside(r, R)
                          PROVE Build!Under(bt, R) = Build!Under(at, R)
    OBVIOUS
  <2>2. R # r
    BY <1>0, <2>1 DEF Inside
  <2>3. CASE R \notin DOMAIN at
    <3>1. R \notin DOMAIN bt
      BY <2>2, <2>3
    <3> QED BY <2>3, <3>1, UnderIs
  <2>4. CASE R \in DOMAIN at
    <3>1. R \in DOMAIN bt /\ bt[R] = at[R]
      BY <2>4
    <3> DEFINE a == First(at, R)
               b == Second(at, R)
    <3>2. First(bt, R) = a /\ Second(bt, R) = b
      BY <3>1 DEF First, Second
    <3>3. a \in Span /\ b \in Span /\ Size(a) \in 1 .. Size(R) - 1 /\ Size(b) \in 1 .. Size(R) - 1
          /\ at[R] - R.from \in 1 .. Size(R) - 1
      BY <2>4, HalvesAre
    <3>4. ~Inside(r, a) /\ ~Inside(r, b)
      <4>1. a.from = R.from /\ a.to = at[R] /\ b.from = at[R] /\ b.to = R.to
        BY DEF First, Second
      <4>2. at[R] \in R.from + 1 .. R.to - 1
        BY <2>4 DEF Proper
      <4> HIDE DEF a, b
      <4> QED BY <1>0, <2>1, <4>1, <4>2 DEF Inside
    <3> HIDE DEF a, b
    <3>5. Size(a) <= k /\ Size(b) <= k
      BY <1>0, <2>1, <3>3
    <3>6. Build!Under(bt, a) = Build!Under(at, a) /\ Build!Under(bt, b) = Build!Under(at, b)
      BY <1>2, <3>3, <3>4, <3>5
    <3>7. Build!Under(at, R) = Build!Children(at, R) \o Build!Under(at, a) \o Build!Under(at, b)
      BY <2>4, UnderIs DEF a, b
    <3>8. Build!Under(bt, R) = Build!Children(bt, R) \o Build!Under(bt, a) \o Build!Under(bt, b)
      BY <3>1, <3>2, UnderIs
    <3>9. Build!Children(bt, R) = Build!Children(at, R)
      BY <2>2
    <3> QED BY <3>6, <3>7, <3>8, <3>9, Zenon
  <2> QED BY <2>3, <2>4
<1>3. \A k \in Nat : k \in S
  <2> HIDE DEF S
  <2> QED BY <1>1, <1>2, NatsFrom
<1>4. ASSUME NEW R \in Span, ~Inside(r, R) PROVE Build!Under(bt, R) = Build!Under(at, R)
  <2>1. Size(R) \in Nat /\ Size(R) <= Size(R) /\ Size(R) \in S
    BY <1>0, <1>3
  <2> QED BY <1>4, <2>1
<1> QED BY <1>4

Nodes(at, R) == {R} \cup Elements(Build!Under(at, R))

\* What is in the tree of a range: the range, and what is in the trees of its halves.
LEMMA NodesAre ==
    ASSUME Build!BuildAssumption, NEW at, Proper(at)
    PROVE  /\ \A R \in Span : R \notin DOMAIN at => Nodes(at, R) = {R}
           /\ \A R \in DOMAIN at :
                Nodes(at, R) = {R} \cup Nodes(at, First(at, R)) \cup Nodes(at, Second(at, R))
<1>1. ASSUME NEW R \in Span, R \notin DOMAIN at PROVE Nodes(at, R) = {R}
  <2>1. Build!Under(at, R) = <<>> /\ Elements(<<>>) = {}
    BY <1>1, UnderIs DEF Elements
  <2> QED BY <2>1, Zenon DEF Nodes
<1>2. ASSUME NEW R \in DOMAIN at
      PROVE  Nodes(at, R) = {R} \cup Nodes(at, First(at, R)) \cup Nodes(at, Second(at, R))
  <2> DEFINE c == Build!Children(at, R)
             u == Build!Under(at, First(at, R))
             v == Build!Under(at, Second(at, R))
  <2>1. R \in Span /\ First(at, R) \in Span /\ Second(at, R) \in Span
    BY HalvesAre
  <2>2. c \in Seq(Span) /\ u \in Seq(Span) /\ v \in Seq(Span) /\ Build!Under(at, R) = (c \o u) \o v
    BY <2>1, ChildrenIs, UnderIs
  <2>3. Elements(c) = {First(at, R), Second(at, R)}
    <3>1. Len(c) = 2 /\ c[1] = First(at, R) /\ c[2] = Second(at, R)
      BY <2>1, ChildrenIs DEF First, Second
    <3> HIDE DEF c
    <3>2. 1 .. 2 = {1, 2}
      OBVIOUS
    <3> QED BY <3>1, <3>2 DEF Elements
  <2> HIDE DEF c, u, v
  <2>4. c \o u \in Seq(Span)
    BY <2>2, ConcatProperties
  <2>5. Elements((c \o u) \o v) = Elements(c \o u) \cup Elements(v)
    BY <2>2, <2>4, ElementsOf, ZenonT(60)
  <2>6. Elements(c \o u) = Elements(c) \cup Elements(u)
    BY <2>2, ElementsOf
  <2> QED BY <2>2, <2>3, <2>5, <2>6, Zenon DEF Nodes, u, v
<1> QED BY <1>1, <1>2

\* ... and all of it is within the range.
LEMMA NodesInside ==
    ASSUME Build!BuildAssumption, NEW at, Proper(at)
    PROVE  \A R \in Span : \A x \in Nodes(at, R) : x \in Span /\ Inside(x, R)
<1> DEFINE S == {k \in Nat : \A R \in Span : Size(R) <= k =>
                    \A x \in Nodes(at, R) : x \in Span /\ Inside(x, R)}
<1>0. \A R \in Span : Size(R) \in Nat \ {0} /\ R.from \in Nat /\ R.to \in Nat /\ R.from < R.to
  BY DEF Span, Size, Build!BuildAssumption
<1>1. 0 \in S
  BY <1>0
<1>2. ASSUME NEW k \in Nat, k \in S PROVE k + 1 \in S
  <2>1. SUFFICES ASSUME NEW R \in Span, Size(R) <= k + 1, NEW x \in Nodes(at, R)
                 PROVE  x \in Span /\ Inside(x, R)
    OBVIOUS
  <2>2. CASE x = R
    BY <1>0, <2>2 DEF Inside
  <2>3. CASE x # R
    <3>1. R \in DOMAIN at
      BY <2>3, NodesAre
    <3> DEFINE a == First(at, R)
               b == Second(at, R)
    <3>2. x \in Nodes(at, a) \/ x \in Nodes(at, b)
      BY <2>1, <2>3, <3>1, NodesAre
    <3>3. a \in Span /\ b \in Span /\ Size(a) \in 1 .. Size(R) - 1 /\ Size(b) \in 1 .. Size(R) - 1
      BY <3>1, HalvesAre
    <3>4. a.from = R.from /\ a.to = at[R] /\ b.from = at[R] /\ b.to = R.to
          /\ at[R] \in R.from + 1 .. R.to - 1
      BY <3>1 DEF First, Second, Proper
    <3> HIDE DEF a, b
    <3>5. Size(a) <= k /\ Size(b) <= k
      BY <1>0, <2>1, <3>3
    <3>6. x \in Span /\ (Inside(x, a) \/ Inside(x, b))
      BY <1>2, <3>2, <3>3, <3>5
    <3> QED BY <1>0, <3>4, <3>6 DEF Inside
  <2> QED BY <2>2, <2>3
<1>3. \A k \in Nat : k \in S
  <2> HIDE DEF S
  <2> QED BY <1>1, <1>2, NatsFrom
<1>4. ASSUME NEW R \in Span, NEW x \in Nodes(at, R) PROVE x \in Span /\ Inside(x, R)
  <2>1. Size(R) \in Nat /\ Size(R) <= Size(R) /\ Size(R) \in S
    BY <1>0, <1>3
  <2> QED BY <2>1
<1> QED BY <1>4

\* Below a range that r lies in, behind whose every split it begins: the new halves are
\* the last.
LEMMA UnderGrows ==
    ASSUME Build!BuildAssumption, NEW at, Proper(at), NEW bt, Proper(bt), NEW r \in Span,
             r \notin DOMAIN at,
           \A s : s # r => Build!Children(bt, s) = Build!Children(at, s),
           DOMAIN bt = DOMAIN at \cup {r}, \A s \in DOMAIN at : bt[s] = at[s],
           \A s \in DOMAIN at : Apart(at, s, r),
           NEW top \in Span, \A s \in DOMAIN at : Inside(s, top) => s.from <= r.from
    PROVE  \A R \in Span : r \in Nodes(at, R) /\ Inside(R, top)
                             => Build!Under(bt, R) = Build!Under(at, R) \o Build!Children(bt, r)
<1> DEFINE new == Build!Children(bt, r)
           S == {k \in Nat : \A R \in Span : Size(R) <= k /\ r \in Nodes(at, R) /\ Inside(R, top) =>
                                Build!Under(bt, R) = Build!Under(at, R) \o new}
<1>0. \A R \in Span : Size(R) \in Nat \ {0} /\ R.from \in Nat /\ R.to \in Nat /\ R.from < R.to
                        /\ R.to <= Refs
  BY DEF Span, Size, Build!BuildAssumption
<1>1. 0 \in S
  BY <1>0
<1>2. new \in Seq(Span) /\ \A R \in Span : Build!Under(at, R) \in Seq(Span)
  BY ChildrenIs, UnderIs
<1>3. \A R \in Span : ~Inside(r, R) => Build!Under(bt, R) = Build!Under(at, R)
  BY UnderSame
<1> HIDE DEF new
<1>4. ASSUME NEW k \in Nat, k \in S PROVE k + 1 \in S
  <2>1. SUFFICES ASSUME NEW R \in Span, Size(R) <= k + 1, r \in Nodes(at, R), Inside(R, top)
                 PROVE  Build!Under(bt, R) = Build!Under(at, R) \o new
    OBVIOUS
  <2>2. CASE R = r
    <3> DEFINE a == First(bt, r)
               b == Second(bt, r)
    <3>1. Build!Under(bt, r) = new \o Build!Under(bt, a) \o Build!Under(bt, b)
      BY UnderIs DEF new
    <3>2. Build!Under(at, r) = <<>>
      BY UnderIs
    <3>3. a \in Span /\ b \in Span /\ bt[r] \in r.from + 1 .. r.to - 1
      BY HalvesAre DEF Proper
    <3>4. ~Inside(r, a) /\ ~Inside(r, b)
      BY <1>0, <3>3 DEF First, Second, Inside
    <3>5. a \notin DOMAIN at /\ b \notin DOMAIN at
      <4>1. ASSUME NEW s \in DOMAIN at, s = a \/ s = b PROVE FALSE
        <5>1. s.from \in Nat /\ s.to \in Nat /\ at[s] \in s.from + 1 .. s.to - 1
          BY <1>0 DEF Proper
        <5>2. \/ s.from = r.from /\ s.to = bt[r]
              \/ s.from = bt[r] /\ s.to = r.to
          BY <4>1 DEF First, Second
        <5> QED BY <1>0, <3>3, <5>1, <5>2 DEF Apart, Disjoint
      <4> QED BY <4>1
    <3> HIDE DEF a, b
    <3>6. Build!Under(bt, a) = <<>> /\ Build!Under(bt, b) = <<>>
      BY <1>3, <3>3, <3>4, <3>5, UnderIs
    <3>7. new \o <<>> = new /\ <<>> \o new = new
      BY <1>2, ConcatEmptySeq
    <3> QED BY <2>2, <3>1, <3>2, <3>6, <3>7, Zenon
  <2>3. CASE R # r
    <3>1. R \in DOMAIN at
      BY <2>1, <2>3, NodesAre
    <3> DEFINE a == First(at, R)
               b == Second(at, R)
               c == Build!Children(at, R)
    <3>2. R \in DOMAIN bt /\ bt[R] = at[R]
      BY <3>1
    <3>3. First(bt, R) = a /\ Second(bt, R) = b /\ Build!Children(bt, R) = c
      BY <2>3, <3>2 DEF First, Second
    <3>4. Build!Under(at, R) = c \o Build!Under(at, a) \o Build!Under(at, b)
      BY <3>1, UnderIs
    <3>5. Build!Under(bt, R) = c \o Build!Under(bt, a) \o Build!Under(bt, b)
      BY <3>2, <3>3, UnderIs
    <3>6. a \in Span /\ b \in Span /\ Size(a) \in 1 .. Size(R) - 1 /\ Size(b) \in 1 .. Size(R) - 1
      BY <3>1, HalvesAre
    <3>7. a.from = R.from /\ a.to = at[R] /\ b.from = at[R] /\ b.to = R.to
          /\ at[R] \in R.from + 1 .. R.to - 1
      BY <3>1 DEF First, Second, Proper
    <3>8. r \in Nodes(at, a) \/ r \in Nodes(at, b)
      BY <2>1, <2>3, <3>1, NodesAre
    <3>9. c \in Seq(Span)
      BY ChildrenIs
    <3> HIDE DEF a, b, c
    <3>10. Size(a) <= k /\ Size(b) <= k /\ Inside(a, top) /\ Inside(b, top)
      BY <1>0, <2>1, <3>6, <3>7 DEF Inside
    <3> DEFINE x == Build!Under(at, a)
               y == Build!Under(at, b)
    <3>11. x \in Seq(Span) /\ y \in Seq(Span)
      BY <1>2, <3>6
    <3>12. CASE r \in Nodes(at, a)
      <4>1. Inside(r, a)
        BY <3>6, <3>12, NodesInside
      <4>2. ~Inside(r, b)
        BY <1>0, <3>6, <3>7, <4>1 DEF Inside
      <4>3. b \notin DOMAIN at
        BY <1>0, <3>6, <3>7, <3>10, <4>1 DEF Inside
      <4>4. Build!Under(bt, b) = <<>> /\ y = <<>>
        BY <1>3, <3>6, <4>2, <4>3, UnderIs
      <4>5. Build!Under(bt, a) = x \o new
        BY <1>4, <3>6, <3>10, <3>12
      <4> HIDE DEF x, y
      <4>6. c \o (x \o new) = (c \o x) \o new
        <5>1. c \in Seq(Span) /\ x \in Seq(Span) /\ new \in Seq(Span)
          BY <1>2, <3>9, <3>11
        <5> QED BY ONLY <5>1, ConcatAssociative, SMTT(60)
      <4>7. c \o x \in Seq(Span) /\ x \o new \in Seq(Span)
        BY <1>2, <3>9, <3>11, ConcatProperties
      <4>8. (c \o x) \o <<>> = c \o x
        BY <4>7, ConcatEmptySeq
      <4>9. c \o (x \o new) \in Seq(Span)
        BY <3>9, <4>7, ConcatProperties
      <4>10. (c \o (x \o new)) \o <<>> = c \o (x \o new)
        BY <4>9, ConcatEmptySeq
      <4> QED BY <3>4, <3>5, <4>4, <4>5, <4>6, <4>8, <4>10, Zenon DEF x, y
    <3>13. CASE r \in Nodes(at, b)
      <4>1. Inside(r, b)
        BY <3>6, <3>13, NodesInside
      <4>2. ~Inside(r, a)
        BY <1>0, <3>6, <3>7, <4>1 DEF Inside
      <4>3. Build!Under(bt, a) = x
        BY <1>3, <3>6, <4>2
      <4>4. Build!Under(bt, b) = y \o new
        BY <1>4, <3>6, <3>10, <3>13
      <4> HIDE DEF x, y
      <4>5. c \o x \in Seq(Span)
        BY <3>9, <3>11, ConcatProperties
      <4>6. (c \o x) \o (y \o new) = ((c \o x) \o y) \o new
        <5>1. c \o x \in Seq(Span) /\ y \in Seq(Span) /\ new \in Seq(Span)
          BY <1>2, <3>11, <4>5
        <5> QED BY ONLY <5>1, ConcatAssociative, SMTT(60)
      <4> QED BY <3>4, <3>5, <4>3, <4>4, <4>6, Zenon DEF x, y
    <3> QED BY <3>8, <3>12, <3>13
  <2> QED BY <2>2, <2>3
<1>5. \A k \in Nat : k \in S
  <2> HIDE DEF S
  <2> QED BY <1>1, <1>4, NatsFrom
<1>6. ASSUME NEW R \in Span, r \in Nodes(at, R), Inside(R, top)
               PROVE Build!Under(bt, R) = Build!Under(at, R) \o new
  <2>1. Size(R) \in Nat /\ Size(R) <= Size(R) /\ Size(R) \in S
    BY <1>0, <1>5
  <2> QED BY <1>6, <2>1
<1> QED BY <1>6 DEF new

-----------------------------------------------------------------------------
(* The levels *)

\* The next level is the same where the halves of this one are.
LEMMA NextSame ==
    ASSUME NEW at, NEW bt, NEW q, \A k \in DOMAIN q : Build!Children(bt, q[k])
             = Build!Children(at, q[k])
    PROVE  NextOf(bt, q) = NextOf(at, q)
<1>1. [k \in DOMAIN q |-> Build!Children(bt, q[k])] = [k \in DOMAIN q |-> Build!Children(at, q[k])]
  BY Zenon
<1> QED BY <1>1, Zenon DEF NextOf

\* The levels above the next are those above this one, and this one.
LEMMA UpIs ==
    ASSUME Build!BuildAssumption, NEW at, Proper(at)
    PROVE  /\ Up(at, 0) = <<>>
           /\ \A d \in 0 .. TaskDepth + 1 : Up(at, d) \in Seq(Span)
           /\ \A d \in 0 .. TaskDepth : Up(at, d + 1) = Up(at, d) \o Build!Levels(at)[d]
<1> DEFINE F == [e \in 1 .. TaskDepth + 1 |-> Build!Levels(at)[e - 1]]
<1>1. TaskDepth \in Nat
  BY DEF Build!BuildAssumption
<1>2. \A e \in 1 .. TaskDepth + 1 : F[e] \in Seq(Span) /\ F[e] = Build!Levels(at)[e - 1]
  <2> SUFFICES ASSUME NEW e \in 1 .. TaskDepth + 1 PROVE Build!Levels(at)[e - 1] \in Seq(Span)
    OBVIOUS
  <2>1. e - 1 \in 0 .. TaskDepth
    BY <1>1
  <2> DEFINE U == Seq(Span)
  <2>2. Build!Levels(at) \in [0 .. TaskDepth -> U]
    BY LevelsAre
  <2> HIDE DEF U
  <2>3. Build!Levels(at)[e - 1] \in U
    BY <2>1, <2>2
  <2> QED BY <2>3 DEF U
<1>3. ASSUME NEW d \in 0 .. TaskDepth + 1
               PROVE Up(at, d) = Build!FlattenSeq([e \in 1 .. d |-> F[e]])
  <2>1. \A e \in 1 .. d : e \in 1 .. TaskDepth + 1
    BY <1>1
  <2>2. [e \in 1 .. d |-> F[e]] = [e \in 1 .. d |-> Build!Levels(at)[e - 1]]
    BY <2>1, Zenon
  <2> HIDE DEF F
  <2> QED BY <2>2, Zenon DEF Up
<1> HIDE DEF F
<1>4. Up(at, 0) = <<>>
  <2>1. 0 \in 0 .. TaskDepth + 1
    BY <1>1
  <2>2. Up(at, 0) = Build!FlattenSeq([e \in 1 .. 0 |-> F[e]])
    BY <1>3, <2>1, Zenon
  <2> QED BY <2>2, FlatFirst, SameFlat
<1>5. ASSUME NEW d \in 0 .. TaskDepth + 1 PROVE Up(at, d) \in Seq(Span)
  <2>1. d \in Nat /\ \A e \in 1 .. d : F[e] \in Seq(Span)
    BY <1>1, <1>2
  <2>2. Build!FlattenSeq([e \in 1 .. d |-> F[e]]) \in Seq(Span)
    BY <2>1, FlatOf, SameFlat
  <2> QED BY <1>3, <2>2
<1>6. ASSUME NEW d \in 0 .. TaskDepth PROVE Up(at, d + 1) = Up(at, d) \o Build!Levels(at)[d]
  <2>1. d \in Nat /\ d \in 0 .. TaskDepth + 1 /\ d + 1 \in 0 .. TaskDepth + 1
          /\ d + 1 \in 1 .. TaskDepth + 1
        /\ d + 1 - 1 = d
    BY <1>1
  <2>2. \A e \in 1 .. d + 1 : F[e] \in Seq(Span)
    BY <1>1, <1>2
  <2>3. Build!FlattenSeq([e \in 1 .. d + 1 |-> F[e]]) = Build!FlattenSeq([e \in 1 .. d |-> F[e]])
          \o F[d + 1]
    BY <2>1, <2>2, FlatStep, SameFlat
  <2>4. F[d + 1] = Build!Levels(at)[d]
    BY <1>2, <2>1
  <2> QED BY <1>3, <2>1, <2>3, <2>4
<1> QED BY <1>4, <1>5, <1>6

\* A level is a sequence of ranges.
LEMMA LevelIs ==
    ASSUME Build!BuildAssumption, NEW at, Proper(at), NEW d \in 0 .. TaskDepth
    PROVE  Build!Levels(at)[d] \in Seq(Span)
<1> DEFINE U == Seq(Span)
<1>1. Build!Levels(at) \in [0 .. TaskDepth -> U]
  BY LevelsAre
<1> HIDE DEF U
<1>2. Build!Levels(at)[d] \in U
  BY <1>1
<1> QED BY <1>2 DEF U

\* The levels above d have all of each.
LEMMA LevelAbove ==
    ASSUME Build!BuildAssumption, NEW at, Proper(at), NEW d \in 0 .. TaskDepth + 1
    PROVE  \A e \in 0 .. d - 1 : Elements(Build!Levels(at)[e]) \subseteq Elements(Up(at, d))
<1> DEFINE S == {k \in Nat : k <= TaskDepth + 1 =>
                    \A e \in 0 .. k - 1 : Elements(Build!Levels(at)[e]) \subseteq Elements(Up(at, k))}
<1>1. TaskDepth \in Nat
  BY DEF Build!BuildAssumption
<1>2. 0 \in S
  OBVIOUS
<1>3. ASSUME NEW k \in Nat, k \in S PROVE k + 1 \in S
  <2>1. SUFFICES ASSUME k + 1 <= TaskDepth + 1, NEW e \in 0 .. k
                 PROVE  Elements(Build!Levels(at)[e]) \subseteq Elements(Up(at, k + 1))
    OBVIOUS
  <2>2. k \in 0 .. TaskDepth /\ k \in 0 .. TaskDepth + 1
    BY <1>1, <2>1
  <2>3. Elements(Up(at, k + 1)) = Elements(Up(at, k)) \cup Elements(Build!Levels(at)[k])
    <3>1. Up(at, k) \in Seq(Span) /\ Build!Levels(at)[k] \in Seq(Span)
      BY <2>2, UpIs, LevelIs
    <3>2. Up(at, k + 1) = Up(at, k) \o Build!Levels(at)[k]
      BY <2>2, UpIs
    <3> QED BY <3>1, <3>2, ElementsOf, ZenonT(60)
  <2>4. CASE e = k
    BY <2>3, <2>4
  <2>5. CASE e # k
    <3>1. e \in 0 .. k - 1 /\ k <= TaskDepth + 1
      BY <1>1, <2>1, <2>5
    <3> QED BY <1>3, <2>3, <3>1
  <2> QED BY <2>4, <2>5
<1>4. d \in S /\ d <= TaskDepth + 1
  <2> HIDE DEF S
  <2> QED BY <1>1, <1>2, <1>3, NatsFrom
<1> QED BY <1>4

\* A range that is on none of them changes none when it is split, nor the next.
LEMMA LevelsSame ==
    ASSUME Build!BuildAssumption, NEW at, Proper(at), NEW bt, Proper(bt), NEW r,
           \A s : s # r => Build!Children(bt, s) = Build!Children(at, s),
           NEW d \in 0 .. TaskDepth, r \notin Elements(Up(at, d))
    PROVE  /\ \A e \in 0 .. d : Build!Levels(bt)[e] = Build!Levels(at)[e]
           /\ \A e \in 0 .. d + 1 : Up(bt, e) = Up(at, e)
<1> DEFINE S == {k \in Nat : k <= d => Build!Levels(bt)[k] = Build!Levels(at)[k]}
<1>1. TaskDepth \in Nat /\ d \in Nat
  BY DEF Build!BuildAssumption
<1>2. 0 \in S
  BY LevelsAre
<1>3. ASSUME NEW k \in Nat, k \in S PROVE k + 1 \in S
  <2>1. SUFFICES ASSUME k + 1 <= d PROVE Build!Levels(bt)[k + 1] = Build!Levels(at)[k + 1]
    OBVIOUS
  <2>2. k + 1 \in 1 .. TaskDepth /\ k + 1 - 1 = k /\ k \in 0 .. TaskDepth /\ k \in 0 .. d - 1
          /\ k <= d
        /\ d \in 0 .. TaskDepth + 1
    BY <1>1, <2>1
  <2> DEFINE q == Build!Levels(at)[k]
  <2>3. Build!Levels(bt)[k] = q
    BY <1>3, <2>2
  <2>4. q \in Seq(Span)
    BY <2>2, LevelIs
  <2>5. Elements(q) \subseteq Elements(Up(at, d))
    BY <2>2, LevelAbove
  <2> HIDE DEF q
  <2>6. \A j \in DOMAIN q : q[j] # r
    <3>1. DOMAIN q = 1 .. Len(q)
      BY <2>4, LenProperties
    <3> QED BY <2>5, <3>1 DEF Elements
  <2>7. NextOf(bt, q) = NextOf(at, q)
    BY <2>6, NextSame
  <2>8. Build!Levels(at)[k + 1] = NextOf(at, Build!Levels(at)[k + 1 - 1])
    BY <2>2, LevelsAre
  <2>9. Build!Levels(bt)[k + 1] = NextOf(bt, Build!Levels(bt)[k + 1 - 1])
    BY <2>2, LevelsAre
  <2> QED BY <2>2, <2>3, <2>7, <2>8, <2>9 DEF q
<1>4. \A k \in Nat : k \in S
  <2> HIDE DEF S
  <2> QED BY <1>2, <1>3, NatsFrom
<1>5. \A e \in 0 .. d : Build!Levels(bt)[e] = Build!Levels(at)[e]
  BY <1>1, <1>4
<1>6. ASSUME NEW e \in 0 .. d + 1 PROVE Up(bt, e) = Up(at, e)
  <2>1. \A i \in 1 .. e : i - 1 \in 0 .. d
    BY <1>1
  <2>2. [i \in 1 .. e |-> Build!Levels(bt)[i - 1]] = [i \in 1 .. e |-> Build!Levels(at)[i - 1]]
    BY <1>5, <2>1, Zenon
  <2> QED BY <2>2, Zenon DEF Up
<1> QED BY <1>5, <1>6

-----------------------------------------------------------------------------
(* Nodes that are linked *)

\* A node that is linked stays so when another range is split, ...
LEMMA LinkedSame ==
    ASSUME NEW at, NEW bt, NEW r, NEW R, NEW N, NEW i,
           \A s : s # r => Build!Children(bt, s) = Build!Children(at, s),
                    DOMAIN bt = DOMAIN at \cup {r},
           R[i] # r, Linked(at, R, N, i)
    PROVE  Linked(bt, R, N, i)
<1>1. R[i] \in DOMAIN bt <=> R[i] \in DOMAIN at
  OBVIOUS
<1>2. Build!Children(bt, R[i]) = Build!Children(at, R[i])
  OBVIOUS
<1> QED BY <1>1, <1>2, Zenon DEF Linked

\* ... and when the layout and the array grow at their ends.
LEMMA LinkedLonger ==
    ASSUME NEW at, NEW R, NEW Q, NEW N, NEW M, NEW i, Len(R) \in Nat, Len(Q) \in Nat,
           Len(R) <= Len(Q), \A j \in 1 .. Len(R) : Q[j] = R[j],
           i \in 1 .. Len(R), M[i] = N[i], Linked(at, R, N, i)
    PROVE  Linked(at, Q, M, i)
<1>1. CASE R[i] \notin DOMAIN at
  <2>1. N[i] = Build!Leaf(R[i]) /\ Q[i] = R[i]
    BY <1>1 DEF Linked
  <2> QED BY <1>1, <2>1 DEF Linked
<1>2. CASE R[i] \in DOMAIN at
  <2>1. PICK l \in 1 .. Len(R) - 1 : N[i] = Build!Inner(l) /\ Build!Children(at, R[i])
          = <<R[l], R[l + 1]>>
    BY <1>2 DEF Linked
  <2>2. l \in 1 .. Len(Q) - 1 /\ l \in 1 .. Len(R) /\ l + 1 \in 1 .. Len(R)
    BY <2>1
  <2>3. Q[l] = R[l] /\ Q[l + 1] = R[l + 1] /\ Q[i] = R[i]
    BY <2>2
  <2>4. M[i] = Build!Inner(l) /\ Build!Children(at, Q[i]) = <<Q[l], Q[l + 1]>>
    BY <2>1, <2>3
  <2> QED BY <1>2, <2>2, <2>3, <2>4 DEF Linked
<1> QED BY <1>1, <1>2

-----------------------------------------------------------------------------
(* The levels are built *)

\* What the assumption says of the parameters.
LEMMA Params ==
    ASSUME Build!BuildAssumption
    PROVE  /\ Refs \in Nat /\ Refs # 0 /\ LeafSize \in Nat /\ LeafSize # 0
           /\ PollSpan \in Nat /\ TaskDepth \in Nat /\ MaxDepth \in Nat
BY DEF Build!BuildAssumption

\* The ends of a range, and their order.
LEMMA SpanIs ==
    ASSUME Build!BuildAssumption
    PROVE  \A R \in Span : /\ R.from \in Nat /\ R.to \in Nat /\ R.from < R.to /\ R.to <= Refs
                           /\ R.from \in 0 .. Refs /\ R.to \in 0 .. Refs
BY DEF Span, Build!BuildAssumption

\* Ranges that are disjoint, or of which one holds the other and more, or on a side of
\* a split, are different.
LEMMA Distinct ==
    ASSUME Build!BuildAssumption, NEW at, Proper(at), NEW R \in Span, NEW r \in Span
    PROVE  /\ Disjoint(R, r) \/ Clear(R, r) => R # r
           /\ R \in DOMAIN at /\ Apart(at, R, r) => R # r
<1>1. Disjoint(R, r) \/ Clear(R, r) => R # r
  BY SpanIs DEF Disjoint, Clear
<1>2. ASSUME R \in DOMAIN at, Apart(at, R, r), R = r PROVE FALSE
  <2>1. at[R] \in R.from + 1 .. R.to - 1
    BY <1>2 DEF Proper
  <2> QED BY <1>2, <2>1, SpanIs DEF Apart, Disjoint
<1> QED BY <1>1, <1>2

\* What a task names is a range.
LEMMA TaskIs ==
    ASSUME Build!BuildAssumption, Proper(splitAt), tasks \in Seq(Task),
           NEW d \in 0 .. TaskDepth, TasksAt(d), NEW i \in 1 .. Len(tasks)
    PROVE  /\ Of(i) \in Span /\ tasks[i] \in Task
           /\ Of(i).from = tasks[i].from /\ Of(i).to = tasks[i].to
           /\ \A j \in 1 .. Len(tasks) : j # i => Of(i) # Of(j) /\ tasks[i].node # tasks[j].node
           /\ Of(i) \notin Elements(Up(splitAt, d))
           /\ Len(Up(splitAt, d)) \in Nat /\ tasks[i].node = Len(Up(splitAt, d)) + i
<1>1. Len(tasks) \in Nat /\ \A k \in 1 .. Len(tasks) : tasks[k] \in Task
  BY LenProperties, ElementOfSeq
<1>2. \A k \in 1 .. Len(tasks) : Of(k) \in Span
  <2> SUFFICES ASSUME NEW k \in 1 .. Len(tasks) PROVE Of(k) \in Span
    OBVIOUS
  <2> DEFINE q == Build!Levels(splitAt)[d]
  <2>1. q \in Seq(Span)
    BY LevelIs
  <2>2. Of(k) = q[k] /\ k \in 1 .. Len(q)
    BY DEF TasksAt
  <2> HIDE DEF q
  <2> QED BY <2>1, <2>2, ElementOfSeq
<1>3. Of(i).from = tasks[i].from /\ Of(i).to = tasks[i].to
  BY DEF Of, Build!RangeOf
<1>4. Up(splitAt, d) \in Seq(Span)
  <2>1. d \in 0 .. TaskDepth + 1
    BY Params
  <2> QED BY <2>1, UpIs
<1>5. Len(Up(splitAt, d)) \in Nat
  BY <1>4, LenProperties
<1>6. ASSUME NEW j \in 1 .. Len(tasks), j # i PROVE Of(i) # Of(j) /\ tasks[i].node # tasks[j].node
  <2>1. Disjoint(Of(i), Of(j))
    BY <1>6 DEF TasksAt
  <2>2. tasks[i].node = Len(Up(splitAt, d)) + i /\ tasks[j].node = Len(Up(splitAt, d)) + j
    BY DEF TasksAt
  <2> QED BY <1>2, <1>5, <1>6, <2>1, <2>2, Distinct
<1>7. ASSUME Of(i) \in Elements(Up(splitAt, d)) PROVE FALSE
  <2>1. PICK p \in 1 .. Len(Up(splitAt, d)) : Of(i) = Up(splitAt, d)[p]
    BY <1>7 DEF Elements
  <2>2. Clear(Up(splitAt, d)[p], Of(i))
    BY DEF TasksAt
  <2> QED BY <1>2, <2>1, <2>2, Distinct
<1>8. tasks[i].node = Len(Up(splitAt, d)) + i
  BY DEF TasksAt
<1> QED BY <1>1, <1>2, <1>3, <1>5, <1>6, <1>7, <1>8

\* Of the levels, only what was split changes.
LEMMA TasksStay ==
    ASSUME Build!BuildAssumption, Proper(splitAt), Proper(splitAt'), NEW r, UNCHANGED tasks,
           \A s : s # r => Build!Children(splitAt', s) = Build!Children(splitAt, s),
           NEW d \in 0 .. TaskDepth, r \notin Elements(Up(splitAt, d)), TasksAt(d)
    PROVE  TasksAt(d)' /\ Up(splitAt, d)' = Up(splitAt, d)
             /\ Up(splitAt, d + 1)' = Up(splitAt, d + 1)
<1>1. /\ \A e \in 0 .. d : Build!Levels(splitAt')[e] = Build!Levels(splitAt)[e]
      /\ \A e \in 0 .. d + 1 : Up(splitAt', e) = Up(splitAt, e)
  BY LevelsSame
<1>2. d \in 0 .. d /\ d \in 0 .. d + 1 /\ d + 1 \in 0 .. d + 1
  BY Params
<1>3. /\ Build!Levels(splitAt')[d] = Build!Levels(splitAt)[d] /\ Up(splitAt', d) = Up(splitAt, d)
      /\ Up(splitAt', d + 1) = Up(splitAt, d + 1)
  BY <1>1, <1>2
<1>4. \A i : Of(i)' = Of(i)
  BY DEF Of
<1> QED BY <1>3, <1>4, Zenon DEF TasksAt

\* What is not split on account of its size fits into a leaf.
LEMMA MiddleIs ==
    ASSUME Build!BuildAssumption, NEW r \in Task, Nested(r), NEW mid \in Build!Middles(r),
             Build!Noted(r, mid)
    PROVE  /\ mid = r.to => splitAt' = splitAt
                /\ (MaxDepth >= Refs /\ ~aborted' => Fits(Build!Leaf(r)))
           /\ mid # r.to => mid \in r.from + 1 .. r.to - 1
                /\ splitAt' = Grow(splitAt, Build!RangeOf(r), mid)
           /\ ~aborted' => ~aborted
           /\ Build!RangeOf(r).from = r.from /\ Build!RangeOf(r).to = r.to
<1>1. /\ r.from \in Nat /\ r.to \in Nat /\ r.depth \in Nat
  BY Params DEF Task
<1>2. /\ aborted' = (aborted \/ Build!Stops(r))
      /\ splitAt' = IF mid = r.to THEN splitAt ELSE Build!With(splitAt, Build!RangeOf(r), mid)
  BY DEF Build!Noted
<1>3. ASSUME mid = r.to, MaxDepth >= Refs, ~aborted' PROVE Fits(Build!Leaf(r))
  <2>1. ~Build!Stops(r)
    BY <1>2, <1>3
  <2>2. Build!Small(r)
    <3>1. SUFFICES ASSUME ~Build!Small(r) PROVE FALSE
      OBVIOUS
    <3>2. mid \in r.from + 1 .. r.to - 1
      BY <2>1, <3>1 DEF Build!Middles
    <3> QED BY <1>1, <1>3, <3>2
  <2>3. Build!Leaf(r).from = r.from /\ Build!Leaf(r).to = r.to
    BY DEF Build!Leaf
  <2> QED BY <1>1, <1>3, <2>2, <2>3, Params DEF Build!Small, Nested, Fits
<1>4. ASSUME mid # r.to PROVE mid \in r.from + 1 .. r.to - 1
  BY <1>4 DEF Build!Middles
<1> QED BY <1>2, <1>3, <1>4 DEF Grow, Build!RangeOf

ArraySets(p, q, n, x) ==
    /\ Array(p) /\ Len(p) = Len(q) /\ p[n] = x
    /\ \A i \in 1 .. Len(q) : i # n => p[i] = q[i]

\* An array with one node replaced is an array.
LEMMA ArraySet ==
    ASSUME NEW q, NEW n, NEW x, NEW p, Array(q), n \in 1 .. Len(q), x \in Node, x.left < Len(q),
           DOMAIN p = DOMAIN q, \A i \in DOMAIN q : p[i] = IF i = n THEN x ELSE q[i],
             p = [i \in DOMAIN p |-> p[i]]
    PROVE  ArraySets(p, q, n, x)
<1>1. q \in Seq(Node) /\ Len(q) \in Nat /\ DOMAIN q = 1 .. Len(q)
  BY LenProperties DEF Array
<1>2. \A i \in 1 .. Len(q) : q[i] \in Node
  BY <1>1, ElementOfSeq
<1>3. p \in [1 .. Len(q) -> Node]
  <2>1. p = [i \in 1 .. Len(q) |-> p[i]]
    BY <1>1, Zenon
  <2>2. \A i \in 1 .. Len(q) : p[i] \in Node
    BY <1>1, <1>2
  <2> QED BY <2>1, <2>2
<1>4. p \in Seq(Node) /\ Len(p) = Len(q)
  BY <1>1, <1>3
<1> QED BY <1>1, <1>4 DEF Array, ArraySets

\* The invariant holds at the start: the layout is the root, and it is the task.
LEMMA InitBuild == ASSUME Build!BuildAssumption, Build!Init PROVE BuildInv
<1>1. /\ phase = "level" /\ nodes = <<Build!Placeholder>> /\ depth = 0 /\ splits = Build!Nothing
      /\ tasks = <<[node |-> 1, from |-> 0, to |-> Refs, depth |-> 0]>>
      /\ nextTask = 1 /\ working = [w \in Worker |-> 0] /\ stack = [w \in Worker |-> <<>>]
      /\ subtrees = <<>> /\ folded = 0 /\ aborted = FALSE /\ splitAt = Build!Nothing
  BY DEF Build!Init
<1>2. DOMAIN Build!Nothing = {}
  BY DEF Build!Nothing
<1>3. Proper(splitAt)
  BY <1>1, <1>2 DEF Proper
<1>4. Build!Placeholder \in Node /\ Build!Placeholder.left = 0 /\ Build!Placeholder.from = 0
        /\ Build!Placeholder.to = 0
  BY Params DEF Build!Placeholder, Node
<1> DEFINE t == [node |-> 1, from |-> 0, to |-> Refs, depth |-> 0]
<1>5. t \in Task /\ t.from = 0 /\ t.to = Refs /\ t.depth = 0 /\ t.node = 1
        /\ Build!RangeOf(t) = Build!Range0
  BY Params DEF Task, Build!RangeOf, Build!Range0
<1> HIDE DEF t
<1>6. tasks \in Seq(Task) /\ Len(tasks) = 1 /\ tasks[1] = t
  BY <1>1, <1>5 DEF t
<1>7. nodes \in Seq(Node) /\ Len(nodes) = 1 /\ nodes[1] = Build!Placeholder
  BY <1>1, <1>4
<1>8. TypeInv
  <2>1. Array(nodes)
    BY <1>4, <1>7 DEF Array
  <2>2. working \in [Worker -> 0 .. Len(tasks)] /\ \A w \in Worker : working[w] = 0
    BY <1>1, <1>6
  <2>3. stack \in [Worker -> Seq(Task)] /\ \A w \in Worker : stack[w] = <<>>
    BY <1>1
  <2>4. depth \in 0 .. TaskDepth
    BY <1>1, Params
  <2> QED BY <1>1, <1>6, <2>1, <2>2, <2>3, <2>4 DEF TypeInv
<1>9. Build!Levels(splitAt)[0]
        = <<Build!Range0>> /\ Up(splitAt, 0) = <<>> /\ Len(<<>>) = 0 /\ Len(<<Build!Range0>>) = 1
  BY <1>3, LevelsAre, UpIs
<1>10. TasksAt(depth) /\ SplitInv /\ UpperLinked
  <2>1. TasksAt(0)
    <3>1. \A i \in 1 .. 1 : i = 1
      OBVIOUS
    <3>2. <<Build!Range0>>[1] = Build!Range0
      OBVIOUS
    <3> QED BY <1>5, <1>6, <1>9, <3>1, <3>2 DEF TasksAt, Of
  <2>2. SplitInv
    BY <1>1, <1>2 DEF SplitInv
  <2>3. UpperLinked
    BY <1>1, <1>6, <1>7, <1>9 DEF UpperLinked
  <2> QED BY <1>1, <2>1, <2>2, <2>3
<1>11. LeafInv
  <2>1. \A i \in 1 .. Len(tasks) : Nested(tasks[i])
    BY <1>5, <1>6, Params DEF Nested
  <2>2. \A i \in 1 .. Len(nodes) : Fits(nodes[i])
    BY <1>4, <1>7, Params DEF Fits
  <2>3. \A w \in Worker : Len(stack[w]) = 0
    BY <1>1
  <2> QED BY <1>1, <2>1, <2>2, <2>3 DEF LeafInv
<1> QED BY <1>1, <1>3, <1>8, <1>10, <1>11 DEF BuildInv, LevelInv, SubtreeInv, FoldInv, Later

Grown(at, bt, r, mid) ==
    /\ Proper(bt) /\ DOMAIN bt = DOMAIN at \cup {r} /\ bt[r] = mid
    /\ \A s \in DOMAIN at : bt[s] = at[s]
    /\ \A s : s # r => Build!Children(bt, s) = Build!Children(at, s)

\* The split points with one more are grown, in the sense of the steps below.
LEMMA GrownIs ==
    ASSUME Build!BuildAssumption, NEW at, NEW r, NEW mid, Proper(at), r \in Span,
             r \notin DOMAIN at,
           mid \in r.from + 1 .. r.to - 1
    PROVE  Grown(at, Grow(at, r, mid), r, mid)
<1>1. /\ Proper(Grow(at, r, mid)) /\ DOMAIN Grow(at, r, mid) = DOMAIN at \cup {r}
      /\ Grow(at, r, mid)[r] = mid
      /\ \A s \in DOMAIN at : Grow(at, r, mid)[s] = at[s] /\ s # r
      /\ \A s : s # r => Build!Children(Grow(at, r, mid), s) = Build!Children(at, s)
  BY GrowIs
<1> QED BY <1>1 DEF Grown

\* Splitting a task of the level keeps the invariant.
LEMMA SplitBuild == ASSUME Build!BuildAssumption, BuildInv, NEW i \in DOMAIN tasks,
  Build!SplitTask(i) PROVE BuildInv'
<1>1. PICK mid \in Build!Middles(tasks[i]) :
         /\ splits' = Build!With(splits, i, mid)
         /\ nodes' = IF mid
              = tasks[i].to THEN [nodes EXCEPT ![tasks[i].node] = Build!Leaf(tasks[i])]
                     ELSE nodes
         /\ Build!Noted(tasks[i], mid)
  BY DEF Build!SplitTask
<1>2. /\ phase = "level" /\ phase' = phase /\ depth < TaskDepth /\ i \notin DOMAIN splits
      /\ UNCHANGED <<tasks, depth, Build!workVars, folded, token>>
  BY DEF Build!SplitTask
<1>3. /\ TypeInv /\ Proper(splitAt) /\ TasksAt(depth) /\ SplitInv /\ UpperLinked /\ LeafInv
      /\ tasks \in Seq(Task) /\ depth \in 0 .. TaskDepth
  BY <1>2 DEF BuildInv, LevelInv, TypeInv
<1>4. i \in 1 .. Len(tasks) /\ Len(tasks) \in Nat /\ DOMAIN tasks = 1 .. Len(tasks)
  BY <1>3, LenProperties
<1> DEFINE r == Of(i)
           base == Len(Up(splitAt, depth))
<1>5. /\ r \in Span /\ tasks[i] \in Task /\ r.from = tasks[i].from /\ r.to = tasks[i].to
      /\ r \notin Elements(Up(splitAt, depth)) /\ base \in Nat /\ tasks[i].node = base + i
      /\ \A j \in 1 .. Len(tasks) : j # i => r # Of(j) /\ tasks[i].node # tasks[j].node
  BY <1>3, <1>4, TaskIs
<1>6. Nested(tasks[i])
  BY <1>3, <1>4 DEF LeafInv
<1>7. /\ mid = r.to => splitAt' = splitAt
           /\ (MaxDepth >= Refs /\ ~aborted' => Fits(Build!Leaf(tasks[i])))
      /\ mid # r.to => mid \in r.from + 1 .. r.to - 1 /\ splitAt' = Grow(splitAt, r, mid)
      /\ ~aborted' => ~aborted
  <2>1. r = Build!RangeOf(tasks[i])
    BY DEF Of
  <2> QED BY <1>1, <1>5, <1>6, <2>1, MiddleIs
<1>8. r \notin DOMAIN splitAt /\ \A s \in DOMAIN splitAt : Apart(splitAt, s, r)
  <2>1. \A s \in DOMAIN splitAt : Apart(splitAt, s, r)
    BY <1>2, <1>3, <1>4 DEF SplitInv
  <2> QED BY <1>3, <1>5, <2>1, Distinct
<1>9. /\ DOMAIN splits' = DOMAIN splits \cup {i} /\ splits'[i] = mid
      /\ \A j \in DOMAIN splits : splits'[j] = splits[j]
  BY <1>1, <1>2 DEF Build!With
<1>10. Build!Leaf(tasks[i]) \in Node /\ Build!Leaf(tasks[i]).left = 0
  BY <1>5 DEF Build!Leaf, Node, Task
<1>11. Array(nodes) /\ Len(nodes) = base + Len(tasks) /\ tasks[i].node \in 1 .. Len(nodes)
  BY <1>3, <1>4, <1>5 DEF TypeInv, UpperLinked
<1>12. /\ Array(nodes') /\ Len(nodes') = Len(nodes)
       /\ \A n \in 1 .. Len(nodes) : n # tasks[i].node => nodes'[n] = nodes[n]
       /\ mid = r.to => nodes'[tasks[i].node] = Build!Leaf(tasks[i])
  <2>1. CASE mid = tasks[i].to
    <3> DEFINE n == tasks[i].node
               x == Build!Leaf(tasks[i])
    <3>1. nodes' = [nodes EXCEPT ![n] = x]
      BY <1>1, <2>1
    <3>2. Build!Leaf(tasks[i]).left < Len(nodes)
      BY <1>4, <1>5, <1>10, <1>11
    <3>3. Array(nodes) /\ n \in 1 .. Len(nodes) /\ x \in Node /\ x.left < Len(nodes)
      BY <1>10, <1>11, <3>2
    <3>4. n = tasks[i].node /\ x = Build!Leaf(tasks[i])
      OBVIOUS
    <3> HIDE DEF n, x
    <3>5. ArraySets(nodes', nodes, n, x)
      <4>1. /\ DOMAIN nodes' = DOMAIN nodes /\ nodes' = [k \in DOMAIN nodes' |-> nodes'[k]]
            /\ \A k \in DOMAIN nodes : nodes'[k] = IF k = n THEN x ELSE nodes[k]
        BY <3>1
      <4> QED BY <3>3, <4>1, ArraySet
    <3> QED BY <3>4, <3>5 DEF ArraySets
  <2>2. CASE mid # tasks[i].to
    BY <1>1, <1>5, <1>11, <2>2
  <2> QED BY <2>1, <2>2
<1> HIDE DEF r, base
<1>13. TypeInv'
  BY <1>2, <1>3, <1>12 DEF TypeInv, Build!workVars
<1>14. /\ Proper(splitAt')
       /\ (\A s : s # r => Build!Children(splitAt', s) = Build!Children(splitAt, s))
       /\ \A s \in DOMAIN splitAt : splitAt'[s] = splitAt[s]
       /\ mid = r.to => splitAt' = splitAt
       /\ mid # r.to => DOMAIN splitAt' = DOMAIN splitAt \cup {r} /\ splitAt'[r] = mid
  <2>1. CASE mid = r.to
    BY <1>3, <1>7, <2>1
  <2>2. CASE mid # r.to
    <3>1. mid \in r.from + 1 .. r.to - 1 /\ splitAt' = Grow(splitAt, r, mid)
      BY <1>7, <2>2
    <3>2. Proper(splitAt) /\ r \in Span /\ r \notin DOMAIN splitAt
      BY <1>3, <1>5, <1>8
    <3>3. Grown(splitAt, splitAt', r, mid)
      BY <3>1, <3>2, GrownIs
    <3> QED BY <2>2, <3>3 DEF Grown
  <2> QED BY <2>1, <2>2
<1>15. /\ TasksAt(depth)' /\ Up(splitAt', depth) = Up(splitAt, depth)
       /\ Up(splitAt', depth + 1) = Up(splitAt, depth + 1) /\ depth' = depth /\ tasks' = tasks
  <2>1. depth' = depth /\ tasks' = tasks
    BY <1>2
  <2> DEFINE d == depth
  <2>2. d \in 0 .. TaskDepth /\ TasksAt(d) /\ r \notin Elements(Up(splitAt, d))
          /\ tasks \in Seq(Task)
    BY <1>3, <1>5
  <2>3. d' = d
    BY <2>1
  <2>4. TasksAt(d') <=> TasksAt(d)
    BY <2>3
  <2> QED BY <1>3, <1>5, <1>14, <2>1, <2>2, TasksStay
<1>16. base = Len(Up(splitAt, depth)) /\ Up(splitAt, depth) \in Seq(Span) /\ depth \in Nat
         /\ r = Of(i)
       /\ depth \in 0 .. TaskDepth
  <2>1. depth \in 0 .. TaskDepth + 1 /\ depth \in Nat
    BY <1>3, Params
  <2> QED BY <1>3, <2>1, UpIs DEF base, r
<1>17. Up(splitAt, depth + 1) = Up(splitAt, depth) \o Build!Levels(splitAt)[depth]
       /\ Build!Levels(splitAt)[depth] \in Seq(Span)
  BY <1>3, <1>16, UpIs, LevelIs
<1>18. \A p \in 1 .. base : Up(splitAt, depth + 1)[p] = Up(splitAt, depth)[p]
  BY <1>16, <1>17, ConcatProperties
<1>19. UpperLinked'
  <2>1. Len(nodes') = Len(Up(splitAt', depth')) + Len(tasks')
    BY <1>11, <1>12, <1>15, <1>16
  <2>2. ASSUME NEW p \in 1 .. base PROVE Linked(splitAt', Up(splitAt, depth + 1), nodes', p)
    <3> DEFINE R == Up(splitAt, depth + 1)
    <3>1. Linked(splitAt, R, nodes, p)
      BY <1>3, <1>16, <2>2 DEF UpperLinked
    <3>2. R[p] # r
      BY <1>5, <1>16, <1>18, <2>2 DEF Elements
    <3>3. Linked(splitAt', R, nodes, p)
      <4>1. CASE mid = r.to
        <5>1. splitAt' = splitAt
          BY <1>14, <4>1
        <5> QED BY <3>1, <5>1
      <4>2. CASE mid # r.to
        <5>1. (\A s : s # r => Build!Children(splitAt', s) = Build!Children(splitAt, s))
              /\ DOMAIN splitAt' = DOMAIN splitAt \cup {r}
          BY <1>14, <4>2
        <5> HIDE DEF R
        <5> QED BY <3>1, <3>2, <5>1, LinkedSame
      <4> QED BY <4>1, <4>2
    <3>4. nodes'[p] = nodes[p]
      <4>1. p \in 1 .. Len(nodes) /\ p # tasks[i].node
        BY <1>4, <1>5, <1>11
      <4> QED BY <1>12, <4>1
    <3> HIDE DEF R
    <3>5. Linked(splitAt', R, nodes', p)
      BY <3>3, <3>4, Zenon DEF Linked
    <3> QED BY <3>5 DEF R
  <2>3. \A p \in 1 .. Len(Up(splitAt', depth')) : Linked(splitAt', Up(splitAt', depth' + 1), nodes', p)
    BY <1>15, <1>16, <2>2
  <2> QED BY <2>1, <2>3 DEF UpperLinked
<1>20. SplitInv'
  <2>1. Of(i)' = Of(i) /\ \A j \in 1 .. Len(tasks) : Of(j)' = Of(j) /\ tasks'[j] = tasks[j]
    BY <1>15 DEF Of
  <2>2. DOMAIN splits' \subseteq 1 .. Len(tasks') /\ depth' # TaskDepth
    BY <1>2, <1>3, <1>4, <1>9, <1>15, Params DEF SplitInv
  <2>3. ASSUME NEW j \in DOMAIN splits'
        PROVE  IF splits'[j] = tasks[j].to
               THEN Of(j) \notin DOMAIN splitAt' /\ nodes'[tasks[j].node] = Build!Leaf(tasks[j])
               ELSE Of(j) \in DOMAIN splitAt' /\ splitAt'[Of(j)] = splits'[j]
    <3>1. CASE j = i
      BY <1>5, <1>8, <1>9, <1>12, <1>14, <1>16, <3>1
    <3>2. CASE j # i
      <4>1. j \in DOMAIN splits /\ j \in 1 .. Len(tasks) /\ splits'[j] = splits[j]
        BY <1>3, <1>9, <2>3, <3>2 DEF SplitInv
      <4>2. r # Of(j) /\ tasks[i].node # tasks[j].node
        BY <1>5, <3>2, <4>1
      <4>3. tasks[j].node \in 1 .. Len(nodes)
        <5>1. tasks[j].node = base + j
          BY <1>3, <1>16, <4>1, TaskIs
        <5> QED BY <1>4, <1>5, <1>11, <4>1, <5>1
      <4>4. nodes'[tasks[j].node] = nodes[tasks[j].node]
        BY <1>12, <4>2, <4>3
      <4>5. IF splits[j] = tasks[j].to
            THEN Of(j) \notin DOMAIN splitAt /\ nodes[tasks[j].node] = Build!Leaf(tasks[j])
            ELSE Of(j) \in DOMAIN splitAt /\ splitAt[Of(j)] = splits[j]
        BY <1>3, <4>1 DEF SplitInv
      <4>6. Of(j) \in DOMAIN splitAt' <=> Of(j) \in DOMAIN splitAt
        BY <1>14, <4>2
      <4>7. Of(j) \in DOMAIN splitAt => splitAt'[Of(j)] = splitAt[Of(j)]
        BY <1>14
      <4> QED BY <4>1, <4>4, <4>5, <4>6, <4>7
    <3> QED BY <3>1, <3>2
  <2>4. ASSUME NEW s \in DOMAIN splitAt', NEW j \in 1 .. Len(tasks)
        PROVE  Apart(splitAt', s, Of(j)) \/ (j \in DOMAIN splits' /\ s = Of(j))
    <3>1. CASE s \in DOMAIN splitAt
      <4>1. Apart(splitAt, s, Of(j)) \/ (j \in DOMAIN splits /\ s = Of(j))
        BY <1>3, <3>1 DEF SplitInv
      <4>2. splitAt'[s] = splitAt[s]
        BY <1>14, <3>1
      <4> QED BY <1>9, <4>1, <4>2 DEF Apart
    <3>2. CASE s \notin DOMAIN splitAt
      <4>1. s = r
        BY <1>14, <2>4, <3>2
      <4>2. CASE j = i
        BY <1>9, <1>16, <4>1, <4>2
      <4>3. CASE j # i
        <5>1. Disjoint(r, Of(j))
          BY <1>3, <1>4, <1>16, <4>3 DEF TasksAt
        <5> QED BY <4>1, <5>1 DEF Apart
      <4> QED BY <4>2, <4>3
    <3> QED BY <3>1, <3>2
  <2>5. /\ (\A j \in DOMAIN splits' :
             IF splits'[j] = tasks'[j].to
             THEN Of(j)' \notin DOMAIN splitAt' /\ nodes'[tasks'[j].node] = Build!Leaf(tasks'[j])
             ELSE Of(j)' \in DOMAIN splitAt' /\ splitAt'[Of(j)'] = splits'[j])
        /\ \A s \in DOMAIN splitAt', j \in 1 .. Len(tasks') :
             Apart(splitAt', s, Of(j)') \/ (j \in DOMAIN splits' /\ s = Of(j)')
    <3>1. \A j : Of(j)' = Of(j)
      BY <1>15 DEF Of
    <3>2. tasks' = tasks
      BY <1>15
    <3> QED BY <2>3, <2>4, <3>1, <3>2
  <2> QED BY <2>2, <2>5 DEF SplitInv
<1>21. LeafInv'
  <2>1. /\ \A j \in 1 .. Len(tasks) : Nested(tasks[j])
        /\ \A w \in Worker : \A k \in 1 .. Len(stack[w]) : Nested(stack[w][k])
    BY <1>3 DEF LeafInv
  <2>2. stack' = stack /\ tasks' = tasks /\ phase' = "level"
    BY <1>2 DEF Build!workVars
  <2>3. ASSUME MaxDepth >= Refs, ~aborted', NEW n \in 1 .. Len(nodes') PROVE Fits(nodes'[n])
    <3>1. ~aborted
      BY <1>7, <2>3
    <3>2. n \in 1 .. Len(nodes) /\ Fits(nodes[n])
      BY <1>3, <1>12, <2>3, <3>1 DEF LeafInv
    <3>3. CASE mid = r.to /\ n = tasks[i].node
      <4>1. nodes'[n] = Build!Leaf(tasks[i])
        BY <1>12, <3>3
      <4> QED BY <1>7, <2>3, <3>3, <4>1
    <3>4. CASE n # tasks[i].node
      BY <1>12, <3>2, <3>4
    <3>5. CASE mid # r.to
      <4>1. nodes' = nodes
        BY <1>1, <1>5, <1>16, <3>5
      <4> QED BY <3>2, <4>1
    <3> QED BY <3>3, <3>4, <3>5
  <2> QED BY <2>1, <2>2, <2>3 DEF LeafInv
<1> QED
  <2>1. LevelInv'
    <3>1. TasksAt(depth)' /\ SplitInv' /\ UpperLinked'
      BY <1>15, <1>19, <1>20
    <3> QED BY <3>1 DEF LevelInv
  <2>2. phase' = "level" /\ Proper(splitAt)'
    BY <1>2, <1>14
  <2>3. SubtreeInv' /\ FoldInv'
    BY <2>2 DEF SubtreeInv, FoldInv, Later
  <2> QED BY <1>13, <1>21, <2>1, <2>2, <2>3 DEF BuildInv

-----------------------------------------------------------------------------
(* The next level *)

\* A level whose tasks are all split.
AtNext ==
    /\ phase = "level" /\ depth < TaskDepth /\ depth \in Nat /\ DOMAIN splits = DOMAIN tasks
    /\ TypeInv /\ Proper(splitAt) /\ TasksAt(depth) /\ SplitInv /\ UpperLinked /\ LeafInv

Inners == {i \in DOMAIN tasks : splits[i] # tasks[i].to}
LeftOf(i) == Len(nodes) + 2 * Build!Cardinality({j \in Inners : j < i}) + 1
Forks == [i \in DOMAIN tasks |-> IF i \in Inners THEN Build!Halves(tasks[i], LeftOf(i), splits[i]) ELSE <<>>]
Kids == [i \in DOMAIN tasks |-> Build!Children(splitAt, Of(i))]

\* Task i was split in two, with c split before it on its level.
ForkIs(i, c) ==
    /\ Of(i) \in DOMAIN splitAt /\ splitAt[Of(i)] \in tasks[i].from + 1 .. tasks[i].to - 1
    /\ c \in Nat /\ LeftOf(i) = Len(nodes) + 2 * c + 1
    /\ Kids[i] # <<>> /\ Len(Kids[i]) = 2
    /\ Kids[i][1] = First(splitAt, Of(i)) /\ Kids[i][2] = Second(splitAt, Of(i))
    /\ First(splitAt, Of(i)) \in Span /\ Second(splitAt, Of(i)) \in Span
    /\ Forks[i] # <<>> /\ Forks[i] \in Seq(Task) /\ Len(Forks[i]) = 2
    /\ Build!RangeOf(Forks[i][1]) = First(splitAt, Of(i)) /\ Build!RangeOf(Forks[i][2])
         = Second(splitAt, Of(i))
    /\ Forks[i][1].node = LeftOf(i) /\ Forks[i][2].node = LeftOf(i) + 1
    /\ Nested(Forks[i][1]) /\ Nested(Forks[i][2])

\* What is known where every task of the level was split.
LEMMA AtNextIs ==
    ASSUME Build!BuildAssumption, AtNext
    PROVE  /\ tasks \in Seq(Task) /\ Len(tasks) \in Nat /\ DOMAIN tasks = 1 .. Len(tasks)
           /\ nodes \in Seq(Node) /\ Len(nodes) \in Nat /\ DOMAIN nodes = 1 .. Len(nodes)
           /\ depth \in 0 .. TaskDepth /\ depth + 1 \in 0 .. TaskDepth
           /\ depth + 1 \in 1 .. TaskDepth
           /\ depth + 1 - 1 = depth
           /\ Proper(splitAt)
           /\ \A i \in 1 .. Len(tasks) :
                /\ Of(i) \in Span /\ tasks[i] \in Task /\ i \in DOMAIN splits
                /\ Of(i).from = tasks[i].from /\ Of(i).to = tasks[i].to
                /\ i \in Inners <=> Of(i) \in DOMAIN splitAt
                /\ Nested(tasks[i])
<1>1. /\ tasks \in Seq(Task) /\ Len(tasks) \in Nat /\ DOMAIN tasks = 1 .. Len(tasks)
      /\ nodes \in Seq(Node) /\ Len(nodes) \in Nat /\ DOMAIN nodes = 1 .. Len(nodes)
  BY LenProperties DEF AtNext, TypeInv, Array
<1>2. depth \in 0 .. TaskDepth /\ depth + 1 \in 0 .. TaskDepth /\ depth + 1 \in 1 .. TaskDepth
  BY Params DEF AtNext
<1>3. Proper(splitAt) /\ TasksAt(depth)
  BY DEF AtNext
<1>4. ASSUME NEW i \in 1 .. Len(tasks)
      PROVE  /\ Of(i) \in Span /\ tasks[i] \in Task /\ i \in DOMAIN splits
             /\ Of(i).from = tasks[i].from /\ Of(i).to = tasks[i].to
             /\ i \in Inners <=> Of(i) \in DOMAIN splitAt
             /\ Nested(tasks[i])
  <2>1. /\ Of(i) \in Span /\ tasks[i] \in Task
        /\ Of(i).from = tasks[i].from /\ Of(i).to = tasks[i].to
    BY <1>1, <1>2, <1>3, TaskIs
  <2>2. i \in DOMAIN splits /\ Nested(tasks[i])
    BY <1>1 DEF AtNext, LeafInv
  <2>3. i \in Inners <=> Of(i) \in DOMAIN splitAt
    BY <1>1, <2>2 DEF AtNext, SplitInv, Inners
  <2> QED BY <2>1, <2>2, <2>3
<1>5. depth + 1 - 1 = depth
  BY <1>2
<1> QED BY <1>1, <1>2, <1>3, <1>4, <1>5

\* The tasks that are split, counted in two ways.
LEMMA ForksCount ==
    ASSUME Build!BuildAssumption, AtNext
    PROVE  /\ \A i \in 0 .. Len(tasks) : Filled(Forks, i) = Filled(Kids, i) /\ Filled(Forks, i) \in Nat
           /\ \A i \in 1 .. Len(tasks) :
                Build!Cardinality({j \in Inners : j < i}) = Filled(Forks, i - 1)
           /\ Build!Cardinality(Inners) = Filled(Forks, Len(tasks))
<1>1. Len(tasks) \in Nat /\ DOMAIN tasks = 1 .. Len(tasks)
  BY AtNextIs
<1>2. ASSUME NEW i \in 1 .. Len(tasks) PROVE (Forks[i] # <<>> <=> i \in Inners)
               /\ (Kids[i] # <<>> <=> i \in Inners)
  <2>1. Of(i) \in Span /\ (i \in Inners <=> Of(i) \in DOMAIN splitAt) /\ Proper(splitAt)
    BY AtNextIs
  <2>2. Forks[i] # <<>> <=> i \in Inners
    <3>1. Build!Halves(tasks[i], LeftOf(i), splits[i]) # <<>>
      BY DEF Build!Halves
    <3> QED BY <1>1, <3>1 DEF Forks
  <2>3. Kids[i] = Build!Children(splitAt, Of(i))
    BY <1>1 DEF Kids
  <2>4. Kids[i] # <<>> <=> i \in Inners
    BY <2>1, <2>3, ChildrenIs
  <2> QED BY <2>2, <2>4
<1>3. ASSUME NEW i \in 0 .. Len(tasks) PROVE Filled(Forks, i) = Filled(Kids, i)
               /\ Filled(Forks, i) \in Nat
  <2>1. {j \in 1 .. i : Forks[j] # <<>>} = {j \in 1 .. i : Kids[j] # <<>>}
    BY <1>1, <1>2
  <2>2. i \in Nat
    BY <1>1
  <2> QED BY <2>1, <2>2, CountIs, SameCount DEF Filled
<1>4. ASSUME NEW i \in 1 .. Len(tasks) PROVE Build!Cardinality({j \in Inners : j < i})
               = Filled(Forks, i - 1)
  <2>1. {j \in Inners : j < i} = {j \in 1 .. i - 1 : Forks[j] # <<>>}
    <3>1. Inners \subseteq 1 .. Len(tasks)
      BY <1>1 DEF Inners
    <3>2. \A j : j \in Inners /\ j < i <=> j \in 1 .. i - 1 /\ Forks[j] # <<>>
      <4> SUFFICES ASSUME NEW j PROVE j \in Inners /\ j < i <=> j \in 1 .. i - 1 /\ Forks[j] # <<>>
        OBVIOUS
      <4>1. i \in Nat /\ i <= Len(tasks)
        BY <1>1
      <4>2. j \in 1 .. i - 1 <=> j \in 1 .. Len(tasks) /\ j < i
        BY <1>1, <4>1
      <4> QED BY <1>2, <3>1, <4>2
    <3> QED BY <3>2
  <2> QED BY <2>1, SameCount DEF Filled
<1>5. Build!Cardinality(Inners) = Filled(Forks, Len(tasks))
  <2>1. Inners = {j \in 1 .. Len(tasks) : Forks[j] # <<>>}
    <3>1. Inners \subseteq 1 .. Len(tasks)
      BY <1>1 DEF Inners
    <3> QED BY <1>1, <1>2, <3>1
  <2> QED BY <2>1, SameCount DEF Filled
<1> QED BY <1>3, <1>4, <1>5

\* The tasks that task i leaves to the next level, and their ranges.
LEMMA ForksAre ==
    ASSUME Build!BuildAssumption, AtNext, NEW i \in 1 .. Len(tasks)
    PROVE  /\ i \in Inners => ForkIs(i, Filled(Forks, i - 1))
           /\ i \notin Inners => Forks[i] = <<>> /\ Kids[i] = <<>>
<1> DEFINE r == Of(i)
           t == tasks[i]
           at == splitAt
           c == Filled(Forks, i - 1)
           l == LeftOf(i)
<1>1. /\ Len(tasks) \in Nat /\ DOMAIN tasks = 1 .. Len(tasks) /\ Len(nodes) \in Nat
      /\ r \in Span /\ t \in Task /\ i \in DOMAIN splits /\ Proper(at) /\ r.from = t.from
      /\ r.to = t.to
      /\ (i \in Inners <=> r \in DOMAIN at) /\ Nested(t)
  BY AtNextIs
<1>2. /\ t.node \in Nat /\ t.from \in Nat /\ t.to \in Nat /\ t.depth \in Nat /\ t.to <= Refs
      /\ Refs \in Nat
  BY <1>1, Params DEF Task
<1>3. Kids[i] = Build!Children(at, r)
  BY <1>1 DEF Kids
<1>4. ASSUME i \notin Inners PROVE Forks[i] = <<>> /\ Kids[i] = <<>>
  <2>1. Kids[i] = <<>>
    BY <1>1, <1>3, <1>4, ChildrenIs
  <2> QED BY <1>1, <1>4, <2>1 DEF Forks
<1>5. ASSUME i \in Inners PROVE ForkIs(i, Filled(Forks, i - 1))
  <2>1. c \in Nat /\ l = Len(nodes) + 2 * c + 1
    <3>1. i - 1 \in 0 .. Len(tasks)
      BY <1>1
    <3>2. c \in Nat
      BY <3>1, ForksCount
    <3>3. Build!Cardinality({j \in Inners : j < i}) = c
      BY ForksCount
    <3> HIDE DEF c
    <3> QED BY <3>2, <3>3 DEF LeftOf
  <2>2. /\ r \in DOMAIN at /\ at[r] \in t.from + 1 .. t.to - 1
        /\ Build!Children(at, r) # <<>> /\ Len(Build!Children(at, r)) = 2
        /\ First(at, r) \in Span /\ Second(at, r) \in Span
        /\ Build!Children(at, r)[1] = First(at, r) /\ Build!Children(at, r)[2] = Second(at, r)
    BY <1>1, <1>5, ChildrenIs DEF First, Second
  <2>3. splits[i] = at[r]
    BY <1>1, <2>2 DEF AtNext, SplitInv
  <2> DEFINE m == at[r]
             a == [node |-> l, from |-> t.from, to |-> m, depth |-> t.depth + 1]
             b == [node |-> l + 1, from |-> m, to |-> t.to, depth |-> t.depth + 1]
  <2>4. Forks[i] = <<a, b>>
    BY <1>1, <1>5, <2>3 DEF Forks, Build!Halves
  <2>5. l \in Nat \ {0} /\ m \in Nat /\ m <= Refs /\ m > t.from /\ m < t.to
    <3>1. t.from \in Nat /\ t.to \in Nat /\ t.to <= Refs /\ Refs \in Nat
            /\ m \in t.from + 1 .. t.to - 1
      BY <1>2, <2>2
    <3>2. Len(nodes) \in Nat
      BY <1>1
    <3> HIDE DEF l, m, t, c
    <3>3. m \in Nat /\ m <= Refs /\ m > t.from /\ m < t.to
      BY <3>1
    <3> QED BY <2>1, <3>2, <3>3
  <2> HIDE DEF l, m, t
  <2>6. a \in Task /\ b \in Task
    BY <1>2, <2>5 DEF Task
  <2>7. /\ Build!RangeOf(a) = [from |-> t.from, to |-> m]
        /\ Build!RangeOf(b) = [from |-> m, to |-> t.to]
        /\ a.node = l /\ b.node = l + 1
    BY DEF Build!RangeOf
  <2>8. Nested(a) /\ Nested(b)
    <3>1. t.to - t.from + t.depth <= Refs
      BY <1>1 DEF Nested
    <3>2. /\ a.from = t.from /\ a.to = m /\ a.depth = t.depth + 1
          /\ b.from = m /\ b.to = t.to /\ b.depth = t.depth + 1
      OBVIOUS
    <3> HIDE DEF a, b
    <3>3. a.to - a.from + a.depth <= Refs /\ b.to - b.from + b.depth <= Refs
      BY <1>2, <2>5, <3>1, <3>2, SMTT(40)
    <3> QED BY <3>3 DEF Nested
  <2>9. First(at, r) = [from |-> t.from, to |-> m] /\ Second(at, r) = [from |-> m, to |-> t.to]
    BY <1>1 DEF First, Second, m
  <2> HIDE DEF a, b
  <2>10. <<a, b>> \in Seq(Task) /\ Len(<<a, b>>) = 2 /\ <<a, b>>[1] = a /\ <<a, b>>[2] = b /\ <<a, b>> # <<>>
    BY <2>6
  <2>11. Kids[i] # <<>> /\ Len(Kids[i]) = 2 /\ Kids[i][1] = First(at, r)
           /\ Kids[i][2] = Second(at, r)
    BY <1>3, <2>2
  <2>12. /\ Forks[i] # <<>> /\ Forks[i] \in Seq(Task) /\ Len(Forks[i]) = 2
         /\ Build!RangeOf(Forks[i][1]) = First(at, r) /\ Build!RangeOf(Forks[i][2]) = Second(at, r)
         /\ Forks[i][1].node = l /\ Forks[i][2].node = l + 1 /\ Nested(Forks[i][1])
         /\ Nested(Forks[i][2])
    BY <2>4, <2>7, <2>8, <2>9, <2>10
  <2> QED BY <2>1, <2>2, <2>11, <2>12 DEF ForkIs, t, l
<1> QED BY <1>4, <1>5

\* Range n of the next level is a half of range i of this one.
HalfOf(n, i) ==
    /\ i \in 1 .. Len(tasks) /\ ForkIs(i, Filled(Forks, i - 1))
    /\ \/ n = 2 * Filled(Forks, i - 1) + 1 /\ Build!Levels(splitAt)[depth + 1][n]
            = First(splitAt, Of(i))
       \/ n = 2 * Filled(Forks, i - 1) + 2 /\ Build!Levels(splitAt)[depth + 1][n]
            = Second(splitAt, Of(i))

NextTasks ==
    /\ tasks' \in Seq(Task) /\ Len(tasks') = Len(Build!Levels(splitAt)[depth + 1])
    /\ Len(tasks') = 2 * Filled(Forks, Len(tasks))
    /\ \A n \in 1 .. Len(tasks') :
        /\ Build!RangeOf(tasks'[n]) = Build!Levels(splitAt)[depth + 1][n]
        /\ tasks'[n].node = Len(nodes) + n /\ Nested(tasks'[n])
        /\ \E i : HalfOf(n, i)
    /\ \A i \in Inners :
        /\ ForkIs(i, Filled(Forks, i - 1)) /\ 2 * Filled(Forks, i - 1) + 2 <= Len(tasks')
        /\ Build!Levels(splitAt)[depth + 1][2 * Filled(Forks, i - 1) + 1] = First(splitAt, Of(i))
        /\ Build!Levels(splitAt)[depth + 1][2 * Filled(Forks, i - 1) + 2] = Second(splitAt, Of(i))

\* The tasks of the next level are its ranges, from left to right, and what is appended
\* to the nodes has their places.
LEMMA NextTasksAre == ASSUME Build!BuildAssumption, AtNext, Build!NextLevel PROVE NextTasks
<1> DEFINE m == Len(tasks)
           level == Build!Levels(splitAt)[depth + 1]
           C(i) == Filled(Forks, i - 1)
<1>1. /\ m \in Nat /\ DOMAIN tasks = 1 .. m /\ Proper(splitAt)
      /\ depth + 1 \in 1 .. TaskDepth /\ depth + 1 - 1 = depth /\ depth \in 0 .. TaskDepth
      /\ \A i \in 1 .. m : Of(i) \in Span
  BY AtNextIs
<1>2. tasks' = FlatUpto(Forks, m)
  <2>1. tasks' = Build!FlattenSeq([i \in DOMAIN tasks |->
                     IF i \in Inners THEN Build!Halves(tasks[i], LeftOf(i), splits[i]) ELSE <<>>])
    BY Zenon DEF Build!NextLevel, Inners, LeftOf
  <2>2. tasks' = Build!FlattenSeq(Forks)
    BY <2>1, Zenon DEF Forks
  <2>3. [j \in 1 .. m |-> Forks[j]] = Forks
    BY <1>1, Zenon DEF Forks
  <2> QED BY SameFlat, <2>2, <2>3, Zenon DEF FlatUpto
<1>3. level = FlatUpto(Kids, m)
  <2> DEFINE q == Build!Levels(splitAt)[depth]
  <2>1. level = NextOf(splitAt, q)
    BY <1>1, LevelsAre
  <2>2. q \in Seq(Span)
    BY <1>1, LevelIs
  <2>3. Len(q) = m /\ \A i \in 1 .. m : Of(i) = q[i]
    BY DEF AtNext, TasksAt
  <2> HIDE DEF q, level
  <2>4. DOMAIN q = 1 .. m
    BY <2>2, <2>3, LenProperties
  <2>5. [k \in DOMAIN q |-> Build!Children(splitAt, q[k])] = [k \in 1 .. m |-> Kids[k]]
    <3>1. \A k \in 1 .. m : Kids[k] = Build!Children(splitAt, q[k])
      BY <1>1, <2>3 DEF Kids
    <3> QED BY <2>4, <3>1, Zenon
  <2> QED BY SameFlat, <2>1, <2>5, Zenon DEF NextOf, FlatUpto
<1>4. \A i \in 1 .. m : /\ i \in Inners => ForkIs(i, C(i)) /\ C(i) \in Nat
                        /\ i \notin Inners => Forks[i] = <<>> /\ Kids[i] = <<>>
  <2> SUFFICES ASSUME NEW i \in 1 .. m
               PROVE  /\ i \in Inners => ForkIs(i, C(i)) /\ C(i) \in Nat
                      /\ i \notin Inners => Forks[i] = <<>> /\ Kids[i] = <<>>
    OBVIOUS
  <2>1. /\ i \in Inners => ForkIs(i, C(i))
        /\ i \notin Inners => Forks[i] = <<>> /\ Kids[i] = <<>>
    BY ForksAre
  <2>2. i - 1 \in 0 .. m
    BY <1>1
  <2> QED BY <2>1, <2>2, ForksCount
<1>5. PairsAre(Forks, m)
  <2>1. \A i \in 1 .. m : Forks[i] \in Seq(Task) /\ (Forks[i] = <<>> \/ Len(Forks[i]) = 2)
    BY <1>4, EmptySeq DEF ForkIs
  <2> HIDE DEF m
  <2> QED BY <1>1, <2>1, FlatPairs
<1>6. PairsAre(Kids, m)
  <2>1. \A i \in 1 .. m : Kids[i] \in Seq(Span) /\ (Kids[i] = <<>> \/ Len(Kids[i]) = 2)
    <3> SUFFICES ASSUME NEW i \in 1 .. m
                 PROVE  Kids[i] \in Seq(Span) /\ (Kids[i] = <<>> \/ Len(Kids[i]) = 2)
      OBVIOUS
    <3>1. Kids[i] = Build!Children(splitAt, Of(i))
      BY <1>1 DEF Kids
    <3>2. Build!Children(splitAt, Of(i)) \in Seq(Span)
      BY <1>1, ChildrenIs
    <3> QED BY <1>4, <3>1, <3>2 DEF ForkIs
  <2> HIDE DEF m
  <2> QED BY <1>1, <2>1, FlatPairs
<1>7. /\ Filled(Forks, m) = Filled(Kids, m) /\ Filled(Forks, m) \in Nat
      /\ \A i \in 1 .. m : Filled(Kids, i - 1) = C(i)
  <2>1. m \in 0 .. m /\ \A i \in 1 .. m : i - 1 \in 0 .. m
    BY <1>1
  <2> QED BY <2>1, ForksCount
<1>8. tasks' \in Seq(Task)
  <2>1. \A i \in 1 .. m : Forks[i] \in Seq(Task)
    BY <1>4, EmptySeq DEF ForkIs
  <2>2. Build!FlattenSeq([i \in 1 .. m |-> Forks[i]]) \in Seq(Task)
    <3> HIDE DEF m
    <3> QED BY <1>1, <2>1, FlatOf, SameFlat
  <2> QED BY SameFlat, <1>2, <2>2 DEF FlatUpto
<1> HIDE DEF m, level, C
<1>9. /\ Len(tasks') = 2 * Filled(Forks, m) /\ Len(level) = 2 * Filled(Forks, m)
      /\ \A i \in 1 .. m : Forks[i] # <<>> =>
          /\ C(i) \in Nat /\ 2 * C(i) + 2 <= Len(tasks')
          /\ tasks'[2 * C(i) + 1] = Forks[i][1] /\ tasks'[2 * C(i) + 2] = Forks[i][2]
      /\ \A i \in 1 .. m : Kids[i] # <<>> =>
          /\ level[2 * C(i) + 1] = Kids[i][1] /\ level[2 * C(i) + 2] = Kids[i][2]
      /\ \A n \in 1 .. Len(tasks') : \E i \in 1 .. m :
          Forks[i] # <<>> /\ (n = 2 * C(i) + 1 \/ n = 2 * C(i) + 2)
  <2>1. /\ Len(tasks') = 2 * Filled(Forks, m)
        /\ \A i \in 1 .. m : Forks[i] # <<>> =>
          /\ C(i) \in Nat /\ 2 * C(i) + 2 <= Len(tasks')
          /\ tasks'[2 * C(i) + 1] = Forks[i][1] /\ tasks'[2 * C(i) + 2] = Forks[i][2]
        /\ \A n \in 1 .. Len(tasks') : \E i \in 1 .. m :
          Forks[i] # <<>> /\ (n = 2 * C(i) + 1 \/ n = 2 * C(i) + 2)
    BY <1>2, <1>5, Zenon DEF PairsAre, C
  <2>2. /\ Len(level) = 2 * Filled(Kids, m)
        /\ \A i \in 1 .. m : Kids[i] # <<>> =>
          /\ level[2 * Filled(Kids, i - 1) + 1] = Kids[i][1] /\ level[2 * Filled(Kids, i - 1) + 2]
               = Kids[i][2]
    BY <1>3, <1>6, Zenon DEF PairsAre
  <2> QED BY <1>7, <2>1, <2>2
<1>10. ASSUME NEW i \in Inners
       PROVE  /\ i \in 1 .. m /\ ForkIs(i, C(i)) /\ 2 * C(i) + 2 <= Len(tasks')
              /\ tasks'[2 * C(i) + 1] = Forks[i][1] /\ tasks'[2 * C(i) + 2] = Forks[i][2]
              /\ level[2 * C(i) + 1] = First(splitAt, Of(i))
              /\ level[2 * C(i) + 2] = Second(splitAt, Of(i))
  <2>1. i \in 1 .. m
    BY <1>1 DEF Inners
  <2>2. ForkIs(i, C(i))
    BY <1>4, <2>1
  <2> QED BY <1>9, <2>1, <2>2 DEF ForkIs
<1>11. ASSUME NEW n \in 1 .. Len(tasks')
       PROVE  /\ Build!RangeOf(tasks'[n]) = level[n] /\ tasks'[n].node = Len(nodes) + n
              /\ Nested(tasks'[n])
              /\ \E i : HalfOf(n, i)
  <2>1. PICK i \in 1 .. m : Forks[i] # <<>> /\ (n = 2 * C(i) + 1 \/ n = 2 * C(i) + 2)
    BY <1>9
  <2>2. i \in Inners
    BY <1>4, <2>1
  <2>3. C(i) \in Nat /\ Len(nodes) \in Nat
    BY <1>4, <2>2, AtNextIs
  <2>4. /\ Build!RangeOf(Forks[i][1]) = First(splitAt, Of(i)) /\ Build!RangeOf(Forks[i][2])
             = Second(splitAt, Of(i))
        /\ Forks[i][1].node = LeftOf(i) /\ Forks[i][2].node = LeftOf(i) + 1
        /\ Nested(Forks[i][1]) /\ Nested(Forks[i][2]) /\ LeftOf(i) = Len(nodes) + 2 * C(i) + 1
    BY <1>10, <2>2 DEF ForkIs
  <2>5. CASE n = 2 * C(i) + 1
    <3>1. tasks'[n] = Forks[i][1] /\ level[n] = First(splitAt, Of(i)) /\ ForkIs(i, C(i))
            /\ LeftOf(i) = Len(nodes) + n
      BY <1>10, <2>2, <2>3, <2>4, <2>5
    <3>2. HalfOf(n, i)
      BY <2>1, <2>5, <3>1, Zenon DEF HalfOf, C, level, m
    <3> QED BY <2>4, <3>1, <3>2
  <2>6. CASE n = 2 * C(i) + 2
    <3>1. tasks'[n] = Forks[i][2] /\ level[n] = Second(splitAt, Of(i)) /\ ForkIs(i, C(i))
            /\ LeftOf(i) + 1 = Len(nodes) + n
      BY <1>10, <2>2, <2>3, <2>4, <2>6
    <3>2. HalfOf(n, i)
      BY <2>1, <2>6, <3>1, Zenon DEF HalfOf, C, level, m
    <3> QED BY <2>4, <3>1, <3>2
  <2> QED BY <2>1, <2>5, <2>6
<1> QED
  <2>1. Len(tasks') = Len(level)
    BY <1>9
  <2> QED BY <1>8, <1>9, <1>10, <1>11, <2>1, Zenon DEF NextTasks, level, m, C

\* A range of the next level is half of one of this level.
LEMMA HalfIs ==
    ASSUME Build!BuildAssumption, AtNext, NEW n, NEW i, HalfOf(n, i),
           NEW x, x = Build!Levels(splitAt)[depth + 1][n]
    PROVE  /\ i \in 1 .. Len(tasks) /\ x \in Span /\ Of(i) \in Span /\ Of(i) \in DOMAIN splitAt
           /\ Inside(x, Of(i)) /\ (x.from # Of(i).from \/ x.to # Of(i).to)
           /\ Apart(splitAt, Of(i), x)
<1> DEFINE R == Of(i)
<1>1. i \in 1 .. Len(tasks) /\ ForkIs(i, Filled(Forks, i - 1))
  BY DEF HalfOf
<1>2. /\ R \in DOMAIN splitAt /\ First(splitAt, R) \in Span /\ Second(splitAt, R) \in Span
      /\ x = First(splitAt, R) \/ x = Second(splitAt, R)
  BY <1>1 DEF HalfOf, ForkIs
<1>3. Proper(splitAt) /\ R \in Span
  BY <1>1, AtNextIs
<1>4. /\ splitAt[R] \in R.from + 1 .. R.to - 1 /\ R.from \in Nat /\ R.to \in Nat
  BY <1>2, <1>3, SpanIs DEF Proper
<1>5. /\ First(splitAt, R).from = R.from /\ First(splitAt, R).to = splitAt[R]
      /\ Second(splitAt, R).from = splitAt[R] /\ Second(splitAt, R).to = R.to
  BY DEF First, Second
<1> HIDE DEF R
<1>6. Inside(x, R) /\ (x.from # R.from \/ x.to # R.to) /\ Apart(splitAt, R, x)
  BY <1>2, <1>4, <1>5 DEF Inside, Apart
<1> QED BY <1>1, <1>2, <1>3, <1>6 DEF R

\* What is on a side of a range is on that side of its parts.
LEMMA Parts ==
    ASSUME Build!BuildAssumption, NEW R \in Span, NEW r \in Span, Inside(r, R), NEW s \in Span
    PROVE  /\ Disjoint(s, R) => Disjoint(s, r) /\ Disjoint(r, s)
           /\ Clear(s, R) => Clear(s, r)
           /\ \A at : Proper(at) /\ s \in DOMAIN at /\ Apart(at, s, R) => Apart(at, s, r)
           /\ Inside(s, r) => Inside(s, R)
<1>1. /\ R.from \in Nat /\ R.to \in Nat /\ r.from \in Nat /\ r.to \in Nat /\ s.from \in Nat
      /\ s.to \in Nat
      /\ R.from <= r.from /\ r.to <= R.to /\ r.from < r.to /\ R.from < R.to /\ s.from < s.to
  BY SpanIs DEF Inside
<1>2. Disjoint(s, R) => Disjoint(s, r) /\ Disjoint(r, s)
  BY <1>1 DEF Disjoint
<1>3. Clear(s, R) => Clear(s, r)
  BY <1>1, <1>2 DEF Clear, Inside
<1>4. ASSUME NEW at, Proper(at), s \in DOMAIN at, Apart(at, s, R) PROVE Apart(at, s, r)
  <2>1. at[s] \in Nat
    BY <1>1, <1>4 DEF Proper
  <2> QED BY <1>1, <1>2, <1>4, <2>1 DEF Apart
<1> QED BY <1>1, <1>2, <1>3, <1>4 DEF Inside

\* The halves of different ranges are disjoint, and those of one.
LEMMA NextDisjoint ==
    ASSUME Build!BuildAssumption, AtNext, NextTasks, NEW n \in 1 .. Len(tasks'),
             NEW k \in 1 .. Len(tasks'), n # k
    PROVE  Disjoint(Build!Levels(splitAt)[depth + 1][n], Build!Levels(splitAt)[depth + 1][k])
<1> DEFINE x == Build!Levels(splitAt)[depth + 1][n]
           y == Build!Levels(splitAt)[depth + 1][k]
<1>1. PICK i : HalfOf(n, i)
  BY DEF NextTasks
<1>2. PICK j : HalfOf(k, j)
  BY DEF NextTasks
<1>3. /\ i \in 1 .. Len(tasks) /\ x \in Span /\ Of(i) \in Span /\ Inside(x, Of(i))
      /\ Of(i) \in DOMAIN splitAt
  BY <1>1, HalfIs
<1>4. /\ j \in 1 .. Len(tasks) /\ y \in Span /\ Of(j) \in Span /\ Inside(y, Of(j))
  BY <1>2, HalfIs
<1>5. CASE i # j
  <2>1. Disjoint(Of(i), Of(j))
    BY <1>3, <1>4, <1>5 DEF AtNext, TasksAt
  <2> HIDE DEF x, y
  <2>2. Disjoint(Of(i), y)
    BY <1>3, <1>4, <2>1, Parts
  <2>3. Disjoint(y, Of(i))
    BY <2>2 DEF Disjoint
  <2>4. Disjoint(x, y)
    BY <1>3, <1>4, <2>3, Parts
  <2> QED BY <2>4 DEF x, y
<1>6. CASE i = j
  <2> DEFINE R == Of(i)
             c == Filled(Forks, i - 1)
  <2>1. c \in Nat
    BY <1>1 DEF HalfOf, ForkIs
  <2>2. /\ (n = 2 * c + 1 /\ x = First(splitAt, R)) \/ (n = 2 * c + 2 /\ x = Second(splitAt, R))
        /\ (k = 2 * c + 1 /\ y = First(splitAt, R)) \/ (k = 2 * c + 2 /\ y = Second(splitAt, R))
    <3>1. HalfOf(n, i) /\ HalfOf(k, i)
      BY <1>1, <1>2, <1>6
    <3> QED BY <3>1, Zenon DEF HalfOf
  <2>3. \/ x = First(splitAt, R) /\ y = Second(splitAt, R)
        \/ x = Second(splitAt, R) /\ y = First(splitAt, R)
    <3> HIDE DEF c, x, y, R
    <3> QED BY <2>1, <2>2
  <2>4. First(splitAt, R).to = splitAt[R] /\ Second(splitAt, R).from = splitAt[R]
    BY DEF First, Second
  <2>5. splitAt[R] \in Nat
    BY <1>3, SpanIs DEF Proper, AtNext
  <2> HIDE DEF x, y, R
  <2>6. Disjoint(x, y)
    BY <2>3, <2>4, <2>5 DEF Disjoint
  <2> QED BY <2>6 DEF x, y
<1> QED BY <1>5, <1>6

\* The levels above, this one, and the next: their lengths, and what is where.
LEMMA NextUp ==
    ASSUME Build!BuildAssumption, AtNext
    PROVE  /\ Up(splitAt, depth) \in Seq(Span) /\ Up(splitAt, depth + 1) \in Seq(Span)
           /\ Up(splitAt, depth + 2) \in Seq(Span)
           /\ Build!Levels(splitAt)[depth] \in Seq(Span)
           /\ Build!Levels(splitAt)[depth + 1] \in Seq(Span)
           /\ Up(splitAt, depth + 1) = Up(splitAt, depth) \o Build!Levels(splitAt)[depth]
           /\ Up(splitAt, depth + 2) = Up(splitAt, depth + 1) \o Build!Levels(splitAt)[depth + 1]
           /\ depth + 1 + 1 = depth + 2
           /\ Len(Build!Levels(splitAt)[depth]) = Len(tasks)
           /\ Len(Up(splitAt, depth + 1)) = Len(Up(splitAt, depth)) + Len(tasks)
           /\ Len(nodes) = Len(Up(splitAt, depth + 1))
           /\ \A p \in 1 .. Len(Up(splitAt, depth)) : Up(splitAt, depth + 1)[p]
                                                        = Up(splitAt, depth)[p]
           /\ \A i \in 1 .. Len(tasks) : /\ Up(splitAt, depth + 1)[Len(Up(splitAt, depth)) + i]
                                              = Of(i)
                                         /\ tasks[i].node = Len(Up(splitAt, depth)) + i
           /\ \A p \in 1 .. Len(Up(splitAt, depth + 1)) :
                \/ p \in 1 .. Len(Up(splitAt, depth))
                \/ \E i \in 1 .. Len(tasks) : p = Len(Up(splitAt, depth)) + i
<1> DEFINE a == Up(splitAt, depth)
           b == Up(splitAt, depth + 1)
           q == Build!Levels(splitAt)[depth]
<1>1. /\ depth \in Nat /\ depth \in 0 .. TaskDepth + 1 /\ depth + 1 \in 0 .. TaskDepth + 1
      /\ depth + 2 \in 0 .. TaskDepth + 1 /\ depth \in 0 .. TaskDepth
      /\ depth + 1 \in 0 .. TaskDepth
      /\ depth + 1 + 1 = depth + 2 /\ Proper(splitAt)
  BY AtNextIs, Params, SMTT(40)
<1>2. /\ a \in Seq(Span) /\ b \in Seq(Span) /\ Up(splitAt, depth + 2) \in Seq(Span)
      /\ q \in Seq(Span) /\ Build!Levels(splitAt)[depth + 1] \in Seq(Span)
      /\ b = a \o q
  BY <1>1, UpIs, LevelIs
<1>3. Up(splitAt, depth + 2) = b \o Build!Levels(splitAt)[depth + 1]
  <2>1. Up(splitAt, depth + 1 + 1) = b \o Build!Levels(splitAt)[depth + 1]
    BY <1>1, UpIs
  <2> QED BY <1>1, <2>1
<1>4. /\ Len(q) = Len(tasks) /\ \A i \in 1 .. Len(tasks) : Of(i) = q[i]
           /\ tasks[i].node = Len(a) + i
  BY DEF AtNext, TasksAt
<1>5. Len(nodes) = Len(a) + Len(tasks)
  BY DEF AtNext, UpperLinked
<1> HIDE DEF a, b, q
<1>6. /\ Len(a) \in Nat /\ Len(q) \in Nat /\ Len(b) = Len(a) + Len(q)
      /\ \A p \in 1 .. Len(a) : b[p] = a[p]
      /\ \A p \in 1 .. Len(q) : b[Len(a) + p] = q[p]
  <2>1. Len(a) \in Nat /\ Len(q) \in Nat
    BY <1>2, LenProperties
  <2>2. Len(b) = Len(a) + Len(q) /\ \A p \in 1 .. Len(a) + Len(q) : b[p]
          = IF p <= Len(a) THEN a[p] ELSE q[p - Len(a)]
    BY <1>2, ConcatProperties
  <2>3. ASSUME NEW p \in 1 .. Len(q) PROVE b[Len(a) + p] = q[p]
    <3>1. Len(a) + p \in 1 .. Len(a) + Len(q) /\ Len(a) + p - Len(a) = p /\ ~(Len(a) + p <= Len(a))
      BY <2>1
    <3> QED BY <2>2, <3>1
  <2> QED BY <2>1, <2>2, <2>3
<1>7. ASSUME NEW p \in 1 .. Len(b)
      PROVE  p \in 1 .. Len(a) \/ \E i \in 1 .. Len(tasks) : p = Len(a) + i
  <2>1. CASE p <= Len(a)
    BY <1>6, <2>1
  <2>2. CASE p > Len(a)
    <3>1. p - Len(a) \in 1 .. Len(tasks) /\ p = Len(a) + (p - Len(a))
      BY <1>4, <1>6, <2>2
    <3> QED BY <3>1
  <2> QED BY <1>6, <2>1, <2>2
<1>8. \A p \in 1 .. Len(a) : b[p] = a[p]
  BY <1>6
<1>9. \A i \in 1 .. Len(tasks) : b[Len(a) + i] = Of(i) /\ tasks[i].node = Len(a) + i
  BY <1>4, <1>6
<1>10. Len(b) = Len(a) + Len(tasks) /\ Len(nodes) = Len(b)
  BY <1>4, <1>5, <1>6
<1> QED BY <1>1, <1>2, <1>3, <1>4, <1>7, <1>8, <1>9, <1>10 DEF a, b, q

\* A range of the next level is no range above it.
LEMMA NextClear ==
    ASSUME Build!BuildAssumption, AtNext, NextTasks, NEW n \in 1 .. Len(tasks'),
           NEW p \in 1 .. Len(Up(splitAt, depth + 1))
    PROVE  Clear(Up(splitAt, depth + 1)[p], Build!Levels(splitAt)[depth + 1][n])
<1> DEFINE x == Build!Levels(splitAt)[depth + 1][n]
           R == Up(splitAt, depth + 1)[p]
<1>1. PICK i : HalfOf(n, i)
  BY DEF NextTasks
<1>2. /\ i \in 1 .. Len(tasks) /\ x \in Span /\ Of(i) \in Span /\ Inside(x, Of(i))
      /\ (x.from # Of(i).from \/ x.to # Of(i).to)
  BY <1>1, HalfIs
<1>3. R \in Span
  BY NextUp, ElementOfSeq
<1>4. Clear(R, Of(i)) \/ R = Of(i)
  <2>1. CASE p \in 1 .. Len(Up(splitAt, depth))
    <3>1. R = Up(splitAt, depth)[p]
      BY <2>1, NextUp
    <3>2. Clear(Up(splitAt, depth)[p], Of(i))
      BY <1>2, <2>1 DEF AtNext, TasksAt
    <3> QED BY <3>1, <3>2
  <2>2. ASSUME NEW j \in 1 .. Len(tasks), p = Len(Up(splitAt, depth)) + j PROVE Clear(R, Of(i))
                 \/ R = Of(i)
    <3>1. R = Of(j)
      BY <2>2, NextUp
    <3>2. j # i => Disjoint(Of(j), Of(i))
      BY <1>2 DEF AtNext, TasksAt
    <3> QED BY <3>1, <3>2 DEF Clear
  <2> QED BY <2>1, <2>2, NextUp
<1> HIDE DEF x, R
<1>5. CASE Clear(R, Of(i))
  <2>1. Clear(R, x)
    BY <1>2, <1>3, <1>5, Parts
  <2> QED BY <2>1 DEF x, R
<1>6. CASE R = Of(i)
  <2>1. Clear(R, x)
    BY <1>2, <1>6, SpanIs DEF Clear
  <2> QED BY <2>1 DEF x, R
<1> QED BY <1>4, <1>5, <1>6

\* The nodes of the next level are allocated behind the others; those that are split
\* are linked to them.
NextNodes ==
    /\ nodes' \in Seq(Node) /\ Len(nodes') = Len(nodes) + Len(tasks')
    /\ \A p \in 1 .. Len(Up(splitAt, depth)) : nodes'[p] = nodes[p]
    /\ \A i \in 1 .. Len(tasks) :
        nodes'[tasks[i].node]
          = IF i \in Inners THEN Build!Inner(LeftOf(i)) ELSE nodes[tasks[i].node]
    /\ \A p \in 1 .. Len(nodes') :
        \/ nodes'[p] = Build!Placeholder
        \/ \E i \in Inners : nodes'[p] = Build!Inner(LeftOf(i))
        \/ p \in 1 .. Len(nodes) /\ nodes'[p] = nodes[p]

\* The nodes that are written are nodes.
LEMMA InnerIs ==
    ASSUME Build!BuildAssumption
    PROVE  /\ Build!Placeholder \in Node /\ Build!Placeholder.left = 0 /\ Fits(Build!Placeholder)
           /\ \A l \in Nat : Build!Inner(l) \in Node /\ Build!Inner(l).left = l
                               /\ Fits(Build!Inner(l))
BY Params DEF Build!Placeholder, Build!Inner, Node, Fits

\* The nodes after a level: those that were split point to their halves.
LEMMA NextNodesAre == ASSUME Build!BuildAssumption, AtNext, Build!NextLevel, NextTasks
  PROVE NextNodes
<1> DEFINE N == Len(nodes) + 2 * Build!Cardinality(Inners)
           a == Up(splitAt, depth)
           IsOf(n, i) == i \in Inners /\ tasks[i].node = n
           at(n) == CHOOSE i \in Inners : tasks[i].node = n
<1>1. /\ Len(nodes) \in Nat /\ nodes \in Seq(Node) /\ Len(tasks) \in Nat
      /\ DOMAIN tasks = 1 .. Len(tasks)
  BY AtNextIs
<1>2. N = Len(nodes) + Len(tasks') /\ Len(tasks') \in Nat /\ N \in Nat
  <2>1. Build!Cardinality(Inners) = Filled(Forks, Len(tasks)) /\ Filled(Forks, Len(tasks)) \in Nat
    <3>1. Len(tasks) \in 0 .. Len(tasks)
      BY <1>1
    <3> QED BY <3>1, ForksCount
  <2>2. Len(tasks') = 2 * Filled(Forks, Len(tasks))
    BY DEF NextTasks
  <2> QED BY <1>1, <2>1, <2>2
<1>3. nodes' = [n \in 1 .. N |->
                  IF n > Len(nodes) THEN Build!Placeholder
                  ELSE IF \E i \in Inners : tasks[i].node
                    = n THEN Build!Inner(LeftOf(at(n))) ELSE nodes[n]]
  BY Zenon DEF Build!NextLevel, Inners, LeftOf
<1>4. /\ Len(a) \in Nat /\ Len(nodes) = Len(a) + Len(tasks)
      /\ \A i \in 1 .. Len(tasks) : tasks[i].node = Len(a) + i
  BY NextUp, LenProperties
<1>5. Inners \subseteq 1 .. Len(tasks)
  BY <1>1 DEF Inners
<1>6. \A i \in Inners : at(tasks[i].node) = i
  <2> SUFFICES ASSUME NEW i \in Inners PROVE at(tasks[i].node) = i
    OBVIOUS
  <2>1. at(tasks[i].node) \in Inners /\ tasks[at(tasks[i].node)].node = tasks[i].node
    OBVIOUS
  <2> DEFINE j == at(tasks[i].node)
  <2> HIDE DEF at
  <2>2. j \in Inners /\ tasks[j].node = tasks[i].node
    BY <2>1
  <2> HIDE DEF j
  <2>3. tasks[j].node = Len(a) + j /\ tasks[i].node = Len(a) + i /\ i \in Nat /\ j \in Nat
    BY <1>1, <1>4, <1>5, <2>2
  <2>4. i = j
    <3>1. Len(a) \in Nat /\ Len(a) + j = Len(a) + i
      BY <1>4, <2>2, <2>3
    <3> HIDE DEF a
    <3> QED BY <2>3, <3>1
  <2> QED BY <2>4 DEF j
<1>7. \A i \in Inners : LeftOf(i) \in Nat
  <2> SUFFICES ASSUME NEW i \in Inners PROVE LeftOf(i) \in Nat
    OBVIOUS
  <2>1. ForkIs(i, Filled(Forks, i - 1))
    BY <1>5, ForksAre
  <2> QED BY <1>1, <2>1, SMTT(40) DEF ForkIs
<1>8. ASSUME NEW p \in 1 .. N
      PROVE  /\ p > Len(nodes) => nodes'[p] = Build!Placeholder
             /\ \A i \in Inners : p <= Len(nodes) /\ p = tasks[i].node
                                    => nodes'[p] = Build!Inner(LeftOf(i))
             /\ p <= Len(nodes) /\ (\A i \in Inners : p # tasks[i].node) => nodes'[p] = nodes[p]
  <2>1. nodes'[p] = IF p > Len(nodes) THEN Build!Placeholder
                    ELSE IF \E i \in Inners : tasks[i].node
                      = p THEN Build!Inner(LeftOf(at(p))) ELSE nodes[p]
    <3> HIDE DEF N, at
    <3> QED BY <1>3
  <2>2. ASSUME p > Len(nodes) PROVE nodes'[p] = Build!Placeholder
    BY <2>1, <2>2, Zenon
  <2>3. ASSUME NEW i \in Inners, p <= Len(nodes), p = tasks[i].node
                 PROVE nodes'[p] = Build!Inner(LeftOf(i))
    <3>1. at(p) = i /\ \E k \in Inners : tasks[k].node = p
      BY <1>6, <2>3, Zenon
    <3>2. ~(p > Len(nodes))
      BY <1>1, <1>2, <2>3
    <3> HIDE DEF at, N
    <3> QED BY <2>1, <3>1, <3>2
  <2>4. ASSUME p <= Len(nodes), \A i \in Inners : p # tasks[i].node PROVE nodes'[p] = nodes[p]
    <3>1. ~(p > Len(nodes)) /\ ~(\E i \in Inners : tasks[i].node = p)
      BY <1>1, <1>2, <2>4
    <3> HIDE DEF at, N
    <3> QED BY <2>1, <3>1, Zenon
  <2> QED BY <2>2, <2>3, <2>4
<1>9. \A p \in 1 .. N : \/ nodes'[p] = Build!Placeholder
                        \/ \E i \in Inners : nodes'[p] = Build!Inner(LeftOf(i))
                        \/ p \in 1 .. Len(nodes) /\ nodes'[p] = nodes[p]
  <2> HIDE DEF N
  <2> QED BY <1>1, <1>2, <1>8
<1>10. nodes' \in Seq(Node) /\ Len(nodes') = N
  <2>1. nodes' = [p \in 1 .. N |-> nodes'[p]]
    <3> HIDE DEF N, at
    <3> QED BY <1>3
  <2>2. \A p \in 1 .. Len(nodes) : nodes[p] \in Node
    BY <1>1, ElementOfSeq
  <2>3. \A p \in 1 .. N : nodes'[p] \in Node
    <3> HIDE DEF N
    <3> QED BY <1>7, <1>9, <2>2, InnerIs
  <2> HIDE DEF N
  <2>4. nodes' \in [1 .. N -> Node]
    BY <2>1, <2>3
  <2> QED BY <1>2, <2>4
<1>11. \A p \in 1 .. Len(a) : nodes'[p] = nodes[p]
  <2> SUFFICES ASSUME NEW p \in 1 .. Len(a) PROVE nodes'[p] = nodes[p]
    OBVIOUS
  <2>1. p \in 1 .. N /\ p <= Len(nodes) /\ \A i \in Inners : p # tasks[i].node
    <3> HIDE DEF N
    <3> QED BY <1>1, <1>2, <1>4, <1>5
  <2> HIDE DEF N
  <2> QED BY <1>8, <2>1
<1>12. ASSUME NEW i \in 1 .. Len(tasks)
       PROVE  nodes'[tasks[i].node]
                = IF i \in Inners THEN Build!Inner(LeftOf(i)) ELSE nodes[tasks[i].node]
  <2>1. tasks[i].node \in 1 .. N /\ tasks[i].node <= Len(nodes)
    <3> HIDE DEF N
    <3> QED BY <1>1, <1>2, <1>4
  <2>2. i \notin Inners => \A j \in Inners : tasks[i].node # tasks[j].node
    BY <1>4, <1>5
  <2> HIDE DEF N
  <2> QED BY <1>8, <2>1, <2>2
<1> HIDE DEF N
<1> QED BY <1>2, <1>9, <1>10, <1>11, <1>12, Zenon DEF NextNodes

\* ... so that the parts of the invariant hold on the next level, ...
LEMMA NextTree ==
    ASSUME Build!BuildAssumption, AtNext, Build!NextLevel, NextTasks, NextNodes
    PROVE  TasksAt(depth)' /\ SplitInv' /\ UpperLinked' /\ LeafInv' /\ TypeInv'
<1> DEFINE level == Build!Levels(splitAt)[depth + 1]
           up == Up(splitAt, depth + 1)
           base == Len(Up(splitAt, depth))
<1>1. /\ splitAt' = splitAt /\ depth' = depth + 1 /\ splits' = Build!Nothing /\ phase' = phase
      /\ UNCHANGED <<phase, nextTask, working, stack, subtrees, folded, token, aborted>>
  BY DEF Build!NextLevel, Build!workVars
<1>2. /\ tasks' \in Seq(Task) /\ Len(tasks') = Len(level) /\ Len(tasks') \in Nat
      /\ \A n \in 1 .. Len(tasks') : Of(n)' = level[n] /\ tasks'[n].node = Len(nodes) + n
                                       /\ Nested(tasks'[n])
  BY LenProperties DEF NextTasks, Of
<1>3. TasksAt(depth)'
  <2>1. \A n \in 1 .. Len(tasks') :
          /\ Of(n)' = level[n] /\ tasks'[n].node = Len(up) + n
          /\ \A k \in 1 .. Len(tasks') : n # k => Disjoint(Of(n)', Of(k)')
          /\ \A p \in 1 .. Len(up) : Clear(up[p], Of(n)')
    BY <1>2, NextDisjoint, NextClear, NextUp
  <2>2. depth' = depth + 1 /\ splitAt' = splitAt
    BY <1>1
  <2>3. /\ Len(tasks') = Len(Build!Levels(splitAt)[depth + 1])
        /\ \A i \in 1 .. Len(tasks') :
          /\ Of(i)' = Build!Levels(splitAt)[depth + 1][i]
          /\ tasks'[i].node = Len(Up(splitAt, depth + 1)) + i
          /\ \A j \in 1 .. Len(tasks') : i # j => Disjoint(Of(i)', Of(j)')
          /\ \A p \in 1 .. Len(Up(splitAt, depth + 1)) : Clear(Up(splitAt, depth + 1)[p], Of(i)')
    BY <1>2, <2>1
  <2> QED BY <2>2, <2>3, Zenon DEF TasksAt
<1>4. SplitInv'
  <2>1. DOMAIN splits' = {}
    BY <1>1 DEF Build!Nothing
  <2>2. ASSUME NEW s \in DOMAIN splitAt, NEW n \in 1 .. Len(tasks') PROVE Apart(splitAt, s, Of(n)')
    <3> DEFINE x == level[n]
    <3>1. PICK i : HalfOf(n, i)
      BY DEF NextTasks
    <3>2. /\ i \in 1 .. Len(tasks) /\ x \in Span /\ Of(i) \in Span /\ Inside(x, Of(i))
          /\ Apart(splitAt, Of(i), x)
      BY <3>1, HalfIs
    <3>3. Of(n)' = x /\ Proper(splitAt) /\ s \in Span
      BY <1>2, SpanIs DEF AtNext, Proper
    <3> HIDE DEF x
    <3>4. CASE s = Of(i)
      BY <3>2, <3>3, <3>4
    <3>5. CASE s # Of(i)
      <4>1. Apart(splitAt, s, Of(i))
        BY <3>2, <3>5 DEF AtNext, SplitInv
      <4> QED BY <3>2, <3>3, <4>1, Parts
    <3> QED BY <3>4, <3>5
  <2> QED BY <1>1, <2>1, <2>2 DEF SplitInv
<1>5. UpperLinked'
  <2>1. Len(nodes') = Len(up) + Len(tasks')
    BY NextUp DEF NextNodes
  <2> DEFINE next == Up(splitAt, depth + 2)
  <2>2. /\ up \in Seq(Span) /\ next \in Seq(Span) /\ level \in Seq(Span) /\ next = up \o level
    BY NextUp
  <2>3. /\ Len(up) \in Nat /\ Len(level) \in Nat /\ Len(next) = Len(up) + Len(level)
        /\ \A p \in 1 .. Len(up) : next[p] = up[p]
        /\ \A p \in 1 .. Len(level) : next[Len(up) + p] = level[p]
    <3> HIDE DEF up, level, next
    <3>1. Len(up) \in Nat /\ Len(level) \in Nat
      BY <2>2, LenProperties
    <3>2. Len(next) = Len(up) + Len(level)
          /\ \A p \in 1 .. Len(up) + Len(level) : next[p] = IF p <= Len(up) THEN up[p] ELSE level[p - Len(up)]
      BY <2>2, ConcatProperties
    <3>3. ASSUME NEW p \in 1 .. Len(level) PROVE next[Len(up) + p] = level[p]
      <4>1. Len(up) + p \in 1 .. Len(up) + Len(level) /\ Len(up) + p - Len(up) = p
              /\ ~(Len(up) + p <= Len(up))
        BY <3>1
      <4> QED BY <3>2, <4>1
    <3> QED BY <3>1, <3>2, <3>3
  <2>4. ASSUME NEW p \in 1 .. base PROVE Linked(splitAt, next, nodes', p)
    <3>1. Linked(splitAt, up, nodes, p) /\ p \in 1 .. Len(up)
      <4>1. base \in Nat /\ Len(tasks) \in Nat /\ Len(up) = base + Len(tasks)
        BY NextUp, AtNextIs, LenProperties
      <4>2. p \in 1 .. Len(up)
        BY <2>4, <4>1
      <4> QED BY <2>4, <4>2 DEF AtNext, UpperLinked
    <3>2. nodes'[p] = nodes[p]
      BY <2>4 DEF NextNodes
    <3>3. Len(up) \in Nat /\ Len(next) \in Nat /\ Len(up) <= Len(next)
            /\ \A j \in 1 .. Len(up) : next[j] = up[j]
      <4> HIDE DEF up, next, level
      <4> QED BY <2>3
    <3> HIDE DEF up, next
    <3> QED BY <3>1, <3>2, <3>3, LinkedLonger
  <2>5. ASSUME NEW i \in 1 .. Len(tasks), NEW p, p = base + i PROVE Linked(splitAt, next, nodes', p)
    <3>1. up[p] = Of(i) /\ tasks[i].node = p /\ p \in 1 .. Len(up)
      <4>1. base \in Nat /\ Len(tasks) \in Nat /\ Len(up) = base + Len(tasks)
        BY NextUp, AtNextIs, LenProperties
      <4>2. p \in 1 .. Len(up)
        BY <2>5, <4>1
      <4> QED BY <2>5, <4>2, NextUp
    <3>2. next[p] = Of(i)
      BY <2>3, <3>1
    <3>3. nodes'[p] = IF i \in Inners THEN Build!Inner(LeftOf(i)) ELSE nodes[p]
      BY <3>1 DEF NextNodes
    <3>4. i \in Inners <=> Of(i) \in DOMAIN splitAt
      BY AtNextIs
    <3>5. CASE i \notin Inners
      <4>1. nodes[tasks[i].node] = Build!Leaf(tasks[i])
        <5>1. i \in DOMAIN splits /\ i \in DOMAIN tasks
          BY AtNextIs
        <5> QED BY <3>5, <5>1 DEF AtNext, SplitInv, Inners
      <4>2. Build!Leaf(tasks[i]) = Build!Leaf(Of(i))
        BY DEF Build!Leaf, Of, Build!RangeOf
      <4> QED BY <3>1, <3>2, <3>3, <3>4, <3>5, <4>1, <4>2, Zenon DEF Linked
    <3>6. CASE i \in Inners
      <4> DEFINE l == LeftOf(i)
                 c == Filled(Forks, i - 1)
                 r == Of(i)
      <4>1. /\ ForkIs(i, c) /\ 2 * c + 2 <= Len(tasks')
            /\ level[2 * c + 1] = First(splitAt, r) /\ level[2 * c + 2] = Second(splitAt, r)
        BY <3>6 DEF NextTasks
      <4>2. c \in Nat /\ l = Len(up) + 2 * c + 1
        BY <4>1, NextUp DEF ForkIs
      <4>3. Build!Children(splitAt, r) = <<First(splitAt, r), Second(splitAt, r)>>
        BY <3>4, <3>6 DEF Build!Children, First, Second
      <4>4. nodes'[p] = Build!Inner(l)
        BY <3>3, <3>6
      <4> HIDE DEF l, c, r, up, level, next
      <4>5. /\ 2 * c + 1 \in 1 .. Len(level) /\ 2 * c + 2 \in 1 .. Len(level)
            /\ Len(up) + (2 * c + 1) = l /\ Len(up) + (2 * c + 2) = l + 1
            /\ l \in 1 .. Len(next) - 1
        BY <1>2, <2>3, <4>1, <4>2
      <4>6. next[l] = level[2 * c + 1] /\ next[l + 1] = level[2 * c + 2]
        BY <2>3, <4>5
      <4>7. Build!Children(splitAt, next[p]) = <<next[l], next[l + 1]>>
        BY <3>2, <4>1, <4>3, <4>6 DEF r
      <4>8. next[p] \in DOMAIN splitAt
        BY <3>2, <3>4, <3>6
      <4> QED BY <4>4, <4>5, <4>7, <4>8 DEF Linked
    <3> QED BY <3>5, <3>6
  <2>6. \A p \in 1 .. Len(up) : Linked(splitAt, next, nodes', p)
    <3> HIDE DEF next
    <3> QED BY <2>4, <2>5, NextUp
  <2>7. depth' = depth + 1 /\ depth' + 1 = depth + 2
    BY <1>1, NextUp
  <2> QED BY <1>1, <2>1, <2>6, <2>7 DEF UpperLinked
<1>6. \A l \in Nat : Fits(Build!Inner(l))
  BY InnerIs
<1>7. \A i \in Inners : LeftOf(i) \in Nat /\ LeftOf(i) < Len(nodes')
  <2> SUFFICES ASSUME NEW i \in Inners PROVE LeftOf(i) \in Nat /\ LeftOf(i) < Len(nodes')
    OBVIOUS
  <2> DEFINE c == Filled(Forks, i - 1)
  <2>1. ForkIs(i, c) /\ 2 * c + 2 <= Len(tasks')
    BY DEF NextTasks
  <2>2. c \in Nat /\ LeftOf(i) = Len(nodes) + 2 * c + 1
    BY <2>1 DEF ForkIs
  <2>3. Len(nodes) \in Nat /\ Len(nodes') = Len(nodes) + Len(tasks')
    BY AtNextIs DEF NextNodes
  <2> HIDE DEF c
  <2> QED BY <1>2, <2>1, <2>2, <2>3
<1>8. LeafInv'
  <2>1. \A n \in 1 .. Len(tasks') : Nested(tasks'[n])
    BY <1>2
  <2>2. \A w \in Worker : \A k \in 1 .. Len(stack[w]) : Nested(stack[w][k])
    BY DEF AtNext, LeafInv
  <2>3. ASSUME MaxDepth >= Refs, ~aborted, NEW p \in 1 .. Len(nodes') PROVE Fits(nodes'[p])
    <3>1. \A n \in 1 .. Len(nodes) : Fits(nodes[n])
      BY <2>3 DEF AtNext, LeafInv
    <3> QED BY <1>7, <3>1, InnerIs DEF NextNodes
  <2>4. phase' = "level" /\ aborted' = aborted /\ stack' = stack
    BY <1>1 DEF AtNext
  <2> QED BY <2>1, <2>2, <2>3, <2>4 DEF LeafInv
<1>9. TypeInv'
  <2>1. /\ phase = "level" /\ nextTask = 1 /\ folded = 0 /\ subtrees = <<>>
        /\ (\A w \in Worker : working[w] = 0 /\ stack[w] = <<>>)
        /\ working \in [Worker -> 0 .. Len(tasks)] /\ stack \in [Worker -> Seq(Task)]
    BY DEF AtNext, TypeInv
  <2>2. working \in [Worker -> 0 .. Len(tasks')]
    BY <1>2, <2>1
  <2>3. Array(nodes')
    <3>1. nodes' \in Seq(Node) /\ Len(nodes') \in Nat
      BY LenProperties DEF NextNodes
    <3>2. ASSUME NEW p \in 1 .. Len(nodes') PROVE nodes'[p].left < Len(nodes')
      <4>1. CASE nodes'[p] = Build!Placeholder
        BY <3>1, <4>1, InnerIs
      <4>2. CASE \E i \in Inners : nodes'[p] = Build!Inner(LeftOf(i))
        BY <1>7, <4>2, InnerIs
      <4>3. CASE p \in 1 .. Len(nodes) /\ nodes'[p] = nodes[p]
        <5>1. nodes[p].left < Len(nodes) /\ nodes[p] \in Node
          BY <4>3, ElementOfSeq DEF AtNext, TypeInv, Array
        <5>2. nodes[p].left \in Nat
          BY <5>1 DEF Node
        <5>3. Len(nodes) \in Nat /\ Len(nodes) <= Len(nodes')
          BY <1>2, <3>1, AtNextIs DEF NextNodes
        <5> QED BY <3>1, <4>3, <5>1, <5>2, <5>3
      <4> QED BY <4>1, <4>2, <4>3 DEF NextNodes
    <3> QED BY <3>1, <3>2 DEF Array
  <2>4. depth' \in 0 .. TaskDepth
    BY <1>1, AtNextIs
  <2> QED BY <1>1, <1>2, <2>1, <2>2, <2>3, <2>4 DEF TypeInv
<1> QED BY <1>3, <1>4, <1>5, <1>8, <1>9

\* ... and allocating the next level keeps the invariant.
LEMMA NextBuild == ASSUME Build!BuildAssumption, BuildInv, Build!NextLevel PROVE BuildInv'
<1>1. AtNext
  <2>1. phase = "level" /\ depth < TaskDepth /\ DOMAIN splits = DOMAIN tasks
    BY DEF Build!NextLevel
  <2>2. depth \in Nat
    BY Params DEF BuildInv, TypeInv
  <2> QED BY <2>1, <2>2 DEF BuildInv, LevelInv, AtNext
<1>2. NextTasks
  BY <1>1, NextTasksAre
<1>3. NextNodes
  BY <1>1, <1>2, NextNodesAre
<1>4. TasksAt(depth)' /\ SplitInv' /\ UpperLinked' /\ LeafInv' /\ TypeInv'
  BY <1>1, <1>2, <1>3, NextTree
<1>5. phase' = "level" /\ splitAt' = splitAt
  BY DEF Build!NextLevel
<1>7. SubtreeInv' /\ FoldInv'
  BY <1>5 DEF SubtreeInv, FoldInv, Later
<1>8. LevelInv'
  BY <1>4 DEF LevelInv
<1>9. Proper(splitAt)'
  BY <1>1, <1>5 DEF AtNext
<1> QED BY <1>4, <1>7, <1>8, <1>9 DEF BuildInv

-----------------------------------------------------------------------------
(* The levels end *)

\* Below a level without ranges there are none.
LEMMA NextEmpty ==
    ASSUME Build!BuildAssumption, NEW at, Proper(at), NEW d \in 0 .. TaskDepth, Build!Levels(at)[d]
             = <<>>
    PROVE  /\ \A e \in d .. TaskDepth : Build!Levels(at)[e] = <<>>
           /\ \A e \in d .. TaskDepth + 1 : Up(at, e) = Up(at, d)
<1> DEFINE S == {k \in Nat : d + k <= TaskDepth => Build!Levels(at)[d + k] = <<>>}
           T == {k \in Nat : d + k <= TaskDepth + 1 => Up(at, d + k) = Up(at, d)}
<1>1. TaskDepth \in Nat /\ d \in Nat
  BY Params
<1>2. 0 \in S /\ 0 \in T
  BY <1>1
<1>3. ASSUME NEW k \in Nat, k \in S PROVE k + 1 \in S
  <2>1. SUFFICES ASSUME d + (k + 1) <= TaskDepth PROVE Build!Levels(at)[d + (k + 1)] = <<>>
    OBVIOUS
  <2>2. d + (k + 1) \in 1 .. TaskDepth /\ d + (k + 1) - 1 = d + k /\ d + k <= TaskDepth
    BY <1>1, <2>1
  <2>3. Build!Levels(at)[d + k] = <<>>
    BY <1>3, <2>2
  <2>4. Build!Levels(at)[d + (k + 1)] = NextOf(at, Build!Levels(at)[d + (k + 1) - 1])
    BY <2>2, LevelsAre
  <2>5. NextOf(at, <<>>) = <<>>
    <3>1. [k1 \in DOMAIN <<>> |-> Build!Children(at, (<<>>)[k1])] = [i \in 1 .. 0 |-> <<>>]
      BY DEF Build!Children
    <3>2. Build!FlattenSeq([i \in 1 .. 0 |-> <<>>]) = <<>>
      <4> DEFINE F == [i \in 1 .. 0 |-> <<>>]
      <4>1. Build!FlattenSeq([i \in 1 .. 0 |-> F[i]]) = <<>>
        <5> HIDE DEF F
        <5> QED BY FlatFirst, SameFlat
      <4>2. [i \in 1 .. 0 |-> F[i]] = F
        BY Zenon
      <4> QED BY <4>1, <4>2
    <3> QED BY <3>1, <3>2, Zenon DEF NextOf
  <2> QED BY <2>2, <2>3, <2>4, <2>5
<1>4. \A k \in Nat : k \in S
  <2> HIDE DEF S
  <2> QED BY <1>2, <1>3, NatsFrom
<1>5. ASSUME NEW k \in Nat, k \in T PROVE k + 1 \in T
  <2>1. SUFFICES ASSUME d + (k + 1) <= TaskDepth + 1 PROVE Up(at, d + (k + 1)) = Up(at, d)
    OBVIOUS
  <2>2. d + k \in 0 .. TaskDepth /\ d + k + 1 = d + (k + 1) /\ d + k <= TaskDepth + 1
        /\ d + k <= TaskDepth /\ d + k \in 0 .. TaskDepth + 1
    BY <1>1, <2>1
  <2>3. Up(at, d + k) = Up(at, d) /\ Build!Levels(at)[d + k] = <<>>
    BY <1>4, <1>5, <2>2
  <2>4. Up(at, d + k + 1) = Up(at, d + k) \o Build!Levels(at)[d + k] /\ Up(at, d + k) \in Seq(Span)
    BY <2>2, UpIs
  <2>5. Up(at, d + k) \o <<>> = Up(at, d + k)
    BY <2>4, ConcatEmptySeq
  <2> QED BY <2>2, <2>3, <2>4, <2>5
<1>6. \A k \in Nat : k \in T
  <2> HIDE DEF T
  <2> QED BY <1>2, <1>5, NatsFrom
<1>7. ASSUME NEW e \in d .. TaskDepth PROVE Build!Levels(at)[e] = <<>>
  <2>1. e - d \in Nat /\ d + (e - d) = e /\ e <= TaskDepth
    BY <1>1
  <2>2. e - d \in S
    BY <1>4, <2>1
  <2> QED BY <2>1, <2>2
<1>8. ASSUME NEW e \in d .. TaskDepth + 1 PROVE Up(at, e) = Up(at, d)
  <2>1. e - d \in Nat /\ d + (e - d) = e /\ e <= TaskDepth + 1
    BY <1>1
  <2>2. e - d \in T
    BY <1>6, <2>1
  <2> QED BY <2>1, <2>2
<1> QED BY <1>7, <1>8

\* A level follows those above it.
Joins(a, q, b) ==
    /\ a \in Seq(Span) /\ q \in Seq(Span) /\ b \in Seq(Span)
    /\ Len(a) \in Nat /\ Len(q) \in Nat /\ Len(b) = Len(a) + Len(q)
    /\ \A p \in 1 .. Len(a) : b[p] = a[p]
    /\ \A p \in 1 .. Len(q) : b[Len(a) + p] = q[p]
    /\ \A p \in 1 .. Len(b) : p \in 1 .. Len(a) \/ \E i \in 1 .. Len(q) : p = Len(a) + i

\* A sequence with another at its end has both.
LEMMA JoinsIs == ASSUME NEW a \in Seq(Span), NEW q \in Seq(Span) PROVE Joins(a, q, a \o q)
<1> DEFINE b == a \o q
<1>1. a \in Seq(Span) /\ q \in Seq(Span) /\ b \in Seq(Span) /\ b = a \o q
  BY ConcatProperties
<1> HIDE DEF b
<1>2. Len(a) \in Nat /\ Len(q) \in Nat
  BY <1>1, LenProperties
<1>3. Len(b) = Len(a) + Len(q) /\ \A p \in 1 .. Len(a) + Len(q) : b[p]
        = IF p <= Len(a) THEN a[p] ELSE q[p - Len(a)]
  BY <1>1, ConcatProperties
<1>4. ASSUME NEW p \in 1 .. Len(q) PROVE b[Len(a) + p] = q[p]
  <2>1. Len(a) + p \in 1 .. Len(a) + Len(q) /\ Len(a) + p - Len(a) = p /\ ~(Len(a) + p <= Len(a))
    BY <1>2
  <2> QED BY <1>3, <2>1
<1>5. ASSUME NEW p \in 1 .. Len(b)
      PROVE  p \in 1 .. Len(a) \/ \E i \in 1 .. Len(q) : p = Len(a) + i
  <2>1. CASE p <= Len(a)
    BY <1>2, <2>1
  <2>2. CASE p > Len(a)
    <3>1. p - Len(a) \in 1 .. Len(q) /\ p = Len(a) + (p - Len(a))
      BY <1>2, <1>3, <2>2
    <3> QED BY <3>1
  <2> QED BY <1>2, <2>1, <2>2
<1>6. \A p \in 1 .. Len(a) : b[p] = a[p]
  BY <1>2, <1>3
<1>7. Joins(a, q, b)
  BY <1>1, <1>2, <1>3, <1>4, <1>5, <1>6 DEF Joins
<1> QED BY <1>7 DEF b

\* A level is at the end of the levels down to it.
LEMMA UpTail ==
    ASSUME Build!BuildAssumption, NEW at, NEW d, Proper(at), d \in 0 .. TaskDepth
    PROVE  Joins(Up(at, d), Build!Levels(at)[d], Up(at, d + 1))
<1>1. d \in 0 .. TaskDepth + 1 /\ d + 1 \in 0 .. TaskDepth + 1
  BY Params
<1>2. Up(at, d) \in Seq(Span) /\ Build!Levels(at)[d] \in Seq(Span) /\ Up(at, d + 1) = Up(at, d)
        \o Build!Levels(at)[d]
  BY <1>1, UpIs, LevelIs
<1> QED BY <1>2, JoinsIs

\* The end of the levels keeps the invariant: the last is empty or the deepest.
LEMMA EndBuild == ASSUME Build!BuildAssumption, BuildInv, Build!LevelsEnd PROVE BuildInv'
<1>1. /\ phase = "level" /\ phase' = "subtrees" /\ subtrees' = [t \in DOMAIN tasks |-> <<>>]
      /\ depth = TaskDepth \/ tasks = <<>>
      /\ UNCHANGED <<nodes, tasks, depth, splits, nextTask, working, stack, folded, token, aborted, splitAt>>
  BY DEF Build!LevelsEnd, Build!buildVars
<1>2. /\ TypeInv /\ Proper(splitAt) /\ TasksAt(depth) /\ SplitInv /\ UpperLinked /\ LeafInv
      /\ nextTask = 1 /\ folded = 0 /\ \A w \in Worker : working[w] = 0 /\ stack[w] = <<>>
      /\ tasks \in Seq(Task) /\ depth \in 0 .. TaskDepth
  BY <1>1 DEF BuildInv, LevelInv, TypeInv
<1>3. Len(tasks) \in Nat /\ DOMAIN tasks = 1 .. Len(tasks) /\ TaskDepth \in Nat
  BY <1>2, LenProperties, Params
<1>4. DOMAIN subtrees' = 1 .. Len(tasks) /\ \A t \in 1 .. Len(tasks) : subtrees'[t] = <<>>
  BY <1>1, <1>3
<1>5. Array(<<>>) /\ Len(<<>>) = 0
  BY DEF Array
<1>6. TypeInv'
  BY <1>1, <1>2, <1>4, <1>5 DEF TypeInv
<1>7. /\ TasksAt(TaskDepth) /\ Len(nodes) = Len(Up(splitAt, TaskDepth + 1))
      /\ \A i \in 1 .. Len(nodes) :
           Linked(splitAt, Up(splitAt, TaskDepth + 1), nodes, i) \/ \E t \in 1 .. Len(tasks) : i
             = tasks[t].node
      /\ \A t \in 1 .. Len(tasks), s \in DOMAIN splitAt : Apart(splitAt, s, Of(t))
  <2> DEFINE a == Up(splitAt, depth)
             q == Build!Levels(splitAt)[depth]
             b == Up(splitAt, depth + 1)
  <2>1. /\ Len(a) \in Nat /\ Len(q) \in Nat /\ Len(b) = Len(a) + Len(q)
        /\ \A p \in 1 .. Len(b) : p \in 1 .. Len(a) \/ \E i \in 1 .. Len(q) : p = Len(a) + i
        /\ q \in Seq(Span)
    <3>1. Joins(a, q, b)
      BY <1>2, UpTail
    <3> HIDE DEF a, q, b
    <3> QED BY <3>1 DEF Joins
  <2>2. Len(q) = Len(tasks) /\ \A t \in 1 .. Len(tasks) : tasks[t].node = Len(a) + t
    BY <1>2 DEF TasksAt
  <2>3. Len(nodes) = Len(b) /\ \A i \in 1 .. Len(a) : Linked(splitAt, b, nodes, i)
    BY <1>2, <2>1, <2>2 DEF UpperLinked
  <2>4. CASE depth = TaskDepth
    <3>1. DOMAIN splits = {}
      BY <1>2, <2>4 DEF SplitInv
    <3>2. \A t \in 1 .. Len(tasks), s \in DOMAIN splitAt : Apart(splitAt, s, Of(t))
      BY <1>2, <3>1 DEF SplitInv
    <3>3. TasksAt(TaskDepth)
      BY <1>2, <2>4
    <3>4. b = Up(splitAt, TaskDepth + 1)
      BY <2>4
    <3> HIDE DEF a, b, q
    <3>5. \A i \in 1 .. Len(nodes) : Linked(splitAt, b, nodes, i) \/ \E t \in 1 .. Len(tasks) : i
                                       = tasks[t].node
      <4> SUFFICES ASSUME NEW i \in 1 .. Len(nodes)
                   PROVE  Linked(splitAt, b, nodes, i) \/ \E t \in 1 .. Len(tasks) : i
                            = tasks[t].node
        OBVIOUS
      <4>1. i \in 1 .. Len(b)
        BY <2>3
      <4>2. CASE i \in 1 .. Len(a)
        BY <2>3, <4>2
      <4>3. CASE \E t \in 1 .. Len(q) : i = Len(a) + t
        BY <2>2, <4>3
      <4> QED BY <2>1, <4>1, <4>2, <4>3
    <3> QED BY <2>3, <3>2, <3>3, <3>4, <3>5
  <2>5. CASE tasks = <<>>
    <3>1. q = <<>> /\ Len(tasks) = 0
      BY <2>1, <2>2, <2>5, EmptySeq
    <3>2. /\ Build!Levels(splitAt)[TaskDepth] = <<>>
          /\ Up(splitAt, TaskDepth + 1) = a /\ b = a
      <4>1. /\ TaskDepth \in depth .. TaskDepth /\ TaskDepth + 1 \in depth .. TaskDepth + 1
            /\ depth + 1 \in depth .. TaskDepth + 1
        BY <1>2, <1>3
      <4> QED BY <1>2, <3>1, <4>1, NextEmpty
    <3>3. TasksAt(TaskDepth)
      BY <3>1, <3>2 DEF TasksAt
    <3> HIDE DEF a, b, q
    <3> QED BY <2>1, <2>3, <3>1, <3>2, <3>3
  <2> QED BY <1>1, <2>4, <2>5
<1>8. \A t : Of(t)' = Of(t)
  BY <1>1 DEF Of
<1>9. TasksAt(TaskDepth)'
  BY <1>1, <1>7, <1>8, Zenon DEF TasksAt
<1>10. WorkerInv' /\ StackInv' /\ TreesInv'
  <2>1. Len(<<>>) = 0
    OBVIOUS
  <2>2. \A w \in Worker : working'[w] = 0 /\ stack'[w] = <<>> /\ nextTask' = 1
    BY <1>1, <1>2
  <2>3. WorkerInv'
    BY <2>2 DEF WorkerInv
  <2>4. StackInv'
    BY <2>1, <2>2 DEF StackInv, OnStack
  <2>5. TreesInv'
    BY <1>1, <1>2 DEF TreesInv
  <2> QED BY <2>3, <2>4, <2>5
<1>11. FreshInv'
  BY <1>1, <1>2, <1>7, <1>8 DEF FreshInv
<1>12. Sofar(0) = Up(splitAt, TaskDepth + 1)
  <2> DEFINE F == [k \in {} |-> <<>>]
             f(k) == Build!Under(splitAt, Of(k))
  <2>1. Build!FlattenSeq([k \in 1 .. 0 |-> f(k)]) = <<>>
    <3>1. [k \in 1 .. 0 |-> f(k)] = [k \in 1 .. 0 |-> F[k]]
      BY DEF F
    <3>2. Build!FlattenSeq([k \in 1 .. 0 |-> F[k]]) = <<>>
      <4> HIDE DEF F
      <4> QED BY FlatFirst, SameFlat
    <3> QED BY <3>1, <3>2
  <2>2. Up(splitAt, TaskDepth + 1) \in Seq(Span)
    BY <1>2, <1>3, UpIs
  <2> QED BY <2>1, <2>2, ConcatEmptySeq DEF Sofar
<1>13. FoldInv'
  <2>1. \A f : Sofar(f)' = Sofar(f)
    BY <1>1, <1>8, Zenon DEF Sofar
  <2>2. NodesInv'
    BY <1>1, <1>2, <1>7, <1>12, <2>1 DEF NodesInv
  <2> QED BY <1>1, <1>2, <2>2 DEF FoldInv
<1>14. LeafInv'
  BY <1>1, <1>2, <1>4, <1>5 DEF LeafInv
<1>15. SubtreeInv' /\ LevelInv'
  BY <1>1, <1>9, <1>10, <1>11 DEF SubtreeInv, LevelInv
<1> QED BY <1>1, <1>2, <1>6, <1>13, <1>14, <1>15 DEF BuildInv

-----------------------------------------------------------------------------
(* The subtrees *)

\* What the invariant says once the levels are done.
LEMMA LaterIs ==
    ASSUME Build!BuildAssumption, BuildInv, Later
    PROVE  /\ Proper(splitAt) /\ TasksAt(TaskDepth) /\ TaskDepth \in 0 .. TaskDepth
           /\ TaskDepth \in Nat
           /\ tasks \in Seq(Task) /\ Len(tasks) \in Nat /\ DOMAIN tasks = 1 .. Len(tasks)
           /\ DOMAIN subtrees = 1 .. Len(tasks) /\ nextTask \in 1 .. Len(tasks) + 1
           /\ nextTask \in Nat
           /\ WorkerInv /\ StackInv /\ TreesInv /\ FreshInv /\ NodesInv /\ LeafInv /\ TypeInv
           /\ \A t \in 1 .. Len(tasks) :
                /\ Of(t) \in Span /\ tasks[t] \in Task /\ Array(subtrees[t])
                /\ Of(t).from = tasks[t].from /\ Of(t).to = tasks[t].to
                /\ Tree(t) \in Seq(Span) /\ Tree(t)[1] = Of(t) /\ Len(Tree(t)) \in Nat \ {0}
                /\ Len(Tree(t)) = Len(Build!Under(splitAt, Of(t))) + 1
                /\ Build!Under(splitAt, Of(t)) \in Seq(Span)
                /\ Len(Build!Under(splitAt, Of(t))) \in Nat
                /\ \A i \in 1 .. Len(Build!Under(splitAt, Of(t))) : Tree(t)[i + 1]
                                                                      = Build!Under(splitAt, Of(t))[i]
                /\ Of(t) \notin Elements(Up(splitAt, TaskDepth))
                /\ \A i \in 1 .. Len(Tree(t)) :
                    /\ Tree(t)[i] \in Span /\ Inside(Tree(t)[i], Of(t))
                    /\ Tree(t)[i] \in Nodes(splitAt, Of(t))
                /\ \A u \in 1 .. Len(tasks) : t # u => Disjoint(Of(t), Of(u))
<1>1. /\ Proper(splitAt) /\ TasksAt(TaskDepth)
      /\ WorkerInv /\ StackInv /\ TreesInv /\ FreshInv /\ NodesInv /\ LeafInv /\ TypeInv
  BY DEF BuildInv, SubtreeInv, FoldInv
<1>2. /\ tasks \in Seq(Task) /\ Len(tasks) \in Nat /\ DOMAIN tasks = 1 .. Len(tasks)
      /\ TaskDepth \in 0 .. TaskDepth /\ TaskDepth \in Nat
  BY <1>1, LenProperties, Params DEF TypeInv
<1>3. /\ DOMAIN subtrees = 1 .. Len(tasks) /\ nextTask \in 1 .. Len(tasks) + 1 /\ nextTask \in Nat
      /\ \A t \in 1 .. Len(tasks) : Array(subtrees[t])
  BY <1>1, <1>2 DEF TypeInv, Later
<1>4. ASSUME NEW t \in 1 .. Len(tasks)
      PROVE  /\ Of(t) \in Span /\ tasks[t] \in Task
             /\ Of(t).from = tasks[t].from /\ Of(t).to = tasks[t].to
             /\ Of(t) \notin Elements(Up(splitAt, TaskDepth))
  BY <1>1, <1>2, TaskIs
<1>5. ASSUME NEW t \in 1 .. Len(tasks)
      PROVE  /\ Tree(t) \in Seq(Span) /\ Tree(t)[1] = Of(t) /\ Len(Tree(t)) \in Nat \ {0}
             /\ Len(Tree(t)) = Len(Build!Under(splitAt, Of(t))) + 1
             /\ Build!Under(splitAt, Of(t)) \in Seq(Span)
             /\ Len(Build!Under(splitAt, Of(t))) \in Nat
             /\ \A i \in 1 .. Len(Build!Under(splitAt, Of(t))) : Tree(t)[i + 1]
                                                                   = Build!Under(splitAt, Of(t))[i]
             /\ \A i \in 1 .. Len(Tree(t)) :
                  /\ Tree(t)[i] \in Span /\ Inside(Tree(t)[i], Of(t))
                  /\ Tree(t)[i] \in Nodes(splitAt, Of(t))
  <2> DEFINE R == Of(t)
             u == Build!Under(splitAt, R)
             x == <<R>>
  <2>1. R \in Span /\ u \in Seq(Span)
    BY <1>1, <1>4, UnderIs
  <2>2. Tree(t) = x \o u
    BY DEF Tree, TreeOf
  <2>3. x \in Seq(Span) /\ Len(x) = 1 /\ x[1] = R
    BY <2>1
  <2>4. Nodes(splitAt, R) = {R} \cup Elements(u)
    BY DEF Nodes
  <2>5. \A y \in Nodes(splitAt, R) : y \in Span /\ Inside(y, R)
    BY <1>1, <2>1, NodesInside
  <2> HIDE DEF R, u, x
  <2>6. Len(u) \in Nat
    BY <2>1, LenProperties
  <2>7. Tree(t) \in Seq(Span) /\ Joins(x, u, Tree(t))
    <3>1. Joins(x, u, x \o u)
      BY <2>1, <2>3, JoinsIs
    <3>2. Joins(x, u, Tree(t))
      BY <2>2, <3>1
    <3> QED BY <3>2 DEF Joins
  <2>8. /\ Len(Tree(t)) = Len(u) + 1 /\ Tree(t)[1] = R
        /\ \A i \in 1 .. Len(u) : Tree(t)[i + 1] = u[i]
    <3>1. Len(Tree(t)) = 1 + Len(u) /\ (\A p \in 1 .. 1 : Tree(t)[p] = x[p])
          /\ \A p \in 1 .. Len(u) : Tree(t)[1 + p] = u[p]
      BY <2>3, <2>7 DEF Joins
    <3>2. \A i \in 1 .. Len(u) : 1 + i = i + 1
      BY <2>6
    <3> QED BY <2>3, <2>6, <3>1, <3>2
  <2>9. ASSUME NEW i \in 1 .. Len(Tree(t)) PROVE Tree(t)[i] \in Nodes(splitAt, R)
    <3>1. CASE i = 1
      BY <2>4, <2>8, <3>1
    <3>2. CASE i # 1
      <4>1. i - 1 \in 1 .. Len(u) /\ i - 1 + 1 = i
        BY <2>6, <2>8, <3>2
      <4>2. Tree(t)[i] = u[i - 1]
        BY <2>8, <4>1
      <4> QED BY <2>4, <4>1, <4>2 DEF Elements
    <3> QED BY <3>1, <3>2
  <2>10. \A i \in 1 .. Len(Tree(t)) : Tree(t)[i] \in Nodes(splitAt, R) /\ Tree(t)[i] \in Span
                                        /\ Inside(Tree(t)[i], R)
    BY <2>5, <2>9
  <2>11. Len(Tree(t)) \in Nat \ {0}
    BY <2>6, <2>8
  <2> QED BY <2>1, <2>6, <2>7, <2>8, <2>10, <2>11 DEF R, u
<1>6. \A t \in 1 .. Len(tasks) : \A u \in 1 .. Len(tasks) : t # u => Disjoint(Of(t), Of(u))
  BY <1>1 DEF TasksAt
<1> QED BY <1>1, <1>2, <1>3, <1>4, <1>5, <1>6

\* A node is linked by what is in its place alone.
LEMMA LinkedPlace ==
    ASSUME NEW at, NEW R, NEW N, NEW M, NEW i, N[i] = M[i], Linked(at, R, N, i)
    PROVE  Linked(at, R, M, i)
BY Zenon DEF Linked

\* A task as the root of its private array.
LEMMA RootIs ==
    ASSUME NEW y \in Task
    PROVE  /\ [y EXCEPT !.node = 1] \in Task /\ [y EXCEPT !.node = 1].node = 1
           /\ Build!RangeOf([y EXCEPT !.node = 1]) = Build!RangeOf(y)
           /\ Nested(y) => Nested([y EXCEPT !.node = 1])
<1>1. /\ [y EXCEPT !.node = 1] \in Task /\ [y EXCEPT !.node = 1].node = 1
      /\ [y EXCEPT !.node = 1].from = y.from /\ [y EXCEPT !.node = 1].to = y.to
      /\ [y EXCEPT !.node = 1].depth = y.depth
  BY DEF Task
<1> QED BY <1>1, Zenon DEF Build!RangeOf, Nested

\* Taking a task keeps the invariant: its subtree is its range, and that is on the stack.
LEMMA TakeBuild == ASSUME Build!BuildAssumption, BuildInv, NEW w \in Worker, Build!TakeTask(w)
  PROVE BuildInv'
<1>0. PICK t : t = nextTask
  OBVIOUS
<1>00. PICK x : x = [tasks[t] EXCEPT !.node = 1]
  OBVIOUS
<1>1. /\ phase = "subtrees" /\ working[w] = 0 /\ t <= Len(tasks)
      /\ working' = [working EXCEPT ![w] = t] /\ nextTask' = t + 1
      /\ subtrees' = [subtrees EXCEPT ![t] = <<Build!Placeholder>>]
      /\ stack' = [stack EXCEPT ![w] = <<x>>]
      /\ UNCHANGED <<phase, nodes, tasks, depth, splits, folded, token, aborted, splitAt>>
  BY <1>0, <1>00 DEF Build!TakeTask, Build!buildVars
<1>2. Later
  BY <1>1 DEF Later
<1>3. /\ Proper(splitAt) /\ TasksAt(TaskDepth) /\ tasks \in Seq(Task) /\ Len(tasks) \in Nat
      /\ DOMAIN subtrees = 1 .. Len(tasks) /\ t \in Nat /\ t \in 1 .. Len(tasks)
      /\ WorkerInv /\ StackInv /\ TreesInv /\ FreshInv /\ NodesInv /\ LeafInv /\ TypeInv
      /\ Of(t) \in Span /\ tasks[t] \in Task
      /\ Of(t).from = tasks[t].from /\ Of(t).to = tasks[t].to
      /\ Len(Tree(t)) = Len(Build!Under(splitAt, Of(t))) + 1 /\ Tree(t)[1] = Of(t)
  <2>1. t \in 1 .. Len(tasks)
    BY <1>0, <1>1, <1>2, LaterIs
  <2>2. /\ Of(t) \in Span /\ tasks[t] \in Task
      /\ Of(t).from = tasks[t].from /\ Of(t).to = tasks[t].to
      /\ Len(Tree(t)) = Len(Build!Under(splitAt, Of(t))) + 1 /\ Tree(t)[1] = Of(t)
    BY <1>2, <2>1, LaterIs
  <2> QED BY <1>0, <1>2, <2>1, <2>2, LaterIs
<1>4. (\A s \in DOMAIN splitAt : Apart(splitAt, s, Of(t)) /\ s \in Span /\ splitAt[s] \in s.from + 1 .. s.to - 1)
      /\ Of(t) \notin DOMAIN splitAt
  <2>1. \A s \in DOMAIN splitAt : Apart(splitAt, s, Of(t))
    BY <1>0, <1>3 DEF FreshInv
  <2>2. \A s \in DOMAIN splitAt : s \in Span /\ splitAt[s] \in s.from + 1 .. s.to - 1
    BY <1>3 DEF Proper
  <2> QED BY <1>3, <2>1, <2>2, Distinct
<1>5. Len(Tree(t)) = 1
  <2>1. Build!Under(splitAt, Of(t)) = <<>>
    BY <1>3, <1>4, UnderIs
  <2> QED BY <1>3, <2>1
<1>6. x \in Task /\ Build!RangeOf(x) = Of(t) /\ x.node = 1 /\ Nested(x)
  <2>1. tasks[t] \in Task /\ Nested(tasks[t])
    BY <1>3 DEF LeafInv
  <2> QED BY <1>00, <2>1, RootIs DEF Of
<1>7. /\ <<x>> \in Seq(Task) /\ Len(<<x>>) = 1 /\ <<x>>[1] = x
      /\ Array(<<Build!Placeholder>>) /\ Len(<<Build!Placeholder>>) = 1 /\ <<Build!Placeholder>>[1] = Build!Placeholder
  <2>1. <<Build!Placeholder>> \in Seq(Node) /\ Len(<<Build!Placeholder>>) = 1 /\ <<Build!Placeholder>>[1] = Build!Placeholder
    BY InnerIs
  <2> QED BY <1>6, <2>1, InnerIs DEF Array
<1>8. /\ working' \in [Worker -> 0 .. Len(tasks)] /\ working'[w] = t
      /\ stack' \in [Worker -> Seq(Task)] /\ stack'[w] = <<x>>
      /\ \A v \in Worker : v # w => working'[v] = working[v] /\ stack'[v] = stack[v]
      /\ DOMAIN subtrees' = 1 .. Len(tasks) /\ subtrees'[t] = <<Build!Placeholder>>
      /\ \A u \in 1 .. Len(tasks) : u # t => subtrees'[u] = subtrees[u]
  <2>1. working \in [Worker -> 0 .. Len(tasks)] /\ stack \in [Worker -> Seq(Task)]
    BY <1>3 DEF TypeInv
  <2>2. t \in 0 .. Len(tasks)
    BY <1>3
  <2> QED BY <1>1, <1>3, <1>7, <2>1, <2>2
<1>9. TypeInv'
  <2>1. \A u \in 1 .. Len(tasks) : Array(subtrees'[u])
    BY <1>1, <1>3, <1>7, <1>8 DEF TypeInv
  <2>2. nextTask' \in 1 .. Len(tasks) + 1
    BY <1>1, <1>3
  <2> QED BY <1>1, <1>3, <1>8, <2>1, <2>2 DEF TypeInv
<1>10. (\A u : Of(u)' = Of(u) /\ Tree(u)' = Tree(u)) /\ \A f : Sofar(f)' = Sofar(f)
  <2>1. \A u : Of(u)' = Of(u)
    BY <1>1 DEF Of
  <2> QED BY <1>1, <2>1, Zenon DEF Tree, Sofar
<1>11. TasksAt(TaskDepth)'
  BY <1>1, <1>3, <1>10, Zenon DEF TasksAt
<1>12. WorkerInv'
  <2>1. \A v \in Worker : working[v] \in Nat
    BY <1>3 DEF TypeInv
  <2>2. t # 0 /\ <<x>> # <<>>
    BY <1>3, <1>7
  <2> QED BY <1>0, <1>1, <1>3, <1>8, <2>1, <2>2 DEF WorkerInv
<1>13. StackInv'
  <2> SUFFICES ASSUME NEW v \in Worker
               PROVE  OnStack(splitAt', Of(working[v])', Tree(working[v])', stack'[v])
    BY DEF StackInv
  <2>0. /\ Of(working[v])' = Of(working'[v]) /\ Tree(working[v])' = Tree(working'[v])
        /\ splitAt' = splitAt
    <3>1. Of(working[v])' = Of(working'[v])
      BY <1>1 DEF Of
    <3> QED BY <1>1, <3>1, Zenon DEF Tree
  <2>1. CASE v = w
    <3>1. working'[v] = t /\ stack'[v] = <<x>>
      BY <1>8, <2>1
    <3>2. OnStack(splitAt, Of(t), Tree(t), <<x>>)
      <4> DEFINE R == Of(t)
                 T == Tree(t)
                 q == <<x>>
      <4>1. R \in Span /\ Inside(R, R)
        BY <1>3, SpanIs DEF Inside
      <4>2. ASSUME NEW s \in DOMAIN splitAt, Inside(s, R) PROVE s.from <= R.from
        BY <1>3, <1>4, <4>2, SpanIs, SMTT(40) DEF Inside, Apart, Disjoint
      <4>3. Len(T) = 1 /\ T[1] = R /\ \A s \in DOMAIN splitAt : Apart(splitAt, s, R)
        BY <1>3, <1>4, <1>5
      <4>4. Len(q) = 1 /\ q[1] = x /\ q[1].node = 1 /\ Build!RangeOf(q[1]) = R /\ q[1].from = R.from
        <5>1. Build!RangeOf(x).from = x.from
          BY DEF Build!RangeOf
        <5> QED BY <1>6, <1>7, <5>1
      <4> HIDE DEF R, T, q
      <4>5. \A k \in 1 .. Len(q) : k = 1
        BY <4>4
      <4>6. \A p \in 1 .. Len(T) : p = 1
        BY <4>3
      <4>7. OnStack(splitAt, R, T, q)
        BY <4>1, <4>2, <4>3, <4>4, <4>5, <4>6 DEF OnStack
      <4> QED BY <4>7 DEF R, T, q
    <3> QED BY <2>0, <3>1, <3>2
  <2>2. CASE v # w
    <3>1. working'[v] = working[v] /\ stack'[v] = stack[v]
      BY <1>8, <2>2
    <3>2. OnStack(splitAt, Of(working[v]), Tree(working[v]), stack[v])
      BY <1>3 DEF StackInv
    <3> QED BY <2>0, <3>1, <3>2
  <2> QED BY <2>1, <2>2
<1>14. TreesInv'
  <2>1. ASSUME NEW u \in 1 .. t
        PROVE  /\ Len(subtrees'[u]) = Len(Tree(u))
               /\ \A i \in 1 .. Len(Tree(u)) :
                    \/ Linked(splitAt, Tree(u), subtrees'[u], i)
                    \/ \E v \in Worker :
                        working'[v] = u /\ Pending(stack'[v], i)
    <3>1. CASE u = t
      <4>1. Pending(stack'[w], 1) /\ working'[w] = t
        <5>1. 1 \in 1 .. Len(stack'[w]) /\ stack'[w][1].node = 1
          BY <1>6, <1>7, <1>8
        <5> QED BY <1>8, <5>1 DEF Pending
      <4>3. Tree(u) = Tree(t)
        BY <3>1
      <4>4. Len(Tree(u)) = 1
        BY <1>5, <4>3
      <4>2. \A i \in 1 .. Len(Tree(u)) : i = 1
        BY <4>4
      <4>5. Len(subtrees'[u]) = 1
        BY <1>7, <1>8, <3>1
      <4> QED BY <3>1, <4>1, <4>2, <4>4, <4>5
    <3>2. CASE u # t
      <4>1. u \in 1 .. nextTask - 1 /\ u \in 1 .. Len(tasks) /\ u # 0
        BY <1>0, <1>3, <3>2
      <4>2. subtrees'[u] = subtrees[u]
        BY <1>8, <3>2, <4>1
      <4>3. /\ Len(subtrees[u]) = Len(Tree(u))
            /\ \A i \in 1 .. Len(Tree(u)) :
                    \/ Linked(splitAt, Tree(u), subtrees[u], i)
                    \/ \E v \in Worker :
                        working[v] = u /\ Pending(stack[v], i)
        BY <1>3, <4>1 DEF TreesInv
      <4>4. \A v \in Worker : working[v] = u => v # w /\ working'[v] = u /\ stack'[v] = stack[v]
        BY <1>1, <1>8, <4>1
      <4> QED BY <4>2, <4>3, <4>4
    <3> QED BY <3>1, <3>2
  <2>2. nextTask' - 1 = t
    BY <1>1, <1>3
  <2>3. \A u \in 1 .. nextTask' - 1 :
          /\ Len(subtrees'[u]) = Len(Tree(u)')
          /\ \A i \in 1 .. Len(Tree(u)') :
               \/ Linked(splitAt', Tree(u)', subtrees'[u], i)
               \/ \E v \in Worker :
                    working'[v] = u /\ Pending(stack'[v], i)
    <3> SUFFICES ASSUME NEW u \in 1 .. nextTask' - 1
                 PROVE  /\ Len(subtrees'[u]) = Len(Tree(u)')
                        /\ \A i \in 1 .. Len(Tree(u)') :
                             \/ Linked(splitAt', Tree(u)', subtrees'[u], i)
                             \/ \E v \in Worker :
                                  working'[v] = u /\ Pending(stack'[v], i)
      OBVIOUS
    <3>1. Tree(u)' = Tree(u) /\ splitAt' = splitAt /\ u \in 1 .. t
      BY <1>1, <1>10, <2>2
    <3>2. /\ Len(subtrees'[u]) = Len(Tree(u))
          /\ \A i \in 1 .. Len(Tree(u)) :
               \/ Linked(splitAt, Tree(u), subtrees'[u], i)
               \/ \E v \in Worker :
                    working'[v] = u /\ Pending(stack'[v], i)
      BY <2>1, <3>1
    <3> QED BY <3>1, <3>2
  <2> QED BY <2>3, Zenon DEF TreesInv
<1>15. FreshInv'
  <2>1. \A u \in nextTask' .. Len(tasks) : u \in nextTask .. Len(tasks)
    BY <1>0, <1>1, <1>3
  <2> QED BY <1>1, <1>3, <1>10, <2>1 DEF FreshInv
<1>16. FoldInv'
  <2>1. NodesInv'
    BY <1>1, <1>3, <1>10 DEF NodesInv
  <2>2. folded = 0
    BY <1>1, <1>2 DEF BuildInv, FoldInv
  <2> QED BY <1>1, <2>1, <2>2 DEF FoldInv
<1>17. LeafInv'
  <2>1. \A v \in Worker : \A k \in 1 .. Len(stack'[v]) : Nested(stack'[v][k])
    <3> SUFFICES ASSUME NEW v \in Worker, NEW k \in 1 .. Len(stack'[v]) PROVE Nested(stack'[v][k])
      OBVIOUS
    <3>1. CASE v = w
      BY <1>6, <1>7, <1>8, <3>1
    <3>2. CASE v # w
      BY <1>3, <1>8, <3>2 DEF LeafInv
    <3> QED BY <3>1, <3>2
  <2>2. ASSUME MaxDepth >= Refs, ~aborted, NEW u \in 1 .. Len(tasks),
                 NEW i \in 1 .. Len(subtrees'[u])
        PROVE  Fits(subtrees'[u][i])
    <3>1. CASE u = t
      BY <1>7, <1>8, <3>1, InnerIs
    <3>2. CASE u # t
      BY <1>1, <1>3, <1>8, <2>2, <3>2 DEF LeafInv
    <3> QED BY <3>1, <3>2
  <2> QED BY <1>1, <1>3, <2>1, <2>2 DEF LeafInv
<1>18. SubtreeInv' /\ LevelInv'
  BY <1>1, <1>11, <1>12, <1>13, <1>14, <1>15 DEF SubtreeInv, LevelInv
<1> QED BY <1>1, <1>3, <1>9, <1>16, <1>17, <1>18 DEF BuildInv

\* The next range is built: the rest stays as it is.
LEMMA OnStackTail ==
    ASSUME NEW at, NEW R, NEW T, NEW q \in Seq(Task), q # <<>>, OnStack(at, R, T, q)
    PROVE  OnStack(at, R, T, Tail(q))
<1> DEFINE u == Tail(q)
<1>1. Len(q) \in Nat /\ Len(q) > 0
  BY LenProperties, EmptySeq
<1>2. Len(u) = Len(q) - 1 /\ \A k \in 1 .. Len(u) : u[k] = q[k + 1]
  BY <1>1, HeadTailProperties
<1> HIDE DEF u
<1>3. \A k \in 1 .. Len(u) : k + 1 \in 1 .. Len(q) /\ u[k] = q[k + 1]
  BY <1>1, <1>2
<1>4. \A k, j \in 1 .. Len(u) : k < j => k + 1 < j + 1
  BY <1>1, <1>2
<1>5. OnStack(at, R, T, u)
  BY <1>3, <1>4 DEF OnStack
<1> QED BY <1>5 DEF u

\* A split elsewhere.
LEMMA OnStackOther ==
    ASSUME Build!BuildAssumption, NEW at, NEW bt, NEW r, NEW mid, NEW R, NEW T, NEW q, r \in Span,
             R \in Span,
           Grown(at, bt, r, mid), Disjoint(r, R), OnStack(at, R, T, q)
    PROVE  OnStack(bt, R, T, q)
<1>1. \A s \in DOMAIN bt : s = r \/ (s \in DOMAIN at /\ bt[s] = at[s])
  BY DEF Grown
<1>2. ~Inside(r, R)
  BY SpanIs DEF Inside, Disjoint
<1>3. ASSUME NEW k \in 1 .. Len(q), NEW s \in DOMAIN bt
      PROVE  Apart(bt, s, Build!RangeOf(q[k])) /\ (Inside(s, R) => s.from <= q[k].from)
  <2>1. Build!RangeOf(q[k]) \in Span /\ Inside(Build!RangeOf(q[k]), R)
    BY DEF OnStack
  <2>2. CASE s = r
    <3>1. Disjoint(r, Build!RangeOf(q[k]))
      BY <2>1, Parts
    <3> QED BY <1>2, <2>2, <3>1 DEF Apart
  <2>3. CASE s \in DOMAIN at /\ bt[s] = at[s]
    BY <2>3 DEF OnStack, Apart
  <2> QED BY <1>1, <2>2, <2>3
<1> QED BY <1>3 DEF OnStack

\* The stack with the halves of the range on top instead of it.
Forked(q, l, mid) == Build!Halves(q[1], l, mid) \o Tail(q)

ForkedIs(q, l, mid, u) ==
    /\ u \in Seq(Task) /\ Len(u) = Len(q) + 1
    /\ Build!RangeOf(u[1]) = [from |-> q[1].from, to |-> mid] /\ u[1].node = l
    /\ Build!RangeOf(u[2]) = [from |-> mid, to |-> q[1].to] /\ u[2].node = l + 1
    /\ u[1].from = q[1].from /\ u[1].to = mid /\ u[2].from = mid /\ u[2].to = q[1].to
    /\ \A k \in 2 .. Len(q) : u[k + 1] = q[k]
    /\ Nested(q[1]) => Nested(u[1]) /\ Nested(u[2])

\* The stack with its first node replaced by its halves.
LEMMA ForkedAre ==
    ASSUME Build!BuildAssumption, NEW q \in Seq(Task), q # <<>>, NEW l \in Nat \ {0},
             NEW mid \in q[1].from + 1 .. q[1].to - 1
    PROVE  ForkedIs(q, l, mid, Forked(q, l, mid))
<1>1. PICK r \in Task : r = q[1]
  <2>1. Len(q) \in Nat /\ Len(q) > 0
    BY LenProperties, EmptySeq
  <2> QED BY <2>1, ElementOfSeq
<1>2. /\ r.from \in Nat /\ r.to \in Nat /\ r.to <= Refs /\ r.depth \in Nat /\ mid \in Nat
      /\ r.from < mid /\ mid < r.to
      /\ mid \in 0 .. Refs /\ r.from \in 0 .. Refs /\ r.to \in 0 .. Refs /\ Refs \in Nat
  <2>1. r.from \in 0 .. Refs /\ r.to \in 0 .. Refs /\ r.depth \in Nat /\ Refs \in Nat
    BY Params DEF Task
  <2>2. mid \in r.from + 1 .. r.to - 1
    BY <1>1
  <2> QED BY <2>1, <2>2
<1>3. PICK a : a = [node |-> l, from |-> r.from, to |-> mid, depth |-> r.depth + 1]
  OBVIOUS
<1>4. PICK b : b = [node |-> l + 1, from |-> mid, to |-> r.to, depth |-> r.depth + 1]
  OBVIOUS
<1>5. /\ a \in Task /\ a.node = l /\ a.from = r.from /\ a.to = mid /\ a.depth = r.depth + 1
      /\ Build!RangeOf(a) = [from |-> r.from, to |-> mid]
  BY <1>2, <1>3, SMTT(40) DEF Task, Build!RangeOf
<1>6. /\ b \in Task /\ b.node = l + 1 /\ b.from = mid /\ b.to = r.to /\ b.depth = r.depth + 1
      /\ Build!RangeOf(b) = [from |-> mid, to |-> r.to]
  <2>1. /\ b.node = l + 1 /\ b.from = mid /\ b.to = r.to /\ b.depth = r.depth + 1
    BY <1>4
  <2>2. b \in Task
    <3>1. l + 1 \in Nat \ {0} /\ r.depth + 1 \in Nat
      BY <1>2
    <3> QED BY <1>2, <1>4, <3>1 DEF Task
  <2> QED BY <2>1, <2>2 DEF Build!RangeOf
<1>7. Nested(r) => Nested(a) /\ Nested(b)
  <2>1. r.to - r.from + r.depth <= Refs => a.to - a.from + a.depth <= Refs
          /\ b.to - b.from + b.depth <= Refs
    BY <1>2, <1>5, <1>6, SMTT(40)
  <2> QED BY <2>1 DEF Nested
<1>8. PICK v : v = Tail(q)
  OBVIOUS
<1>9. Len(q) \in Nat /\ Len(q) > 0 /\ v \in Seq(Task) /\ Len(v) = Len(q) - 1
        /\ \A k \in 1 .. Len(v) : v[k] = q[k + 1]
  BY <1>8, LenProperties, EmptySeq, HeadTailProperties
<1>10. PICK x : x = <<a, b>>
  OBVIOUS
<1>11. x \in Seq(Task) /\ Len(x) = 2 /\ x[1] = a /\ x[2] = b
  BY <1>5, <1>6, <1>10
<1>12. PICK u : u = x \o v
  OBVIOUS
<1>13. Forked(q, l, mid) = u
  BY <1>1, <1>3, <1>4, <1>8, <1>10, <1>12 DEF Forked, Build!Halves
<1>14. /\ u \in Seq(Task) /\ Len(u) = 2 + Len(v)
       /\ \A k \in 1 .. 2 + Len(v) : u[k] = IF k <= 2 THEN x[k] ELSE v[k - 2]
  <2>1. x \in Seq(Task) /\ v \in Seq(Task) /\ u = x \o v /\ Len(x) = 2
    BY <1>9, <1>11, <1>12
  <2>2. /\ u \in Seq(Task) /\ Len(u) = Len(x) + Len(v)
        /\ \A k \in 1 .. Len(x) + Len(v) : u[k] = IF k <= Len(x) THEN x[k] ELSE v[k - Len(x)]
    BY <2>1, ConcatProperties
  <2> QED BY <2>1, <2>2
<1>15. Len(u) = Len(q) + 1 /\ u[1] = a /\ u[2] = b
  BY <1>9, <1>11, <1>14
<1>16. ASSUME NEW k \in 2 .. Len(q) PROVE u[k + 1] = q[k]
  <2>1. k + 1 \in 1 .. 2 + Len(v) /\ ~(k + 1 <= 2) /\ k + 1 - 2 \in 1 .. Len(v) /\ k + 1 - 2 + 1 = k
    BY <1>9
  <2> QED BY <1>9, <1>14, <2>1, SMTT(40)
<1>17. ForkedIs(q, l, mid, u)
  BY <1>1, <1>5, <1>6, <1>7, <1>14, <1>15, <1>16 DEF ForkedIs
<1> QED BY <1>13, <1>17

\* The subtree with the halves behind it.
ExtendedIs(at, T, r, mid, V) ==
    /\ Len(T) \in Nat /\ Len(V) = Len(T) + 2 /\ \A p \in 1 .. Len(T) : V[p] = T[p]
    /\ V[Len(T) + 1] = [from |-> r.from, to |-> mid] /\ V[Len(T) + 2] = [from |-> mid, to |-> r.to]
    /\ [from |-> r.from, to |-> mid] \in Span /\ [from |-> mid, to |-> r.to] \in Span

\* The parts of a range that is split.
LEMMA CutIs ==
    ASSUME Build!BuildAssumption, NEW r \in Span, NEW mid \in r.from + 1 .. r.to - 1, NEW A, NEW B,
           A = [from |-> r.from, to |-> mid], B = [from |-> mid, to |-> r.to]
    PROVE  /\ A \in Span /\ B \in Span /\ A.from = r.from /\ A.to = mid /\ B.from = mid
           /\ B.to = r.to
           /\ Inside(A, r) /\ Inside(B, r) /\ Clear(r, A) /\ Clear(r, B) /\ Disjoint(A, B)
           /\ Disjoint(B, A)
           /\ mid \in Nat /\ r.from \in Nat /\ r.to \in Nat /\ r.from < mid /\ mid < r.to
<1>1. r.from \in Nat /\ r.to \in Nat /\ r.to <= Refs /\ mid \in Nat /\ r.from < mid /\ mid < r.to
        /\ Refs \in Nat
  BY SpanIs, Params
<1>2. A.from = r.from /\ A.to = mid /\ B.from = mid /\ B.to = r.to
  OBVIOUS
<1>3. A \in Span /\ B \in Span
  BY <1>1, <1>2 DEF Span
<1> QED BY <1>1, <1>2, <1>3 DEF Inside, Clear, Disjoint

\* What is on the stack after a split is still to be built of the grown subtree.
LEMMA OnStackFork ==
    ASSUME Build!BuildAssumption, NEW at, NEW bt, NEW r, NEW mid, NEW R, NEW T, NEW q, NEW V, NEW u,
           Proper(at), R \in Span, r \in Span, mid \in r.from + 1 .. r.to - 1,
             Grown(at, bt, r, mid),
           q \in Seq(Task), q # <<>>, Build!RangeOf(q[1]) = r, OnStack(at, R, T, q),
           T \in Seq(Span), ExtendedIs(at, T, r, mid, V), ForkedIs(q, Len(T) + 1, mid, u)
    PROVE  OnStack(bt, R, V, u)
<1>0. PICK n : n = Len(T)
  OBVIOUS
<1>1. PICK A : A = [from |-> r.from, to |-> mid]
  OBVIOUS
<1>2. PICK B : B = [from |-> mid, to |-> r.to]
  OBVIOUS
<1>3. /\ A \in Span /\ B \in Span /\ A.from = r.from /\ A.to = mid /\ B.from = mid /\ B.to = r.to
      /\ Inside(A, r) /\ Inside(B, r) /\ Clear(r, A) /\ Clear(r, B) /\ Disjoint(A, B)
      /\ Disjoint(B, A)
      /\ mid \in Nat /\ r.from \in Nat /\ r.to \in Nat /\ r.from < mid /\ mid < r.to
  BY <1>1, <1>2, CutIs, SMTT(40)
<1>4. Len(q) \in Nat /\ Len(q) > 0 /\ \A k \in 1 .. Len(q) : q[k] \in Task
  BY LenProperties, EmptySeq, ElementOfSeq
<1>5. \A k \in 1 .. Len(q) : Build!RangeOf(q[k]).from = q[k].from /\ Build!RangeOf(q[k]).to
                               = q[k].to
                             /\ q[k].from \in Nat /\ q[k].to \in Nat /\ q[k].node \in Nat
  <2> SUFFICES ASSUME NEW k \in 1 .. Len(q)
               PROVE  /\ Build!RangeOf(q[k]).from = q[k].from /\ Build!RangeOf(q[k]).to = q[k].to
                      /\ q[k].from \in Nat /\ q[k].to \in Nat /\ q[k].node \in Nat
    OBVIOUS
  <2>1. q[k].from \in 0 .. Refs /\ q[k].to \in 0 .. Refs /\ q[k].node \in Nat
    <3>1. PICK y \in Task : y = q[k]
      BY <1>4
    <3>2. y.from \in 0 .. Refs /\ y.to \in 0 .. Refs /\ y.node \in Nat
      BY DEF Task
    <3> QED BY <3>1, <3>2
  <2>2. Build!RangeOf(q[k]).from = q[k].from /\ Build!RangeOf(q[k]).to = q[k].to
    BY DEF Build!RangeOf
  <2> QED BY <2>1, <2>2, Params
<1>6. /\ n \in Nat /\ Len(V) = n + 2 /\ (\A p \in 1 .. n : V[p] = T[p])
      /\ V[n + 1] = A /\ V[n + 2] = B
  BY <1>0, <1>1, <1>2 DEF ExtendedIs
<1>7. /\ Len(u) = Len(q) + 1
      /\ Build!RangeOf(u[1]) = A /\ u[1].node = n + 1 /\ Build!RangeOf(u[2]) = B
      /\ u[2].node = n + 2
      /\ u[1].from = r.from /\ u[1].to = mid /\ u[2].from = mid /\ u[2].to = r.to
      /\ \A k \in 2 .. Len(q) : u[k + 1] = q[k]
  <2>1. q[1].from = r.from /\ q[1].to = r.to
    BY <1>4, <1>5
  <2> QED BY <1>0, <1>1, <1>2, <1>6, <2>1 DEF ForkedIs
<1>8. 1 \in 1 .. Len(q) /\ q[1].to = r.to /\ q[1].from = r.from
  BY <1>4, <1>5
<1>9. /\ Inside(r, R) /\ q[1].node \in 1 .. n /\ T[q[1].node] = r
      /\ \A p \in 1 .. n : p # q[1].node => Clear(T[p], r)
      /\ \A s \in DOMAIN at : Apart(at, s, r) /\ (Inside(s, R) => s.from <= r.from)
      /\ \A j \in 2 .. Len(q) : r.to <= q[j].from
  <2>1. \A j \in 2 .. Len(q) : 1 < j /\ j \in 1 .. Len(q)
    BY <1>4
  <2> QED BY <1>0, <1>8, <2>1 DEF OnStack
<1>10. \A p \in 1 .. n : T[p] \in Span
  BY <1>0, ElementOfSeq
<1>11. /\ \A s \in DOMAIN bt : s = r \/ (s \in DOMAIN at /\ bt[s] = at[s] /\ s \in Span)
       /\ bt[r] = mid
  BY DEF Grown, Proper
<1>12. ASSUME NEW X, NEW m, (X = A /\ m = n + 1) \/ (X = B /\ m = n + 2)
       PROVE  /\ X \in Span /\ Inside(X, R) /\ m \in 1 .. Len(V) /\ V[m] = X
              /\ \A p \in 1 .. Len(V) : p # m => Clear(V[p], X)
              /\ \A s \in DOMAIN bt : Apart(bt, s, X) /\ (Inside(s, R) => s.from <= X.from)
  <2>1. X \in Span /\ Inside(X, r) /\ Clear(r, X) /\ r.from <= X.from /\ X.from \in Nat
    BY <1>3, <1>12
  <2>2. Inside(X, R)
    BY <1>9, <2>1, Parts
  <2>3. m \in 1 .. Len(V) /\ V[m] = X
    BY <1>6, <1>12
  <2>4. ASSUME NEW p \in 1 .. Len(V), p # m PROVE Clear(V[p], X)
    <3>1. CASE p \in 1 .. n
      <4>1. V[p] = T[p] /\ T[p] \in Span
        BY <1>6, <1>10, <3>1
      <4>2. CASE p = q[1].node
        BY <1>9, <2>1, <4>1, <4>2
      <4>3. CASE p # q[1].node
        <5>1. Clear(T[p], r)
          BY <1>9, <3>1, <4>3
        <5> QED BY <2>1, <4>1, <5>1, Parts
      <4> QED BY <4>2, <4>3
    <3>2. CASE p \notin 1 .. n
      <4>1. p = n + 1 \/ p = n + 2
        BY <1>6, <3>2
      <4>2. Disjoint(V[p], X)
        BY <1>3, <1>6, <1>12, <2>4, <4>1
      <4> QED BY <4>2 DEF Clear
    <3> QED BY <3>1, <3>2
  <2>5. ASSUME NEW s \in DOMAIN bt PROVE Apart(bt, s, X) /\ (Inside(s, R) => s.from <= X.from)
    <3>1. CASE s = r
      <4>1. (r.from <= X.from /\ X.to <= mid) \/ (mid <= X.from /\ X.to <= r.to)
        BY <1>3, <1>12
      <4> QED BY <1>11, <2>1, <3>1, <4>1 DEF Apart
    <3>2. CASE s \in DOMAIN at /\ bt[s] = at[s] /\ s \in Span
      <4>1. Apart(at, s, r) /\ (Inside(s, R) => s.from <= r.from)
        BY <1>9, <3>2
      <4>2. Apart(at, s, X)
        BY <2>1, <3>2, <4>1, Parts
      <4>3. Apart(bt, s, X)
        BY <3>2, <4>2 DEF Apart
      <4>4. s.from \in Nat
        BY <3>2, SpanIs
      <4> QED BY <1>3, <2>1, <4>1, <4>3, <4>4
    <3> QED BY <1>11, <3>1, <3>2
  <2> QED BY <2>1, <2>2, <2>3, <2>4, <2>5
<1>13. ASSUME NEW k \in 2 .. Len(q), NEW Y, Y = Build!RangeOf(q[k])
       PROVE  /\ Y \in Span /\ Inside(Y, R) /\ q[k].node \in 1 .. Len(V) /\ V[q[k].node] = Y
              /\ \A p \in 1 .. Len(V) : p # q[k].node => Clear(V[p], Y)
              /\ \A s \in DOMAIN bt : Apart(bt, s, Y) /\ (Inside(s, R) => s.from <= q[k].from)
  <2>1. k \in 1 .. Len(q) /\ Y.from = q[k].from
    BY <1>4, <1>5, <1>13
  <2>2. /\ Y \in Span /\ Inside(Y, R) /\ q[k].node \in 1 .. n /\ T[q[k].node] = Y
        /\ \A p \in 1 .. n : p # q[k].node => Clear(T[p], Y)
        /\ \A s \in DOMAIN at : Apart(at, s, Y) /\ (Inside(s, R) => s.from <= q[k].from)
    BY <1>0, <1>13, <2>1 DEF OnStack
  <2>3. r.to <= Y.from /\ Y.from \in Nat
    BY <1>9, <2>1, <2>2, SpanIs
  <2>4. q[k].node \in 1 .. Len(V) /\ V[q[k].node] = Y
    BY <1>6, <2>2
  <2>5. ASSUME NEW p \in 1 .. Len(V), p # q[k].node PROVE Clear(V[p], Y)
    <3>1. CASE p \in 1 .. n
      BY <1>6, <2>2, <2>5, <3>1
    <3>2. CASE p \notin 1 .. n
      <4>1. p = n + 1 \/ p = n + 2
        BY <1>6, <3>2
      <4>2. V[p] = A \/ V[p] = B
        BY <1>6, <4>1
      <4>3. V[p].to <= Y.from
        BY <1>3, <2>3, <4>2
      <4> QED BY <4>3 DEF Clear, Disjoint
    <3> QED BY <3>1, <3>2
  <2>6. ASSUME NEW s \in DOMAIN bt PROVE Apart(bt, s, Y) /\ (Inside(s, R) => s.from <= q[k].from)
    <3>1. CASE s = r
      BY <1>3, <2>1, <2>3, <3>1 DEF Apart, Disjoint
    <3>2. CASE s \in DOMAIN at /\ bt[s] = at[s] /\ s \in Span
      <4>1. Apart(at, s, Y) /\ (Inside(s, R) => s.from <= q[k].from)
        BY <2>2, <3>2
      <4>2. Apart(bt, s, Y)
        BY <3>2, <4>1 DEF Apart
      <4> QED BY <4>1, <4>2
    <3> QED BY <1>11, <3>1, <3>2
  <2> QED BY <2>2, <2>4, <2>5, <2>6
<1>14. \A k \in 1 .. Len(u) : k = 1 \/ k = 2 \/ (k - 1 \in 2 .. Len(q) /\ u[k] = q[k - 1])
  <2> SUFFICES ASSUME NEW k \in 1 .. Len(u), k # 1, k # 2 PROVE k - 1 \in 2 .. Len(q)
                        /\ u[k] = q[k - 1]
    OBVIOUS
  <2>1. k - 1 \in 2 .. Len(q) /\ k - 1 + 1 = k
    BY <1>4, <1>7
  <2> QED BY <1>7, <2>1
<1>15. ASSUME NEW k \in 1 .. Len(u), NEW j \in 1 .. Len(u), k < j PROVE u[k].to <= u[j].from
  <2>1. CASE k = 1 /\ j = 2
    BY <1>3, <1>7, <2>1
  <2>2. CASE k \in {1, 2} /\ j # 2
    <3>1. j - 1 \in 2 .. Len(q) /\ u[j] = q[j - 1]
      BY <1>14, <1>15, <2>2
    <3>2. r.to <= q[j - 1].from /\ q[j - 1].from \in Nat
      <4>1. j - 1 \in 1 .. Len(q)
        BY <1>4, <3>1
      <4> QED BY <1>5, <1>9, <3>1, <4>1
    <3>3. u[k].to <= r.to /\ u[k].to \in Nat
      BY <1>3, <1>7, <2>2, SMTT(40)
    <3> QED BY <1>3, <3>1, <3>2, <3>3, SMTT(40)
  <2>3. CASE k \notin {1, 2}
    <3>1. j # 1 /\ j # 2
      BY <1>15, <2>3
    <3>2. /\ k - 1 \in 2 .. Len(q) /\ u[k] = q[k - 1]
          /\ j - 1 \in 2 .. Len(q) /\ u[j] = q[j - 1]
      BY <1>14, <2>3, <3>1
    <3>3. k - 1 \in 1 .. Len(q) /\ j - 1 \in 1 .. Len(q) /\ k - 1 < j - 1
      BY <1>4, <1>15, <3>2
    <3>4. q[k - 1].to <= q[j - 1].from
      BY <3>3 DEF OnStack
    <3> QED BY <3>2, <3>4
  <2> QED BY <1>15, <2>1, <2>2, <2>3
<1>16. ASSUME NEW k \in 1 .. Len(u)
       PROVE  /\ Build!RangeOf(u[k]) \in Span /\ Inside(Build!RangeOf(u[k]), R)
              /\ u[k].node \in 1 .. Len(V) /\ V[u[k].node] = Build!RangeOf(u[k])
              /\ \A p \in 1 .. Len(V) : p # u[k].node => Clear(V[p], Build!RangeOf(u[k]))
              /\ \A s \in DOMAIN bt : Apart(bt, s, Build!RangeOf(u[k]))
                                        /\ (Inside(s, R) => s.from <= u[k].from)
  <2>1. CASE k = 1
    BY <1>3, <1>7, <1>12, <2>1
  <2>2. CASE k = 2
    BY <1>3, <1>7, <1>12, <2>2, ZenonT(60)
  <2>3. CASE k - 1 \in 2 .. Len(q) /\ u[k] = q[k - 1]
    BY <1>13, <2>3
  <2> QED BY <1>14, <2>1, <2>2, <2>3
<1> QED BY <1>15, <1>16 DEF OnStack

\* The next node of worker w, which builds task t: node r of its array N, the range R.
NodeFacts(w, t, q, r, R, N, T) ==
    /\ w \in Worker /\ t \in 1 .. Len(tasks) /\ t < nextTask /\ t # 0 /\ working[w] = t
    /\ stack[w] = q
    /\ q \in Seq(Task) /\ Len(q) \in Nat /\ Len(q) > 0 /\ q # <<>> /\ r \in Task /\ r = q[1]
    /\ Head(q) = r
    /\ Nested(r) /\ R = Build!RangeOf(r) /\ R \in Span /\ R.from = r.from /\ R.to = r.to
    /\ R \notin DOMAIN splitAt
    /\ Inside(R, Of(t)) /\ Of(t) \in Span
    /\ r.node \in 1 .. Len(T) /\ T[r.node] = R /\ \A p \in 1 .. Len(T) : p # r.node => T[p] # R
    /\ N = subtrees[t] /\ T = Tree(t)
    /\ Array(N) /\ N \in Seq(Node) /\ Len(N) = Len(T) /\ Len(T) \in Nat /\ T \in Seq(Span)
    /\ OnStack(splitAt, Of(t), T, q)
    /\ \A i \in 1 .. Len(T) : Linked(splitAt, T, N, i) \/ Pending(q, i)
    /\ \A s \in DOMAIN splitAt : Apart(splitAt, s, R) /\ (Inside(s, Of(t)) => s.from <= R.from)
    /\ R \in Nodes(splitAt, Of(t)) /\ R \notin Elements(Up(splitAt, TaskDepth))
    /\ \A v \in Worker : v # w => working[v] # t
    /\ \A u \in 1 .. Len(tasks) : u # t => Of(u) \in Span /\ Disjoint(R, Of(u)) /\ ~Inside(R, Of(u))

\* What the invariant says of the worker that builds a node.
LEMMA NodeIs ==
    ASSUME Build!BuildAssumption, BuildInv, phase = "subtrees", NEW w \in Worker, working[w] # 0, stack[w] # <<>>,
           NEW t, NEW q, NEW r, NEW R, NEW N, NEW T, t = working[w], q = stack[w], r = q[1],
             R = Build!RangeOf(r),
           N = subtrees[t], T = Tree(t)
    PROVE  NodeFacts(w, t, q, r, R, N, T)
<1>1. Later
  BY DEF Later
<1>2. /\ Proper(splitAt) /\ TasksAt(TaskDepth) /\ tasks \in Seq(Task) /\ Len(tasks) \in Nat
      /\ nextTask \in Nat
      /\ nextTask \in 1 .. Len(tasks) + 1 /\ TaskDepth \in 0 .. TaskDepth
      /\ WorkerInv /\ StackInv /\ TreesInv /\ LeafInv /\ TypeInv
  BY <1>1, LaterIs
<1>3. t \in 1 .. Len(tasks) /\ t < nextTask /\ t # 0 /\ q \in Seq(Task) /\ q # <<>>
        /\ t \in 1 .. nextTask - 1
  <2>1. working[w] \in 0 .. Len(tasks) /\ stack[w] \in Seq(Task)
    BY <1>2 DEF TypeInv
  <2>2. working[w] < nextTask
    BY <1>2 DEF WorkerInv
  <2> QED BY <1>2, <2>1, <2>2
<1>4. /\ Of(t) \in Span /\ T \in Seq(Span) /\ Len(T) \in Nat /\ Array(N)
      /\ \A i \in 1 .. Len(T) : T[i] \in Span /\ T[i] \in Nodes(splitAt, Of(t))
      /\ \A u \in 1 .. Len(tasks) : Of(u) \in Span /\ (u # t => Disjoint(Of(t), Of(u)))
  <2>1. /\ Of(t) \in Span /\ Tree(t) \in Seq(Span) /\ Len(Tree(t)) \in Nat /\ Array(subtrees[t])
        /\ \A i \in 1 .. Len(Tree(t)) : Tree(t)[i] \in Span /\ Tree(t)[i] \in Nodes(splitAt, Of(t))
    BY <1>1, <1>3, LaterIs
  <2>2. \A u \in 1 .. Len(tasks) : Of(u) \in Span /\ (u # t => Disjoint(Of(t), Of(u)))
    BY <1>1, <1>3, LaterIs
  <2> QED BY <2>1, <2>2
<1>5. Len(q) \in Nat /\ Len(q) > 0 /\ 1 \in 1 .. Len(q) /\ Head(q) = r
  <2>1. Len(q) \in Nat /\ Len(q) > 0
    BY <1>3, LenProperties, EmptySeq
  <2> QED BY <1>3, <2>1, HeadTailProperties
<1>6. r \in Task /\ Nested(r)
  <2>1. r \in Task
    BY <1>3, <1>5, ElementOfSeq
  <2> QED BY <1>2, <1>5, <2>1 DEF LeafInv
<1>7. OnStack(splitAt, Of(t), T, q)
  <2>1. OnStack(splitAt, Of(working[w]), Tree(working[w]), stack[w])
    BY <1>2 DEF StackInv
  <2> QED BY <2>1
<1>8. /\ R \in Span /\ Inside(R, Of(t)) /\ r.node \in 1 .. Len(T) /\ T[r.node] = R
      /\ (\A p \in 1 .. Len(T) : p # r.node => Clear(T[p], R))
      /\ \A s \in DOMAIN splitAt : Apart(splitAt, s, R) /\ (Inside(s, Of(t)) => s.from <= r.from)
  BY <1>5, <1>7 DEF OnStack
<1>9. R.from = r.from /\ R.to = r.to
  BY DEF Build!RangeOf
<1>10. R \notin DOMAIN splitAt
  BY <1>2, <1>8, Distinct
<1>11. \A p \in 1 .. Len(T) : p # r.node => T[p] # R
  BY <1>2, <1>4, <1>8, Distinct
<1>12. N \in Seq(Node) /\ Len(N) = Len(T)
  BY <1>2, <1>3, <1>4 DEF TreesInv, Array
<1>13. \A v \in Worker : v # w => working[v] # t
  BY <1>2 DEF WorkerInv
<1>14. \A i \in 1 .. Len(T) : Linked(splitAt, T, N, i) \/ Pending(q, i)
  <2> SUFFICES ASSUME NEW i \in 1 .. Len(T) PROVE Linked(splitAt, T, N, i) \/ Pending(q, i)
    OBVIOUS
  <2>1. \/ Linked(splitAt, Tree(t), subtrees[t], i)
        \/ \E v \in Worker : working[v] = t /\ Pending(stack[v], i)
    BY <1>2, <1>3 DEF TreesInv
  <2> QED BY <1>13, <2>1
<1>15. R \in Nodes(splitAt, Of(t))
  BY <1>4, <1>8
<1>16. R \notin Elements(Up(splitAt, TaskDepth))
  <2>1. SUFFICES ASSUME NEW p \in 1 .. Len(Up(splitAt, TaskDepth)), Up(splitAt, TaskDepth)[p] = R
                          PROVE FALSE
    BY DEF Elements
  <2>2. Clear(Up(splitAt, TaskDepth)[p], Of(t))
    BY <1>2, <1>3 DEF TasksAt
  <2>3. Clear(R, R)
    BY <1>4, <1>8, <2>1, <2>2, Parts
  <2> QED BY <1>2, <1>8, <2>3, Distinct
<1>17. ASSUME NEW u \in 1 .. Len(tasks), u # t PROVE Of(u) \in Span /\ Disjoint(R, Of(u))
                /\ ~Inside(R, Of(u))
  <2>1. Of(u) \in Span /\ Disjoint(Of(t), Of(u))
    BY <1>4, <1>17
  <2>2. Disjoint(Of(u), Of(t))
    BY <2>1 DEF Disjoint
  <2>3. Disjoint(R, Of(u))
    BY <1>4, <1>8, <2>1, <2>2, Parts
  <2> QED BY <1>8, <2>1, <2>3, SpanIs DEF Disjoint, Inside
<1> QED BY <1>3, <1>4, <1>5, <1>6, <1>7, <1>8, <1>9, <1>10, <1>11, <1>12, <1>13, <1>14, <1>15,
             <1>16, <1>17 DEF NodeFacts

\* What a step of worker w may do to its subtree, and what it must leave as it is.
StepsTo(w, t, N2, q2, T2) ==
    /\ UNCHANGED <<phase, nodes, tasks, depth, splits, nextTask, working, folded>>
    /\ DOMAIN subtrees' = 1 .. Len(tasks) /\ subtrees'[t] = N2
    /\ \A u \in 1 .. Len(tasks) : u # t => subtrees'[u] = subtrees[u]
    /\ stack' \in [Worker -> Seq(Task)] /\ stack'[w] = q2
    /\ \A v \in Worker : v # w => stack'[v] = stack[v]
    /\ ~aborted' => ~aborted

SubtreeStep(t, N2, q2, T2) ==
    /\ Array(N2) /\ Len(N2) = Len(T2) /\ OnStack(splitAt', Of(t), T2, q2)
    /\ \A i \in 1 .. Len(T2) : Linked(splitAt', T2, N2, i) \/ Pending(q2, i)
    /\ \A k \in 1 .. Len(q2) : Nested(q2[k])
    /\ MaxDepth >= Refs /\ ~aborted' => \A i \in 1 .. Len(N2) : Fits(N2[i])

OthersStay(t) ==
    /\ \A u \in 1 .. Len(tasks) : u # t =>
        /\ TreeOf(splitAt', Of(u)) = Tree(u)
        /\ \A s : OnStack(splitAt, Of(u), Tree(u), s) => OnStack(splitAt', Of(u), Tree(u), s)
        /\ \A i \in 1 .. Len(Tree(u)) :
            Linked(splitAt, Tree(u), subtrees[u], i) => Linked(splitAt', Tree(u), subtrees[u], i)
    /\ \A u \in nextTask .. Len(tasks), s \in DOMAIN splitAt' : Apart(splitAt', s, Of(u))

\* A node built in one subtree, with the others as they were, keeps the invariant.
LEMMA NodeStep ==
    ASSUME Build!BuildAssumption, BuildInv, phase = "subtrees", NEW w, NEW t, NEW q, NEW r, NEW R, NEW N, NEW T,
           NodeFacts(w, t, q, r, R, N, T), NEW N2, NEW q2, NEW T2, StepsTo(w, t, N2, q2, T2),
           Proper(splitAt'), TasksAt(TaskDepth)', NodesInv', TreeOf(splitAt', Of(t)) = T2,
           SubtreeStep(t, N2, q2, T2), OthersStay(t)
    PROVE  BuildInv'
<1>1. Later
  BY DEF Later
<1>2. /\ tasks \in Seq(Task) /\ Len(tasks) \in Nat /\ nextTask \in Nat
      /\ nextTask \in 1 .. Len(tasks) + 1 /\ DOMAIN tasks = 1 .. Len(tasks)
      /\ WorkerInv /\ StackInv /\ TreesInv /\ LeafInv /\ TypeInv
  BY <1>1, LaterIs
<1>3. /\ w \in Worker /\ t \in 1 .. Len(tasks) /\ t < nextTask /\ t # 0 /\ working[w] = t
      /\ stack[w] = q
      /\ \A v \in Worker : v # w => working[v] # t
  BY DEF NodeFacts
<1>4. /\ UNCHANGED <<phase, nodes, tasks, depth, splits, nextTask, working, folded>>
      /\ DOMAIN subtrees' = 1 .. Len(tasks) /\ subtrees'[t] = N2
      /\ (\A u \in 1 .. Len(tasks) : u # t => subtrees'[u] = subtrees[u])
      /\ stack' \in [Worker -> Seq(Task)] /\ stack'[w] = q2
      /\ (\A v \in Worker : v # w => stack'[v] = stack[v])
      /\ ~aborted' => ~aborted
  BY DEF StepsTo
<1>5. (\A u : Of(u)' = Of(u)) /\ Tree(t)' = T2 /\ \A u \in 1 .. Len(tasks) : u # t
        => Tree(u)' = Tree(u)
  <2>1. \A u : Of(u)' = Of(u)
    BY <1>4 DEF Of
  <2>2. \A u : Tree(u)' = TreeOf(splitAt', Of(u))
    BY <2>1 DEF Tree
  <2>3. \A u \in 1 .. Len(tasks) : u # t => TreeOf(splitAt', Of(u)) = Tree(u)
    BY DEF OthersStay
  <2> QED BY <2>1, <2>2, <2>3
<1>6. TypeInv'
  <2>1. \A u \in 1 .. Len(tasks) : Array(subtrees'[u])
    <3> SUFFICES ASSUME NEW u \in 1 .. Len(tasks) PROVE Array(subtrees'[u])
      OBVIOUS
    <3>1. Array(subtrees[u])
      BY <1>1, LaterIs
    <3> QED BY <1>4, <3>1 DEF SubtreeStep
  <2> QED BY <1>2, <1>4, <2>1 DEF TypeInv
<1>7. WorkerInv'
  BY <1>2, <1>3, <1>4 DEF WorkerInv
<1>8. StackInv'
  <2> SUFFICES ASSUME NEW v \in Worker
               PROVE  OnStack(splitAt', Of(working[v])', Tree(working[v])', stack'[v])
    BY DEF StackInv
  <2>0. Of(working[v])' = Of(working[v]) /\ \A u : u = working[v] => Tree(working[v])' = Tree(u)'
    <3>1. Of(working[v])' = Of(working[v])
      BY <1>4 DEF Of
    <3> QED BY <1>4, <3>1, <1>5, Zenon DEF Tree
  <2>1. CASE v = w
    <3>1. Tree(working[v])' = T2 /\ Of(working[v])' = Of(t)
      BY <1>3, <1>5, <2>0, <2>1
    <3> QED BY <1>4, <2>1, <3>1 DEF SubtreeStep
  <2>2. CASE v # w
    <3>1. stack'[v] = stack[v] /\ working[v] # t /\ working[v] \in 0 .. Len(tasks)
      BY <1>2, <1>3, <1>4, <2>2 DEF TypeInv
    <3>2. CASE working[v] = 0
      <4>1. Len(stack'[v]) = 0
        BY <1>2, <3>1, <3>2 DEF WorkerInv
      <4> QED BY <4>1 DEF OnStack
    <3>3. CASE working[v] # 0
      <4>1. PICK u \in 1 .. Len(tasks) : u = working[v]
        BY <1>2, <3>1, <3>3
      <4>2. OnStack(splitAt, Of(u), Tree(u), stack[v])
        BY <1>2, <4>1 DEF StackInv
      <4>3. OnStack(splitAt', Of(u), Tree(u), stack[v])
        BY <3>1, <4>1, <4>2 DEF OthersStay
      <4>4. Tree(working[v])' = Tree(u) /\ Of(working[v])' = Of(u)
        BY <1>5, <2>0, <3>1, <4>1
      <4> QED BY <3>1, <4>3, <4>4
    <3> QED BY <3>2, <3>3
  <2> QED BY <2>1, <2>2
<1>9. TreesInv'
  <2> SUFFICES ASSUME NEW u \in 1 .. nextTask - 1
               PROVE  /\ Len(subtrees'[u]) = Len(Tree(u)')
                      /\ \A i \in 1 .. Len(Tree(u)') :
                          \/ Linked(splitAt', Tree(u)', subtrees'[u], i)
                          \/ \E v \in Worker : working[v] = u /\ Pending(stack'[v], i)
    <3>1. nextTask' = nextTask /\ working' = working
      BY <1>4
    <3> QED BY <3>1 DEF TreesInv
  <2>0. u \in 1 .. Len(tasks)
    BY <1>2
  <2>1. CASE u = t
    <3>1. Tree(u)' = T2 /\ subtrees'[u] = N2
      BY <1>4, <1>5, <2>1
    <3>2. /\ Len(N2) = Len(T2)
          /\ \A i \in 1 .. Len(T2) : Linked(splitAt', T2, N2, i) \/ Pending(q2, i)
      BY DEF SubtreeStep
    <3> QED BY <1>3, <1>4, <2>1, <3>1, <3>2
  <2>2. CASE u # t
    <3>1. Tree(u)' = Tree(u) /\ subtrees'[u] = subtrees[u]
      BY <1>4, <1>5, <2>0, <2>2
    <3>2. /\ Len(subtrees[u]) = Len(Tree(u))
          /\ \A i \in 1 .. Len(Tree(u)) :
              \/ Linked(splitAt, Tree(u), subtrees[u], i)
              \/ \E v \in Worker : working[v] = u /\ Pending(stack[v], i)
      BY <1>2 DEF TreesInv
    <3>3. \A v \in Worker : working[v] = u => stack'[v] = stack[v]
      BY <1>3, <1>4, <2>2
    <3>4. \A i \in 1 .. Len(Tree(u)) :
              Linked(splitAt, Tree(u), subtrees[u], i) => Linked(splitAt', Tree(u), subtrees[u], i)
      BY <2>0, <2>2 DEF OthersStay
    <3>5. \A i \in 1 .. Len(Tree(u)) :
              \/ Linked(splitAt', Tree(u), subtrees[u], i)
              \/ \E v \in Worker : working[v] = u /\ Pending(stack'[v], i)
      <4> SUFFICES ASSUME NEW i \in 1 .. Len(Tree(u))
                   PROVE  \/ Linked(splitAt', Tree(u), subtrees[u], i)
                          \/ \E v \in Worker : working[v] = u /\ Pending(stack'[v], i)
        OBVIOUS
      <4>1. CASE Linked(splitAt, Tree(u), subtrees[u], i)
        BY <3>4, <4>1
      <4>2. ASSUME NEW v \in Worker, working[v] = u, Pending(stack[v], i)
            PROVE  working[v] = u /\ Pending(stack'[v], i)
        BY <3>3, <4>2
      <4> QED BY <3>2, <4>1, <4>2
    <3> QED BY <3>1, <3>2, <3>5
  <2> QED BY <2>1, <2>2
<1>10. FreshInv'
  <2>1. \A u \in nextTask .. Len(tasks), s \in DOMAIN splitAt' : Apart(splitAt', s, Of(u))
    BY DEF OthersStay
  <2> QED BY <1>4, <1>5, <2>1 DEF FreshInv
<1>11. FoldInv'
  <2>1. folded = 0
    BY <1>1 DEF BuildInv, FoldInv
  <2> QED BY <1>4, <2>1 DEF FoldInv
<1>12. LeafInv'
  <2>1. \A v \in Worker : \A k \in 1 .. Len(stack'[v]) : Nested(stack'[v][k])
    <3> SUFFICES ASSUME NEW v \in Worker, NEW k \in 1 .. Len(stack'[v]) PROVE Nested(stack'[v][k])
      OBVIOUS
    <3>1. CASE v = w
      BY <1>4, <3>1 DEF SubtreeStep
    <3>2. CASE v # w
      BY <1>2, <1>4, <3>2 DEF LeafInv
    <3> QED BY <3>1, <3>2
  <2>2. ASSUME MaxDepth >= Refs, ~aborted', NEW u \in 1 .. Len(tasks),
                 NEW i \in 1 .. Len(subtrees'[u])
        PROVE  Fits(subtrees'[u][i])
    <3>1. CASE u = t
      BY <1>4, <2>2, <3>1 DEF SubtreeStep
    <3>2. CASE u # t
      BY <1>2, <1>4, <2>2, <3>2 DEF LeafInv
    <3> QED BY <3>1, <3>2
  <2>3. MaxDepth >= Refs /\ ~aborted' => \A i \in 1 .. Len(nodes) : Fits(nodes[i])
    BY <1>2, <1>4 DEF LeafInv
  <2> QED BY <1>2, <1>4, <2>1, <2>2, <2>3 DEF LeafInv
<1>13. SubtreeInv' /\ LevelInv'
  BY <1>4, <1>7, <1>8, <1>9, <1>10 DEF SubtreeInv, LevelInv
<1> QED BY <1>6, <1>11, <1>12, <1>13 DEF BuildInv

\* Before any subtree is folded in, there are the levels alone.
LEMMA SofarNone ==
    ASSUME Build!BuildAssumption, NEW at, Proper(at), NEW g, g = <<>>
    PROVE  Up(at, TaskDepth + 1) \o Build!FlattenSeq(g) = Up(at, TaskDepth + 1)
<1>1. TaskDepth + 1 \in 0 .. TaskDepth + 1
  BY Params
<1>2. Up(at, TaskDepth + 1) \in Seq(Span)
  BY <1>1, UpIs
<1>3. Build!FlattenSeq(g) = <<>>
  BY FlatEmpty, SameFlat
<1> QED BY <1>2, <1>3, ConcatEmptySeq

\* The node is a leaf.
LEMMA LeafStep ==
    ASSUME Build!BuildAssumption, BuildInv, phase = "subtrees", NEW w, NEW t, NEW q, NEW r, NEW R, NEW N, NEW T,
           NodeFacts(w, t, q, r, R, N, T),
           UNCHANGED <<phase, nodes, tasks, depth, splits, nextTask, working, folded, splitAt>>,
           ~aborted' => ~aborted, MaxDepth >= Refs /\ ~aborted' => Fits(Build!Leaf(r)),
           subtrees' = [subtrees EXCEPT ![t] = [N EXCEPT ![r.node] = Build!Leaf(r)]],
           stack' = [stack EXCEPT ![w] = Tail(q)]
    PROVE  BuildInv'
<1>1. PICK N2 : N2 = [N EXCEPT ![r.node] = Build!Leaf(r)]
  OBVIOUS
<1>2. PICK q2 : q2 = Tail(q)
  OBVIOUS
<1>3. Later
  BY DEF Later
<1>4. /\ Proper(splitAt) /\ TasksAt(TaskDepth) /\ NodesInv /\ FreshInv /\ LeafInv /\ TypeInv
      /\ DOMAIN subtrees = 1 .. Len(tasks)
  BY <1>3, LaterIs
<1>5. /\ w \in Worker /\ t \in 1 .. Len(tasks) /\ t < nextTask /\ working[w] = t /\ stack[w] = q
      /\ q \in Seq(Task) /\ Len(q) \in Nat /\ Len(q) > 0 /\ q # <<>> /\ r \in Task /\ r = q[1]
      /\ R = Build!RangeOf(r) /\ R \in Span /\ R.from = r.from /\ R.to = r.to
      /\ R \notin DOMAIN splitAt
      /\ r.node \in 1 .. Len(T) /\ T[r.node] = R
      /\ N = subtrees[t] /\ T = Tree(t)
      /\ Array(N) /\ Len(N) = Len(T) /\ Len(T) \in Nat
      /\ OnStack(splitAt, Of(t), T, q)
      /\ \A i \in 1 .. Len(T) : Linked(splitAt, T, N, i) \/ Pending(q, i)
  BY DEF NodeFacts
<1>6. Build!Leaf(r) \in Node /\ Build!Leaf(r).left = 0 /\ Build!Leaf(r) = Build!Leaf(R)
  BY <1>5 DEF Build!Leaf, Node, Task
<1>7. ArraySets(N2, N, r.node, Build!Leaf(r))
  <2>1. /\ DOMAIN N2 = DOMAIN N /\ N2 = [k \in DOMAIN N2 |-> N2[k]]
        /\ \A k \in DOMAIN N : N2[k] = IF k = r.node THEN Build!Leaf(r) ELSE N[k]
    BY <1>1
  <2>2. r.node \in 1 .. Len(N) /\ Build!Leaf(r).left < Len(N)
    BY <1>5, <1>6
  <2> QED BY <1>5, <1>6, <2>1, <2>2, ArraySet
<1>8. /\ Array(N2) /\ Len(N2) = Len(T) /\ N2[r.node] = Build!Leaf(r)
      /\ \A i \in 1 .. Len(T) : i # r.node => N2[i] = N[i]
  BY <1>5, <1>7 DEF ArraySets
<1>9. q2 \in Seq(Task) /\ Len(q2) = Len(q) - 1 /\ \A k \in 1 .. Len(q2) : q2[k] = q[k + 1]
        /\ k + 1 \in 1 .. Len(q)
  <2>1. q2 \in Seq(Task) /\ Len(q2) = Len(q) - 1 /\ \A k \in 1 .. Len(q2) : q2[k] = q[k + 1]
    BY <1>2, <1>5, HeadTailProperties
  <2> QED BY <1>5, <2>1
<1>10. StepsTo(w, t, N2, q2, T)
  <2>1. stack \in [Worker -> Seq(Task)]
    BY <1>4 DEF TypeInv
  <2>2. subtrees' = [subtrees EXCEPT ![t] = N2] /\ stack' = [stack EXCEPT ![w] = q2]
    BY <1>1, <1>2
  <2> QED BY <1>4, <1>5, <1>9, <2>1, <2>2 DEF StepsTo
<1>11. splitAt' = splitAt /\ (\A u : Of(u)' = Of(u)) /\ \A f : Sofar(f)' = Sofar(f)
  <2>1. \A u : Of(u)' = Of(u)
    BY DEF Of
  <2> QED BY <2>1, Zenon DEF Sofar
<1>12. TasksAt(TaskDepth)' /\ NodesInv'
  <2>1. TasksAt(TaskDepth)'
    BY <1>4, <1>11, Zenon DEF TasksAt
  <2>2. NodesInv'
    BY <1>4, <1>11 DEF NodesInv
  <2> QED BY <2>1, <2>2
<1>13. \A i \in 1 .. Len(T) : Linked(splitAt, T, N2, i) \/ Pending(q2, i)
  <2> SUFFICES ASSUME NEW i \in 1 .. Len(T) PROVE Linked(splitAt, T, N2, i) \/ Pending(q2, i)
    OBVIOUS
  <2>1. CASE i = r.node
    BY <1>5, <1>6, <1>8, <2>1 DEF Linked
  <2>2. CASE i # r.node
    <3>1. N[i] = N2[i]
      BY <1>8, <2>2
    <3>2. CASE Linked(splitAt, T, N, i)
      BY <3>1, <3>2, LinkedPlace
    <3>3. CASE Pending(q, i)
      <4>1. PICK k \in 1 .. Len(q) : q[k].node = i
        BY <3>3 DEF Pending
      <4>2. k # 1
        BY <1>5, <2>2, <4>1
      <4>3. k - 1 \in 1 .. Len(q2) /\ k - 1 + 1 = k
        BY <1>5, <1>9, <4>2
      <4>4. q2[k - 1].node = i
        BY <1>9, <4>1, <4>3
      <4> QED BY <4>3, <4>4 DEF Pending
    <3> QED BY <1>5, <3>2, <3>3
  <2> QED BY <2>1, <2>2
<1>14. SubtreeStep(t, N2, q2, T)
  <2>1. OnStack(splitAt, Of(t), T, q2)
    BY <1>2, <1>5, OnStackTail
  <2>2. \A k \in 1 .. Len(q2) : Nested(q2[k])
    <3>1. \A k \in 1 .. Len(q) : Nested(q[k])
      BY <1>4, <1>5 DEF LeafInv
    <3> QED BY <1>9, <3>1
  <2>3. ASSUME MaxDepth >= Refs, ~aborted', NEW i \in 1 .. Len(N2) PROVE Fits(N2[i])
    <3>1. CASE i = r.node
      BY <1>8, <2>3, <3>1
    <3>2. CASE i # r.node
      <4>1. Fits(N[i])
        BY <1>4, <1>5, <1>8, <2>3 DEF LeafInv, Later
      <4> QED BY <1>8, <2>3, <3>2, <4>1
    <3> QED BY <3>1, <3>2
  <2> QED BY <1>8, <1>11, <1>13, <2>1, <2>2, <2>3 DEF SubtreeStep
<1>15. OthersStay(t)
  <2>1. \A u \in nextTask .. Len(tasks), s \in DOMAIN splitAt : Apart(splitAt, s, Of(u))
    BY <1>4 DEF FreshInv
  <2>2. \A u : TreeOf(splitAt, Of(u)) = Tree(u)
    BY DEF Tree
  <2> QED BY <1>11, <2>1, <2>2 DEF OthersStay
<1>16. TreeOf(splitAt', Of(t)) = T
  BY <1>5, <1>11 DEF Tree
<1>17. Proper(splitAt')
  BY <1>4, <1>11
<1> QED BY <1>10, <1>12, <1>14, <1>15, <1>16, <1>17, NodeStep

\* The node is split: the private array has its two halves behind.
LEMMA ExtendedArray ==
    ASSUME Build!BuildAssumption, NEW N, Array(N), NEW n \in 1 .. Len(N), NEW N2,
           N2 = [N EXCEPT ![n] = Build!Inner(Len(N) + 1)]
             \o <<Build!Placeholder, Build!Placeholder>>
    PROVE  /\ Array(N2) /\ Len(N2) = Len(N) + 2 /\ N2[n] = Build!Inner(Len(N) + 1)
           /\ \A i \in 1 .. Len(N) : i # n => N2[i] = N[i]
           /\ N2[Len(N) + 1] = Build!Placeholder /\ N2[Len(N) + 2] = Build!Placeholder
<1>0. PICK l : l = Len(N)
  OBVIOUS
<1>1. N \in Seq(Node) /\ l \in Nat /\ DOMAIN N = 1 .. l /\ \A i \in 1 .. l : N[i] \in Node
        /\ N[i].left < l
  BY <1>0, LenProperties, ElementOfSeq DEF Array
<1>2. PICK x : x = Build!Inner(l + 1)
  OBVIOUS
<1>3. x \in Node /\ x.left = l + 1
  BY <1>1, <1>2, InnerIs
<1>4. PICK a : a = [N EXCEPT ![n] = x]
  OBVIOUS
<1>5. a \in Seq(Node) /\ Len(a) = l /\ a[n] = x /\ \A i \in 1 .. l : i # n => a[i] = N[i]
  <2>1. a \in [1 .. l -> Node] /\ a[n] = x /\ \A i \in 1 .. l : i # n => a[i] = N[i]
    <3>1. DOMAIN a = DOMAIN N /\ a = [i \in DOMAIN a |-> a[i]] /\ \A i \in DOMAIN N : a[i] = IF i
            = n THEN x ELSE N[i]
      BY <1>4
    <3>2. a = [i \in 1 .. l |-> a[i]]
      BY <1>1, <3>1, Zenon
    <3>3. \A i \in 1 .. l : a[i] \in Node
      BY <1>1, <1>3, <3>1
    <3>4. n \in 1 .. l
      BY <1>0
    <3> QED BY <1>1, <3>1, <3>2, <3>3, <3>4
  <2>2. a \in Seq(Node) /\ Len(a) = l
    <3>1. l \in Nat /\ a \in [1 .. l -> Node]
      BY <1>1, <2>1
    <3> QED BY ONLY <3>1
  <2> QED BY <2>1, <2>2
<1>6. PICK b : b = <<Build!Placeholder, Build!Placeholder>>
  OBVIOUS
<1>7. b \in Seq(Node) /\ Len(b) = 2 /\ b[1] = Build!Placeholder /\ b[2] = Build!Placeholder
  BY <1>6, InnerIs
<1>8. N2 = a \o b
  BY <1>0, <1>2, <1>4, <1>6
<1>9. /\ N2 \in Seq(Node) /\ Len(N2) = l + 2
      /\ \A i \in 1 .. l + 2 : N2[i] = IF i <= l THEN a[i] ELSE b[i - l]
  <2>1. a \in Seq(Node) /\ b \in Seq(Node)
    BY <1>5, <1>7
  <2>2. /\ a \o b \in Seq(Node) /\ Len(a \o b) = Len(a) + Len(b)
        /\ \A i \in 1 .. Len(a) + Len(b) : (a \o b)[i] = IF i <= Len(a) THEN a[i] ELSE b[i - Len(a)]
    BY <2>1, ConcatProperties
  <2> QED BY <1>5, <1>7, <1>8, <2>2
<1>10. N2[l + 1] = Build!Placeholder /\ N2[l + 2] = Build!Placeholder
  <2> SUFFICES ASSUME NEW j \in 1 .. 2 PROVE N2[l + j] = Build!Placeholder
    <3>1. 1 \in 1 .. 2 /\ 2 \in 1 .. 2
      OBVIOUS
    <3> QED BY <3>1, Zenon
  <2>1. PICK m : m = l + j
    OBVIOUS
  <2>2. m \in 1 .. l + 2 /\ ~(m <= l) /\ m - l = j
    BY <1>1, <2>1
  <2>3. N2[m] = b[m - l]
    BY <1>9, <2>2
  <2>4. b[j] = Build!Placeholder
    <3>1. j = 1 \/ j = 2
      OBVIOUS
    <3> QED BY <1>7, <3>1
  <2> QED BY <2>1, <2>2, <2>3, <2>4
<1>11. \A i \in 1 .. l : i \in 1 .. l + 2 /\ i <= l
  BY <1>1
<1>12. N2[n] = x /\ \A i \in 1 .. l : i # n => N2[i] = N[i]
  BY <1>0, <1>5, <1>9, <1>11
<1>13. \A i \in 1 .. l + 2 : N2[i].left < l + 2
  <2> SUFFICES ASSUME NEW i \in 1 .. l + 2 PROVE N2[i].left < l + 2
    OBVIOUS
  <2>1. CASE i = n
    BY <1>1, <1>3, <1>12, <2>1
  <2>2. CASE i # n /\ i \in 1 .. l
    <3>1. N[i].left \in Nat /\ N[i].left < l
      BY <1>1, <2>2 DEF Node
    <3> QED BY <1>1, <1>12, <2>2, <3>1
  <2>3. CASE i = l + 1 \/ i = l + 2
    BY <1>1, <1>10, <2>3, InnerIs
  <2>4. i \in 1 .. l \/ i = l + 1 \/ i = l + 2
    <3>1. l \in Nat
      BY <1>1
    <3> QED BY ONLY <3>1, i \in 1 .. l + 2
  <2> QED BY ONLY <2>1, <2>2, <2>3, <2>4
<1> QED BY <1>0, <1>2, <1>9, <1>10, <1>12, <1>13 DEF Array

\* What is below a range, when the last one that can be in it is split.
LEMMA TreeGrows ==
    ASSUME Build!BuildAssumption, NEW at, NEW bt, NEW r, NEW mid, NEW R, Proper(at), r \in Span,
             R \in Span,
           r \notin DOMAIN at, mid \in r.from + 1 .. r.to - 1, Grown(at, bt, r, mid),
             r \in Nodes(at, R),
           \A s \in DOMAIN at : Apart(at, s, r) /\ (Inside(s, R) => s.from <= r.from)
    PROVE  ExtendedIs(at, TreeOf(at, R), r, mid, TreeOf(bt, R))
<1>1. PICK T : T = TreeOf(at, R)
  OBVIOUS
<1>2. PICK V : V = TreeOf(bt, R)
  OBVIOUS
<1>3. PICK c : c = Build!Children(bt, r)
  OBVIOUS
<1>4. PICK u : u = Build!Under(at, R)
  OBVIOUS
<1>5. /\ Proper(bt) /\ DOMAIN bt = DOMAIN at \cup {r} /\ bt[r] = mid
      /\ (\A s \in DOMAIN at : bt[s] = at[s])
      /\ \A s : s # r => Build!Children(bt, s) = Build!Children(at, s)
  BY DEF Grown
<1>6. Build!Under(bt, R) = u \o c
  <2>1. Inside(R, R)
    BY SpanIs DEF Inside
  <2>2. (\A s \in DOMAIN at : Apart(at, s, r)) /\ \A s \in DOMAIN at : Inside(s, R)
          => s.from <= r.from
    OBVIOUS
  <2>3. \A Q \in Span : r \in Nodes(at, Q) /\ Inside(Q, R)
                          => Build!Under(bt, Q) = Build!Under(at, Q) \o Build!Children(bt, r)
    BY <1>5, <2>2, UnderGrows
  <2> QED BY <1>3, <1>4, <2>1, <2>3
<1>7. u \in Seq(Span)
  BY <1>4, UnderIs
<1>8. PICK A : A = [from |-> r.from, to |-> mid]
  OBVIOUS
<1>9. PICK B : B = [from |-> mid, to |-> r.to]
  OBVIOUS
<1>10. A \in Span /\ B \in Span
  BY <1>8, <1>9, CutIs
<1>11. c = <<A, B>>
  BY <1>3, <1>5, <1>8, <1>9 DEF Build!Children
<1>12. c \in Seq(Span) /\ Len(c) = 2 /\ c[1] = A /\ c[2] = B
  BY <1>10, <1>11
<1>13. PICK x : x = <<R>>
  OBVIOUS
<1>14. x \in Seq(Span)
  BY <1>13
<1>15. T = x \o u /\ V = x \o (u \o c)
  BY <1>1, <1>2, <1>4, <1>6, <1>13 DEF TreeOf
<1>16. T \in Seq(Span) /\ V = T \o c
  <2>1. T \in Seq(Span)
    BY <1>7, <1>14, <1>15, ConcatProperties
  <2>2. x \in Seq(Span) /\ u \in Seq(Span) /\ c \in Seq(Span)
    BY <1>7, <1>12, <1>14
  <2>3. (x \o u) \o c = x \o (u \o c)
    BY ONLY <2>2, ConcatAssociative, SMTT(60)
  <2> QED BY <1>15, <2>1, <2>3
<1>17. /\ Len(T) \in Nat /\ Len(V) = Len(T) + Len(c)
       /\ (\A p \in 1 .. Len(T) : V[p] = T[p]) /\ \A p \in 1 .. Len(c) : V[Len(T) + p] = c[p]
  <2>1. Joins(T, c, T \o c)
    BY <1>12, <1>16, JoinsIs
  <2> QED BY <1>16, <2>1 DEF Joins
<1>18. 1 \in 1 .. Len(c) /\ 2 \in 1 .. Len(c)
  BY <1>12
<1>19. ExtendedIs(at, T, r, mid, V)
  BY <1>8, <1>9, <1>10, <1>12, <1>17, <1>18 DEF ExtendedIs
<1> QED BY <1>1, <1>2, <1>19

\* The nodes of the levels, when a range below them is split.
LEMMA LevelsStay ==
    ASSUME Build!BuildAssumption, Proper(splitAt), tasks \in Seq(Task), TasksAt(TaskDepth),
             NodesInv, folded = 0,
           NEW R, NEW mid, R \in Span, R \notin Elements(Up(splitAt, TaskDepth)),
             Grown(splitAt, splitAt', R, mid),
           UNCHANGED <<tasks, nodes, folded>>
    PROVE  TasksAt(TaskDepth)' /\ NodesInv'
<1>1. PICK U : U = Up(splitAt, TaskDepth + 1)
  OBVIOUS
<1>2. /\ Proper(splitAt') /\ DOMAIN splitAt' = DOMAIN splitAt \cup {R}
      /\ \A s : s # R => Build!Children(splitAt', s) = Build!Children(splitAt, s)
  BY DEF Grown
<1>3. TaskDepth \in 0 .. TaskDepth /\ tasks' = tasks /\ nodes' = nodes /\ folded' = 0
        /\ Len(tasks) \in Nat
  BY Params, LenProperties
<1>4. TasksAt(TaskDepth)' /\ Up(splitAt', TaskDepth + 1) = U
  <2>1. TasksAt(TaskDepth)' /\ Up(splitAt, TaskDepth + 1)' = Up(splitAt, TaskDepth + 1)
    BY <1>2, <1>3, TasksStay
  <2> QED BY <1>1, <2>1
<1>5. Sofar(folded) = U
  <2>1. [k \in 1 .. folded |-> Build!Under(splitAt, Of(k))] = <<>>
    OBVIOUS
  <2> QED BY <1>1, <2>1, SofarNone DEF Sofar
<1>6. Sofar(folded)' = U
  <2>1. [k \in 1 .. folded' |-> Build!Under(splitAt', Of(k)')] = <<>>
    BY <1>3
  <2>2. Up(splitAt', TaskDepth + 1)
          \o Build!FlattenSeq([k \in 1 .. folded' |-> Build!Under(splitAt', Of(k)')])
            = Up(splitAt', TaskDepth + 1)
    BY <1>2, <2>1, SofarNone
  <2>3. Sofar(folded)' = Up(splitAt', TaskDepth + 1)
          \o Build!FlattenSeq([k \in 1 .. folded' |-> Build!Under(splitAt', Of(k)')])
    BY DEF Sofar
  <2> QED BY <1>4, <2>2, <2>3
<1>7. ASSUME NEW i \in 1 .. Len(U)
      PROVE  Linked(splitAt', U, nodes, i) \/ \E t \in 1 .. Len(tasks) : i = tasks[t].node
  <2>1. Linked(splitAt, U, nodes, i) \/ \E t \in 1 .. Len(tasks) : i = tasks[t].node
    BY <1>5 DEF NodesInv
  <2>2. CASE Linked(splitAt, U, nodes, i) /\ U[i] # R
    BY <1>2, <2>2, LinkedSame
  <2>3. CASE U[i] = R
    <3>1. PICK a : a = Up(splitAt, TaskDepth)
      OBVIOUS
    <3>2. PICK b : b = Build!Levels(splitAt)[TaskDepth]
      OBVIOUS
    <3>3. U = a \o b /\ a \in Seq(Span) /\ b \in Seq(Span)
      <4>1. TaskDepth \in 0 .. TaskDepth + 1
        BY Params
      <4> QED BY <1>1, <1>3, <3>1, <3>2, <4>1, UpIs, LevelIs
    <3>4. Joins(a, b, U)
      BY <3>3, JoinsIs
    <3>5. i \notin 1 .. Len(a)
      <4>1. SUFFICES ASSUME i \in 1 .. Len(a) PROVE FALSE
        OBVIOUS
      <4>2. a[i] = R
        BY <2>3, <3>4, <4>1 DEF Joins
      <4> QED BY <3>1, <4>1, <4>2 DEF Elements
    <3>6. PICK k \in 1 .. Len(b) : i = Len(a) + k
      BY <3>4, <3>5 DEF Joins
    <3>7. k \in 1 .. Len(tasks) /\ tasks[k].node = Len(a) + k
      BY <3>1, <3>2, <3>6 DEF TasksAt
    <3> QED BY <3>6, <3>7
  <2> QED BY <2>1, <2>2, <2>3
<1>8. NodesInv'
  <2>1. Len(nodes') = Len(Sofar(folded)')
    BY <1>3, <1>5, <1>6 DEF NodesInv
  <2>2. \A i \in 1 .. Len(Sofar(folded)') :
          \/ Linked(splitAt', Sofar(folded)', nodes', i)
          \/ \E t \in folded' + 1 .. Len(tasks') : i = tasks'[t].node
    BY <1>3, <1>6, <1>7
  <2> QED BY <2>1, <2>2 DEF NodesInv
<1> QED BY <1>4, <1>8

\* The other subtrees, when a range of subtree t is split.
LEMMA ForkOthers ==
    ASSUME Build!BuildAssumption, BuildInv, phase = "subtrees", NEW w, NEW t, NEW q, NEW r, NEW R, NEW N, NEW T,
           NodeFacts(w, t, q, r, R, N, T), NEW mid, mid \in R.from + 1 .. R.to - 1,
             Grown(splitAt, splitAt', R, mid)
    PROVE  OthersStay(t)
<1>1. Later
  BY DEF Later
<1>2. /\ Proper(splitAt) /\ FreshInv /\ Len(tasks) \in Nat /\ nextTask \in 1 .. Len(tasks) + 1
      /\ nextTask \in Nat
      /\ t \in 1 .. Len(tasks) /\ t < nextTask
      /\ R \in Span /\ R \notin DOMAIN splitAt
      /\ \A u \in 1 .. Len(tasks) : u # t => Of(u) \in Span /\ Disjoint(R, Of(u))
                                      /\ ~Inside(R, Of(u))
  BY <1>1, LaterIs DEF NodeFacts
<1>3. /\ Proper(splitAt') /\ DOMAIN splitAt' = DOMAIN splitAt \cup {R} /\ splitAt'[R] = mid
      /\ (\A s \in DOMAIN splitAt : splitAt'[s] = splitAt[s])
      /\ \A s : s # R => Build!Children(splitAt', s) = Build!Children(splitAt, s)
  BY DEF Grown
<1>4. ASSUME NEW u \in 1 .. Len(tasks), u # t
      PROVE  /\ TreeOf(splitAt', Of(u)) = Tree(u)
             /\ \A s : OnStack(splitAt, Of(u), Tree(u), s) => OnStack(splitAt', Of(u), Tree(u), s)
             /\ \A i \in 1 .. Len(Tree(u)) :
                 Linked(splitAt, Tree(u), subtrees[u], i)
                   => Linked(splitAt', Tree(u), subtrees[u], i)
  <2>1. Of(u) \in Span /\ Disjoint(R, Of(u)) /\ ~Inside(R, Of(u))
    BY <1>2, <1>4
  <2>2. Build!Under(splitAt', Of(u)) = Build!Under(splitAt, Of(u))
    BY <1>2, <1>3, <2>1, UnderSame
  <2>3. TreeOf(splitAt', Of(u)) = Tree(u)
    BY <2>2, Zenon DEF Tree, TreeOf
  <2>4. \A s : OnStack(splitAt, Of(u), Tree(u), s) => OnStack(splitAt', Of(u), Tree(u), s)
    BY <1>2, <2>1, OnStackOther
  <2>5. ASSUME NEW i \in 1 .. Len(Tree(u)), Linked(splitAt, Tree(u), subtrees[u], i)
        PROVE  Linked(splitAt', Tree(u), subtrees[u], i)
    <3>1. Inside(Tree(u)[i], Of(u))
      BY <1>1, LaterIs
    <3>2. Tree(u)[i] # R
      BY <2>1, <3>1
    <3> QED BY <1>3, <2>5, <3>2, LinkedSame
  <2> QED BY <2>3, <2>4, <2>5
<1>5. ASSUME NEW u \in nextTask .. Len(tasks), NEW s \in DOMAIN splitAt'
               PROVE Apart(splitAt', s, Of(u))
  <2>1. u \in 1 .. Len(tasks) /\ u # t
    BY <1>2
  <2>2. CASE s = R
    BY <1>2, <2>1, <2>2 DEF Apart
  <2>3. CASE s \in DOMAIN splitAt
    BY <1>2, <1>3, <2>3 DEF FreshInv, Apart
  <2> QED BY <1>3, <2>2, <2>3
<1> QED BY <1>4, <1>5 DEF OthersStay

\* The node is split in two.
LEMMA ForkStep ==
    ASSUME Build!BuildAssumption, BuildInv, phase = "subtrees", NEW w, NEW t, NEW q, NEW r, NEW R, NEW N, NEW T,
           NodeFacts(w, t, q, r, R, N, T), NEW mid, mid \in R.from + 1 .. R.to - 1,
             splitAt' = Grow(splitAt, R, mid),
           UNCHANGED <<phase, nodes, tasks, depth, splits, nextTask, working, folded>>, ~aborted' => ~aborted,
           NEW N2, N2 = [N EXCEPT ![r.node] = Build!Inner(Len(N) + 1)]
             \o <<Build!Placeholder, Build!Placeholder>>,
           subtrees' = [subtrees EXCEPT ![t] = N2],
             stack' = [stack EXCEPT ![w] = Forked(q, Len(N) + 1, mid)]
    PROVE  BuildInv'
<1>1. PICK n : n = Len(T)
  OBVIOUS
<1>2. PICK q2 : q2 = Forked(q, n + 1, mid)
  OBVIOUS
<1>3. PICK V : V = TreeOf(splitAt', Of(t))
  OBVIOUS
<1>4. Later
  BY DEF Later
<1>5. /\ Proper(splitAt) /\ TasksAt(TaskDepth) /\ NodesInv /\ FreshInv /\ LeafInv /\ TypeInv
      /\ DOMAIN subtrees = 1 .. Len(tasks) /\ tasks \in Seq(Task)
  BY <1>4, LaterIs
<1>6. /\ w \in Worker /\ t \in 1 .. Len(tasks) /\ t < nextTask /\ working[w] = t /\ stack[w] = q
      /\ q \in Seq(Task) /\ Len(q) \in Nat /\ Len(q) > 0 /\ q # <<>> /\ r \in Task /\ r = q[1]
      /\ Nested(r)
      /\ R = Build!RangeOf(r) /\ R \in Span /\ R.from = r.from /\ R.to = r.to
      /\ R \notin DOMAIN splitAt
      /\ r.node \in 1 .. n /\ T[r.node] = R /\ (\A p \in 1 .. n : p # r.node => T[p] # R)
      /\ N = subtrees[t] /\ T = Tree(t) /\ T \in Seq(Span)
      /\ Array(N) /\ Len(N) = n /\ n \in Nat /\ Of(t) \in Span
      /\ OnStack(splitAt, Of(t), T, q)
      /\ (\A i \in 1 .. n : Linked(splitAt, T, N, i) \/ Pending(q, i))
      /\ (\A s \in DOMAIN splitAt : Apart(splitAt, s, R) /\ (Inside(s, Of(t)) => s.from <= R.from))
      /\ R \in Nodes(splitAt, Of(t)) /\ R \notin Elements(Up(splitAt, TaskDepth))
  BY <1>1 DEF NodeFacts
<1>7. Grown(splitAt, splitAt', R, mid)
  BY <1>5, <1>6, GrownIs
<1>8. /\ Proper(splitAt') /\ DOMAIN splitAt' = DOMAIN splitAt \cup {R} /\ splitAt'[R] = mid
      /\ (\A s \in DOMAIN splitAt : splitAt'[s] = splitAt[s])
      /\ \A s : s # R => Build!Children(splitAt', s) = Build!Children(splitAt, s)
  BY <1>7 DEF Grown
<1>9. ExtendedIs(splitAt, T, R, mid, V)
  <2>1. T = TreeOf(splitAt, Of(t))
    BY <1>6 DEF Tree
  <2> QED BY <1>3, <1>5, <1>6, <1>7, <2>1, TreeGrows
<1>10. /\ Len(V) = n + 2 /\ (\A p \in 1 .. n : V[p] = T[p])
       /\ V[n + 1] = [from |-> R.from, to |-> mid] /\ V[n + 2] = [from |-> mid, to |-> R.to]
  BY <1>1, <1>9 DEF ExtendedIs
<1>11. ForkedIs(q, n + 1, mid, q2)
  <2>1. n + 1 \in Nat \ {0} /\ mid \in q[1].from + 1 .. q[1].to - 1
    BY <1>6
  <2> QED BY <1>2, <1>6, <2>1, ForkedAre
<1>12. /\ q2 \in Seq(Task) /\ Len(q2) = Len(q) + 1 /\ q2[1].node = n + 1 /\ q2[2].node = n + 2
       /\ (\A k \in 2 .. Len(q) : q2[k + 1] = q[k]) /\ Nested(q2[1]) /\ Nested(q2[2])
  <2>1. n + 1 + 1 = n + 2
    BY <1>6
  <2> QED BY <1>6, <1>11, <2>1 DEF ForkedIs
<1>13. OnStack(splitAt', Of(t), V, q2)
  BY <1>1, <1>5, <1>6, <1>7, <1>9, <1>11, OnStackFork
<1>14. /\ Array(N2) /\ Len(N2) = n + 2 /\ N2[r.node] = Build!Inner(n + 1)
       /\ (\A i \in 1 .. n : i # r.node => N2[i] = N[i])
       /\ N2[n + 1] = Build!Placeholder /\ N2[n + 2] = Build!Placeholder
  <2>1. Array(N) /\ r.node \in 1 .. Len(N)
    BY <1>6
  <2>2. /\ Array(N2) /\ Len(N2) = Len(N) + 2 /\ N2[r.node] = Build!Inner(Len(N) + 1)
        /\ \A i \in 1 .. Len(N) : i # r.node => N2[i] = N[i]
        /\ N2[Len(N) + 1] = Build!Placeholder /\ N2[Len(N) + 2] = Build!Placeholder
    BY <2>1, ExtendedArray, ZenonT(60)
  <2> QED BY <1>6, <2>2
<1>15. StepsTo(w, t, N2, q2, V)
  <2>1. stack \in [Worker -> Seq(Task)] /\ stack' = [stack EXCEPT ![w] = q2]
    BY <1>2, <1>5, <1>6 DEF TypeInv
  <2> QED BY <1>5, <1>6, <1>12, <2>1, SMTT(40) DEF StepsTo
<1>16. TasksAt(TaskDepth)' /\ NodesInv'
  <2>1. folded = 0
    BY <1>4 DEF BuildInv, FoldInv
  <2> QED BY <1>5, <1>6, <1>7, <2>1, LevelsStay
<1>17. OthersStay(t)
  BY <1>7, ForkOthers
<1>18. \A i \in 1 .. Len(V) : Linked(splitAt', V, N2, i) \/ Pending(q2, i)
  <2> SUFFICES ASSUME NEW i \in 1 .. Len(V) PROVE Linked(splitAt', V, N2, i) \/ Pending(q2, i)
    OBVIOUS
  <2>1. CASE i = r.node
    <3>1. V[i] = R /\ R \in DOMAIN splitAt'
      BY <1>6, <1>8, <1>10, <2>1
    <3>2. n + 1 \in 1 .. Len(V) - 1 /\ n + 1 + 1 = n + 2 /\ N2[i] = Build!Inner(n + 1)
      BY <1>6, <1>10, <1>14, <2>1, SMTT(40)
    <3>3. Build!Children(splitAt', R) = <<V[n + 1], V[n + 1 + 1]>>
      BY <1>8, <1>10, <3>1, <3>2 DEF Build!Children
    <3> QED BY <3>1, <3>2, <3>3 DEF Linked
  <2>2. CASE i # r.node /\ i \in 1 .. n
    <3>1. N2[i] = N[i] /\ T[i] # R
      BY <1>6, <1>14, <2>2
    <3>2. CASE Linked(splitAt, T, N, i)
      <4>1. Linked(splitAt', T, N, i)
        BY <1>8, <3>1, <3>2, LinkedSame
      <4>2. Len(T) \in Nat /\ Len(V) \in Nat /\ Len(T) <= Len(V) /\ i \in 1 .. Len(T)
            /\ \A p \in 1 .. Len(T) : V[p] = T[p]
        BY <1>1, <1>6, <1>10, <2>2
      <4> QED BY <3>1, <4>1, <4>2, LinkedLonger
    <3>3. CASE Pending(q, i)
      <4>1. PICK k \in 1 .. Len(q) : q[k].node = i
        BY <3>3 DEF Pending
      <4>2. k # 1
        BY <1>6, <2>2, <4>1
      <4>3. k \in 2 .. Len(q) /\ k + 1 \in 1 .. Len(q2)
        BY <1>6, <1>12, <4>2
      <4>4. q2[k + 1].node = i
        BY <1>12, <4>1, <4>3
      <4> QED BY <4>3, <4>4 DEF Pending
    <3> QED BY <1>6, <2>2, <3>2, <3>3
  <2>3. CASE i = n + 1 \/ i = n + 2
    <3>1. 1 \in 1 .. Len(q2) /\ 2 \in 1 .. Len(q2)
      BY <1>6, <1>12
    <3> QED BY <1>12, <2>3, <3>1 DEF Pending
  <2> QED BY <1>6, <1>10, <2>1, <2>2, <2>3
<1>19. \A k \in 1 .. Len(q2) : Nested(q2[k])
  <2> SUFFICES ASSUME NEW k \in 1 .. Len(q2) PROVE Nested(q2[k])
    OBVIOUS
  <2>1. CASE k = 1 \/ k = 2
    BY <1>12, <2>1
  <2>2. CASE k # 1 /\ k # 2
    <3>1. k - 1 \in 2 .. Len(q) /\ k - 1 + 1 = k /\ k - 1 \in 1 .. Len(q)
      BY <1>6, <1>12, <2>2
    <3>2. q2[k] = q[k - 1]
      BY <1>12, <3>1
    <3>3. Nested(q[k - 1])
      BY <1>5, <1>6, <3>1 DEF LeafInv
    <3> QED BY <3>2, <3>3
  <2> QED BY <2>1, <2>2
<1>20. ASSUME MaxDepth >= Refs, ~aborted', NEW i \in 1 .. Len(N2) PROVE Fits(N2[i])
  <2>1. CASE i = r.node
    BY <1>6, <1>14, <2>1, InnerIs
  <2>2. CASE i # r.node /\ i \in 1 .. n
    <3>1. Fits(N[i])
      BY <1>5, <1>6, <1>20, <2>2 DEF LeafInv, Later
    <3> QED BY <1>14, <2>2, <3>1
  <2>3. CASE i = n + 1 \/ i = n + 2
    BY <1>14, <2>3, InnerIs
  <2>4. i \in 1 .. n \/ i = n + 1 \/ i = n + 2
    <3>1. n \in Nat /\ Len(N2) = n + 2
      BY <1>6, <1>14
    <3> QED BY ONLY <3>1, i \in 1 .. Len(N2)
  <2> QED BY ONLY <2>1, <2>2, <2>3, <2>4
<1>21. SubtreeStep(t, N2, q2, V)
  BY <1>10, <1>13, <1>14, <1>18, <1>19, <1>20 DEF SubtreeStep
<1> QED BY <1>3, <1>8, <1>15, <1>16, <1>17, <1>21, NodeStep

\* Building a node keeps the invariant.
LEMMA BuildBuild == ASSUME Build!BuildAssumption, BuildInv, NEW w \in Worker, Build!BuildNode(w)
  PROVE BuildInv'
<1>1. PICK t : t = working[w]
  OBVIOUS
<1>2. PICK q : q = stack[w]
  OBVIOUS
<1>3. PICK r : r = q[1]
  OBVIOUS
<1>4. PICK R : R = Build!RangeOf(r)
  OBVIOUS
<1>5. PICK N : N = subtrees[t]
  OBVIOUS
<1>6. PICK T : T = Tree(t)
  OBVIOUS
<1>7. phase = "subtrees" /\ working[w] # 0 /\ stack[w] # <<>>
      /\ UNCHANGED <<phase, nodes, tasks, depth, splits, nextTask, working, folded>>
  BY DEF Build!BuildNode, Build!buildVars
<1>8. NodeFacts(w, t, q, r, R, N, T)
  BY <1>1, <1>2, <1>3, <1>4, <1>5, <1>6, <1>7, NodeIs
<1>9. Head(q) = r /\ r \in Task /\ Nested(r) /\ R.from = r.from /\ R.to = r.to
  BY <1>8 DEF NodeFacts
<1>10. PICK mid \in Build!Middles(r) :
         /\ Build!Noted(r, mid)
         /\ IF mid = r.to
            THEN /\ subtrees' = [subtrees EXCEPT ![t][r.node] = Build!Leaf(r)]
                 /\ stack' = [stack EXCEPT ![w] = Tail(@)]
            ELSE /\ subtrees'
                    = [subtrees EXCEPT ![t] = [N EXCEPT ![r.node] = Build!Inner(Len(N) + 1)]
                                                            \o <<Build!Placeholder, Build!Placeholder>>]
                 /\ stack' = [stack EXCEPT ![w] = Build!Halves(r, Len(N) + 1, mid) \o Tail(@)]
  BY <1>1, <1>2, <1>5, <1>9 DEF Build!BuildNode
<1>11. /\ mid = r.to => splitAt' = splitAt /\ (MaxDepth >= Refs /\ ~aborted' => Fits(Build!Leaf(r)))
       /\ mid # r.to => mid \in r.from + 1 .. r.to - 1 /\ splitAt' = Grow(splitAt, R, mid)
       /\ ~aborted' => ~aborted
  BY <1>4, <1>9, <1>10, MiddleIs
<1>12. CASE mid = r.to
  <2>1. subtrees' = [subtrees EXCEPT ![t] = [N EXCEPT ![r.node] = Build!Leaf(r)]]
          /\ stack' = [stack EXCEPT ![w] = Tail(q)]
    BY <1>2, <1>5, <1>10, <1>12
  <2>2. /\ UNCHANGED <<phase, nodes, tasks, depth, splits, nextTask, working, folded, splitAt>>
        /\ ~aborted' => ~aborted
        /\ MaxDepth >= Refs /\ ~aborted' => Fits(Build!Leaf(r))
    BY <1>7, <1>11, <1>12
  <2> QED BY <1>7, <1>8, <2>1, <2>2, LeafStep
<1>13. CASE mid # r.to
  <2>1. PICK N2 : N2 = [N EXCEPT ![r.node] = Build!Inner(Len(N) + 1)]
          \o <<Build!Placeholder, Build!Placeholder>>
    OBVIOUS
  <2>2. subtrees' = [subtrees EXCEPT ![t] = N2]
          /\ stack' = [stack EXCEPT ![w] = Forked(q, Len(N) + 1, mid)]
    BY <1>2, <1>3, <1>10, <1>13, <2>1 DEF Forked
  <2>3. mid \in R.from + 1 .. R.to - 1 /\ splitAt' = Grow(splitAt, R, mid)
          /\ (~aborted' => ~aborted)
    BY <1>9, <1>11, <1>13
  <2> QED BY <1>7, <1>8, <2>1, <2>2, <2>3, ForkStep
<1> QED BY <1>12, <1>13

\* Leaving a built subtree keeps the invariant: nothing of it is on a stack.
LEMMA BuiltBuild == ASSUME Build!BuildAssumption, BuildInv, NEW w \in Worker, Build!TaskBuilt(w)
  PROVE BuildInv'
<1>1. /\ phase = "subtrees" /\ working[w] # 0 /\ stack[w] = <<>> /\ working' = [working EXCEPT ![w] = 0]
      /\ UNCHANGED <<phase, nodes, tasks, depth, splits, nextTask, stack, subtrees, folded, token, aborted, splitAt>>
  BY DEF Build!TaskBuilt, Build!buildVars
<1>2. Later
  BY <1>1 DEF Later
<1>3. /\ Proper(splitAt) /\ TasksAt(TaskDepth) /\ tasks \in Seq(Task) /\ Len(tasks) \in Nat
      /\ DOMAIN subtrees = 1 .. Len(tasks) /\ nextTask \in 1 .. Len(tasks) + 1 /\ nextTask \in Nat
      /\ WorkerInv /\ StackInv /\ TreesInv /\ FreshInv /\ NodesInv /\ LeafInv /\ TypeInv
  BY <1>2, LaterIs
<1>4. /\ working' \in [Worker -> 0 .. Len(tasks)] /\ working'[w] = 0
      /\ \A v \in Worker : v # w => working'[v] = working[v]
  <2>1. working \in [Worker -> 0 .. Len(tasks)] /\ 0 \in 0 .. Len(tasks)
    BY <1>3 DEF TypeInv
  <2> QED BY <1>1, <2>1
<1>5. (\A u : Of(u)' = Of(u) /\ Tree(u)' = Tree(u)) /\ \A f : Sofar(f)' = Sofar(f)
  <2>1. \A u : Of(u)' = Of(u)
    BY <1>1 DEF Of
  <2> QED BY <1>1, <2>1, Zenon DEF Tree, Sofar
<1>6. TypeInv'
  BY <1>1, <1>3, <1>4 DEF TypeInv
<1>7. TasksAt(TaskDepth)'
  BY <1>1, <1>3, <1>5, Zenon DEF TasksAt
<1>8. WorkerInv'
  <2>1. 0 < nextTask
    BY <1>3
  <2> QED BY <1>1, <1>3, <1>4, <2>1 DEF WorkerInv
<1>9. StackInv'
  <2> SUFFICES ASSUME NEW v \in Worker
               PROVE  OnStack(splitAt', Of(working[v])', Tree(working[v])', stack'[v])
    BY DEF StackInv
  <2>1. CASE v = w
    <3>1. Len(stack'[v]) = 0
      BY <1>1, <2>1
    <3> QED BY <3>1 DEF OnStack
  <2>2. CASE v # w
    <3>1. OnStack(splitAt, Of(working[v]), Tree(working[v]), stack[v])
      BY <1>3 DEF StackInv
    <3>2. working'[v] = working[v]
      BY <1>4, <2>2
    <3>3. Of(working[v])' = Of(working[v])
      BY <1>1, <3>2 DEF Of
    <3>4. Tree(working[v])' = Tree(working[v])
      BY <1>1, <3>3, Zenon DEF Tree
    <3> QED BY <1>1, <3>1, <3>3, <3>4
  <2> QED BY <2>1, <2>2
<1>10. TreesInv'
  <2>1. ASSUME NEW u \in 1 .. nextTask - 1
        PROVE  /\ Len(subtrees[u]) = Len(Tree(u))
               /\ \A i \in 1 .. Len(Tree(u)) :
                    \/ Linked(splitAt, Tree(u), subtrees[u], i)
                    \/ \E v \in Worker : working'[v] = u /\ Pending(stack[v], i)
    <3>1. Len(subtrees[u]) = Len(Tree(u))
      BY <1>3 DEF TreesInv
    <3>2. ASSUME NEW i \in 1 .. Len(Tree(u)), NEW v \in Worker, working[v] = u, Pending(stack[v], i)
          PROVE  working'[v] = u
      <4>1. Len(stack[v]) # 0
        BY <3>2 DEF Pending
      <4>2. v # w
        BY <1>1, <4>1
      <4> QED BY <1>4, <3>2, <4>2
    <3>3. \A i \in 1 .. Len(Tree(u)) :
                    \/ Linked(splitAt, Tree(u), subtrees[u], i)
                    \/ \E v \in Worker : working[v] = u /\ Pending(stack[v], i)
      BY <1>3 DEF TreesInv
    <3> QED BY <3>1, <3>2, <3>3
  <2>2. nextTask' = nextTask /\ subtrees' = subtrees /\ stack' = stack /\ splitAt' = splitAt
    BY <1>1
  <2> QED BY <1>5, <2>1, <2>2 DEF TreesInv
<1>11. FreshInv'
  BY <1>1, <1>3, <1>5 DEF FreshInv
<1>12. FoldInv'
  <2>1. NodesInv'
    BY <1>1, <1>3, <1>5 DEF NodesInv
  <2>2. folded = 0
    BY <1>1, <1>2 DEF BuildInv, FoldInv
  <2> QED BY <1>1, <2>1, <2>2 DEF FoldInv
<1>13. LeafInv'
  BY <1>1, <1>3 DEF LeafInv
<1>14. SubtreeInv' /\ LevelInv'
  BY <1>1, <1>7, <1>8, <1>9, <1>10, <1>11 DEF SubtreeInv, LevelInv
<1> QED BY <1>1, <1>3, <1>6, <1>12, <1>13, <1>14 DEF BuildInv

\* What depends on the subtrees and the levels alone, while neither changes.
LEMMA Unmoved ==
    ASSUME BuildInv, Later, UNCHANGED <<tasks, nextTask, working, stack, subtrees, splitAt>>
    PROVE  /\ TasksAt(TaskDepth)' /\ WorkerInv' /\ StackInv' /\ TreesInv' /\ FreshInv'
           /\ Proper(splitAt')
           /\ \A f : Sofar(f)' = Sofar(f)
<1>1. TasksAt(TaskDepth) /\ WorkerInv /\ StackInv /\ TreesInv /\ FreshInv /\ Proper(splitAt)
  BY DEF BuildInv, SubtreeInv
<1>2. (\A u : Of(u)' = Of(u) /\ Tree(u)' = Tree(u)) /\ \A f : Sofar(f)' = Sofar(f)
  <2>1. \A u : Of(u)' = Of(u)
    BY DEF Of
  <2> QED BY <2>1, Zenon DEF Tree, Sofar
<1>3. TasksAt(TaskDepth)'
  BY <1>1, <1>2, Zenon DEF TasksAt
<1>4. WorkerInv'
  BY <1>1 DEF WorkerInv
<1>5. StackInv'
  <2> SUFFICES ASSUME NEW v \in Worker
               PROVE  OnStack(splitAt', Of(working[v])', Tree(working[v])', stack'[v])
    BY DEF StackInv
  <2>1. OnStack(splitAt, Of(working[v]), Tree(working[v]), stack[v])
    BY <1>1 DEF StackInv
  <2>2. Of(working[v])' = Of(working[v])
    BY DEF Of
  <2>3. Tree(working[v])' = Tree(working[v])
    BY <2>2, Zenon DEF Tree
  <2> QED BY <2>1, <2>2, <2>3
<1>6. TreesInv' /\ FreshInv'
  <2>1. TreesInv'
    BY <1>1, <1>2 DEF TreesInv
  <2>2. FreshInv'
    BY <1>1, <1>2 DEF FreshInv
  <2> QED BY <2>1, <2>2
<1> QED BY <1>1, <1>2, <1>3, <1>4, <1>5, <1>6

\* Giving up, or going on to the fold, keeps the invariant.
LEMMA GivesUpBuild == ASSUME Build!BuildAssumption, BuildInv, Build!GivesUp PROVE BuildInv'
<1>1. /\ phase = "subtrees" /\ nextTask > Len(tasks) /\ (\A w \in Worker : working[w] = 0)
      /\ IF aborted THEN phase' = "cancelled" /\ nodes' = <<>> ELSE phase' = "fold" /\ nodes' = nodes
      /\ UNCHANGED <<tasks, depth, splits, nextTask, working, stack, subtrees, folded, token, aborted, splitAt>>
  BY DEF Build!GivesUp, Build!Joined, Build!workVars
<1>2. Later
  BY <1>1 DEF Later
<1>3. /\ Proper(splitAt) /\ Len(tasks) \in Nat /\ NodesInv /\ LeafInv /\ TypeInv
      /\ nextTask \in 1 .. Len(tasks) + 1 /\ nextTask \in Nat
  BY <1>2, LaterIs
<1>4. /\ TasksAt(TaskDepth)' /\ WorkerInv' /\ StackInv' /\ TreesInv' /\ FreshInv'
      /\ Proper(splitAt')
      /\ \A f : Sofar(f)' = Sofar(f)
  BY <1>1, <1>2, Unmoved
<1>5. nextTask = Len(tasks) + 1
  BY <1>1, <1>3
<1>6. CASE aborted
  <2>1. Array(nodes') /\ Len(nodes') = 0
    <3>1. <<>> \in Seq(Node) /\ Len(<<>>) = 0
      OBVIOUS
    <3> QED BY <1>1, <1>6, <3>1 DEF Array
  <2>2. TypeInv'
    BY <1>1, <1>3, <1>6, <2>1 DEF TypeInv
  <2>3. LeafInv'
    BY <1>1, <1>3, <1>6, <2>1 DEF LeafInv
  <2>4. SubtreeInv' /\ LevelInv' /\ FoldInv'
    BY <1>1, <1>6 DEF SubtreeInv, LevelInv, FoldInv, Later
  <2> QED BY <1>4, <2>2, <2>3, <2>4 DEF BuildInv
<1>7. CASE ~aborted
  <2>1. TypeInv'
    BY <1>1, <1>3, <1>7 DEF TypeInv
  <2>2. LeafInv'
    BY <1>1, <1>3, <1>7 DEF LeafInv
  <2>3. NodesInv'
    BY <1>1, <1>3, <1>4, <1>7 DEF NodesInv
  <2>4. FoldInv'
    BY <1>1, <1>5, <1>7, <2>3 DEF FoldInv
  <2>5. SubtreeInv' /\ LevelInv'
    BY <1>1, <1>4, <1>7 DEF SubtreeInv, LevelInv
  <2> QED BY <1>4, <2>1, <2>2, <2>4, <2>5 DEF BuildInv
<1> QED BY <1>6, <1>7

\* The end of the fold keeps the invariant.
LEMMA FoldedBuild == ASSUME Build!BuildAssumption, BuildInv, Build!Folded PROVE BuildInv'
<1>1. /\ phase = "fold" /\ folded = Len(tasks) /\ phase' = "done"
      /\ UNCHANGED <<nodes, tasks, depth, splits, nextTask, working, stack, subtrees, folded, token, aborted, splitAt>>
  BY DEF Build!Folded, Build!buildVars, Build!workVars
<1>2. Later
  BY <1>1 DEF Later
<1>3. Proper(splitAt) /\ NodesInv /\ LeafInv /\ TypeInv
  BY <1>2, LaterIs
<1>4. /\ TasksAt(TaskDepth)' /\ WorkerInv' /\ StackInv' /\ TreesInv' /\ FreshInv'
      /\ Proper(splitAt')
      /\ \A f : Sofar(f)' = Sofar(f)
  BY <1>1, <1>2, Unmoved
<1>5. TypeInv'
  BY <1>1, <1>3 DEF TypeInv
<1>6. LeafInv'
  BY <1>1, <1>3 DEF LeafInv
<1>7. NodesInv'
  BY <1>1, <1>3, <1>4 DEF NodesInv
<1>8. FoldInv'
  BY <1>1, <1>2, <1>7 DEF FoldInv, BuildInv
<1>9. SubtreeInv' /\ LevelInv'
  BY <1>1, <1>4 DEF SubtreeInv, LevelInv
<1> QED BY <1>4, <1>5, <1>6, <1>8, <1>9 DEF BuildInv

-----------------------------------------------------------------------------
(* The fold *)

\* relink(): a leaf stays as it is, a link is moved.
LEMMA RelinkedIs ==
    ASSUME NEW x \in Node, NEW by \in Nat
    PROVE  /\ Build!Shifted(x, by) \in Node /\ Build!Shifted(x, by).left \in Nat
           /\ Build!Shifted(x, by).left <= x.left + by
           /\ x.left \in Nat /\ (Fits(x) => Fits(Build!Shifted(x, by)))
           /\ \A R : x = Build!Leaf(R) => Build!Shifted(x, by) = x
           /\ \A l \in Nat \ {0} : x = Build!Inner(l) => Build!Shifted(x, by) = Build!Inner(l + by)
<1>1. x.left \in Nat /\ x.from \in 0 .. Refs /\ x.to \in 0 .. Refs
      /\ x = [left |-> x.left, from |-> x.from, to |-> x.to]
  BY DEF Node
<1>2. \A R : x = Build!Leaf(R) => x.left = 0
  BY DEF Build!Leaf
<1>3. CASE x.left = 0
  <2>1. Build!Shifted(x, by) = x
    BY <1>3 DEF Build!Shifted
  <2>2. \A l \in Nat \ {0} : x # Build!Inner(l)
    BY <1>3 DEF Build!Inner
  <2> QED BY <1>1, <2>1, <2>2
<1>4. CASE x.left # 0
  <2>1. PICK y : y = [left |-> x.left + by, from |-> x.from, to |-> x.to]
    OBVIOUS
  <2>2. Build!Shifted(x, by) = y
    <3>1. [x EXCEPT !.left = @ + by] = y
      BY <1>1, <2>1
    <3> QED BY <1>4, <3>1 DEF Build!Shifted
  <2>3. y \in Node /\ y.left = x.left + by /\ y.from = x.from /\ y.to = x.to
    <3>1. x.left + by \in Nat
      BY <1>1
    <3> QED BY <1>1, <2>1, <3>1 DEF Node
  <2>4. Fits(x) => Fits(y)
    BY <2>3 DEF Fits
  <2>5. \A l \in Nat \ {0} : x = Build!Inner(l) => y = Build!Inner(l + by)
    BY <2>1 DEF Build!Inner
  <2> QED BY <1>1, <1>2, <1>4, <2>2, <2>3, <2>4, <2>5
<1> QED BY <1>3, <1>4

\* A node of a subtree is linked in the whole as it was in the private array.
LEMMA ShiftedLink ==
    ASSUME Build!BuildAssumption, NEW at, Proper(at), NEW Q \in Span, NEW T, T \in Seq(Span),
             Len(T) \in Nat,
           T[1] = Q, \A k \in 1 .. Len(T) : Inside(T[k], Q), NEW L, Array(L), Len(L) = Len(T),
           NEW i \in 1 .. Len(T), Linked(at, T, L, i),
           NEW S, NEW n \in Nat \ {0}, Len(S) = n - 1 + Len(T), \A k \in 2 .. Len(T) : S[n - 1 + k]
             = T[k],
           NEW M, NEW p, S[p] = T[i], M[p] = Build!Shifted(L[i], n - 1)
    PROVE  Linked(at, S, M, p)
<1>1. L[i] \in Node /\ n - 1 \in Nat /\ T[i] \in Span
  BY ElementOfSeq DEF Array
<1>2. CASE T[i] \notin DOMAIN at
  <2>1. L[i] = Build!Leaf(T[i])
    BY <1>2 DEF Linked
  <2>2. M[p] = Build!Leaf(S[p])
    BY <1>1, <2>1, RelinkedIs
  <2> QED BY <1>2, <2>2 DEF Linked
<1>3. CASE T[i] \in DOMAIN at
  <2>1. PICK l \in 1 .. Len(T) - 1 : L[i] = Build!Inner(l) /\ Build!Children(at, T[i])
          = <<T[l], T[l + 1]>>
    BY <1>3 DEF Linked
  <2>2. l \in Nat \ {0} /\ l \in 1 .. Len(T) /\ l + 1 \in 2 .. Len(T)
    OBVIOUS
  <2>3. l # 1
    <3>1. PICK r \in Span : r = T[i]
      BY <1>1
    <3>2. at[r] \in r.from + 1 .. r.to - 1
      BY <1>3, <3>1 DEF Proper
    <3>3. T[l] = [from |-> r.from, to |-> at[r]]
      BY <1>3, <2>1, <3>1 DEF Build!Children
    <3>4. T[l].to = at[r]
      BY <3>3
    <3>5. r.to \in Nat /\ r.from \in Nat /\ Q.to \in Nat /\ r.to <= Q.to
      BY <3>1, SpanIs DEF Inside
    <3>6. at[r] # Q.to
      BY <3>2, <3>5
    <3> QED BY <3>4, <3>6
  <2>4. l \in 2 .. Len(T)
    BY <2>2, <2>3
  <2>5. M[p] = Build!Inner(l + (n - 1))
    BY <1>1, <2>1, <2>2, RelinkedIs
  <2>6. S[n - 1 + l] = T[l] /\ S[n - 1 + (l + 1)] = T[l + 1]
    BY <2>2, <2>4
  <2>7. PICK m : m = l + (n - 1)
    OBVIOUS
  <2>8. n - 1 + l = m /\ n - 1 + (l + 1) = m + 1 /\ m \in 1 .. Len(S) - 1
    BY <2>2, <2>7
  <2>9. Build!Children(at, S[p]) = <<S[m], S[m + 1]>>
    BY <2>1, <2>6, <2>8
  <2> QED BY <1>3, <2>5, <2>7, <2>8, <2>9 DEF Linked
<1> QED BY <1>2, <1>3

\* The nodes when the subtree L is folded into place n of N.
FoldedIs(N, n, L, M) ==
    /\ Array(M) /\ Len(M) = Len(N) + (Len(L) - 1) /\ M[n] = Build!Shifted(L[1], Len(N) - 1)
    /\ \A i \in 1 .. Len(N) : i # n => M[i] = N[i]
    /\ \A k \in 1 .. Len(L) - 1 : M[Len(N) + k] = Build!Shifted(L[k + 1], Len(N) - 1)

\* The nodes with a subtree folded in are an array.
LEMMA FoldedArray ==
    ASSUME NEW N, Array(N), NEW n \in 1 .. Len(N), NEW L, Array(L), Len(L) \in Nat \ {0}, NEW M,
           M = [N EXCEPT ![n] = Build!Shifted(L[1], Len(N) - 1)]
                   \o [k \in 1 .. Len(L) - 1 |-> Build!Shifted(L[k + 1], Len(N) - 1)]
    PROVE  FoldedIs(N, n, L, M)
<1>0. PICK l : l = Len(N)
  OBVIOUS
<1>00. PICK m : m = Len(L) - 1
  OBVIOUS
<1>1. N \in Seq(Node) /\ l \in Nat /\ l # 0 /\ DOMAIN N = 1 .. l /\ n \in 1 .. l
      /\ \A i \in 1 .. l : N[i] \in Node /\ N[i].left < l
  BY <1>0, LenProperties, ElementOfSeq DEF Array
<1>2. m \in Nat /\ Len(L) = m + 1 /\ \A i \in 1 .. m + 1 : L[i] \in Node /\ L[i].left < m + 1
  BY <1>00, LenProperties, ElementOfSeq DEF Array
<1>3. PICK by \in Nat : by = l - 1
  BY <1>1
<1>4. \A i \in 1 .. m + 1 : Build!Shifted(L[i], by) \in Node /\ Build!Shifted(L[i], by).left < l + m
  <2> SUFFICES ASSUME NEW i \in 1 .. m + 1 PROVE Build!Shifted(L[i], by) \in Node
                        /\ Build!Shifted(L[i], by).left < l + m
    OBVIOUS
  <2>1. L[i] \in Node /\ L[i].left < m + 1
    BY <1>2
  <2>2. /\ Build!Shifted(L[i], by) \in Node /\ Build!Shifted(L[i], by).left \in Nat
        /\ Build!Shifted(L[i], by).left <= L[i].left + by
        /\ L[i].left \in Nat
    BY <2>1, RelinkedIs
  <2> QED BY <1>1, <1>2, <1>3, <2>1, <2>2
<1>5. PICK x : x = Build!Shifted(L[1], by)
  OBVIOUS
<1>6. x \in Node /\ x.left < l + m
  <2>1. 1 \in 1 .. m + 1
    BY <1>2
  <2> QED BY <1>4, <1>5, <2>1
<1>7. PICK a : a = [N EXCEPT ![n] = x]
  OBVIOUS
<1>8. a \in Seq(Node) /\ Len(a) = l /\ a[n] = x /\ \A i \in 1 .. l : i # n => a[i] = N[i]
  <2>1. a \in [1 .. l -> Node] /\ a[n] = x /\ \A i \in 1 .. l : i # n => a[i] = N[i]
    <3>1. DOMAIN a = DOMAIN N /\ a = [i \in DOMAIN a |-> a[i]] /\ \A i \in DOMAIN N : a[i] = IF i
            = n THEN x ELSE N[i]
      BY <1>7
    <3>2. a = [i \in 1 .. l |-> a[i]]
      BY <1>1, <3>1, Zenon
    <3>3. \A i \in 1 .. l : a[i] \in Node
      BY <1>1, <1>6, <3>1
    <3> QED BY <1>1, <3>1, <3>2, <3>3
  <2>2. a \in Seq(Node) /\ Len(a) = l
    <3>1. l \in Nat /\ a \in [1 .. l -> Node]
      BY <1>1, <2>1
    <3> QED BY ONLY <3>1
  <2> QED BY <2>1, <2>2
<1>9. PICK b : b = [k \in 1 .. m |-> Build!Shifted(L[k + 1], by)]
  OBVIOUS
<1>10. b \in Seq(Node) /\ Len(b) = m /\ \A k \in 1 .. m : b[k] = Build!Shifted(L[k + 1], by)
  <2>1. \A k \in 1 .. m : b[k] = Build!Shifted(L[k + 1], by)
    BY <1>9
  <2>2. \A k \in 1 .. m : k + 1 \in 1 .. m + 1
    BY <1>2
  <2>3. \A k \in 1 .. m : b[k] \in Node
    BY <1>4, <2>1, <2>2
  <2>4. b = [k \in 1 .. m |-> b[k]]
    BY <1>9, <2>1, Zenon
  <2>5. b \in [1 .. m -> Node]
    BY <2>3, <2>4
  <2>6. b \in Seq(Node) /\ Len(b) = m
    BY <1>2, <2>5
  <2> QED BY <2>1, <2>6
<1>11. M = a \o b
  <2>1. Len(N) - 1 = by /\ Len(L) - 1 = m
    BY <1>0, <1>00, <1>3
  <2> QED BY <1>5, <1>7, <1>9, <2>1
<1>12. /\ M \in Seq(Node) /\ Len(M) = l + m
       /\ \A i \in 1 .. l + m : M[i] = IF i <= l THEN a[i] ELSE b[i - l]
  <2>1. a \in Seq(Node) /\ b \in Seq(Node)
    BY <1>8, <1>10
  <2>2. /\ a \o b \in Seq(Node) /\ Len(a \o b) = Len(a) + Len(b)
        /\ \A i \in 1 .. Len(a) + Len(b) : (a \o b)[i] = IF i <= Len(a) THEN a[i] ELSE b[i - Len(a)]
    BY <2>1, ConcatProperties
  <2> QED BY <1>8, <1>10, <1>11, <2>2
<1>13. \A i \in 1 .. l : M[i] = a[i]
  <2>1. \A i \in 1 .. l : i \in 1 .. l + m /\ i <= l
    BY <1>1, <1>2
  <2> QED BY <1>12, <2>1
<1>14. ASSUME NEW k \in 1 .. m PROVE M[l + k] = Build!Shifted(L[k + 1], by)
  <2>1. PICK i : i = l + k
    OBVIOUS
  <2>2. i \in 1 .. l + m /\ ~(i <= l) /\ i - l = k
    BY <1>1, <1>2, <2>1
  <2>3. M[i] = b[i - l]
    BY <1>12, <2>2
  <2> QED BY <1>10, <2>1, <2>2, <2>3
<1>15. ASSUME NEW i \in 1 .. l + m PROVE M[i].left < l + m
  <2>1. CASE i \in 1 .. l /\ i # n
    <3>1. N[i].left \in Nat /\ N[i].left < l
      BY <1>1, <2>1 DEF Node
    <3> QED BY <1>1, <1>2, <1>8, <1>13, <2>1, <3>1
  <2>2. CASE i = n
    BY <1>1, <1>6, <1>8, <1>13, <2>2
  <2>3. CASE i \notin 1 .. l
    <3>1. PICK k : k = i - l
      OBVIOUS
    <3>2. k \in 1 .. m /\ k + 1 \in 1 .. m + 1 /\ l + k = i
      BY <1>1, <1>2, <2>3, <3>1
    <3>3. M[i] = Build!Shifted(L[k + 1], by)
      BY <1>14, <3>2
    <3> QED BY <1>4, <3>2, <3>3
  <2> QED BY <2>1, <2>2, <2>3
<1>16. Array(M)
  BY <1>12, <1>15 DEF Array
<1>17. Len(L) - 1 = m /\ Len(N) - 1 = by
  BY <1>0, <1>00, <1>3
<1> QED BY <1>0, <1>1, <1>5, <1>8, <1>12, <1>13, <1>14, <1>16, <1>17 DEF FoldedIs

\* The layout with one more subtree.
LEMMA SofarNext ==
    ASSUME Build!BuildAssumption, BuildInv, Later, NEW n \in Nat, n + 1 \in 1 .. Len(tasks)
    PROVE  /\ Sofar(n) \in Seq(Span) /\ Build!Under(splitAt, Of(n + 1)) \in Seq(Span)
           /\ Sofar(n + 1) = Sofar(n) \o Build!Under(splitAt, Of(n + 1))
           /\ Len(Sofar(n)) \in Nat
           /\ \E q \in Seq(Span) : Sofar(n) = Up(splitAt, TaskDepth + 1) \o q
<1>1. PICK F : F = [k \in 1 .. Len(tasks) |-> Build!Under(splitAt, Of(k))]
  OBVIOUS
<1>2. PICK U : U = Up(splitAt, TaskDepth + 1)
  OBVIOUS
<1>3. Proper(splitAt) /\ Len(tasks) \in Nat
  BY LaterIs
<1>4. U \in Seq(Span)
  <2>1. TaskDepth + 1 \in 0 .. TaskDepth + 1
    BY Params
  <2> QED BY <1>2, <1>3, <2>1, UpIs
<1>5. \A k \in 1 .. Len(tasks) : F[k] \in Seq(Span) /\ F[k] = Build!Under(splitAt, Of(k))
  <2> SUFFICES ASSUME NEW k \in 1 .. Len(tasks) PROVE F[k] \in Seq(Span)
                        /\ F[k] = Build!Under(splitAt, Of(k))
    OBVIOUS
  <2>1. F[k] = Build!Under(splitAt, Of(k))
    BY <1>1
  <2> QED BY <2>1, LaterIs
<1>6. \A k \in 1 .. n + 1 : k \in 1 .. Len(tasks) /\ F[k] \in Seq(Span)
  <2>1. \A k \in 1 .. n + 1 : k \in 1 .. Len(tasks)
    BY <1>3
  <2> QED BY <1>5, <2>1
<1>7. PICK a : a = Build!FlattenSeq([k \in 1 .. n |-> F[k]])
  OBVIOUS
<1>8. PICK b : b = Build!FlattenSeq([k \in 1 .. n + 1 |-> F[k]])
  OBVIOUS
<1>9. a \in Seq(Span) /\ b = a \o F[n + 1]
  BY <1>6, <1>7, <1>8, FlatStep, SameFlat
<1>10. Sofar(n) = U \o a /\ Sofar(n + 1) = U \o b
  <2>1. \A k \in 1 .. n : k \in 1 .. n + 1
    OBVIOUS
  <2>2. [k \in 1 .. n |-> F[k]] = [k \in 1 .. n |-> Build!Under(splitAt, Of(k))]
    BY <1>5, <1>6, <2>1, Zenon
  <2>3. [k \in 1 .. n + 1 |-> F[k]] = [k \in 1 .. n + 1 |-> Build!Under(splitAt, Of(k))]
    BY <1>5, <1>6, Zenon
  <2> QED BY <1>2, <1>7, <1>8, <2>2, <2>3 DEF Sofar
<1>11. PICK c : c = F[n + 1]
  OBVIOUS
<1>12. c \in Seq(Span) /\ c = Build!Under(splitAt, Of(n + 1))
  BY <1>5, <1>11
<1>13. U \o (a \o c) = (U \o a) \o c
  BY ONLY <1>4, <1>9, <1>12, ConcatAssociative, SMTT(60)
<1>14. U \o a \in Seq(Span) /\ Len(U \o a) \in Nat
  <2>1. U \o a \in Seq(Span)
    BY <1>4, <1>9, ConcatProperties
  <2> QED BY <2>1, LenProperties
<1>15. Sofar(n + 1) = Sofar(n) \o c
  BY <1>9, <1>10, <1>11, <1>13
<1> QED BY <1>2, <1>9, <1>10, <1>12, <1>14, <1>15

\* All the subtrees are built: each node is linked, and the root is the task's range.
LEMMA BuiltTree ==
    ASSUME Build!BuildAssumption, BuildInv, Later, nextTask = Len(tasks) + 1,
             \A w \in Worker : working[w] = 0,
           NEW f \in 1 .. Len(tasks), NEW i \in 1 .. Len(Tree(f))
    PROVE  Linked(splitAt, Tree(f), subtrees[f], i) /\ Len(subtrees[f]) = Len(Tree(f))
<1>1. TreesInv /\ f \in 1 .. nextTask - 1 /\ f # 0
  BY LaterIs
<1> QED BY <1>1 DEF TreesInv

\* Folding in a subtree keeps the invariant: its nodes are at the place of its ranges.
LEMMA FoldBuild == ASSUME Build!BuildAssumption, BuildInv, Build!Fold PROVE BuildInv'
<1>1. PICK f : f = folded + 1
  OBVIOUS
<1>2. PICK n : n = Len(nodes)
  OBVIOUS
<1>3. PICK L : L = subtrees[f]
  OBVIOUS
<1>4. PICK y : y = tasks[f].node
  OBVIOUS
<1>5. /\ phase = "fold" /\ folded < Len(tasks) /\ folded' = f
      /\ nodes' = [nodes EXCEPT ![y] = Build!Shifted(L[1], n - 1)]
                        \o [k \in 1 .. Len(L) - 1 |-> Build!Shifted(L[k + 1], n - 1)]
      /\ UNCHANGED <<phase, tasks, depth, splits, nextTask, working, stack, subtrees, token, aborted, splitAt>>
  BY <1>1, <1>2, <1>3, <1>4 DEF Build!Fold, Build!workVars
<1>6. Later
  BY <1>5 DEF Later
<1>7. /\ Proper(splitAt) /\ TasksAt(TaskDepth) /\ tasks \in Seq(Task) /\ Len(tasks) \in Nat
      /\ TaskDepth \in Nat
      /\ NodesInv /\ LeafInv /\ TypeInv /\ TaskDepth \in 0 .. TaskDepth
  BY <1>6, LaterIs
<1>8. nextTask = Len(tasks) + 1 /\ \A w \in Worker : working[w] = 0
  BY <1>5, <1>6 DEF BuildInv, FoldInv
<1>9. folded \in Nat /\ f \in 1 .. Len(tasks) /\ f \in Nat /\ f - 1 = folded
        /\ folded + 1 \in 1 .. Len(tasks)
  <2>1. folded \in 0 .. Len(tasks)
    BY <1>7 DEF TypeInv
  <2> QED BY <1>1, <1>5, <1>7, <2>1
<1>10. PICK S : S = Sofar(folded)
  OBVIOUS
<1>11. PICK U : U = Build!Under(splitAt, Of(f))
  OBVIOUS
<1>12. PICK T : T = Tree(f)
  OBVIOUS
<1>13. PICK Z : Z = S \o U
  OBVIOUS
<1>14. PICK M : M = nodes'
  OBVIOUS
<1>15. /\ S \in Seq(Span) /\ U \in Seq(Span) /\ Sofar(folded + 1) = Z /\ Len(S) \in Nat
       /\ \E q \in Seq(Span) : S = Up(splitAt, TaskDepth + 1) \o q
  BY <1>1, <1>6, <1>9, <1>10, <1>11, <1>13, SofarNext
<1>16. Joins(S, U, Z)
  BY <1>13, <1>15, JoinsIs
<1>17. /\ T \in Seq(Span) /\ Len(T) = Len(U) + 1 /\ T[1] = Of(f) /\ Of(f) \in Span /\ Len(U) \in Nat
       /\ Len(T) \in Nat \ {0} /\ Array(L) /\ (\A k \in 1 .. Len(U) : T[k + 1] = U[k])
       /\ \A k \in 1 .. Len(T) : Inside(T[k], Of(f))
  BY <1>3, <1>6, <1>9, <1>11, <1>12, LaterIs
<1>18. Len(L) = Len(T) /\ \A i \in 1 .. Len(T) : Linked(splitAt, T, L, i)
  <2>1. 1 \in 1 .. Len(T)
    BY <1>17
  <2> QED BY <1>3, <1>6, <1>8, <1>9, <1>12, <2>1, BuiltTree
<1>19. n = Len(S) /\ n \in Nat
       /\ \A i \in 1 .. n : Linked(splitAt, S, nodes, i) \/ \E t \in f .. Len(tasks) : i
                              = tasks[t].node
  BY <1>1, <1>2, <1>10, <1>15, <1>7 DEF NodesInv
<1>20. y \in 1 .. n /\ S[y] = Of(f) /\ \A t \in 1 .. Len(tasks) : t # f => tasks[t].node # y
  <2>1. PICK a : a = Up(splitAt, TaskDepth)
    OBVIOUS
  <2>2. PICK b : b = Build!Levels(splitAt)[TaskDepth]
    OBVIOUS
  <2>3. PICK c : c = Up(splitAt, TaskDepth + 1)
    OBVIOUS
  <2>4. c = a \o b /\ a \in Seq(Span) /\ b \in Seq(Span)
    <3>1. TaskDepth \in 0 .. TaskDepth + 1
      BY <1>7
    <3> QED BY <1>7, <2>1, <2>2, <2>3, <3>1, UpIs, LevelIs
  <2>5. Joins(a, b, c)
    BY <2>4, JoinsIs
  <2>6. PICK q \in Seq(Span) : S = c \o q
    BY <1>15, <2>3
  <2>7. c \in Seq(Span) /\ Joins(c, q, S)
    <3>1. c \in Seq(Span)
      BY <2>5 DEF Joins
    <3> QED BY <2>6, <3>1, JoinsIs
  <2>8. y = Len(a) + f /\ f \in 1 .. Len(b) /\ b[f] = Of(f)
    BY <1>4, <1>7, <1>9, <2>1, <2>2 DEF TasksAt
  <2>9. Len(a) \in Nat /\ Len(b) \in Nat /\ Len(c) = Len(a) + Len(b) /\ c[Len(a) + f] = b[f]
    BY <2>5, <2>8 DEF Joins
  <2>10. y \in 1 .. Len(c) /\ c[y] = Of(f)
    BY <1>9, <2>8, <2>9
  <2>11. y \in 1 .. Len(S) /\ S[y] = c[y]
    <3>1. Len(c) \in Nat /\ Len(q) \in Nat /\ Len(S) = Len(c) + Len(q)
            /\ \A p \in 1 .. Len(c) : S[p] = c[p]
      BY <2>7 DEF Joins
    <3> QED BY <2>10, <3>1
  <2>12. \A t \in 1 .. Len(tasks) : t # f => tasks[t].node # y
    BY <1>4, <1>7, <1>9, TaskIs
  <2> QED BY <1>19, <2>10, <2>11, <2>12
<1>21. /\ Array(M) /\ Len(M) = n + (Len(L) - 1) /\ M[y] = Build!Shifted(L[1], n - 1)
       /\ (\A i \in 1 .. n : i # y => M[i] = nodes[i])
       /\ \A k \in 1 .. Len(L) - 1 : M[n + k] = Build!Shifted(L[k + 1], n - 1)
  <2>1. Array(nodes) /\ y \in 1 .. Len(nodes) /\ Len(L) \in Nat \ {0}
    BY <1>2, <1>7, <1>17, <1>18, <1>20 DEF TypeInv
  <2>2. FoldedIs(nodes, y, L, M)
    BY <1>2, <1>5, <1>14, <1>17, <2>1, FoldedArray
  <2> QED BY <1>2, <2>2 DEF FoldedIs
<1>22. /\ Len(Z) = n + Len(U) /\ Len(M) = Len(Z) /\ (\A p \in 1 .. n : Z[p] = S[p])
       /\ (\A p \in 1 .. Len(U) : Z[n + p] = U[p])
       /\ (\A p \in 1 .. Len(Z) : p \in 1 .. n \/ \E k \in 1 .. Len(U) : p = n + k)
       /\ n # 0 /\ Len(L) - 1 = Len(U)
  <2>1. n # 0
    BY <1>19, <1>20
  <2> QED BY <1>16, <1>17, <1>18, <1>19, <1>21, <2>1 DEF Joins
<1>23. ASSUME NEW p, NEW i \in 1 .. Len(T), Z[p] = T[i], M[p] = Build!Shifted(L[i], n - 1)
       PROVE  Linked(splitAt, Z, M, p)
  <2>1. \A k \in 2 .. Len(T) : Z[n - 1 + k] = T[k]
    <3> SUFFICES ASSUME NEW k \in 2 .. Len(T) PROVE Z[n - 1 + k] = T[k]
      OBVIOUS
    <3>1. PICK j : j = k - 1
      OBVIOUS
    <3>2. j \in 1 .. Len(U) /\ n - 1 + k = n + j /\ j + 1 = k
      <4>1. Len(U) \in Nat /\ Len(T) = Len(U) + 1 /\ n \in Nat /\ k \in 2 .. Len(T)
        BY <1>17, <1>19
      <4> QED BY ONLY <3>1, <4>1
    <3>3. Z[n + j] = U[j] /\ T[j + 1] = U[j]
      BY <1>17, <1>22, <3>2
    <3> QED BY ONLY <3>2, <3>3, Zenon
  <2>2. Len(Z) = n - 1 + Len(T) /\ n \in Nat \ {0} /\ Linked(splitAt, T, L, i)
    BY <1>17, <1>18, <1>19, <1>22
  <2> QED BY <1>7, <1>17, <1>18, <1>23, <2>1, <2>2, ShiftedLink, ZenonT(60)
<1>24. ASSUME NEW i \in 1 .. Len(Z)
       PROVE  Linked(splitAt, Z, M, i) \/ \E t \in f + 1 .. Len(tasks) : i = tasks[t].node
  <2>1. CASE i = y
    <3>1. 1 \in 1 .. Len(T) /\ Z[i] = T[1]
      BY <1>17, <1>20, <1>22, <2>1
    <3> QED BY <1>21, <1>23, <2>1, <3>1
  <2>2. CASE i \in 1 .. n /\ i # y
    <3>1. CASE Linked(splitAt, S, nodes, i)
      <4>1. Len(S) \in Nat /\ Len(Z) \in Nat /\ Len(S) <= Len(Z) /\ i \in 1 .. Len(S)
            /\ (\A j \in 1 .. Len(S) : Z[j] = S[j]) /\ M[i] = nodes[i]
        <5>1. n = Len(S) /\ n \in Nat /\ Len(U) \in Nat /\ Len(Z) = n + Len(U) /\ i \in 1 .. n
                /\ i # y
          BY <1>17, <1>19, <1>22, <2>2
        <5>2. (\A j \in 1 .. n : Z[j] = S[j]) /\ M[i] = nodes[i]
          BY <1>21, <1>22, <2>2
        <5>3. Len(S) \in Nat /\ Len(Z) \in Nat /\ Len(S) <= Len(Z) /\ i \in 1 .. Len(S)
          BY <5>1
        <5>4. \A j \in 1 .. Len(S) : Z[j] = S[j]
          BY <1>19, <5>2
        <5> QED BY <5>2, <5>3, <5>4
      <4> QED BY <3>1, <4>1, LinkedLonger
    <3>2. ASSUME NEW t \in f .. Len(tasks), i = tasks[t].node PROVE t \in f + 1 .. Len(tasks)
      <4>1. t # f
        BY <1>4, <2>2, <3>2
      <4> QED BY <1>7, <1>9, <4>1
    <3> QED BY <1>19, <2>2, <3>1, <3>2
  <2>3. ASSUME NEW k \in 1 .. Len(U), i = n + k PROVE Linked(splitAt, Z, M, i)
    <3>1. k + 1 \in 1 .. Len(T) /\ k \in 1 .. Len(L) - 1
      BY <1>17, <1>22
    <3>2. Z[i] = T[k + 1] /\ M[i] = Build!Shifted(L[k + 1], n - 1)
      BY <1>17, <1>21, <1>22, <2>3, <3>1
    <3> QED BY <1>23, <3>1, <3>2
  <2> QED BY <1>22, <2>1, <2>2, <2>3
<1>25. /\ TasksAt(TaskDepth)' /\ WorkerInv' /\ StackInv' /\ TreesInv' /\ FreshInv'
       /\ Proper(splitAt')
       /\ \A g : Sofar(g)' = Sofar(g)
  BY <1>5, <1>6, Unmoved
<1>26. NodesInv'
  <2>1. Sofar(folded)' = Z
    <3>1. Sofar(folded)' = Sofar(f)'
      BY <1>5 DEF Sofar
    <3>2. Sofar(f)' = Sofar(f)
      BY <1>25
    <3> QED BY <1>1, <1>15, <3>1, <3>2
  <2>2. Len(M) = Len(Z)
    BY <1>22
  <2>3. folded' = f /\ tasks' = tasks /\ splitAt' = splitAt /\ nodes' = M
    BY <1>5, <1>14
  <2> QED BY <1>24, <2>1, <2>2, <2>3 DEF NodesInv
<1>27. TypeInv'
  <2>1. f \in 0 .. Len(tasks)
    BY <1>9
  <2> QED BY <1>5, <1>7, <1>14, <1>21, <2>1 DEF TypeInv
<1>28. LeafInv'
  <2>1. ASSUME MaxDepth >= Refs, ~aborted, NEW i \in 1 .. Len(M) PROVE Fits(M[i])
    <3>0. n - 1 \in Nat
      BY <1>19, <1>22
    <3>1. ASSUME NEW k \in 1 .. Len(L) PROVE Fits(Build!Shifted(L[k], n - 1))
      <4>1. Fits(L[k]) /\ L[k] \in Node
        <5>1. L[k] \in Node
          BY <1>17, ElementOfSeq DEF Array
        <5> QED BY <1>3, <1>5, <1>7, <1>9, <2>1, <5>1 DEF LeafInv
      <4> QED BY <3>0, <4>1, RelinkedIs
    <3>2. CASE i = y
      <4>1. 1 \in 1 .. Len(L)
        BY <1>17, <1>18
      <4> QED BY <1>21, <3>1, <3>2, <4>1
    <3>3. CASE i \in 1 .. n /\ i # y
      <4>1. Fits(nodes[i])
        BY <1>2, <1>7, <2>1, <3>3 DEF LeafInv
      <4> QED BY <1>21, <3>3, <4>1
    <3>4. ASSUME NEW k \in 1 .. Len(U), i = n + k PROVE Fits(M[i])
      <4>1. k \in 1 .. Len(L) - 1 /\ k + 1 \in 1 .. Len(L)
        BY <1>17, <1>22
      <4> QED BY <1>21, <3>1, <3>4, <4>1
    <3> QED BY <1>22, <2>1, <3>2, <3>3, <3>4
  <2> QED BY <1>5, <1>7, <1>14, <2>1 DEF LeafInv
<1>29. FoldInv'
  BY <1>5, <1>8, <1>26 DEF FoldInv
<1>30. SubtreeInv' /\ LevelInv'
  BY <1>5, <1>25 DEF SubtreeInv, LevelInv
<1> QED BY <1>25, <1>27, <1>28, <1>29, <1>30 DEF BuildInv

-----------------------------------------------------------------------------
(* The properties *)

\* A request to cancel, and a stutter, keep the invariant.
LEMMA StillBuild == ASSUME BuildInv,
  UNCHANGED <<phase, Build!buildVars, Build!workVars, folded, aborted, splitAt>> PROVE BuildInv'
<1>1. UNCHANGED <<phase, nodes, tasks, depth, splits, nextTask, working, stack, subtrees, folded, aborted, splitAt>>
  BY DEF Build!buildVars, Build!workVars
<1>2. TypeInv /\ Proper(splitAt) /\ LevelInv /\ SubtreeInv /\ FoldInv /\ LeafInv
  BY DEF BuildInv
<1>3. \A u : Of(u)' = Of(u)
  BY <1>1 DEF Of
<1>4. TypeInv' /\ Proper(splitAt') /\ LeafInv'
  BY <1>1, <1>2 DEF TypeInv, LeafInv
<1>5. LevelInv'
  <2>1. SUFFICES ASSUME phase = "level" PROVE (TasksAt(depth) /\ SplitInv /\ UpperLinked)'
    BY <1>1 DEF LevelInv
  <2>2. TasksAt(depth) /\ SplitInv /\ UpperLinked
    BY <1>2, <2>1 DEF LevelInv
  <2>3. TasksAt(depth)'
    BY <1>1, <1>3, <2>2, Zenon DEF TasksAt
  <2>4. SplitInv'
    BY <1>1, <1>3, <2>2, Zenon DEF SplitInv
  <2>5. UpperLinked'
    BY <1>1, <2>2, Zenon DEF UpperLinked
  <2> QED BY <2>3, <2>4, <2>5
<1>6. SubtreeInv' /\ FoldInv'
  <2>1. CASE ~Later
    BY <1>1, <2>1 DEF SubtreeInv, FoldInv, Later
  <2>2. CASE Later
    <3>1. /\ TasksAt(TaskDepth)' /\ WorkerInv' /\ StackInv' /\ TreesInv' /\ FreshInv'
          /\ \A f : Sofar(f)' = Sofar(f)
      BY <1>1, <2>2, Unmoved
    <3>2. FoldInv /\ NodesInv
      BY <1>2, <2>2 DEF FoldInv
    <3>3. NodesInv'
      BY <1>1, <3>1, <3>2 DEF NodesInv
    <3>4. phase' = phase /\ folded' = folded /\ nextTask' = nextTask /\ working' = working
            /\ tasks' = tasks
      BY <1>1
    <3>5. SubtreeInv'
      BY <3>1 DEF SubtreeInv
    <3>6. FoldInv'
      BY <2>2, <3>2, <3>3, <3>4, Zenon DEF FoldInv
    <3> QED BY <3>5, <3>6
  <2> QED BY <2>1, <2>2
<1> QED BY <1>4, <1>5, <1>6 DEF BuildInv

\* Every step keeps the invariant.
LEMMA NextKeepsBuild == ASSUME Build!BuildAssumption, BuildInv, [Build!Next]_(Build!vars)
  PROVE BuildInv'
<1>1. CASE Build!NextLevel
  BY <1>1, NextBuild
<1>2. CASE Build!LevelsEnd
  BY <1>2, EndBuild
<1>3. CASE Build!GivesUp
  BY <1>3, GivesUpBuild
<1>4. CASE Build!Fold
  BY <1>4, FoldBuild
<1>5. CASE Build!Folded
  BY <1>5, FoldedBuild
<1>6. ASSUME NEW i \in DOMAIN tasks, Build!SplitTask(i) PROVE BuildInv'
  BY <1>6, SplitBuild
<1>7. ASSUME NEW w \in Worker, Build!TakeTask(w) \/ Build!BuildNode(w) \/ Build!TaskBuilt(w)
               PROVE BuildInv'
  BY <1>7, TakeBuild, BuildBuild, BuiltBuild
<1>8. CASE Build!RequestCancel
  BY <1>8, StillBuild DEF Build!RequestCancel
<1>9. CASE UNCHANGED Build!vars
  BY <1>9, StillBuild DEF Build!vars
<1> QED BY <1>1, <1>2, <1>3, <1>4, <1>5, <1>6, <1>7, <1>8, <1>9 DEF Build!Next, Build!Working,
             Build!Serial, Build!Parallel

\* When all the subtrees are folded in, what there is is the serial layout.
LEMMA SofarAll ==
    ASSUME Build!BuildAssumption, BuildInv, Later
    PROVE  /\ Sofar(Len(tasks)) = Build!Layout(splitAt)
           /\ Build!Layout(splitAt) \in Seq(Span)
<1>1. Proper(splitAt) /\ TasksAt(TaskDepth) /\ Len(tasks) \in Nat /\ TaskDepth \in 0 .. TaskDepth
  BY LaterIs
<1>2. PICK b : b = Build!Levels(splitAt)[TaskDepth]
  OBVIOUS
<1>3. b \in Seq(Span) /\ DOMAIN b = 1 .. Len(tasks) /\ \A k \in 1 .. Len(tasks) : Of(k) = b[k]
  <2>1. b \in Seq(Span)
    BY <1>1, <1>2, LevelIs
  <2> QED BY <1>1, <1>2, <2>1, LenProperties DEF TasksAt
<1>4. [k \in DOMAIN b |-> Build!Under(splitAt, b[k])]
        = [k \in 1 .. Len(tasks) |-> Build!Under(splitAt, Of(k))]
  BY <1>3, Zenon
<1>5. Build!Layout(splitAt) = Up(splitAt, TaskDepth + 1)
        \o Build!FlattenSeq([k \in DOMAIN b |-> Build!Under(splitAt, b[k])])
  BY <1>2, Zenon DEF Build!Layout, Up
<1>6. PICK F : F = [k \in 1 .. Len(tasks) |-> Build!Under(splitAt, Of(k))]
  OBVIOUS
<1>7. Build!FlattenSeq([k \in 1 .. Len(tasks) |-> F[k]]) \in Seq(Span)
  <2>1. \A k \in 1 .. Len(tasks) : F[k] = Build!Under(splitAt, Of(k))
    BY <1>6
  <2>2. \A k \in 1 .. Len(tasks) : Build!Under(splitAt, Of(k)) \in Seq(Span)
    BY LaterIs
  <2> QED BY <1>1, <2>1, <2>2, FlatOf, SameFlat
<1>8. [k \in 1 .. Len(tasks) |-> F[k]] = [k \in 1 .. Len(tasks) |-> Build!Under(splitAt, Of(k))]
  BY <1>6
<1>9. Sofar(Len(tasks)) = Build!Layout(splitAt)
  BY <1>4, <1>5 DEF Sofar
<1>10. Up(splitAt, TaskDepth + 1) \in Seq(Span)
  <2>1. TaskDepth + 1 \in 0 .. TaskDepth + 1
    BY Params
  <2> QED BY <1>1, <2>1, UpIs
<1> QED BY <1>4, <1>5, <1>7, <1>8, <1>9, <1>10, ConcatProperties

\* The invariant is enough: when all is folded the nodes are the serial layout, and a build
\* that was cut short keeps nothing.
LEMMA BuildSafe == ASSUME Build!BuildAssumption, BuildInv PROVE Build!TypeOK /\ Build!SameHierarchy
  /\ Build!NoTruncatedTree
<1>1. TypeInv /\ LeafInv
  BY DEF BuildInv
<1>2. nodes \in Seq(Node) /\ DOMAIN nodes = 1 .. Len(nodes) /\ Len(nodes) \in Nat
      /\ \A i \in 1 .. Len(nodes) : nodes[i] \in Node /\ nodes[i].left < Len(nodes)
  BY <1>1, LenProperties, ElementOfSeq DEF TypeInv, Array
<1>3. Build!TypeOK
  <2>1. \A i \in DOMAIN nodes : nodes[i].left \in 0 .. Len(nodes) - 1
    <3> SUFFICES ASSUME NEW i \in 1 .. Len(nodes) PROVE nodes[i].left \in 0 .. Len(nodes) - 1
      BY <1>2
    <3>1. nodes[i].left \in Nat /\ nodes[i].left < Len(nodes)
      BY <1>2 DEF Node
    <3> QED BY <1>2, <3>1
  <2> QED BY <1>1, <2>1 DEF Build!TypeOK, TypeInv
<1>4. Build!SameHierarchy
  <2>1. SUFFICES ASSUME phase = "done" PROVE Build!SameHierarchy
    BY DEF Build!SameHierarchy
  <2>2. Later /\ folded = Len(tasks) /\ Len(tasks) \in Nat
    BY <2>1, LaterIs DEF Later, BuildInv, FoldInv
  <2>3. PICK Z : Z = Build!Layout(splitAt)
    OBVIOUS
  <2>4. Z \in Seq(Span) /\ Sofar(folded) = Z /\ Len(Z) \in Nat
    <3>1. Z \in Seq(Span) /\ Sofar(folded) = Z
      BY <2>2, <2>3, SofarAll
    <3> QED BY <3>1, LenProperties
  <2>5. Len(nodes) = Len(Z) /\ \A i \in 1 .. Len(Z) : Linked(splitAt, Z, nodes, i)
    <3>1. NodesInv
      BY <2>2, LaterIs
    <3>2. \A t : t \notin folded + 1 .. Len(tasks)
      BY <2>2
    <3> QED BY <2>4, <3>1, <3>2 DEF NodesInv
  <2>6. ASSUME NEW i \in DOMAIN nodes
        PROVE  IF Z[i] \notin DOMAIN splitAt THEN nodes[i] = Build!Leaf(Z[i])
               ELSE /\ nodes[i].left # 0
                    /\ SubSeq(Z, nodes[i].left, nodes[i].left + 1) = Build!Children(splitAt, Z[i])
    <3>1. Linked(splitAt, Z, nodes, i)
      BY <1>2, <2>5
    <3>2. CASE Z[i] \in DOMAIN splitAt
      <4>1. PICK l \in 1 .. Len(Z) - 1 : nodes[i] = Build!Inner(l) /\ Build!Children(splitAt, Z[i])
              = <<Z[l], Z[l + 1]>>
        BY <3>1, <3>2 DEF Linked
      <4>2. nodes[i].left = l /\ l # 0
        BY <4>1 DEF Build!Inner
      <4>3. SubSeq(Z, l, l + 1) = <<Z[l], Z[l + 1]>>
        BY <2>4, PairOf
      <4> QED BY <3>2, <4>1, <4>2, <4>3
    <3>3. CASE Z[i] \notin DOMAIN splitAt
      BY <3>1, <3>3 DEF Linked
    <3> QED BY <3>2, <3>3
  <2> QED BY <2>3, <2>5, <2>6 DEF Build!SameHierarchy
<1>5. Build!NoTruncatedTree
  <2>1. phase = "cancelled" => nodes = <<>>
    BY <1>1 DEF LeafInv
  <2>2. ASSUME phase = "done", MaxDepth >= Refs, NEW i \in DOMAIN nodes PROVE nodes[i].to - nodes[i].from <= LeafSize
    BY <1>1, <1>2, <2>2 DEF LeafInv, Fits
  <2> QED BY <2>1, <2>2 DEF Build!NoTruncatedTree
<1> QED BY <1>3, <1>4, <1>5

\* Whatever the triangles, the workers and their order, the leaf size and the depths, and
\* whenever it is cancelled: the hierarchy that a parallel build (bvh.cpp) delivers is the
\* one that a serial build with the same split points lays out, node by node, with no leaf
\* above the limit; and one that was cut short is not delivered.
THEOREM BuildsAreSerial == ASSUME Build!BuildAssumption PROVE Build!Spec
  => [](Build!TypeOK /\ Build!SameHierarchy /\ Build!NoTruncatedTree)
<1>1. Build!Init => BuildInv
  BY InitBuild
<1>2. BuildInv /\ [Build!Next]_(Build!vars) => BuildInv'
  BY NextKeepsBuild
<1>3. BuildInv => Build!TypeOK /\ Build!SameHierarchy /\ Build!NoTruncatedTree
  BY BuildSafe
<1> QED BY <1>1, <1>2, <1>3, PTL DEF Build!Spec
=============================================================================
