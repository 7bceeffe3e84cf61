------------------------------ MODULE RegionedBake ------------------------------
(***************************************************************************)
(* bakeRegions() and RegionedBaker of src/src/bake/src/bake.cpp with their *)
(* scratch file (region_scratch.cpp): a set of tiles is shaded, normalized *)
(* and padded region by region, and its rows handed to a sink in order.    *)
(*                                                                         *)
(* Abstracted: what shading computes is Shaded; a tile's scratch file is   *)
(* the rows stored in it.  Reports of progress are left out.               *)
(***************************************************************************)
EXTENDS BorderPadding

CONSTANTS
    Width, Height,
    Shaded,        \* per tile and texel: what shading makes of it
    Coverages,     \* the tile sets considered: a sequence of covered texels
    Radii, Bounds, \* paddingRadius and maxWorkingSetTexels
    Kinds          \* the kinds of map, as far as the passes differ

Column == 0 .. Width - 1
Rows(from, to) == Column \X (from .. to - 1)
Texel == Rows(0, Height)

BakeAssumption ==
    /\ Width \in Nat \ {0} /\ Height \in Nat \ {0}
    /\ \A cover \in Coverages :
          /\ cover \in Seq(SUBSET Texel) /\ cover # <<>>
          /\ \A t \in DOMAIN cover : \A p \in cover[t] : Shaded[t][p] \in Int
    /\ Radii \subseteq Nat /\ Bounds \subseteq Nat
    /\ Kinds \subseteq {"scalar", "id", "density", "field"}

VARIABLES
    covered, radius, bound, kind,  \* the input
    pass, tile, row,               \* the pass, and the region it is at
    scratch,                       \* per tile: the values of the rows stored
    mean, samples,                 \* densityMean_, and per tile fieldSamples
    seen,                          \* the values the clamp range is measured over
    emitted, filled,               \* per tile: rows handed to the sink, texels counted
    peak,                          \* peakTexelsInFlight
    report                         \* the tiles of the result

\* The tiles of the set.
Tile == DOMAIN covered
Tiles == Len(covered)

inputVars == <<covered, radius, bound, kind>>
placeVars == <<pass, tile, row>>
vars == <<inputVars, placeVars, scratch, mean, samples, seen, emitted, filled, peak, report>>

-----------------------------------------------------------------------------
(* The plan *)

kDerivativeFootprintTexels == 1

\* Mutant: a halo of the radius, as if a ring read one texel far.
HaloOfRadius == Highest({radius, kDerivativeFootprintTexels})

regionHaloRows == Highest({2 * radius, kDerivativeFootprintTexels})

regionRows ==
    LET fit == bound \div Width
        left == IF fit > 2 * regionHaloRows THEN fit - 2 * regionHaloRows ELSE 0
    IN  IF bound = 0 \/ fit >= Height THEN Height
        ELSE Highest({1, Lowest({left, Height})})

regionCount == (Height + regionRows - 1) \div regionRows
haloRows == IF regionCount = 1 THEN 0 ELSE regionHaloRows

workingSetTexels ==
    IF regionCount = 1 THEN Width * Height
    ELSE Width * Lowest({Height, regionRows + 2 * regionHaloRows})

boundReached == bound = 0 \/ workingSetTexels <= bound

RowEnd == Lowest({Height, row + regionRows})

-----------------------------------------------------------------------------
(* Normalization *)

NoMean == [sum |-> 0, defined |-> 0]

\* The texels of S in raster order.
Total(f, S) ==
    LET texel(i) == <<(i - 1) % Width, (i - 1) \div Width>>
    IN  SumOf([i \in 1 .. Width * Height |-> IF texel(i) \in S THEN f[texel(i)] ELSE 0])

\* accumulateDensity()
Accumulated(m, values, S) == [sum |-> m.sum + Total(values, S), defined |-> m.defined + Cardinality(S)]

\* applyDensity(): by the mean of the set, in hundredths; encodeCurvature(): by
\* the range of the image's samples.
Normalized(v, m, range) ==
    CASE kind = "density" /\ m.sum > 0 /\ v > 0 -> (100 * v * m.defined) \div m.sum
      [] kind = "field" /\ range # {} -> (100 * v) \div Highest(range)
      [] OTHER -> v

\* The whole-image bake of a tile: bakeUdim() shades the set, then finishTile()
\* normalizes and pads each tile by a range of its own.
WholeMean ==
    [sum |-> SumOf([t \in 1 .. Tiles |-> Total(Shaded[t], covered[t])]),
     defined |-> SumOf([t \in 1 .. Tiles |-> Cardinality(covered[t])])]

Background(t, S) == [p \in S |-> IF p \in covered[t] THEN Shaded[t][p] ELSE 0]

Whole(t, m) ==
    LET samplesOf == {Shaded[t][p] : p \in covered[t]}
        values == [p \in Texel |-> IF p \in covered[t] THEN Normalized(Shaded[t][p], m, samplesOf) ELSE 0]
    IN  IF covered[t] = {} THEN [values |-> values, filled |-> {}]
        ELSE padBorders(values, covered[t], kind = "id", radius,
                        PadRange({values[p] : p \in covered[t]}))

WholeRows(t) ==
    LET whole == Whole(t, WholeMean).values
    IN  [y \in 1 .. Height |-> [x \in Column |-> whole[<<x, y - 1>>]]]

-----------------------------------------------------------------------------
(* The scratch file *)

Stores(t, from, to) == \E y \in from .. to - 1 : y \in DOMAIN scratch[t]

\* Rows without a stored one are background.
Read(t, from, to) ==
    [p \in Rows(from, to) |-> IF p[2] \in DOMAIN scratch[t] THEN scratch[t][p[2]][p[1]] ELSE 0]

\* writeRow(): a row nothing covers is not stored, unless it is already.
Written(t, values, from, to) ==
    LET stores(y) == y \in DOMAIN scratch[t] \/ \E x \in Column : <<x, y>> \in covered[t]
        rows == {y \in from .. to - 1 : stores(y)}
    IN  [scratch EXCEPT ![t] =
            [y \in rows \cup DOMAIN scratch[t] |->
                IF y \in rows THEN [x \in Column |-> values[<<x, y>>]] ELSE scratch[t][y]]]

-----------------------------------------------------------------------------
(* The passes *)

Init ==
    /\ covered \in Coverages /\ radius \in Radii /\ bound \in Bounds /\ kind \in Kinds
    /\ pass = IF regionCount = 1 /\ Tiles = 1 THEN "memory" ELSE "shade"
    /\ tile = 1 /\ row = 0
    /\ scratch = [t \in Tile |-> [y \in {} |-> 0]]
    /\ mean = NoMean /\ samples = [t \in Tile |-> {}] /\ seen = {}
    /\ emitted = [t \in Tile |-> <<>>] /\ filled = [t \in Tile |-> 0]
    /\ peak = 0 /\ report = {}

InFlight(texels) == peak' = Highest({peak, texels})

\* On to the next region, the next tile in this pass, or what follows them.
GoTo(afterTile, afterSet, firstTile) ==
    IF RowEnd < Height THEN row' = RowEnd /\ UNCHANGED <<pass, tile>>
    ELSE /\ row' = 0
         /\ pass' = IF tile < Tiles THEN afterTile ELSE afterSet
         /\ tile' = IF tile < Tiles THEN tile + 1 ELSE firstTile

\* bakeInMemory(): the one region of the one image, by the whole-image pipeline.
BakeInMemory ==
    /\ pass = "memory"
    /\ LET whole == Whole(tile, Accumulated(NoMean, Shaded[tile], covered[tile]))
       IN  /\ emitted' = [emitted EXCEPT ![tile] =
                  [y \in 1 .. Height |-> [x \in Column |-> whole.values[<<x, y - 1>>]]]]
           /\ filled' = [filled EXCEPT ![tile] = Cardinality(whole.filled)]
    /\ InFlight(Width * Height)
    /\ pass' = "done" /\ report' = Tile
    /\ UNCHANGED <<inputVars, tile, row, scratch, mean, samples, seen>>

\* shadeRegion(): a region nothing covers is left to the background.
ShadeRegion ==
    /\ pass = "shade"
    /\ LET region == Rows(row, RowEnd)
           here == covered[tile] \cap region
       IN  IF here = {} THEN UNCHANGED <<scratch, mean, samples, peak>>
           ELSE /\ scratch' = Written(tile, Background(tile, region), row, RowEnd)
                /\ mean' = IF kind = "density" THEN Accumulated(mean, Shaded[tile], here) ELSE mean
                /\ samples' = IF kind # "field" THEN samples
                              ELSE [samples EXCEPT ![tile] = @ \cup {Shaded[tile][p] : p \in here}]
                /\ InFlight(Cardinality(region))
    /\ GoTo("shade", "finalize", 1)
    /\ UNCHANGED <<inputVars, seen, emitted, filled, report>>

\* finalizeBand(): normalized values replace the shaded ones, and the clamp range
\* is measured over them.
FinalizeBand ==
    /\ pass = "finalize"
    /\ IF ~Stores(tile, row, RowEnd) THEN UNCHANGED <<scratch, seen, peak>>
       ELSE LET shaded == Read(tile, row, RowEnd)
                here == covered[tile] \cap Rows(row, RowEnd)
                values == [p \in Rows(row, RowEnd) |->
                              IF p \in here THEN Normalized(shaded[p], mean, samples[tile])
                              ELSE shaded[p]]
            IN  /\ seen' = seen \cup {values[p] : p \in here}
                /\ scratch' = IF kind \in {"density", "field"} THEN Written(tile, values, row, RowEnd)
                              ELSE scratch
                /\ InFlight(Cardinality(Rows(row, RowEnd)))
    /\ IF RowEnd < Height THEN row' = RowEnd /\ UNCHANGED pass ELSE row' = 0 /\ pass' = "assemble"
    /\ UNCHANGED <<inputVars, tile, mean, samples, emitted, filled, report>>

\* growRing()'s counted rows.
Counted(texels) == texels \cap Rows(row, RowEnd)

\* assembleImage(), one region: the window with its halo is padded by the range
\* of the whole image, and the region's own rows go to the sink.
AssembleRegion ==
    /\ pass = "assemble"
    /\ LET top == Highest({0, row - haloRows})
           bottom == Lowest({Height, RowEnd + haloRows})
           window == Read(tile, top, bottom)
           inside == covered[tile] \cap Rows(top, bottom)
           padded == IF Stores(tile, top, bottom)
                     THEN padBorders(window, inside, kind = "id", radius, PadRange(seen))
                     ELSE [values |-> window, filled |-> {}]
       IN  /\ filled' = [filled EXCEPT ![tile] = @ + Cardinality(Counted(padded.filled))]
           /\ emitted' = [emitted EXCEPT ![tile] =
                  @ \o [i \in 1 .. RowEnd - row |-> [x \in Column |-> padded.values[<<x, row + i - 1>>]]]]
           /\ InFlight(Cardinality(Rows(top, bottom)))
    /\ GoTo("finalize", "done", Tiles)
    /\ seen' = IF RowEnd < Height THEN seen ELSE {}
    /\ report' = IF pass' = "done" THEN Tile ELSE report
    /\ UNCHANGED <<inputVars, scratch, mean, samples>>

\* The token is set, a scratch file cannot be read or written, the field breaks
\* its contract, or the sink refuses the rows: no tile is reported.
Stops ==
    /\ pass \in {"memory", "shade", "finalize", "assemble"}
    /\ pass' = "stopped" /\ report' = {}
    /\ UNCHANGED <<inputVars, tile, row, scratch, mean, samples, seen, emitted, filled, peak>>

Next == BakeInMemory \/ ShadeRegion \/ FinalizeBand \/ AssembleRegion \/ Stops

Spec == Init /\ [][Next]_vars

-----------------------------------------------------------------------------
(* Properties *)

TypeOK ==
    /\ pass \in {"memory", "shade", "finalize", "assemble", "done", "stopped"}
    /\ tile \in Tile /\ row \in 0 .. Height - 1
    /\ \A t \in Tile : /\ DOMAIN scratch[t] \subseteq 0 .. Height - 1
                       /\ Len(emitted[t]) <= Height /\ filled[t] \in Nat
    /\ report \in {{}, Tile}

\* "the files are byte-identical either way": whatever the bound, the rows the
\* sink is given are, in order, those of the bake that holds the image whole.
RowsOfTheWholeBake ==
    \A t \in Tile : emitted[t] # <<>> =>
        emitted[t] = SubSeq(WholeRows(t), 1, Len(emitted[t]))

\* Every filled texel is counted by exactly one region, and a tile is reported
\* only when the sink had all its rows and those of every other tile.
ReportOfTheWholeBake ==
    report # {} =>
        \A t \in Tile : /\ filled[t] = Cardinality(Whole(t, WholeMean).filled)
                        /\ Len(emitted[t]) = Height

\* No more texels are held at once than the plan says, and a bound that the plan
\* says is reached is kept.
WorkingSetKept == peak <= workingSetTexels /\ (boundReached /\ bound # 0 => peak <= bound)
=============================================================================
