----------------------------- MODULE BorderPadding -----------------------------
(***************************************************************************)
(* Border padding of a baked map (src/src/bake/src/border_padding.cpp):    *)
(* the band of texels outside the covered ones, grown a ring at a time,    *)
(* each ring from the values the ring before it left.                      *)
(*                                                                         *)
(* Abstracted: a texel <<x, y>> holds one integer instead of up to four    *)
(* floats, and an average is the integer quotient: what matters is which   *)
(* texels a value is made from.  Directions are padded like other values.  *)
(***************************************************************************)
EXTENDS FiniteSets, Sums

CONSTANTS
    ValueMin, ValueMax   \* the range the map's encoding declares

\* N, NE, E, SE, S, SW, W, NW
kCompass == << <<0, -1>>, <<1, -1>>, <<1, 0>>, <<1, 1>>, <<0, 1>>, <<-1, 1>>, <<-1, 0>>, <<-1, -1>> >>

Off(p, d, n) == <<p[1] + n * kCompass[d][1], p[2] + n * kCompass[d][2]>>

Sources(p, covered) == {d \in 1 .. 8 : Off(p, d, 1) \in covered}

Lowest(S) == CHOOSE m \in S : \A n \in S : m <= n
Highest(S) == CHOOSE m \in S : \A n \in S : n <= m

\* PadRangeAccumulator: the covered values' range, widened by its own width and
\* kept within what the map declares.
PadRange(values) ==
    LET low == Lowest(values)
        high == Highest(values)
    IN  [min |-> Highest({low - (high - low), ValueMin}),
         max |-> Lowest({high + (high - low), ValueMax})]

\* An id map takes the first covered neighbour's value as it is.
nearest(p, values, covered) == values[Off(p, Lowest(Sources(p, covered)), 1)]

\* Any other continues the gradient of every direction that has one.
extrapolate(p, values, covered) ==
    LET inner(d) == values[Off(p, d, 1)]
        beyond(d) == IF Off(p, d, 2) \in covered THEN values[Off(p, d, 2)] ELSE inner(d)
        sources == Sources(p, covered)
        terms == [d \in 1 .. 8 |-> IF d \in sources THEN 2 * inner(d) - beyond(d) ELSE 0]
    IN  SumOf(terms) \div Cardinality(sources)

clamped(v, range) == Highest({range.min, Lowest({range.max, v})})

\* growRing(): the uncovered neighbours are all filled from the state before it.
growRing(band, ids, range) ==
    LET candidates == {p \in DOMAIN band.values \ band.covered : Sources(p, band.covered) # {}}
        fill(p) == IF ids THEN nearest(p, band.values, band.covered)
                   ELSE clamped(extrapolate(p, band.values, band.covered), range)
    IN  [values |-> [p \in DOMAIN band.values |->
                        IF p \in candidates THEN fill(p) ELSE band.values[p]],
         covered |-> band.covered \cup candidates]

\* padBorders(): the padded values, and which texels were filled.
padBorders(values, covered, ids, radius, range) ==
    LET band[ring \in 0 .. radius] ==
            IF ring = 0 THEN [values |-> values, covered |-> covered]
            ELSE growRing(band[ring - 1], ids, range)
    IN  [values |-> band[radius].values, filled |-> band[radius].covered \ covered]
=============================================================================
