------------------------------ MODULE ExportBundle ------------------------------
(***************************************************************************)
(* writeBundle() of src/src/exportbundle/src/bundle.cpp: a mesh and the    *)
(* maps of a preset written to one directory, one bundle after another,    *)
(* with writes that fail and cancel requests at any poll.  A map is baked  *)
(* whole and then written, or streamed to its files by a regioned bake     *)
(* (RegionedBake) through StreamingMapSink.                                *)
(*                                                                         *)
(* Abstracted: a file's content is which bundle, map and tile it is of and *)
(* whether it is whole; a name is the entry's suffix and the tile's token. *)
(* The mesh may have any name, also one that a map expands to: the set of  *)
(* paths that are taken begins empty, so the code does not refuse such a   *)
(* map.  Removing a file does not fail.                                    *)
(***************************************************************************)
EXTENDS Integers, FiniteSets, Sequences

CONSTANTS
    Suffix,      \* what tells the maps of a preset apart in their names
    Outside,     \* a suffix whose expansion leaves the directory
    Presets,     \* [names |-> a suffix per map, namesTiles |-> has the {udim} token]
    MeshPath,    \* BundleParams::meshPath
    MaxTiles, MaxBundles

Path == [suffix : Suffix, tile : 0 .. MaxTiles]

BundleAssumption ==
    /\ Outside \notin Suffix /\ MaxTiles \in Nat \ {0} /\ MaxBundles \in Nat
    /\ MeshPath \in Path
    /\ \A preset \in Presets : /\ preset.names \in Seq(Suffix \cup {Outside})
                               /\ preset.namesTiles \in BOOLEAN

VARIABLES
    disk,                           \* per path: its content
    before,                         \* history: the disk when this bundle began
    bundles,                        \* how many have begun
    preset, tiles, udim, bounded,   \* the parameters of this one
    step, entry, tile,              \* where it is
    written,                        \* the paths taken by its maps
    opened,                         \* how many files the sink has opened
    files, outcome                  \* its result

paramVars == <<preset, tiles, udim, bounded>>
vars == <<disk, before, bundles, paramVars, step, entry, tile, written, opened, files, outcome>>

Absent == [of |-> 0, map |-> 0, tile |-> 0, whole |-> FALSE]
Content(map, t, whole) == [of |-> bundles, map |-> map, tile |-> t, whole |-> whole]
OnDisk(path, content) == disk' = [disk EXCEPT ![path] = content]

Init ==
    /\ disk = [p \in Path |-> Absent] /\ before = disk /\ bundles = 0
    /\ preset \in Presets /\ tiles = 1 /\ udim = FALSE /\ bounded = FALSE
    /\ step = "idle" /\ entry = 0 /\ tile = 0 /\ written = {} /\ opened = 0
    /\ files = {} /\ outcome = "none"

Maps == Len(preset.names)
BakedTiles == IF udim THEN tiles ELSE 1

\* presetMapFileName(): every tile has a name of its own only with the token.
MapPath(map, t) == [suffix |-> preset.names[map], tile |-> IF preset.namesTiles THEN t ELSE 0]

-----------------------------------------------------------------------------
(* Before anything is written *)

Begin ==
    /\ step = "idle" /\ bundles < MaxBundles
    /\ bundles' = bundles + 1 /\ before' = disk
    /\ preset' \in Presets /\ tiles' \in 1 .. MaxTiles
    /\ udim' \in BOOLEAN /\ bounded' \in BOOLEAN
    /\ step' = "mesh" /\ entry' = 1 /\ tile' = 1 /\ written' = {} /\ opened' = 0
    /\ files' = {} /\ outcome' = "none"
    /\ UNCHANGED disk

Ends(how) == step' = "idle" /\ outcome' = how
Stays == UNCHANGED <<before, bundles, paramVars>>

\* ensureUvs() fails or is cancelled, or a texel ceiling is exceeded.
CannotStart ==
    /\ step = "mesh"
    /\ \E how \in {"refused", "cancelled"} : Ends(how)
    /\ Stays /\ UNCHANGED <<disk, entry, tile, written, opened, files>>

\* refusedBeforeWriting(): every tile would be written to one path.
OneNameForAll == udim /\ tiles > 1 /\ ~preset.namesTiles

RefusedBeforeWriting ==
    /\ step = "mesh" /\ OneNameForAll
    /\ Ends("refused")
    /\ Stays /\ UNCHANGED <<disk, entry, tile, written, opened, files>>

ExportMesh ==
    /\ step = "mesh" /\ ~OneNameForAll
    /\ OnDisk(MeshPath, Content(0, 0, TRUE))
    /\ files' = {[path |-> MeshPath, map |-> 0, tile |-> 0]}
    /\ step' = "map"
    /\ Stays /\ UNCHANGED <<entry, tile, written, opened, outcome>>

\* The file cannot be opened, or the disk fills up.
ExportMeshFails ==
    /\ step = "mesh" /\ ~OneNameForAll
    /\ disk' = disk \/ OnDisk(MeshPath, Content(0, 0, FALSE))
    /\ Ends("error")
    /\ Stays /\ UNCHANGED <<entry, tile, written, opened, files>>

-----------------------------------------------------------------------------
(* One map after the other *)

\* The poll before every map, a cancel inside the bake, and a bake that is
\* refused: for a map baked whole, nothing of it is on the disk yet.
MapStops ==
    /\ (step = "map" /\ entry <= Maps) \/ step = "bake"
    /\ \E how \in {"cancelled", "error"} : Ends(how)
    /\ Stays /\ UNCHANGED <<disk, entry, tile, written, opened, files>>

StartMap ==
    /\ step = "map" /\ entry <= Maps
    /\ step' = IF bounded THEN "paths" ELSE "bake"
    /\ tile' = 1 /\ opened' = 0
    /\ Stays /\ UNCHANGED <<disk, entry, written, files, outcome>>

AllWritten ==
    /\ step = "map" /\ entry > Maps
    /\ Ends("ok")
    /\ Stays /\ UNCHANGED <<disk, entry, tile, written, opened, files>>

\* Mutant: a path that is taken is given out again.
UnusableOutside(map, t) == preset.names[map] = Outside

\* resolveMapPath() refuses a name outside the directory, and one already taken.
Unusable(map, t) == preset.names[map] = Outside \/ MapPath(map, t) \in written

BakeWhole ==
    /\ step = "bake" /\ step' = "write"
    /\ Stays /\ UNCHANGED <<disk, entry, tile, written, opened, files, outcome>>

LastTile(t) == t >= BakedTiles

NextTile ==
    IF LastTile(tile) THEN step' = "map" /\ entry' = entry + 1 /\ UNCHANGED tile
    ELSE tile' = tile + 1 /\ UNCHANGED <<step, entry>>

Report(map, t) == [path |-> MapPath(map, t), map |-> map, tile |-> t]

\* writeMap(), for one tile of a map that was baked whole.
WriteMap ==
    /\ step = "write" /\ ~Unusable(entry, tile)
    /\ written' = written \cup {MapPath(entry, tile)}
    /\ OnDisk(MapPath(entry, tile), Content(entry, tile, TRUE))
    /\ files' = files \cup {Report(entry, tile)}
    /\ NextTile
    /\ Stays /\ UNCHANGED <<opened, outcome>>

WriteMapFails ==
    /\ step = "write"
    /\ IF Unusable(entry, tile) THEN UNCHANGED <<disk, written>>
       ELSE /\ written' = written \cup {MapPath(entry, tile)}
            /\ disk' = disk \/ OnDisk(MapPath(entry, tile), Content(entry, tile, FALSE))
    /\ Ends("error")
    /\ Stays /\ UNCHANGED <<entry, tile, opened, files>>

-----------------------------------------------------------------------------
(* A map streamed in bands *)

\* Every tile's path is resolved before the bake begins.
ResolvePath ==
    /\ step = "paths"
    /\ IF Unusable(entry, tile) THEN Ends("error") /\ UNCHANGED <<tile, written>>
       ELSE /\ written' = written \cup {MapPath(entry, tile)}
            /\ IF tile < BakedTiles THEN tile' = tile + 1 /\ UNCHANGED step
               ELSE tile' = 1 /\ step' = "stream"
            /\ UNCHANGED outcome
    /\ Stays /\ UNCHANGED <<disk, entry, opened, files>>

\* openNext(): the tile's first band truncates its file.
OpenNext ==
    /\ step = "stream" /\ opened < tile
    /\ opened' = opened + 1
    /\ OnDisk(MapPath(entry, tile), Content(entry, tile, FALSE))
    /\ Stays /\ UNCHANGED <<step, entry, tile, written, files, outcome>>

\* Its last band finishes the file; the last tile's ends the bake, and then the
\* whole map is reported.
FinishFile ==
    /\ step = "stream" /\ opened = tile
    /\ OnDisk(MapPath(entry, tile), Content(entry, tile, TRUE))
    /\ NextTile
    /\ files' = IF LastTile(tile) THEN files \cup {Report(entry, t) : t \in 1 .. BakedTiles}
                ELSE files
    /\ Stays /\ UNCHANGED <<written, opened, outcome>>

\* abandon(): every file this map opened, or tried to.
Abandoned(n) == {MapPath(entry, t) : t \in 1 .. n}

\* The bake is cancelled or fails between two bands, the writer cannot open the
\* next file or write to it.
StreamStops ==
    /\ step = "stream"
    /\ \E n \in {opened} \cup {tile} :
         /\ opened' = n
         /\ disk' = [p \in Path |-> IF p \in Abandoned(n) THEN Absent ELSE disk[p]]
    /\ \E how \in {"cancelled", "error"} : Ends(how)
    /\ Stays /\ UNCHANGED <<entry, tile, written, files>>

Next ==
    \/ Begin \/ CannotStart \/ RefusedBeforeWriting \/ ExportMesh \/ ExportMeshFails
    \/ MapStops \/ StartMap \/ AllWritten \/ BakeWhole \/ WriteMap \/ WriteMapFails
    \/ ResolvePath \/ OpenNext \/ FinishFile \/ StreamStops

Spec == Init /\ [][Next]_vars

-----------------------------------------------------------------------------
(* Properties *)

TypeOK ==
    /\ disk \in [Path -> [of : 0 .. MaxBundles, map : Nat, tile : 0 .. MaxTiles, whole : BOOLEAN]]
    /\ step \in {"idle", "mesh", "map", "bake", "write", "paths", "stream"}
    /\ outcome \in {"none", "ok", "refused", "cancelled", "error"}
    /\ entry \in 0 .. Maps + 1 /\ tile \in 0 .. BakedTiles /\ opened \in 0 .. MaxTiles
    /\ written \subseteq Path

\* What the result lists is on the disk, whole, and the map and tile it says: also
\* when the bundle was cancelled or failed later on, and for a preset built in
\* code, whose maps may share a name.  The mesh alone may be gone, where one of the
\* maps has taken its path.
ReportTrue ==
    \A f \in files :
        \/ disk[f.path] = [of |-> bundles, map |-> f.map, tile |-> f.tile, whole |-> TRUE]
        \/ f.map = 0 /\ MeshPath \in written

\* "a truncated PNG whose header claims the full size must never be left where a
\* finished map is expected": a bundle with a working-set bound cuts no map, nor
\* the one that took the path of the mesh.
NoCutMapWhenBounded ==
    step = "idle" /\ bounded =>
        \A p \in (Path \ {MeshPath}) \cup written : disk[p].of = bundles => disk[p].whole

\* "a bundle that refuses must leave no half-written set behind, not even the
\* mesh".
RefusedLeavesNothing == outcome = "refused" => disk = before /\ files = {}

\* However a bundle ends, it has changed no path but those it reports, the mesh,
\* and of the map it stopped at the tiles it had begun to write.
OthersUntouched ==
    step = "idle" =>
        \A p \in Path \ {f.path : f \in files} :
            \/ disk[p] = before[p] \/ p = MeshPath
            \/ outcome # "ok" /\ \E t \in 1 .. (IF bounded THEN opened ELSE tile) : p = MapPath(entry, t)

\* A bundle that succeeds has every tile of every map, each in a file of its own;
\* one of them may be that of the mesh.
OkIsComplete ==
    outcome = "ok" =>
        /\ {<<f.map, f.tile>> : f \in files} =
               {<<0, 0>>} \cup ((1 .. Maps) \X (1 .. IF udim THEN tiles ELSE 1))
        /\ \A f, g \in files :
               f.path = g.path /\ f # g => MeshPath \in written /\ 0 \in {f.map, g.map}
=============================================================================
