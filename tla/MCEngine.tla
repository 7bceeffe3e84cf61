-------------------------------- MODULE MCEngine --------------------------------
(***************************************************************************)
(* The parts of the library below the document and the bridge, side by      *)
(* side: the parallel pass, the hierarchy build, device queries, the        *)
(* remeshing pipeline, the flow solver, the bake in regions, the writing of *)
(* a map in bands, the export bundle, the chart merge and the framing of    *)
(* the bridge.  They share no state here, so their interleavings say        *)
(* nothing new: part tells which of them moves in a behaviour, and the      *)
(* others stay in one of the states they may begin in.                      *)
(***************************************************************************)
EXTENDS ParallelPass, FiniteSetsExt, SequencesExt

CONSTANTS
    Thread, Address, Part, MaxSnapshots, MaxFailures,   \* of DeviceBvh
    Suffix, Outside, Presets, MeshPath, MaxTiles, MaxBundles,   \* of ExportBundle
    Charts, Labellings, Borders                         \* of ChartMerge

VARIABLES
    part,
    \* BvhBuild
    phase, nodes, tasks, depth, splits, nextTask, working, stack, subtrees, folded,
    buildToken, aborted, splitAt,
    \* DeviceBvh
    heap, snapshots, deviceMutex, resident, key, parts, pc, flat, uploaded, answer, faults,
    \* RegionedBake
    covered, radius, bound, kind, pass, tile, row, rows, mean, samples, noted, emitted,
    filled, peak, report,
    \* ExportBundle
    disk, before, bundles, preset, tiles, udim, bounded, step, entry, mapTile, written,
    opened, files, outcome,
    \* ChartMerge
    chartOf, pairs, given, root, chartFaces, version, entries, at, changed, merges, status,
    accept, repeated,
    \* FrameStream
    sent, out, wire, broken, buffer, refused, delivered, closed, connections,
    \* ImageStream
    picture, file, writer, intact, ended, rowsWritten, pending, adler, crc, writing, returned,
    \* MinCostFlow
    arcs, flow, dist, prevEdge, queue, inQueue, visiting, totalFlow, totalCost, solved,
    \* RemeshPipeline
    run, stage, outcomes, audit, island, base, told, inner, stopped, merged, faces, failed, ending

hierarchyVars == <<phase, nodes, tasks, depth, splits, nextTask, working, stack, subtrees,
    folded, buildToken, aborted, splitAt>>
deviceVars == <<heap, snapshots, deviceMutex, resident, key, parts, pc, flat, uploaded, answer,
    faults>>
bakeVars == <<covered, radius, bound, kind, pass, tile, row, rows, mean, samples, noted,
    emitted, filled, peak, report>>
bundleVars == <<disk, before, bundles, preset, tiles, udim, bounded, step, entry, mapTile,
    written, opened, files, outcome>>
chartVars == <<chartOf, pairs, given, root, chartFaces, version, entries, at, changed, merges,
    status, accept, repeated>>
frameVars == <<sent, out, wire, broken, buffer, refused, delivered, closed, connections>>
imageVars == <<picture, file, writer, intact, ended, rowsWritten, pending, adler, crc, writing,
    returned>>
flowVars == <<arcs, flow, dist, prevEdge, queue, inQueue, visiting, totalFlow, totalCost, solved>>
remeshVars == <<run, stage, outcomes, audit, island, base, told, inner, stopped, merged, faces,
    failed, ending>>

-----------------------------------------------------------------------------
(* The instances *)

\* Two of the texels share a pixel.
MCPixelOf == [i \in Item |-> IF i = N - 1 THEN 0 ELSE i]

Build == INSTANCE BvhBuild WITH
    Refs <- 6, Worker <- {"w1", "w2"}, LeafSize <- 1, MaxDepth <- 8, PollSpan <- 3,
    TaskDepth <- 2, token <- buildToken

\* The device of the CUDA backend.
Device == INSTANCE DeviceBvh WITH
    Atomic <- TRUE, mutex <- deviceMutex, filled <- uploaded, failures <- faults

\* Two columns, so that a row may be partly covered; values without ties.
BakeTexel == (0 .. 1) \X (0 .. 6)
Near(s, n) == \A p, q \in s : p[2] - q[2] \in -n .. n
MCCoverages ==
    {<<s>> : s \in {s \in kSubset(1, BakeTexel) \cup kSubset(3, BakeTexel) : Near(s, 2)}}
    \cup {<<s, t>> : s \in {s \in kSubset(2, BakeTexel) : Near(s, 1)}, t \in {{<<0, 0>>}, {}}}
Bake == INSTANCE RegionedBake WITH
    Width <- 2, Height <- 7, Radii <- {0, 1, 2}, Bounds <- {0, 13},
    Kinds <- {"scalar", "id", "density", "field"}, ValueMin <- 0, ValueMax <- 100,
    Coverages <- MCCoverages,
    Shaded <- [t \in 1 .. 2 |->
        [p \in BakeTexel |-> 3 + ((7 * p[1] + 11 * p[2] * p[2] + 5 * t) % 13)]],
    scratch <- rows, seen <- noted

\* Maps with names of their own, with one name, with one that leaves the directory,
\* and with that of the mesh.
MCMeshPath == [suffix |-> "mesh", tile |-> 1]
MCPresets ==
    [names : {<<"a", "b">>, <<"a", "a">>, <<"a", "out">>, <<"a", "mesh">>}, namesTiles : BOOLEAN]
Bundle == INSTANCE ExportBundle WITH tile <- mapTile

Merge == INSTANCE ChartMerge

\* Four charts of one face or two, and a face in none; three pairs touch at least.
MCLabellings == {<<2, -1, 0, 1, 3>>}
ChartPairs == <<<<0, 1>>, <<0, 2>>, <<0, 3>>, <<1, 2>>, <<1, 3>>, <<2, 3>>>>
MCBorders ==
    {SelectSeq(ChartPairs, LAMBDA p : p \in b) :
        b \in {b \in SUBSET ToSet(ChartPairs) : Cardinality(b) >= 3}}

\* Payloads below, at and above the limit, with bytes of two values.
MCPayload == UNION {[1 .. n -> {0, 1}] : n \in 0 .. 2} \cup {<<1, 0, 1>>}
Frames == INSTANCE FrameStream WITH
    Radix <- 2, HeaderBytes <- 2, Limit <- 2, RecvBuffer <- 3, Payload <- MCPayload,
    MaxFrames <- 2, MaxConnections <- 2, failed <- refused

\* Images that cannot be written too; blocks that end with a row and that do not;
\* and one image is too large.
Image == INSTANCE ImageStream WITH
    Widths <- {0, 1, 2}, Heights <- {0, 1, 2, 4}, Channels <- 1 .. 4,
    kMaxBlock <- 4, LengthLimit <- 80,
    image <- picture, state <- writer, ok <- intact, finished <- ended, call <- writing

\* Two ways that cross and a parallel arc, as cheap or dear and as wide as may be.
FlowArc(u, v, c, w) == [from |-> u, to |-> v, cap |-> c, cost |-> w]
MCNetworks ==
    {<<FlowArc(0, 2, c, w[1]), FlowArc(0, 1, 3 - c, w[2]), FlowArc(1, 2, 1, w[3]),
       FlowArc(1, 3, 1, w[4]), FlowArc(2, 3, 2, 0), FlowArc(1, 3, 1, 3)>> :
        c \in {1, 2}, w \in [1 .. 4 -> {0, 2}]}
Flow == INSTANCE MinCostFlow WITH Nodes <- 4, Networks <- MCNetworks, kInf <- 100

\* Two islands, on the ways through the pipeline that differ.
Call == [sizes |-> <<2, 1>>, refused |-> FALSE, method |-> "quad-cover", fallback |-> TRUE,
         counted |-> FALSE, guided |-> {}, pure |-> FALSE, ceiling |-> 0, outputCeiling |-> 0]
MCRuns ==
    {[Call EXCEPT !.guided = {"guides", "density"}],
     [Call EXCEPT !.pure = TRUE, !.ceiling = 2, !.outputCeiling = 9],
     [Call EXCEPT !.method = "greedy", !.guided = {"guides", "density"}, !.outputCeiling = 2],
     [Call EXCEPT !.method = "field-aligned", !.counted = TRUE],
     [Call EXCEPT !.refused = TRUE]}
Remesh == INSTANCE RemeshPipeline WITH
    Runs <- MCRuns, Made <- {1, 3}, Arity <- {4, 5},
    pc <- stage, rows <- audit, best <- told, cancelled <- stopped, status <- ending

ASSUME PassAssumption
ASSUME BuildsAssumption == Build!BuildAssumption
ASSUME DeviceAssumption == Device!DeviceAssumption
ASSUME MapsAssumption == Bake!BakeAssumption
ASSUME BundlesAssumption == Bundle!BundleAssumption
ASSUME ChartsAssumption == Merge!MergeAssumption
ASSUME FramesAssumption == Frames!StreamAssumption
ASSUME ImagesAssumption == Image!StreamAssumption
ASSUME FlowsAssumption == Flow!FlowAssumption
ASSUME RemeshAssumption == Remesh!PipelineAssumption

-----------------------------------------------------------------------------
MCInit ==
    /\ part \in {"pass", "build", "device", "bake", "bundle", "merge", "frames", "image", "flow",
                 "remesh"}
    /\ Init /\ (part # "pass" => workers = 1)
    /\ Build!Init
    /\ Device!Init
    /\ Bake!Init
    /\ part # "bake" => covered = <<{<<0, 0>>}>> /\ radius = 0 /\ bound = 0 /\ kind = "id"
    /\ Bundle!Init /\ (part # "bundle" => preset = CHOOSE p \in Presets : TRUE)
    /\ Merge!Init /\ (part # "merge" => pairs = CHOOSE b \in Borders : TRUE)
    /\ Frames!Init
    /\ Image!Init
    /\ part # "image" => picture = [format |-> "png", width |-> 1, height |-> 1, channels |-> 1]
    /\ Flow!Init
    /\ part # "flow" => \A k \in DOMAIN arcs : arcs[k].cost \in {0, 3} /\ arcs[1].cap = 1
    /\ Remesh!Init /\ (part # "remesh" => run.refused)

PassMoves ==
    /\ part = "pass" /\ Next
    /\ UNCHANGED <<part, hierarchyVars, deviceVars, bakeVars, bundleVars, chartVars, frameVars,
            imageVars, flowVars, remeshVars>>
BuildMoves ==
    /\ part = "build" /\ Build!Next
    /\ UNCHANGED <<part, vars, deviceVars, bakeVars, bundleVars, chartVars, frameVars,
            imageVars, flowVars, remeshVars>>
DeviceMoves ==
    /\ part = "device" /\ Device!Next
    /\ UNCHANGED <<part, vars, hierarchyVars, bakeVars, bundleVars, chartVars, frameVars,
            imageVars, flowVars, remeshVars>>
BakeMoves ==
    /\ part = "bake" /\ Bake!Next
    /\ UNCHANGED <<part, vars, hierarchyVars, deviceVars, bundleVars, chartVars, frameVars,
            imageVars, flowVars, remeshVars>>
BundleMoves ==
    /\ part = "bundle" /\ Bundle!Next
    /\ UNCHANGED <<part, vars, hierarchyVars, deviceVars, bakeVars, chartVars, frameVars,
            imageVars, flowVars, remeshVars>>
MergeMoves ==
    /\ part = "merge" /\ Merge!Next
    /\ UNCHANGED <<part, vars, hierarchyVars, deviceVars, bakeVars, bundleVars, frameVars,
            imageVars, flowVars, remeshVars>>
FramesMove ==
    /\ part = "frames" /\ Frames!Next
    /\ UNCHANGED <<part, vars, hierarchyVars, deviceVars, bakeVars, bundleVars, chartVars,
            imageVars, flowVars, remeshVars>>
ImageMoves ==
    /\ part = "image" /\ Image!Next
    /\ UNCHANGED <<part, vars, hierarchyVars, deviceVars, bakeVars, bundleVars, chartVars,
            frameVars, flowVars, remeshVars>>
FlowMoves ==
    /\ part = "flow" /\ Flow!Next
    /\ UNCHANGED <<part, vars, hierarchyVars, deviceVars, bakeVars, bundleVars, chartVars,
            frameVars, imageVars, remeshVars>>
RemeshMoves ==
    /\ part = "remesh" /\ Remesh!Next
    /\ UNCHANGED <<part, vars, hierarchyVars, deviceVars, bakeVars, bundleVars, chartVars,
            frameVars, imageVars, flowVars>>

MCNext ==
    \/ PassMoves \/ BuildMoves \/ DeviceMoves \/ BakeMoves \/ BundleMoves \/ MergeMoves
    \/ FramesMove \/ ImageMoves \/ FlowMoves \/ RemeshMoves

allVars ==
    <<part, vars, hierarchyVars, deviceVars, bakeVars, bundleVars, chartVars, frameVars,
      imageVars, flowVars, remeshVars>>

\* Threads are scheduled and loops go on; nobody need cancel.
Fairness ==
    /\ WF_vars(part = "pass" /\ Working)
    /\ WF_hierarchyVars(part = "build" /\ Build!Working)
    /\ WF_chartVars(part = "merge" /\ Merge!Pass)
    /\ WF_flowVars(part = "flow" /\ Flow!Next)
    /\ WF_remeshVars(part = "remesh" /\ Remesh!Working)
    /\ Frames!Fairness

MCSpec == MCInit /\ [][MCNext]_allVars /\ Fairness

-----------------------------------------------------------------------------
(* The properties of the instances *)

\* The spatial hierarchy, on the processor and on a device: the parallel build makes
\* the tree of the serial one, and none that was cut short by a cancellation is
\* kept; a device answers from the snapshot it is asked about, whatever it keeps.
HierarchySound ==
    /\ part = "build" => Build!TypeOK /\ Build!SameHierarchy /\ Build!NoTruncatedTree
    /\ part = "device" =>
        Device!TypeOK /\ Device!AnsweredFromOwnSnapshot /\ Device!KeyNamesBuffers

\* The remeshing pipeline accounts for every island, in its result or its report;
\* delivers nothing to who cancelled, and nothing above a ceiling; and says of
\* guidance and of progress what is true.
PipelineSound == part = "remesh" => Remesh!PipelineSound

\* The flow that rounds the parametrization is a cheapest one of the largest.
FlowOptimal == part = "flow" => Flow!FlowOptimal

\* A map made in parts is the map made at once: a bake in regions hands out the rows
\* and the report of the whole bake, within its bound on texels in flight, and a
\* file written in bands is that of the whole image.
MapsAsWhole ==
    /\ part = "bake" =>
        Bake!TypeOK /\ Bake!RowsOfTheWholeBake /\ Bake!ReportOfTheWholeBake /\ Bake!WorkingSetKept
    /\ part = "image" => Image!BandsAsWhole

\* What a bundle reports is on the disk, whole, and what it did not write is as
\* it was, wherever it is refused, fails or is cancelled.
BundleTrue ==
    part = "bundle" =>
        /\ Bundle!TypeOK /\ Bundle!ReportTrue /\ Bundle!NoCutMapWhenBounded
        /\ Bundle!RefusedLeavesNothing /\ Bundle!OthersUntouched /\ Bundle!OkIsComplete

\* The merge with the memo is the merge without, and asks nothing twice.
MergeRight ==
    part = "merge" =>
        /\ Merge!TypeOK /\ Merge!MemoIsAccept /\ Merge!NeverAskedTwice
        /\ Merge!FixpointReached /\ Merge!ListsAreCharts /\ Merge!LabellingRight

\* What runs on threads, or round and round, ends: a parallel pass comes back to
\* its caller whatever threads could be had, a build is not thrown away unless a
\* poll saw it cancelled, and neither the merge, nor the search for cheaper paths,
\* nor the islands of a run go on for ever.
WorkEnds ==
    <>(CASE part = "pass" -> Returned
         [] part = "build" -> Build!Over
         [] part = "merge" -> Merge!Ended
         [] part = "flow" -> solved
         [] part = "remesh" -> Remesh!Over
         [] OTHER -> TRUE)
\* The limit on a message is kept, and frames come out as they went in.
LimitKept == part = "frames" => Frames!LimitKept
ImplementsChannel == Frames!ImplementsChannel
FramesArrive == Frames!FramesArrive
=============================================================================
