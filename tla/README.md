# A verification project for CyberRemesher

TLA+ models of CyberRemesher, the C++20 engine for quad remeshing, retopology, UV layout and baking.
Each module is written from the source under `src/`; `PROJECT.json` maps every definition to the
lines it stands for. TLC checks the models on small instances, TLAPS proves the most important
properties for every value of the constants.

## The system

| part | state it keeps | operations | hard behaviour | what makes it correct |
|---|---|---|---|---|
| Mesh kernel (`src/src/core`: `mesh.cpp`, `mesh_ops.cpp`, `attributes.hpp`) | element arrays with free lists, disk and radial cycles, attribute columns | add/remove face, split, collapse, flip, merge, fill holes | pointer surgery; ids that are recycled; rollback when a face cannot be rebuilt | `validate()` after every operator, ids of what survives do not move, feature tags and attributes follow their edges |
| Cancellation, progress, task scheduler (`progress.hpp`, `threading.cpp`, `detail/parallel_chunks.hpp`) | a shared flag, last reported fraction, a chunk counter | report, cancel, map over chunks | worker threads, exceptions in workers, reports out of order | every chunk once, progress never falls, a cancelled stage stops |
| Pipeline, partial retopology, guidance, I/O, export presets, spatial index (`src/src/core`) | request-local | staged computation, selection checks, parsing | long sequential stages of which any may fail; fallbacks; boundary locking; malformed files | result or error, never half of either; every island accounted for |
| Quadrangulation (`src/src/quadrangulate`) | request-local numeric fields | cross field, parametrisation, integer layout, flow | floating point, solver convergence | geometric quality, not a state machine |
| Document and undo journal (`src/src/app`) | EditMesh, Target, dirty flag, two stacks of commands, bytes used | push, undo, redo, budget, clear, save, load, autosave | eviction at the budget; operations that throw half-way; restarts | undo and redo walk one line of states; exact accounting; a clean document is a saved one |
| Network bridge server (`src/src/net/src/server.cpp`) | descriptors, slot count, registered connections, running flag | start, stop, accept, serve | three kinds of thread; descriptor numbers reused by the host; a destructor under live threads | stop returns and leaves nothing; the cap holds; no number is used after it changed hands |
| Bridge session and dispatch (`session.cpp`, `message.cpp`) | Target, EditMesh and its revision, guidance, buttons, presses, symmetry, camera, message | one command per request | connections interleave between two locks of one command | a revision marker tells the truth; a press is delivered once |
| Bridge clients (`client.cpp`, `python/cyberbridge`, `blender/`) | a socket and a decoder | one request, one reply | timeouts and late replies | a reply answers its request |
| Framing (`protocol.cpp`, `socket_io.cpp`) | an undecoded buffer | feed, next | streams cut anywhere; the length limit | frames come out as they went in |
| Accelerators (`src/src/accel`), rendering (`src/src/render`) | a registry of backends; GPU streams | select, allocate, dispatch | device code, driver calls | results equal the CPU reference |
| Baking (`bake`, `bakecage`), UV (`uv`), retopology tools (`retopo`), image I/O (`imageio`), export bundles (`exportbundle`), handoff (`handoff`) | request-local, files | numeric kernels, parsers, writers | floating point, file formats | numeric and format properties |
| iPadOS shell (`apps/mobile/ipados`) | the displayed mesh, the session, the shown operation, the autosave | open, autosave, remesh, cancel, commit, roll back | continuations of the main actor against an engine thread | a cancelled run leaves the document; the overlay goes |
| Swift operations (`swift/Sources/CyberRemesher/Remesh.swift`, `ZRemesher.swift`) | a job's state, its continuations, a control box, a progress stream | await, cancel, report, poll, finish | tasks, hosts and native threads at once; continuations resumed exactly once | one native run, one answer for all who await it, a stream that ends |
| C API, command line, other bindings, mobile apps (`capi`, `apps`, `python`, `swift`, `rust`) | handles | forwarders | ownership across a language border | one call of the engine per call |

How they interact: the host application owns a `Document`, an `UndoStack` and, if the user turns the
bridge on, a `BridgeServer` over a `BridgeSession`. Edits reach the document as commands of the
journal; the command the library itself provides replaces the EditMesh by the result of a partial
retopology. Peers of the bridge (DCC plug-ins) reach the session through one connection thread each.
Every engine call reports through a progress sink and polls a cancellation token.

## Modules

| module | models | source |
|---|---|---|
| `BridgeServer` | the owner, the accept thread and the connection threads over one table of descriptor numbers | `net/src/server.cpp`, `socket_io.cpp` |
| `BridgeServerProofs` | theorems about it and `Bridge` | |
| `BridgeSession` | session methods, dispatch and clients | `session.cpp`, `message.cpp`, `client.cpp`, `client.py` |
| `Bridge` | the server and the session behind it, as one specification | |
| `FrameStream` | `encodeFrame`, `FrameDecoder`, the socket loops, a client that connects again | `protocol.cpp`, `socket_io.cpp`, `client.cpp` |
| `FrameChannel` | what framing promises; `FrameStream` implements it | |
| `StreamProofs` | theorems about `RegionedBake`, `FrameStream` and `BvhBuild` | |
| `BridgeSessionProofs` | theorems about `BridgeSession` | |
| `Journal` | `UndoStack`, `ReplaceEditMeshCommand`, dirty flag, autosave, restart | `app/src/undo.cpp`, `partial_retopology.cpp`, `document.cpp` |
| `Timeline` | what undo and redo promise: the abstract specification `Journal` implements | |
| `Sums`, `SumsProofs` | sums of sequences and ordered lists of sets; their lemmas, and those on parts and concatenations of sequences | |
| `JournalProofs` | theorems about `Journal` | |
| `MeshKernel` | the linked mesh, its free lists and every operator that rewrites it | `core/src/mesh.cpp`, `mesh_ops.cpp`, `tagFeatureEdges` of `mesh_diagnostics.cpp` |
| `PolygonMesh` | what the kernel promises: points and a bag of polygons; `MeshKernel` implements it | |
| `MeshParts` | islands of a mesh and its linear subdivision; extends `MeshKernel` | `mesh_diagnostics.cpp`, `mesh_ops.cpp` |
| `MeshPreparation` | what the pipeline makes of its input: weld, winding, meshes of islands; extends `MeshParts` | `core/src/pipeline.cpp` |
| `PartialRetopology` | the analysis of a selected region and the patch that replaces it; extends `MeshParts` | `core/src/partial_retopology.cpp` |
| `DocumentFile` | the file of a document: `save`, `load` and what is rebased between; extends `MeshParts` | `app/src/document.cpp`, `serial.hpp` |
| `SeamPath` | a pending seam path with its cached routes, and the `SeamSet` it is committed to | `uv/src/seam_path.cpp`, `retopo/.../paths.hpp` |
| `ParallelPass` | a parallel bake pass: fan-out, progress sink, cancel token | `core/.../parallel_chunks.hpp`, `progress.hpp`, `bake/src/bake.cpp` |
| `BvhBuild` | the parallel build of the hierarchy and its cancellation | `core/src/bvh.cpp` |
| `DeviceBvh` | the hierarchy resident on a device, with failures | `accel/src/opencl_backend.cpp`, `cuda_backend.cu`, `bvh_residency.hpp` |
| `BorderPadding`, `RegionedBake` | padding of a baked map, and the bake in regions that must give the same map | `bake/src/border_padding.cpp`, `bake.cpp`, `region_scratch.cpp` |
| `ImageStream` | a PNG or EXR file written in bands of rows, against the writer of a whole image | `imageio/src/stream.cpp`, `png.cpp`, `exr.cpp` |
| `RemeshPipeline` | `remesh()`: islands, stages, fallback, merge, ceilings, guidance audit, progress, cancellation | `core/src/pipeline.cpp` |
| `MinCostFlow` | the flow solver of the quantization | `quadrangulate/src/min_cost_flow.hpp` |
| `ExportBundle` | `writeBundle` with whole and streamed maps | `exportbundle/src/bundle.cpp` |
| `ChartMerge` | the greedy merge of charts with its memo of rejections | `uv/src/atlas.cpp`, `rejection_memo.hpp` |
| `AssetProofs` | theorems about `RemeshPipeline`, `ChartMerge`, `ExportBundle`, `MinCostFlow` and `ImageStream` | |
| `RemeshControl` | the control box, the progress stream, the native threads | `swift/.../Remesh.swift:153-203, 313-326` |
| `RemeshJob` | `RemeshOperation` and its job; extends `RemeshControl` | `Remesh.swift:205-311, 328-402` |
| `ZRemesherOperation` | the operation without a job; extends `RemeshControl` | `ZRemesher.swift:385-445` |
| `Promise` | what an operation promises those who await it; `RemeshJob` implements it | |
| `AppModel` | the iPadOS shell's document, autosave and long operation | `apps/mobile/ipados/.../AppModel.swift` |
| `ShellProofs` | theorems about `RemeshJob` and `AppModel` | |
| `EngineProofs` | theorems about `ParallelPass` and the parts of `MCEngine` | |
| `MCBridge`, `MCBridgeSession`, `MCEngine`, `MCDocument`, `MCShell`, `MCMeshKernel`, `MCSeam` | instances for TLC | |
| `MeshSeeds` | the small meshes these use | |

### BridgeServer

One program counter per thread; one action per step between two points where another thread can see
or change something: a system call, an atomic load or store, a critical section. `fdUse` says who
opened each descriptor number; `close()` frees the number and the next open, by the server or by the
rest of the host ("other"), gets the lowest free one, as POSIX has it. That makes every use of a
stale number visible in the state. `connMutex` is a variable only for the exit of a connection
thread, whose critical section holds three steps others could see between; the other critical
sections are one action each, guarded by `LockFree`. `shut` is the set of sockets `shutdown()` was
called on; a shut listening socket makes `accept()` return at once, which Linux does and the code
relies on. Peers connect, abort, send and hang up when they like. The wake-up pipe shortens a poll
that times out by itself, so it has descriptors here but no content.

### BridgeSession and Bridge

Every session method locks `m_mutex` for its whole body, so it is one action. `push_editmesh`,
`pull_target` and `push_density` call two methods, and are two actions (`FirstLock`, `SecondLock`)
between which other connections run. Clients are synchronous; `TimesOut` is the Python client's
socket timeout, which leaves the connection in place. The revision and the presses are capped
(`MaxRevision`, `MaxPress`, `MaxTimeout`).

`processRequest` turns whatever its request throws into an error reply. Where it is thrown decides
what the session has done by then, so there are three actions: `Refuse` (the parser, a field that is
missing or of the wrong type, an unknown command, memory: nothing was done; a `malformed` request
has no other outcome), `SecondThrows` (between the two locks of a command: the first method was
done) and `ReplyThrows` (while the reply is built: the method was done, and taps that were drained
for the reply are lost). Any request may meet any of them. The error reply notes which request it is
for, which the code's does not; only the properties look at it. That the error reply itself cannot
be built, for want of memory, is `Throws` of `BridgeServer`: the connection ends.

`RequestsAnswered` says two things. `FramesMatch`: a client that waits has a frame under way, to the
server, in its hands or back, and as long as nobody gave up exactly one, and no other client has
any. `WaitsEnd`: each request is answered in the end, or given up on. A catch that is missing, or a
reply sent twice, breaks the first; a thread that does not go on, the second.

`Bridge` puts the server and the session side by side (see Runs, *parts*). The server reads a
request and dispatches it whole (`ProcessRequest`), so its threads and the session's state have
nothing in common. The session is instantiated three times, with commands that have to do with one
another: `Scene` (markers), `Buttons` (taps, with a client that gives up) and `Calls` (commands of
one lock and of two, malformed requests, a client that gives up), so that no run multiplies the ones
by the others.

### FrameStream and FrameChannel

One direction of a connection. A byte has `Radix` values and a length `HeaderBytes` of them, so that
the arithmetic of the header stays, at a size TLC can enumerate. `Recv` is one `recv()`: any part of
what is under way, up to the buffer, appended to the decoder. `Pop` takes a whole frame from its
front, `Refuse` a length over the limit, after which it fails for good. The sender may vanish in any
frame (`Breaks`); `Reconnect` is the client's `close()` and `connect()`, with a new decoder and
nothing of the old stream. `FrameChannel` has no bytes: payloads come out in the order they went in,
until the connection is lost or one over the limit is refused. `LimitKept` bounds what the decoder
holds.

### Journal and Timeline

A command is the pair of meshes before and after. `EnforceBudget` is the eviction loop, stated by
the number of passes after which its condition first fails. `PushThrows`, `UndoThrows` and
`RedoThrows` are the exits by exception of the three operations, with the stacks and the byte count
as they stand at the throw. `Timeline` knows no commands or bytes: a past, a present, a future, and
a memory that may forget the oldest states. `ImplementsTimeline` maps the past to the `before` of
each undoable command and the future to the `after` of each redoable one, nearest first. An autosave
has the steps another may see between: the document is encoded (`Autosave`), the host's sink has
written (`SinkWrites`), it has returned and the flag is cleared (`AutosaveReturns`). The sink may
throw before it has written or after (`SinkThrows`), and the process may end between any two
(`Restart`, to what the sink wrote last). `CleanMeansSaved` compares the flag with what the sink
wrote at each of these steps. The sink is assumed to write the bytes whole, or not at all, and not
to edit the document it was given the bytes of: an edit from within the sink would be lost from the
flag. The host is assumed to change the EditMesh through commands only (`Document::editMesh` is a
public member, and a host that writes to it directly makes undo overwrite what it wrote).

### MeshKernel and PolygonMesh

The kernel is a sequential library over one value, so the module is too: `mesh` is a record of four
element stores (array, alive flags, free list, count), every private helper and operator of
`cyber::Mesh` is a function from meshes to meshes with the code's order of allocations and frees,
and an action is one call of the public interface. `exported` is what `toIndexed` shows after the
call, and `call` says which call it was; both exist for the properties and change nothing. Positions
are left out, so what depends on geometry is a choice: `tagFeatureEdges` finds every inner edge
creased or none. `paint` is one column of face attributes, with a different value on every imported
face. A call the code refuses (an early return with nothing changed) is a stutter and has no action.
`fillHoles` walks an unordered map, so the vertex it starts with is any; after the first the walk
goes on in ascending order, which is one of the orders a library may have. Bounds: the imported
meshes and the calls a host makes on each (`Seeds`), faces of three corners to add (`FaceSizes`)
that start at their smallest vertex, holes of at most four sides.

`PolygonMesh` has no edges, loops or face ids: an edge is two consecutive corners of a polygon. Each
call is a relation on bags of polygons, written from what the operator is for; triangulation and
hole filling are stated by what they must achieve, so a choice of diagonals is not prescribed.

### MeshParts, MeshPreparation, PartialRetopology and DocumentFile

They compute something from a mesh and change none, so they have operators and no actions of their
own; their properties hold of every mesh the kernel's calls lead to, with its dead elements,
recycled ids, edges of three faces and tags.

`islands` and `linearSubdivide` follow the code's order of ids; the stack of the search is a set
that grows, since the code sorts what it finds. `IslandsPartition` compares the islands with the
polygons and the sides they share, on which no linked cycle is looked at. `SubdivisionTrue` says
that the subdivision has a quad for each corner, painted and turned as its face, and that each edge
became two with the same number of faces and the same tag.

`MeshPreparation` is what the pipeline does to its input before the stages. Positions are places, so
that a weld joins the vertices of one place; none coincide, or any two do. The flood of windings is
the code's, with its queue; whether a closed component is inside out is a choice. `WeldTrue` says
which faces are left over which points. `WindingTrue` says that faces which can be wound alike are,
across edges of just two faces; that no face is changed but turned; that a mesh which needs nothing
is returned as it is; and that a mesh with borders keeps the winding of its first face.
`IslandsTrue` says that the meshes of the islands are the mesh.

`PartialRetopology` is offered any selection of faces, one of them twice and one that is not alive.
`ReadyTrue` says which selections are accepted without the walk of the code: one region, each of its
sides with two faces, and a border that is one loop with two edges at each vertex. A region whose
faces are wound against each other may be refused although its border is a loop; the header is
silent on it. `RegionTrue` says what a replacement leaves alone (every face outside, with its
corners, edges and tags, and every vertex), what it puts in place, and that a refusal gives back the
source.

A file is a sequence of cells, one for each field whatever its width. A mesh is written without its
dead elements, so everything kept by an id is rebased when it is saved: the weights of soft
selections, the rows of attribute columns, and feature tags, which travel as pairs of vertices. In
the model a position, a row and a weight is the id of the element it was on, so that a loaded
document says where each came from. `LoadsWhatWasSaved` compares by that; `FilesAreRead` cuts the
file of each imported mesh at every cell and puts an unknown section at every place. The Target of
the document is a fixed mesh with two dead vertices and a dead face. `CopiesTrue` is all of this,
while a call of the bound is left: saving is a call like others.

### SeamPath

`waypoints` and `segments` are `m_waypoints` and `m_segments`; a segment is its vertices, none if
there is no way, and the mesh it was routed on. The mesh is a graph with a cost per edge.
`weightedVertexPath` is the search of the code, with its queue ordered by distance and then by
vertex (`Search`), and the walk back (`Trace`). `SeamPathSound` measures it by `Least`, a table
outside the code that the module's assumption ties to the graph by Bellman's equations. `MeshEdited`
takes edges away between two edits, as an edit of the mesh under a pending path does.
`SeamEditsAreLocal`, which is the second half of the property `SeamPathSound` of the run, says that
an edit leaves alone the segments it is not about.

`pendingEdges` is looked up from the chain of vertices, in which a segment without a route leaves a
gap. `PendingIsRouted` says what holds of it: without a gap it is the edges of the routes that are
alive; with gaps it has those of the routes before the first; and with one gap, on a mesh that has
not changed, none of another's. With more it may have an edge that no route has, although the code's
comment says it is dropped: the run `SeamJump`.

### ParallelPass

`shadeRayTraced` over `forEachChunk`. A chunk is named by its first item and runs on a thread of its
own, or on the caller when there is one worker or no thread could be had (`SpawnFails`). A thread
polls the token every `CancelStride` items, adds to the shared count and reports every
`ReportStride`; the report is the steps of `TexelProgress` and `ProgressSink` in their order: take
the mutex, read and store the best, read it again, call the host, release. Any item may throw; the
first exception is kept. The caller joins the threads, rethrows it, or writes the image unless a
chunk saw the request to cancel. Two items may end in one pixel, as overlapping texels do.

### BvhBuild

The top levels are built breadth-first by the caller, the ranges below a depth become tasks, workers
take tasks from a counter, and their private node arrays are folded in task order. Where a range is
split is any inner point, noted in `splitAt` so that the folded tree can be compared with what one
thread would have laid out with the same splits: the `Levels` from the root to `TaskDepth`, one
after the other, then `Under` each range of the last its pairs, depth first (`Layout`). The token is
polled where the code polls it, and the shared flag `aborted` by the others.

### DeviceBvh

Snapshots are made (`Bvh::flatten`, or by hand, without a serial), asked about by threads and freed;
the allocator hands an address out again. A query holds the device mutex while it compares the key,
uploads what is missing and runs. `Atomic` tells the two backends apart: CUDA fills new buffers and
replaces the resident ones together, OpenCL replaces them one after the other. With a failure in
between, the OpenCL backend releases the mutex before it drops what is resident
(`opencl_backend.cpp`), which is an action of its own. `answer` is the set of snapshots an answer
was computed from.

### BorderPadding and RegionedBake

`BorderPadding` is pure: a ring of texels is made from the values the ring before left, with the
extrapolation, the averaging and the range clamp of the code. `RegionedBake` is the pass over bands
of rows: the first pass shades and stores, the statistics of the normalization are gathered over all
tiles, the last one loads a band with the rows its padding reaches, pads and hands the band's rows
to the sink. `MapsAsWhole` compares what the sink got with the padding of the whole map, and bounds
what was in memory.

### ImageStream

A writer is opened for an image, handed bands of any number of rows, and finished; each piece it
writes to the file is one action, and any of them may fail. A byte is the sample it encodes, so that
a row in the wrong place, in the wrong channel or written twice is another file. `OneShot` is what
the writers of a whole image make of the same pixels: they are separate code, with their own split
into stored blocks and their own lengths. `BandsAsWhole` says that a finished file is that one; that
the blocks written and the bytes held back are the rows so far, less than a block and a row of them
held back; and that a writer that failed says so ever after.

### RemeshPipeline

`remesh()` is sequential, so the host is the other actor: it watches the progress and may cancel
between any two steps. A mesh is the number of its faces, and a stage has any of its outcomes: it
leaves some faces, or none, or fails, or stops at a ceiling, or sees the request to cancel. An
action is one stage with the decisions the loop over the islands makes of its outcome. The row of
the guidance audit is built as the code builds it, beside what was really lost. `PipelineSound` says
that each island is in the result or diagnosed in the report, in their order; that who cancelled is
handed nothing, and nobody else is told so; that what is delivered keeps its ceilings; that each
island has its row, which gives a reason when guidance was lost; that the fallback was tried where
quad-cover declined; and that progress is full exactly when something was delivered.

### MinCostFlow

`solve()` relaxation by relaxation: the queue of nodes to look at again, the shortest distances, the
augmentation along the path found. `FlowOptimal` compares it with the set of all flows of the
network: at each augmentation the flow so far is a cheapest one of its amount, with the cost that is
reported; at the end none is larger. Costs are not negative, as at both callers, and those of all
arcs together stay below `kInf`, the solver's infinity, so that no path can be mistaken for none.

### ExportBundle

`writeBundle` as a sequence of file operations: refusals before anything is written, the mesh, then
each map, whole or streamed to one file per tile, with any open or write failing and a cancel at any
poll. A path holds which bundle, map and tile it is of and whether it is whole. The mesh may have
any name, that of a map too: the set of names that are taken begins empty (`bundle.cpp:616`), so
such a map is not refused and replaces the mesh. `BundleTrue` says that what the report lists is on
the disk, whole, but for a mesh whose name a map took; that a refusal leaves the disk as it was;
that a bundle with a bound on its working set leaves no cut map, and touches only what it reports,
the mesh and the map it stopped at; and that success means every tile of every map. Several bundles
go to one directory.

### ChartMerge

`greedyMergeCharts` pair by pair and round by round, with the versions and the entries of
`RejectionMemo`. `accept` is an arbitrary function of two face lists, chosen at its first call; the
module notes when it is asked the same question twice. `MergeRight` says that what the memo skips
was answered with no, for the same two lists; that no question is asked twice; that a pass that ends
has reached its fixpoint; that the lists are the charts; and that the labels are theirs, without
gaps.

### RemeshControl, RemeshJob, ZRemesherOperation and Promise

Tasks call `value()`, hosts call `cancel()`, a cancelled task calls it too, and the engine runs in a
detached thread that is named after the task that detached it. A critical section of the box's or
the job's lock is one action; what a method does after unlocking (detaching the thread, forwarding
the request, closing the stream, resuming the continuations one by one) is an action of its own. The
engine is external and promises only to return: it reports any fraction, polls when it likes, and
says "cancelled" only if it was told. "completed" stands for a mesh or another error, which the
input decides. The stream is the sequence of what it was given; that its buffer keeps the newest
value only is left out, since a reader then sees a subsequence. `Promise` is the contract of such an
operation: it settles once, and each task is answered once, with what it settled to.

### AppModel

The methods and continuations of `AppModel` run on the main actor, so each part between two
suspensions is one action: `open`, `autosaveOnResignActive`, `runRemesh`, `cancelOperation`, a value
that resumes the pump (`updateProgress`), and the answer that resumes the awaiting task (`Resumes`),
which commits or rolls back. The engine's thread passes its last poll (`Concludes`) and returns a
mesh, an error, or "cancelled" if it saw the request before. The shell sees an operation as
`RemeshJob` promises it: one engine run, one answer.

## Runs

| run | states | shows |
|---|---|---|
| `BridgeServerSafety` | 2.5 M, 137 s | start, serve and stop with three connection threads, a cap of two, and a host that opens a descriptor of its own: a stopped server owns nothing, `stop()` waits only for threads it has unblocked, no number is used after it changed hands; and the inductive invariant of the proofs, with the cap and the exact count of slots. Two clients, two meshes, three revisions: markers of pulls are sound; a push is never answered with an older revision; with a client that gives up, no press is delivered twice or out of order |
| `BridgeLive` | 166 k, 148 s | `stop()` returns; a connection whose peer hung up is reaped; every request, malformed or thrown out of anywhere, of one lock or of two, gets one frame in reply, or its client gave up |
| `SessionPushMarker` | violated | a push may be answered with the revision of another client's push |
| `SessionTimeout` | violated | a late reply is taken for the answer to the next request |
| `Engine` | 375 k, 121 s | the parallel pass, the hierarchy build, device queries, the remeshing pipeline, the flow solver, the regioned bake, the writing of images, the export bundle, the chart merge and the framing: each of their safety properties, the refinement of `FrameChannel`, and that work ends and frames arrive |
| `DeviceFailure` | violated | with OpenCL's upload a query may run on the buffers of two snapshots |
| `Document` | 125 k, 114 s | the journal (with and without operations that throw) and its refinement of `Timeline`; kernel calls on six meshes and their refinement of `PolygonMesh`; of the meshes these lead to, islands, subdivision, the preparation of a remesh, partial retopology and the round trip through a file; a seam path under edits and a changing mesh |
| `MeshTags` | violated | a collapse between two untagged vertices untags boundary edges |
| `SeamJump` | violated | with a gap between routed segments an edge is reported as pending that is of no route |
| `Shell` | 195 k, 60 s | three tasks and a host on one job: one run and one request, ordered progress that ends, the refinement of `Promise`; the iPadOS shell: overlay, run and document agree, and the interface comes back |
| `CancelCommit` | violated | a run that was cancelled late replaces the document |
| `ZRemesherAnswers` | violated | two awaiters of one operation are answered by different runs |

Parts side by side. `Engine`, `Document`, `Shell` and the two runs of `Bridge` hold several modules
that share no state in the code, so that interleaving them would multiply states and show nothing.
Each has a variable `part`, chosen initially, that says which module moves in a behaviour; the
variables of the others stay in an initial state. A property of an idle part is checked in its
initial states only, and in every state of its own behaviours. Fairness is that of the modules; in
the initial state of an idle part no action it speaks of is enabled, so it asks nothing there, and
each liveness property is either true of an idle part or guarded by `part`. Where the code couples
two components the coupling is inside a module: the sink and the token under the workers in
`ParallelPass`, padding and regions, box and job, session and clients.

Bounds.

- *Server.* Three connection threads with a cap of two are the least that can exceed the cap and
  still have two at once; six numbers hold the three of the server, two connections and one more.
  The liveness run has two threads and no other opener.
- *Session.* Two clients are enough for each of its races, which are between two commands; three
  revisions separate "mine", "another's" and one that a scene was cleared under; two presses can be
  reordered, one timeout makes one late reply. For the answers one mesh and one button do, since the
  frames do not depend on which it is.
- *Framing.* Radix 2, a header of two bytes and a limit of two, so that payloads are below, at and
  over the limit, and a `recv` of three bytes can hold an end and a beginning. Two frames, two
  connections.
- *Parallel pass.* Five items on one to three workers give chunks of equal and unequal size and a
  remainder; strides of two fall inside chunks and across their ends; two items share a pixel; one
  throws.
- *Hierarchy.* Six references give tasks of different sizes for two workers, and poll spans that
  some ranges exceed.
- *Device.* Two threads, two addresses, two buffers, two snapshots: the least with a reused address
  and a mixture. *Bundles.* Two bundles of up to two maps and two tiles: the least in which one
  meets the files of another; in one preset a map has the name of the mesh. *Regions.* Maps of 2 by
  7 texels, radii 0 to 2, a working set that is unbounded or of 13 texels, which holds a band with
  its halo but not the map. *Merge.* Four charts: three merges, with a rejection that must expire.
- *Images.* Widths of up to two and heights of up to four in one to four channels, grey, unusable
  and too large for the length field included, with blocks of four bytes: rows shorter and longer
  than a block, and images that end with a block. *Pipeline.* Two islands of different weight, and
  runs that differ in method, fallback, guidance, ceilings and pure quads: one island may fail, or
  be recovered, beside one that does not. *Flow.* Four nodes and six arcs, with ways that cross and
  a parallel arc: the least in which flow must be taken back, and a node looked at twice.
- *Journal.* Four commands with three sizes and three budgets give evictions of none, some and all
  but one; with two operations that throw, two commands suffice to make the count go wrong.
- *Kernel.* The six meshes have inner, boundary and three-sided edges, quads, vertices of degree two
  to four and two closed surfaces, on the larger of which selections have one border, several or
  none; two calls are the least in which the second works on ids the first freed, and three follow a
  split and a collapse by one more. What is computed from a mesh is checked on every mesh that at
  least one call less leads to, so after one call or two.
- *Seams.* Two graphs on five vertices, the second without two edges of the first and so with a
  vertex cut off, and one edge apart from the rest; four waypoints and two commits in `Document`, so
  that an edit leaves a segment on either side alone. With five waypoints and one commit, which is
  not a run of its own, `SeamPathSound` holds too (333 k states, 136 s). `SeamJump` has five
  waypoints on an unchanged mesh, which is the least for a route, a way out of its part of the mesh
  and back, and another route.
- *Job and shell.* Three tasks allow one that starts the run, one that waits with it and one that
  comes when it ends; two reports and two steps of progress allow one out of order. The shell has
  two runs, the least in which a stale continuation meets the next run, and one file.

Deadlock is not checked where the system may stop: a library that nobody calls any more, an
operation that was answered, a host that quit; the .cfg files say so.

What the violated runs show:

- `SessionPushMarker`. `push_editmesh` sets the mesh and reads the revision under two locks
  (`message.cpp:41-42`). When another push comes between, the client is given that push's revision
  as the marker of its own, and `query_changed` then says "unchanged" although the session holds the
  other mesh.
- `SessionTimeout`. The Python client keeps its socket after a timeout; the late reply is the next
  frame it reads.
- `DeviceFailure`. An upload of the OpenCL backend fails after it has replaced some of the buffers.
  The mutex is released before `dropResidentBvh` takes it again; a query of another thread that
  comes between, for the hierarchy that was resident, finds its key still in place and runs on
  buffers of two hierarchies. The run needs one failed device call and two threads.
- `MeshTags`. `mergeVertices` memorises the tags of edges at the removed vertex only. An edge on the
  far side of a rebuilt face that no other face uses is destroyed with its face and created again,
  untagged.
- `SeamJump`. Waypoints 2, 1, 4, 2, 3, where no way leads to 4: the routes are 2-1 and 2-3 with two
  segments without one between. `vertices()` drops the first vertex of a route that follows another,
  as if they had a joint (`seam_path.cpp:172`), and gives 2, 1, 3; `pendingEdges()` looks up the
  edge between 1 and 3, which exists and is of neither route, and misses the one between 2 and 3.
  `commit()` refuses a path with a gap, so the wrong edge is shown and not marked.
- `CancelCommit`. The request may come after the engine's last poll, or when the result is there and
  the task that awaits it was not resumed yet. The run then succeeds, and the success branch commits
  without asking whether it was cancelled, so that the document is replaced by a result the user
  cancelled.
- `ZRemesherAnswers`. A second `value()` starts a second run, with the flag and the stream of the
  first.

Fairness. `StopNext` is weakly fair: the thread that called `stop()` keeps running. The accept
thread is weakly fair because its poll times out after 200 ms. A connection thread is weakly fair in
the steps that do not wait for its peer, and strongly fair in taking `connMutex`, whose critical
sections are finite. Nothing is assumed of peers, of the rest of the host or of spurious wake-ups.
In `BridgeSession` connection threads (`Serve`) and waiting clients (`Receive`) are weakly fair. In
`ParallelPass`, `BvhBuild`, `ChartMerge`, `MinCostFlow` and `RemeshPipeline` it is only assumed
that, while some thread can take a step, one does. In `FrameStream` the sender's `send` and the
receiver's `recv` are weakly fair; a connection need not break or be made anew. In `RemeshJob` a
task inside `value()`, a `cancel()` that has begun and a native thread are weakly fair: each is a
running thread between short critical sections. That a native run returns is the engine's part and
is assumed; that it reports or polls is not. In `AppModel` each run is weakly fair in what takes it
to its end: its task starts it, the engine concludes and returns, and the main actor resumes the
task.

## Theorems

`BridgeServerProofs`, for every number of threads and descriptors, and every cap. The invariants the
runs check are not inductive: that a closed number is nobody's needs to know who holds each open
one, and the slot count needs to know which threads hold slots. `IndInv` adds this: `PhaseInv`
(which phases of owner and accept thread go together), `LockInv` (who holds the mutex), `OwnerInv`
(each open number belongs to exactly the variable that names it) and `SlotInv` (`connFds` and
`activeHandlers` as functions of the program counters). `Invariance` proves it; `Typing`,
`SlotsExact`, `DescriptorsNotShared`, `StopReleasesEverything`, `CapHolds`, `DescriptorsAreFresh`,
`ForeignSafe` and `StopLeavesNobodyParked` follow. The module extends `Bridge`: `MarkersTell`,
`PushesNotOutdated` and `PressesReachOne` say of the composition what `BridgeSessionProofs` says of
a session, each by an instance of that module over the same variables, whose steps are those of the
part.

`BridgeSessionProofs`, for any number of clients, meshes, buttons and presses. `FrameInv` says what
the frames on the connections are, and that a push under way has its revision behind it:
`PushNotOutdated` follows, time-outs or not. `OneFrameEach` counts the frames of a client, through
every step that serves, refuses or throws: it is the safety half of `RequestsAnswered` for any
number of clients. `OrderInv` looks at the taps a client has received and, after them, those in
replies on their way to it: they increase, all are before the queued ones, and those of two clients
are apart. `PressesOnce` follows. `MarkerInv` says that one frame at a time belongs to a client, and
that each reply would leave its view sound. `PulledMarkersTell` follows, for clients that wait for
their answers (`MaxTimeout = 0`, an assumption of that theorem alone: the run `SessionTimeout` shows
why it is there).

`JournalProofs`, for every set of meshes, sizes and budgets. When no operation throws, `Invariance`:
the commands chain and end at the document, and what the sink wrote is the document as soon as the
flag is about to be cleared; `ChainHolds` and `CleanIsSaved` follow (the sink may throw, and the
process end, at any step), and `Refinement`: every step of the journal is a step of `Timeline` or a
stutter. `AccountsHold` is about the bytes, with operations that throw as well: its inductive
invariant is the accounting itself, and the work is in the cost of a sequence of commands, which
every step cuts or extends. `EvictsOnlyOverBudget` says of the eviction loop that it stops as soon
as it may. A cost is a running sum, a recursive function; `SumsProofs` proves what is needed of it
(`SumSplits`: the sum of a sequence cut in two; that it is positive when its terms are). An
induction is done there on a set: the naturals from some number on are the least set with that
number and closed under successor (`NatsFrom`), which follows from the well-foundedness of the order
without a theorem that takes an operator.

`StreamProofs` has three parts. The first is the bake in regions, `RegionsWhole`, for any tiles,
size, coverage, values, radius and working set. The scratch files hold, pass by pass, what the whole
bake has above the place the pass has come to, first as shaded, then as normalized (`ScratchInv`),
and the sink the first rows of the whole result (`OutInv`). The mean is a sum over the texels met so
far, and a region adds those of its rows (`TotalSplits`, `MeanGains`). That padding a window gives
the rows that padding the whole tile gives is `PadLocal`: a ring reads two rows above and below a
texel (`RingAgrees`), and the halo has two for every ring. Halved, it is the mutant `HaloOfRadius`,
which the run refutes.

The second is the framing, for any payloads, any limit, length of header and radix, any number of
frames and connections, and any pieces of the stream. `FrameInv` lays the frames of a connection end
to end: a function gives where each one ends (`Framed`), and what was delivered, what the decoder
holds, what is under way and what is still to write, one after the other, is that text. So a length
the decoder reads is the length of the next frame: the digits of `Header` are a number again, for a
payload whose length fits into the header (`StreamAssumption`; `encodeFrame` casts to 32 bits, and
what a longer payload would do is in the observations). `LimitIsKept` follows, and
`StreamIsChannel`: `Pop` is a delivery of the channel, `sendFrame` a sending, `Reconnect` a new
connection, and everything else a stutter.

The third is the hierarchy, `BuildsAreSerial`, for any number of triangles and workers, any leaf
size, depths and schedule, and a request to cancel at any time. What the property says of the
finished build, `BuildInv` says of every place on the way, for the split points known so far:

- while the levels are built (`LevelInv`), the tasks are the ranges of this level in their order,
  each at its place in the layout (`TasksAt`); what is above them is linked to its halves
  (`UpperLinked`); and no split cuts a range of the level (`SplitInv`), so that the splits of one
  level leave those above as they are (`LevelsSame`). The nodes that the next level allocates are
  counted off by the ranges split before (`ForksCount`), which is where `FlattenSeq` puts their
  halves (`FlatPairs`).
- while the subtrees are built (`SubtreeInv`), the array of each task is the layout below its range,
  and a node of it is linked or on the stack of the worker that has the task (`TreesInv`). A worker
  has on its stack, from left to right, ranges that lie to the right of all it has split there
  (`OnStack`): therefore a split appends its halves to the layout of the subtree (`UnderGrows`) as
  the code appends them to the array. It changes neither the levels (`LevelsStay`) nor the subtrees
  of others (`ForkOthers`), and nobody has split within a task that is not yet taken (`FreshInv`).
- while the subtrees are folded in (`FoldInv`), the nodes are the levels and the subtrees so far
  (`Sofar`), linked except for the places of those still to come; moving the links of a private
  array by its place makes them links of the whole (`ShiftedLink`).

That a finished build has only small leaves (`LeafInv`) needs that each level of depth costs a range
at least one triangle: where there are no more triangles than levels allowed (`MaxDepth >= Refs`),
the limit on the depth is not what ended it. The layout is a recursive function over the sizes of
ranges; its equations (`LevelsAre`, `UnderIs`) are proved by induction on a set, like those of the
sums.

`EngineProofs` is about the parts of `MCEngine`.

- *Parallel pass*, for any number of items, workers, strides, throwing items and any overlap of
  pixels. `PassIsWhole` speaks of the end; to get there the invariant must know who has which items
  on the way. Its conjuncts: `TypeOK`; that the chunks are disjoint ranges below what has been
  handed out (`RangeInv`) and leave no gap (`CoverInv`); that an item is shaded once its chunk is
  past it and not before (`ShadeInv`); why a chunk is over, and what the caller made of it
  (`EndInv`); that the image is untouched or complete (`ImageInv`); that one thread at a time raises
  the best value, and tells the host what it is (`ProgressInv`). `Invariance` proves it;
  `PassWhole`, `EachItemOnce`, `ThreadsEnd`, `ErrorsSurface`, `ImageWhole` and `ProgressMonotone`
  follow. `PassEndsPromptly` needs two more: the count is that of the items shaded, and whoever
  counted the last of them tells the host or somebody has (`CountInv`); and the items a chunk shaded
  since the cancel request are at most those since its last poll (`LateInv`), which is arithmetic
  modulo the stride.
- *Device*, for any number of threads, addresses, buffers and failures, when the buffers are
  replaced together: what the key names fills all buffers, and a thread that runs its kernel has all
  of its own (`DeviceInv`). `AtomicAnswers` follows. Without `Atomic` the run `DeviceFailure`
  refutes it.
- *Framing, pipeline, charts, bundles, flows, maps and hierarchy.* `EngineKeepsLimit`,
  `EngineFramesAreChannel`, `EngineRunsSound`, `EngineMergesRight`, `EngineBundlesTrue`,
  `EngineFlowsCheapest`, `EngineMapsAsWhole` and `EngineHierarchySound` carry the theorems of
  `StreamProofs` and `AssetProofs` to the instances the run `Engine` checks: each names an instance
  of the proof module over the same variables, shows that a step of the engine is a step of that
  instance or leaves its variables alone, and cites its theorem. The last adds `AtomicAnswers` of
  the device.

`ShellProofs`, for any number of tasks, hosts, reports, files and runs. `WorkerInv` says that the
one thread there may be was started by whom the job says, and that it alone settles the job;
`WaiterInv` that a continuation is held once, by the job before it settles and by `finish()` after;
`AnswerInv` that a task has its answer exactly when it says so; `RequestInv` that one canceller at a
time owes the request; `StreamInv` that nothing in the stream exceeds the box's progress while the
box is open, and that the one who closes it has not done so yet. `RunsOnce`, `StreamInOrder` and
`Refinement` follow. They use that `Unsettled` is no result and that hosts are not tasks. Of the
iPadOS shell `ShellHolds` says all that the run checks, by the invariant that the overlay's run is
the one that is awaited.

`AssetProofs` has five parts. The first is the pipeline, for any islands, sizes, ceilings and
guidance. The runs' properties speak of what is delivered; `Inv` adds what holds on the way there:
before the islands are done nothing is delivered (`NothingBefore`), a row is honest from the moment
it is made (`Audited`), an island that was tried is within its ceiling or not counted
(`IslandsWithin`), and each exit that delivers has passed the last ceiling (`DeliveredWithin`).
Every way out of an island goes through `Leave`, so one lemma (`LeaveKeeps`) carries the stages.
`NothingWhenCancelled`, `CeilingsHold`, `GuidanceNeverSilent` and `FallbackBeforeDiagnosis` follow.
`FullInvariance` adds that rows and outcomes are those of the islands before the one that is worked
on (`RowsAudited`), and that the faces that count are a sum over them: the merged and the failed
islands are ordered lists, the total is a running sum, both recursive functions, with their lemmas
in `SumsProofs`. `PipelineIsSound` is all of it.

The second is the merge of charts, `MemoChangesNothing`, for any faces, labels and borders and any
answers of `accept`. That the memo is right needs to know what its stamps mean. `StampInv`: no entry
is stamped ahead of its charts. `AskedInv`: every list `accept` was asked about is, at that moment
and later, of one chart, so a chart that has grown was never asked about, and a pair of roots was
asked about exactly when the memo knows it as rejected. The rest is `ListsInv` (a root leads to
itself and is the least of its chart, and its list has each face of the chart once), `CountedInv`
(the merges counted are the charts that are gone) and `RoundInv` (when nothing has changed in this
round, the pairs behind it are settled). The labels without gaps are the ranks of the first faces of
the charts, by lemmas on cardinalities.

The third is the bundle, `BundlesTellTheTruth`, for any presets, tiles, bounds and failures, and any
names of maps and mesh. What the properties say of the end, `BundleInv` says of every place on the
way: where the bundle is, and which steps belong to which kind of map (`PlaceInv`); the paths taken
are those of the maps and tiles before this one, each taken once, and the report lists those that
are written (`FilesInv`); each path has either what it had before the bundle began or what this
bundle wrote to it (`DiskInv`), with the serial of the bundle to tell its files from older ones
(`SerialInv`). Where a map has the name of the mesh, the invariant says which file is at that path
and that the report lists both: the theorem gives up the mesh's content, and nothing else.

The fourth is the flow solver, `FlowsAreCheapest`, for any network, capacities and costs. That a
flow is a cheapest one is a statement about all flows; what the solver keeps from step to step is
local. `FlowInv`: what was pushed respects the capacities, is undone by its twin edges, and has the
amount and the cost that are reported. `FairPrices`: there is a price of each node at which no edge
with room left is too cheap; the distances of a search that is over are the next prices, where the
search came, and a bound elsewhere. Within a search, `DistanceInv` (a distance is never below what
the prices allow), `TreeInv` with `Ranked` (the edges by which nodes were reached lead back to the
source, although distances still change behind them) and `OpenInv` (an edge that would shorten a
distance is still to be looked at). From these: the path found carries one unit at the cost of its
distance (`PathsAreGood`), a search reaches whatever can be reached (`CutOff`, where the assumption
on the costs is used), and any other flow, weighed with the prices, costs at least as much
(`Exchange`). `Cheapest` and `Most` follow. The sums are recursive functions, with linearity and
bounds in `SumsProofs`.

The fifth is the writing of images, `BandsWhole`, for any sizes, channels, bands and size of block.
The bytes of the rows written so far, cut into full blocks as long as something is left for the last
one, are what the file has and what the writer holds back (`Cut` in `PngInv`); `CallInv` and
`WriterInv` say where a call stands and what the calls before left. `zlibStored()` cuts a text it
has as a whole in the same places (`ZlibIs`). The concatenation of rows is the community modules'
`FlattenSeq`, of which the lemma `FlatAppend` is all that is needed.

Only model-checked, and why:

- liveness (`StopTerminates`, `HungUpIsReaped`, `RequestsAnswered`, `WorkEnds`, `FramesArrive`,
  `OperationsEnd`), which the prover cannot reach;
- `FailingAccounts`, `StructureSound` and `CopiesTrue` of `Document`, whose composition reaches the
  recursive search of `SeamPath`; the accounts of the journal are proved in a module without it. The
  kernel itself walks along cycles of links, so what its operators keep is an induction over data.

## Observations

Reading the code for the models showed more than the runs assert. These are not findings: no
document of the repository rules them out, or the run that showed it gave way to another.

- `setTarget` leaves the guides and the density of the previous Target in place, although both index
  into its geometry; `session.hpp:57-58` says they are cleared alongside it, which only `clearScene`
  does.
- `UndoStack::undo` pops the command before `revert()`. If that throws, the command is gone and its
  bytes stay in `m_used`, so that later commands are evicted which would fit. The action is
  `UndoThrows`; `Document` shows that the count at least never wraps.
- `ReplaceEditMeshCommand` assigns meshes member by member; an allocation failure leaves half of one
  (`HalfReplaced`).
- A tap goes to whichever client polls first, registered or not. Taps that were drained for a reply
  which then throws (`ReplyThrows`), or which the client no longer waits for, are lost.
- An autosave with an empty sink clears the dirty flag all the same and returns true
  (`document.cpp:628-632`).
- `pull_target` reads "present" and the mesh under two locks.
- A partial retopology keeps every vertex of the source, those inside the replaced region too; they
  are left without a face, and nothing removes them.
- `flipEdge` removes both faces and makes the diagonal anew, untagged and without attributes; the
  tags of the four edges around it are put back, their rows of edge attributes are not where such an
  edge was on the border and so was destroyed with its face (`mergeVertices` puts both back).
- In meshes with quads a collapse that passes the link condition may leave an edge with three faces;
  the header promises it for triangles.
- On boundaries that touch themselves, what `fillHoles` fills depends on the order of a hash table.
- `ProgressSink::report` reads the best value again for the callback. The repository's own parallel
  caller holds a mutex around it.
- The second of two callers of the Swift `cancel()` may return before the box has the request, and
  an awaiter that comes after the job has settled may be answered before the stream has ended.
- `encodeFrame` casts the length to 32 bits; nothing on the sending side refuses a payload over the
  limit, so the receiver does, by closing the connection.
- A map of a bundle may have the name of the mesh and then replaces it, unreported, and a bundle
  that is cancelled or fails while it streams such a map removes the file, which the report still
  lists as the mesh (`bundle.cpp:616`, `export_preset.cpp:431-440`); a duplicate name is refused
  only when the mesh and the maps before are written; a cancelled bundle leaves new files beside
  those of an older one; an abandoned map also removes the file that was there before.

- iPadOS shell: the pump of a finished run may show a late value in the overlay of the next one; a
  file opened during a run is replaced by the run's commit, which looks at nothing before it commits
  (`application-shell/spec.md:66` says that "a superseded or cancelled run SHALL never flash stale
  results into the viewport or document": the run `CancelCommit` asks for the cancelled half, and
  whether opening a file supersedes a run the spec does not say); a run works on `displayedMesh`, so
  what a session edited since is lost when it commits.
- Pipeline: the audit of guidance is "pushed on every exit" (`pipeline.cpp:860-861`), but an island
  at which the whole run stops pushes none. When a quadrangulator accepts the density and reports
  later that it could not honor it, `densityHonored` stays set (the reason says so). The fallback's
  `resourceLimit` is not looked at: the island counts as failed, with the reason of the first
  attempt. An exception of one island ends the run. An error at the subdivision or the output
  ceiling leaves the mesh in the result.
- Android shell (`EngineSession.kt`, read and not modelled): a progress callback reads the state and
  then writes it, and may overwrite "cancelling" by "running"; `open()` and `dispose()` destroy the
  mesh a running remesh reads; a success commits without looking at the request to cancel.

## Assumptions about what surrounds the code

`getsockname` on a bound socket does not fail. `shutdown()` on a listening socket makes `accept()`
return, as on Linux. `open` gives the lowest free number. A host edits the EditMesh through
commands. A condition variable may wake without reason. The engine, seen from Swift, returns.

## Plan

Modelled so far, in this order: the server, the session, the journal, the kernel, the Swift
operations, then the workers, the hierarchy, device residency, framing, the regioned bake, bundles,
the chart merge, seam paths, the iPadOS shell, image streams, the flow solver, the pipeline, islands
and subdivision, the preparation of a remesh, partial retopology, and the file of a document. What
is left, each with its own properties:

1. Theorems about the element stores of the kernel (allocation and release keep them sound).
2. The Android shell, whose engine session has races of its own (see Observations).
3. Pins and symmetry of the retopology tools.
4. The recognizers of pointer input.

## Not modelled, and why

- Numeric code (isotropic remesher, quadrangulation but for its flow solver, curvature, baking
  kernels, unwrapping, packing, queries of the spatial index, cages): floating point, whose
  correctness is geometric quality.
- Parsers and writers (mesh files, decoders of images, presets, JSON): strings and numbers without
  state.
- Device code (kernels, rendering) and user interfaces: they need the device or the window.
- Forwarders (C API, Python, Rust, most of Swift, command line): one call of the engine per call.
- Vendored code under `src/thirdparty`, about half of the lines counted as implementation (`ufbx`,
  `tinygltf`, `json.hpp`, `doctest`). With the groups above it is by far the largest part of the
  repository, so the models cover a small share of its lines and most of its concurrency, its
  failure handling and its state between calls.
- In the modelled parts: positions and attribute columns other than one of a kind, the averaging of
  rows, the bytes of cells, wording, and the registers of the session that no other state depends on
  (symmetry, camera, message).
