------------------------------ MODULE MCDocument ------------------------------
(***************************************************************************)
(* What a document is made of: its journal, without and with operations    *)
(* that throw, the mesh kernel under its meshes with what is made of them   *)
(* and the file they are saved to, and a seam path over one.                *)
(* They share no state here (the journal holds whole meshes, and a path     *)
(* keeps ids), so their interleavings say nothing new: part tells which of  *)
(* them moves in a behaviour, and the others stay in one of the states they *)
(* may begin in.                                                            *)
(***************************************************************************)
EXTENDS Journal, Integers, FiniteSets, MeshSeeds

CONSTANT None   \* the kernel's invalid id

VARIABLES
    part,
    \* A second journal, whose operations may throw.
    fEditMesh, fDirty, fUndo, fRedo, fBudget, fUsed, fEvicted, fSaving, fSaved,
    fFailures,
    \* MeshKernel with what is made of a mesh
    mesh, exported, call,
    \* SeamPath
    at, waypoints, segments, resume, seams, commits

failingVars == <<fEditMesh, fDirty, fUndo, fRedo, fBudget, fUsed, fEvicted, fSaving, fSaved,
                 fFailures>>
kernelVars == <<mesh, exported, call>>
seamVars == <<at, waypoints, segments, resume, seams, commits>>

\* Small and large meshes; a torn one owns what was copied so far.
MCSize == [m \in Snapshot |-> m]

Failing == INSTANCE Journal WITH
    Mesh <- {1, 4}, Budgets <- {0, 5}, MaxCommands <- 2, MaxFailures <- 2,
    editMesh <- fEditMesh, dirty <- fDirty, undo <- fUndo, redo <- fRedo, budget <- fBudget,
    used <- fUsed, evicted <- fEvicted, saving <- fSaving, saved <- fSaved, failures <- fFailures

Kernel == INSTANCE DocumentFile WITH Seeds <- SeedMeshes, FaceSizes <- {3}, HoleLimit <- 4

Pipeline == INSTANCE MeshPreparation WITH
    Seeds <- SeedMeshes, FaceSizes <- {3}, HoleLimit <- 4

Retopology == INSTANCE PartialRetopology WITH
    Seeds <- SeedMeshes, FaceSizes <- {3}, HoleLimit <- 4

Seam == INSTANCE SeamPath WITH
    Mesh <- SeamMesh, EdgeCost <- SeamCost, Least <- SeamLeast, Far <- FarAway,
    MaxWaypoints <- 4, MaxCommits <- 2

ASSUME Kernel!KernelAssumption
ASSUME Seam!SeamAssumption

-----------------------------------------------------------------------------
MCInit ==
    /\ part \in {"journal", "failing", "mesh", "seam"}
    /\ Init /\ (part # "journal" => editMesh = 1 /\ budget = 0)
    /\ Failing!Init /\ (part # "failing" => fEditMesh = 1 /\ fBudget = 0)
    /\ Kernel!Init /\ (part # "mesh" => Kernel!AliveIds(mesh.vertex) = {1, 2, 3, 4}
                                        /\ mesh.face.live = 2)
    /\ Seam!Init

JournalMoves ==
    part = "journal" /\ ReliableNext /\ UNCHANGED <<part, failingVars, kernelVars, seamVars>>
FailingMoves ==
    part = "failing" /\ Failing!Next /\ UNCHANGED <<part, vars, kernelVars, seamVars>>
MeshMoves == part = "mesh" /\ Kernel!Next /\ UNCHANGED <<part, vars, failingVars, seamVars>>
SeamMoves == part = "seam" /\ Seam!Next /\ UNCHANGED <<part, vars, failingVars, kernelVars>>

MCSpec ==
    /\ MCInit
    /\ [][JournalMoves \/ FailingMoves \/ MeshMoves \/ SeamMoves]_<<
            part, vars, failingVars, kernelVars, seamVars>>

-----------------------------------------------------------------------------
(* The properties of the instances, by their own names *)

\* The same accounts, where operations throw.
FailingAccounts == part = "failing" => Failing!JournalAccounts

StructureSound == part = "mesh" => Kernel!StructureSound
ImplementsPolygons == Kernel!ImplementsPolygons

\* No operator makes an edge of three faces of a manifold mesh, or touches a face
\* that has nothing to do with what it was asked for.
OperatorsKeepToTheirOwn == Kernel!CollapseKeepsManifold /\ Kernel!UnrelatedFacesStay

\* What is made of a mesh is true to it: what the pipeline prepares, the islands it
\* works on, the subdivision it ends with, a region that was replaced by a patch, and
\* the document loaded from a file.
CopiesTrue ==
    part = "mesh" =>
        /\ Kernel!PartsSound /\ Pipeline!PreparationSound
        /\ Retopology!PartialSound /\ Kernel!SavedDocumentLoads

\* The cached routes of a pending path are those of its waypoints, and it marks,
\* and takes back, just what it shows; an edit re-routes what it touches only.
SeamPathSound == [](part = "seam" => Seam!SeamPathSound) /\ Seam!SeamEditsAreLocal
=============================================================================
