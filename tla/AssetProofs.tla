-------------------------------- MODULE AssetProofs --------------------------------
(***************************************************************************)
(* From the mesh that comes in to the files that go out.                   *)
(*                                                                         *)
(* What a run of the remeshing pipeline may deliver, for any calls,        *)
(* islands and outcomes of the stages: nothing to who cancelled, nothing   *)
(* above a ceiling, an audit that is complete and honest, no island given  *)
(* up before the fallback was tried on it, every island in the result or   *)
(* in the report, and the host told of the whole exactly when it is        *)
(* delivered.  The proof is in two halves.  Inv is about the islands one   *)
(* at a time and takes the sums over them as they are: what is counted is  *)
(* compared with the ceiling.  Counted and Accounted are about all of      *)
(* them: the weight told to the host is the running sum of the sizes,      *)
(* which SumsProofs says to be unique and rising, and the lists of the     *)
(* report are the islands in their order.                                  *)
(*                                                                         *)
(* That the merge of charts with its memo is the merge without, for any    *)
(* charts, borders and answers of accept (ChartInv): a stamp is never      *)
(* ahead of its charts, and a list that was asked about is of one chart.   *)
(*                                                                         *)
(* That an export bundle tells the truth, for any presets, path of the     *)
(* mesh, tiles, failures and cancellations (BundleInv): what has been      *)
(* written of it is a prefix of the maps and tiles in their order, over    *)
(* the mesh (Found).                                                       *)
(*                                                                         *)
(* That successive shortest paths finds the cheapest flow, for any network *)
(* (SolverInv): there are prices, the distances of the searches before, at *)
(* which no edge with room is too cheap; the tree a search has built leads *)
(* back to the source, so that what is pushed along its path is a flow;    *)
(* and any other flow is weighed with the prices.                          *)
(*                                                                         *)
(* That an image written in bands is the file of the one-shot writer, for  *)
(* any size, bands and length of a block: a PNG is, at any point, the      *)
(* longest blocks that the bytes of its rows so far fill, without the last *)
(* of them, and what is left is held back (Cut); an EXR file is its rows   *)
(* so far (ImageInv).                                                      *)
(***************************************************************************)
EXTENDS RemeshPipeline, SumsProofs, FiniteSetTheorems

CONSTANTS
    Charts, Labellings, Borders,                        \* of ChartMerge
    Suffix, Outside, Presets, MeshPath, MaxTiles, MaxBundles,   \* of ExportBundle
    Nodes, Networks, kInf,                              \* of MinCostFlow
    Widths, Heights, Channels, kMaxBlock, LengthLimit   \* of ImageStream

VARIABLES
    \* ChartMerge
    chartOf, pairs, givenCharts, root, chartFaces, version, entries, at, changed, merges, mergeStatus,
    accept, repeated,
    \* ExportBundle
    disk, before, bundles, preset, tiles, udim, bounded, step, entry, tile, written, opened,
    files, bundleOutcome,
    \* MinCostFlow
    arcs, flow, dist, prevEdge, queue, inQueue, visiting, totalFlow, totalCost, solved,
    \* ImageStream
    picture, file, writer, intact, ended, rowsWritten, pending, adler, crc, writing, returned

Unwrap == INSTANCE ChartMerge WITH status <- mergeStatus, given <- givenCharts
Bundle == INSTANCE ExportBundle WITH outcome <- bundleOutcome
Flow == INSTANCE MinCostFlow
Image == INSTANCE ImageStream WITH
    image <- picture, state <- writer, ok <- intact, finished <- ended, call <- writing

-----------------------------------------------------------------------------
(* The inductive invariant *)

Row == [guides : BOOLEAN, density : BOOLEAN, reason : BOOLEAN, lost : SUBSET Guidance]
Stage == {"", "isotropic", "quadrangulate", "cleanup"}
Attempts == SUBSET {"quadrangulate", "fallback"}
Island == [faces : Nat, stage : Stage, row : Row, tried : Attempts]
Outcome == [ok : BOOLEAN, faces : Nat, stage : Stage, tried : Attempts]

AtIsland == {"isotropic", "quadrangulate", "recover", "fallback", "policy"}
AfterMerge == {"fill", "subdivide", "count"}

Typed ==
    /\ run \in Runs /\ pc \in {"begin", "islands", "done"} \cup AtIsland \cup AfterMerge
    /\ status \in {"running", "success", "partial", "cancelled", "error"}
    /\ status = "running" <=> pc # "done"
    /\ outcomes \in Seq(Outcome) /\ rows \in Seq(Row) /\ island \in Island
    /\ cancelled \in BOOLEAN

\* Nothing is in the result before the merge, and whoever is cancelled is so before it.
NothingBefore ==
    /\ pc \in {"begin", "islands"} \cup AtIsland => merged = <<>> /\ faces = 0
    /\ CancelledHasNothing

HonestRow(row) == (row.lost # {} => row.reason) /\ (row.guides => row.lost = {})

\* The row of the island that is worked on is honest whenever it may be left, and it
\* claims nothing before a quadrangulator was asked.
Audited ==
    /\ Len(outcomes) <= Len(run.sizes)
    /\ pc \in AtIsland => Len(outcomes) < Len(run.sizes)
    /\ pc \in AfterMerge \/ Delivered => Len(outcomes) = Len(run.sizes)
    /\ Len(rows) = IF run.guided = {} THEN 0 ELSE Len(outcomes)
    /\ HonestRow(island.row) /\ (pc = "isotropic" => island.row = NoRow)
    /\ \A i \in DOMAIN rows : HonestRow(rows[i])

\* A quad-cover island under a fallback is not given up for its quadrangulation alone.
NotGivenUp(call, outcome) ==
    call.method = "quad-cover" /\ call.fallback /\ "quadrangulate" \in outcome.tried /\ ~outcome.ok
        /\ outcome.stage = "quadrangulate" => "fallback" \in outcome.tried

Tried ==
    /\ pc \in AtIsland => island.stage = ""
    /\ \A i \in 1 .. Len(outcomes) : NotGivenUp(run, outcomes[i])

IslandsWithin ==
    /\ pc = "policy" => ~exceeds(island.faces, run.ceiling)
    /\ \A i \in 1 .. Len(outcomes) : outcomes[i].ok => ~exceeds(outcomes[i].faces, run.ceiling)

DeliveredWithin == Delivered => faces # 0 /\ ~exceeds(faces, run.outputCeiling)

Inv ==
    /\ Typed /\ NothingBefore /\ Audited /\ Tried /\ IslandsWithin /\ DeliveredWithin

-----------------------------------------------------------------------------
(* Calls and the initial states *)

LEMMA RunTyped ==
    ASSUME PipelineAssumption, run \in Runs
    PROVE  /\ run.sizes \in Seq(Nat \ {0}) /\ Len(run.sizes) \in Nat \ {0}
           /\ run.guided \in SUBSET Guidance
           /\ run.ceiling \in Nat /\ run.outputCeiling \in Nat
           /\ run.fallback \in BOOLEAN /\ run.pure \in BOOLEAN
<1>1. run \in RunType
  BY DEF PipelineAssumption
<1>2. run.sizes \in Seq(Nat \ {0}) /\ run.sizes # <<>>
  BY <1>1 DEF RunType
<1>3. Len(run.sizes) \in Nat \ {0}
  BY <1>2, EmptySeq
<1> QED BY <1>1, <1>2, <1>3 DEF RunType

LEMMA NoRowHonest ==
    /\ NoRow \in Row /\ HonestRow(NoRow)
    /\ NoIsland \in Island /\ NoIsland.row = NoRow /\ NoIsland.stage = ""
<1>1. NoRow \in Row /\ HonestRow(NoRow)
  BY DEF NoRow, Row, HonestRow
<1>2. NoIsland \in Island /\ NoIsland.row = NoRow /\ NoIsland.stage = ""
  <2>1. {} \in Attempts /\ "" \in Stage /\ 0 \in Nat
    BY DEF Attempts, Stage
  <2> QED BY <1>1, <2>1 DEF NoIsland, Island
<1> QED BY <1>1, <1>2

LEMMA InitInv == ASSUME PipelineAssumption, Init PROVE Inv
<1>1. outcomes = <<>> /\ rows = <<>> /\ outcomes \in Seq(Outcome) /\ rows \in Seq(Row)
      /\ Len(outcomes) = 0 /\ Len(rows) = 0 /\ DOMAIN rows = {}
  BY DEF Init
<1>2. Typed
  BY <1>1, NoRowHonest DEF Init, Typed
<1>3. NothingBefore
  BY DEF Init, NothingBefore, CancelledHasNothing
<1>4. Audited
  <2>1. island.row = NoRow /\ Len(run.sizes) \in Nat
    BY NoRowHonest, RunTyped DEF Init
  <2>2. ~Delivered /\ pc \notin AtIsland \cup AfterMerge
    BY DEF Init, Delivered, AtIsland, AfterMerge
  <2>3. Len(outcomes) <= Len(run.sizes) /\ Len(rows) = IF run.guided = {} THEN 0 ELSE Len(outcomes)
    BY <1>1, <2>1
  <2>4. HonestRow(island.row) /\ \A i \in DOMAIN rows : HonestRow(rows[i])
    BY <1>1, <2>1, NoRowHonest
  <2> QED BY <2>1, <2>2, <2>3, <2>4 DEF Audited
<1>5. Tried /\ IslandsWithin /\ DeliveredWithin
  BY <1>1 DEF Init, Tried, IslandsWithin, DeliveredWithin, Delivered, AtIsland
<1> QED BY <1>2, <1>3, <1>4, <1>5 DEF Inv

-----------------------------------------------------------------------------
(* The island is left *)

LEMMA LeaveKeeps ==
    ASSUME PipelineAssumption, Inv, pc \in AtIsland,
           NEW ok \in BOOLEAN, NEW left \in Island, Leave(ok, left),
           HonestRow(left.row), ok => ~exceeds(left.faces, run.ceiling),
           NotGivenUp(run, [ok |-> ok, faces |-> left.faces, stage |-> left.stage,
                            tried |-> left.tried])
    PROVE  Inv'
<1> DEFINE outcome == [ok |-> ok, faces |-> left.faces, stage |-> left.stage, tried |-> left.tried]
           n == Len(outcomes)
<1>1. outcome \in Outcome /\ left.row \in Row
  BY DEF Outcome, Island
<1>2. outcomes \in Seq(Outcome) /\ rows \in Seq(Row) /\ n \in Nat /\ Len(rows) \in Nat
  BY DEF Inv, Typed
<1>3. outcomes' = Append(outcomes, outcome) /\ pc' = "islands"
      /\ rows' = (IF run.guided = {} THEN rows ELSE Append(rows, left.row))
      /\ UNCHANGED <<run, island, cancelled, merged, faces, failed, status>>
  BY DEF Leave, resultVars
<1>4. /\ outcomes' \in Seq(Outcome) /\ Len(outcomes') = n + 1
      /\ \A i \in 1 .. n : outcomes'[i] = outcomes[i]
      /\ outcomes'[n + 1] = outcome
  BY <1>1, <1>2, <1>3, AppendProperties
<1>5. /\ rows' \in Seq(Row) /\ Len(rows') = (IF run.guided = {} THEN 0 ELSE n + 1)
      /\ \A i \in DOMAIN rows' : HonestRow(rows'[i])
  <2>1. CASE run.guided = {}
    BY <1>2, <1>3, <2>1 DEF Inv, Audited
  <2>2. CASE run.guided # {}
    <3>1. /\ rows' \in Seq(Row) /\ Len(rows') = Len(rows) + 1
          /\ \A i \in 1 .. Len(rows) : rows'[i] = rows[i]
          /\ rows'[Len(rows) + 1] = left.row /\ DOMAIN rows' = 1 .. Len(rows) + 1
      BY <1>1, <1>2, <1>3, <2>2, AppendProperties
    <3>2. Len(rows) = n /\ DOMAIN rows = 1 .. Len(rows)
      BY <1>2, <2>2 DEF Inv, Audited
    <3> QED BY <1>2, <2>2, <3>1, <3>2 DEF Inv, Audited
  <2> QED BY <2>1, <2>2
<1> HIDE DEF outcome, n
<1>6. n + 1 \in Nat /\ Len(run.sizes) \in Nat /\ n < Len(run.sizes)
  BY <1>2, RunTyped DEF Inv, Typed, Audited, n
<1>7. Typed'
  BY <1>3, <1>4, <1>5 DEF Inv, Typed, AtIsland
<1>8. NothingBefore'
  BY <1>3 DEF Inv, NothingBefore, CancelledHasNothing, AtIsland, Typed
<1>9. Audited'
  <2>1. ~Delivered'
    BY <1>3 DEF Inv, Typed, Delivered, AtIsland
  <2> QED
    BY <1>3, <1>4, <1>5, <1>6, <2>1 DEF Inv, Audited, AtIsland, AfterMerge
<1>10. Tried'
  <2>1. NotGivenUp(run, outcome)
    BY DEF outcome
  <2>2. ASSUME NEW i \in 1 .. n + 1 PROVE NotGivenUp(run, outcomes'[i])
    <3>1. outcomes'[i] = outcome \/ (i \in 1 .. n /\ outcomes'[i] = outcomes[i])
      BY <1>4, <1>6, <1>2 DEF n
    <3> QED BY <2>1, <3>1 DEF Inv, Tried, n
  <2> QED BY <1>3, <1>4, <2>2 DEF Tried, AtIsland
<1>11. IslandsWithin'
  <2>1. ASSUME NEW i \in 1 .. n + 1, outcomes'[i].ok
        PROVE  ~exceeds(outcomes'[i].faces, run.ceiling)
    <3>1. outcomes'[i] = outcome \/ (i \in 1 .. n /\ outcomes'[i] = outcomes[i])
      BY <1>4, <1>6, <1>2 DEF n
    <3>2. outcome.ok = ok /\ outcome.faces = left.faces
      BY DEF outcome
    <3> QED BY <2>1, <3>1, <3>2 DEF Inv, IslandsWithin, n
  <2> QED BY <1>3, <1>4, <2>1 DEF IslandsWithin, exceeds
<1>12. DeliveredWithin'
  BY <1>3 DEF Inv, Typed, DeliveredWithin, Delivered, AtIsland
<1> QED BY <1>7, <1>8, <1>9, <1>10, <1>11, <1>12 DEF Inv

-----------------------------------------------------------------------------
(* Steps that leave no island *)

LEMMA BeforeMergeKeeps ==
    ASSUME Inv, pc \in {"begin", "islands"} \cup AtIsland,
           UNCHANGED <<run, outcomes, rows, merged, faces>>, cancelled' \in BOOLEAN,
           island' \in Island, HonestRow(island'.row),
           \/ /\ pc' \in {"islands"} \cup AtIsland /\ UNCHANGED status
              /\ pc' \in AtIsland => island'.stage = "" /\ Len(outcomes) < Len(run.sizes)
              /\ pc' = "isotropic" => island'.row = NoRow
              /\ pc' = "policy" => ~exceeds(island'.faces, run.ceiling)
           \/ pc' = "done" /\ (status' = "error" \/ (status' = "cancelled" /\ cancelled'))
    PROVE  Inv'
<1>1. status = "running"
  BY DEF Inv, Typed, AtIsland
<1>2. Typed'
  BY <1>1 DEF Inv, Typed, AtIsland
<1>3. ~Delivered' /\ pc' \notin AfterMerge
  BY <1>1 DEF Delivered, AfterMerge, AtIsland
<1>4. NothingBefore'
  BY <1>1 DEF Inv, NothingBefore, CancelledHasNothing
<1>5. Audited'
  BY <1>3 DEF Inv, Audited, AtIsland
<1>6. Tried'
  BY DEF Inv, Tried, AtIsland
<1>7. IslandsWithin'
  BY DEF Inv, IslandsWithin, AtIsland
<1> QED BY <1>2, <1>3, <1>4, <1>5, <1>6, <1>7 DEF Inv, DeliveredWithin

LEMMA AfterMergeKeeps ==
    ASSUME Inv, status = "running", UNCHANGED <<run, outcomes, rows, island, cancelled>>,
           Len(outcomes) = Len(run.sizes),
           \/ pc' \in AfterMerge /\ UNCHANGED status
           \/ /\ pc' = "done" /\ status' \in {"error", "success", "partial"}
              /\ status' # "error" => faces' # 0 /\ ~exceeds(faces', run.outputCeiling)
    PROVE  Inv'
<1>1. pc' \notin {"begin", "islands"} \cup AtIsland
  BY DEF AfterMerge, AtIsland
<1>2. Typed'
  BY DEF Inv, Typed, AfterMerge
<1>3. NothingBefore'
  BY <1>1 DEF NothingBefore, CancelledHasNothing
<1>4. Audited'
  BY <1>1 DEF Inv, Audited, AtIsland
<1>5. Tried' /\ IslandsWithin'
  BY <1>1 DEF Inv, Tried, IslandsWithin, AtIsland
<1>6. DeliveredWithin'
  BY DEF DeliveredWithin, Delivered
<1> QED BY <1>2, <1>3, <1>4, <1>5, <1>6 DEF Inv

-----------------------------------------------------------------------------
(* The actions *)

LEMMA StageKeeps ==
    ASSUME PipelineAssumption, Inv,
           \/ Begin \/ TakeIsland \/ StageStops \/ MethodRefused
           \/ \E p \in 0 .. 2 : Report(p)
           \/ \E made \in Made : IsotropicRemesh(made)
    PROVE  Inv'
<1> USE DEF resultVars, progressVars, Ended
<1>1. /\ island \in Island /\ HonestRow(island.row) /\ cancelled \in BOOLEAN
      /\ pc = "isotropic" => island.row = NoRow
      /\ pc \in AtIsland => island.stage = "" /\ Len(outcomes) < Len(run.sizes)
  BY DEF Inv, Typed, Audited, Tried
<1>2. CASE Begin
  BY <1>1, <1>2, BeforeMergeKeeps DEF Begin, AtIsland
<1>3. CASE TakeIsland
  <2>1. Len(outcomes) \in Nat /\ Len(run.sizes) \in Nat /\ Weight \in Nat
    <3>1. Len(outcomes) \in Nat /\ Len(run.sizes) \in Nat /\ run.sizes \in Seq(Nat \ {0})
      BY RunTyped DEF Inv, Typed
    <3>2. Index \in 1 .. Len(run.sizes)
      BY <1>3, <3>1 DEF TakeIsland, Index
    <3> QED BY <3>1, <3>2, ElementOfSeq DEF Weight
  <2>2. Len(outcomes) < Len(run.sizes)
    BY <1>3, <2>1 DEF TakeIsland, Index
  <2> DEFINE taken == [NoIsland EXCEPT !.faces = Weight]
  <2>3. taken \in Island /\ taken.row = NoRow /\ taken.stage = ""
    BY <2>1, NoRowHonest DEF Island
  <2> HIDE DEF taken
  <2>4. CASE cancelled
    BY <1>1, <1>3, <2>4, BeforeMergeKeeps DEF TakeIsland
  <2>5. CASE ~cancelled
    <3>1. /\ island' = taken /\ pc' \in {"isotropic", "quadrangulate"} /\ pc = "islands"
          /\ UNCHANGED <<run, outcomes, rows, merged, faces, cancelled, status>>
      BY <1>3, <2>5 DEF TakeIsland, taken
    <3> QED BY <1>1, <2>2, <2>3, <3>1, NoRowHonest, BeforeMergeKeeps DEF AtIsland
  <2> QED BY <2>4, <2>5
<1>4. CASE StageStops
  BY <1>1, <1>4, BeforeMergeKeeps DEF StageStops, Isotropic, Quadrangulating, AtIsland
<1>5. CASE MethodRefused
  BY <1>1, <1>5, BeforeMergeKeeps DEF MethodRefused, AtIsland
<1>6. ASSUME NEW p \in 0 .. 2, Report(p) PROVE Inv'
  <2>1. pc \in AtIsland \ {"policy"} /\ UNCHANGED <<run, pc, outcomes, rows, island, cancelled,
            merged, faces, status>>
    BY <1>6 DEF Report, Isotropic, Quadrangulating, AtIsland
  <2> QED BY <1>1, <2>1, BeforeMergeKeeps
<1>7. ASSUME NEW made \in Made, IsotropicRemesh(made) PROVE Inv'
  <2> DEFINE remeshed == [island EXCEPT !.faces = made]
  <2>1. remeshed \in Island /\ remeshed.row = island.row /\ remeshed.stage = island.stage
    BY <1>1 DEF Island, PipelineAssumption
  <2> HIDE DEF remeshed
  <2>2. /\ island' = remeshed /\ pc \in AtIsland /\ pc' \in {"fallback", "quadrangulate"}
        /\ UNCHANGED <<run, outcomes, rows, merged, faces, cancelled, status>>
    BY <1>7 DEF IsotropicRemesh, Isotropic, AtIsland, remeshed
  <2> QED BY <1>1, <2>1, <2>2, BeforeMergeKeeps DEF AtIsland
<1> QED BY <1>2, <1>3, <1>4, <1>5, <1>6, <1>7

LEMMA CancelKeeps == ASSUME Inv, Cancel PROVE Inv'
<1>1. UNCHANGED <<run, pc, outcomes, rows, island, merged, faces, status>> /\ cancelled'
  BY DEF Cancel, resultVars
<1>2. Typed' /\ NothingBefore'
  BY <1>1 DEF Inv, Typed, NothingBefore, CancelledHasNothing, Cancel
<1>3. Audited'
  BY <1>1 DEF Inv, Audited, Delivered
<1>4. Tried' /\ IslandsWithin' /\ DeliveredWithin'
  BY <1>1 DEF Inv, Tried, IslandsWithin, DeliveredWithin, Delivered
<1> QED BY <1>2, <1>3, <1>4 DEF Inv

LEMMA MergeKeeps ==
    ASSUME PipelineAssumption, Inv,
           \/ Merge \/ Count
           \/ \E filled \in {0, 1} : FillHoles(filled)
           \/ \E arity \in Arity : Subdivide(arity)
    PROVE  Inv'
<1> USE DEF Ended, AfterMerge, progressVars
<1>1. status = "running"
  BY DEF Inv, Typed, Merge, Count, FillHoles, Subdivide
<1>2. UNCHANGED <<run, outcomes, rows, island, cancelled>>
  BY DEF Merge, Count, FillHoles, Subdivide
<1>3. Len(outcomes) = Len(run.sizes)
  <2>1. CASE Merge
    <3>1. Len(outcomes) \in Nat /\ Len(run.sizes) \in Nat
      BY RunTyped DEF Inv, Typed
    <3> QED BY <2>1, <3>1 DEF Inv, Audited, Merge, Index
  <2>2. CASE pc \in AfterMerge
    BY <2>2 DEF Inv, Audited
  <2> QED BY <2>1, <2>2 DEF Count, FillHoles, Subdivide
<1>4. CASE Merge
  BY <1>1, <1>2, <1>3, <1>4, AfterMergeKeeps DEF Merge
<1>5. CASE Count
  <2>1. CASE OutputRefused \/ faces = 0
    BY <1>1, <1>2, <1>3, <1>5, <2>1, AfterMergeKeeps DEF Count
  <2>2. CASE ~OutputRefused /\ faces # 0
    <3>1. pc' = "done" /\ status' \in {"success", "partial"} /\ UNCHANGED faces
      BY <1>5, <2>2 DEF Count, resultVars
    <3>2. ~exceeds(faces', run.outputCeiling)
      BY <2>2, <3>1 DEF OutputRefused
    <3> QED BY <1>1, <1>2, <1>3, <2>2, <3>1, <3>2, AfterMergeKeeps
  <2> QED BY <2>1, <2>2
<1>6. ASSUME NEW filled \in {0, 1}, FillHoles(filled) PROVE Inv'
  BY <1>1, <1>2, <1>3, <1>6, AfterMergeKeeps DEF FillHoles
<1>7. ASSUME NEW arity \in Arity, Subdivide(arity) PROVE Inv'
  BY <1>1, <1>2, <1>3, <1>7, AfterMergeKeeps DEF Subdivide
<1> QED BY <1>4, <1>5, <1>6, <1>7

-----------------------------------------------------------------------------
(* The ends of an island *)

\* Whatever quadrangulate() says of the guidance, its row is honest.
LEMMA OffersHonest ==
    ASSUME PipelineAssumption, run \in Runs, NEW row \in Offers
    PROVE  row \in Row /\ HonestRow(row)
<1>1. CASE row = NoRow
  BY <1>1, NoRowHonest
<1>2. ASSUME NEW accepted \in BOOLEAN, NEW left \in SUBSET run.guided,
             ~accepted => left = {}, row = Offered(accepted, left)
      PROVE  row \in Row /\ HonestRow(row)
  <2> DEFINE sized == IF pc = "quadrangulate" /\ QuadCover THEN {} ELSE {"density"}
  <2>1. row = [guides |-> accepted /\ "guides" \in run.guided /\ left = {},
               density |-> "density" \in run.guided /\ (accepted \/ sized # {}),
               reason |-> ~accepted \/ left # {},
               lost |-> IF accepted THEN left ELSE run.guided \ sized]
    BY <1>2 DEF Offered
  <2> HIDE DEF sized
  <2>2. run.guided \in SUBSET Guidance
    BY RunTyped
  <2>3. row.lost = (IF accepted THEN left ELSE run.guided \ sized) /\ row.lost \in SUBSET Guidance
    BY <1>2, <2>1, <2>2
  <2>4. row.guides = (accepted /\ "guides" \in run.guided /\ left = {})
        /\ row.reason = (~accepted \/ left # {})
    BY <2>1
  <2>5. row \in Row
    BY <2>1, <2>3, <2>4 DEF Row
  <2>6. HonestRow(row)
    BY <2>3, <2>4 DEF HonestRow
  <2> QED BY <2>5, <2>6
<1> QED BY <1>1, <1>2 DEF Offers

\* An island that is diagnosed is left with an honest row, and under the stage of
\* the quadrangulator only after the fallback, if there is one for it.
LEMMA DiagnosedKeeps ==
    ASSUME PipelineAssumption, Inv, pc \in AtIsland, NEW left \in Island, Diagnosed(left),
           left.stage = "" /\ QuadCover /\ run.fallback /\ "quadrangulate" \in left.tried
               => "fallback" \in left.tried,
           left.stage # "quadrangulate"
    PROVE  Inv'
<1> DEFINE stage == IF left.stage = "" THEN "quadrangulate" ELSE left.stage
           row == [left.row EXCEPT !.lost = run.guided, !.guides = FALSE, !.reason = TRUE]
           given == [left EXCEPT !.stage = stage, !.row = row]
<1>1. run.guided \in SUBSET Guidance
  BY RunTyped DEF Inv, Typed
<1>2. left.row \in Row /\ left.stage \in Stage /\ left.tried \in Attempts /\ left.faces \in Nat
  BY DEF Island
<1>3. row \in Row /\ row.reason = TRUE /\ row.guides = FALSE
  BY <1>1, <1>2 DEF Row
<1>4. HonestRow(row)
  BY <1>3 DEF HonestRow
<1>5. Leave(FALSE, given)
  BY DEF Diagnosed, Lost
<1>6. stage \in Stage /\ (stage = "quadrangulate" => left.stage = "")
  BY <1>2 DEF Stage
<1> HIDE DEF stage, row
<1>7. /\ given \in Island /\ given.row = row /\ given.stage = stage
      /\ given.tried = left.tried /\ given.faces = left.faces
  BY <1>2, <1>3, <1>6 DEF Island
<1> HIDE DEF given
<1>8. NotGivenUp(run, [ok |-> FALSE, faces |-> given.faces, stage |-> given.stage,
                       tried |-> given.tried])
  BY <1>6, <1>7 DEF NotGivenUp, QuadCover
<1> QED BY <1>4, <1>5, <1>7, <1>8, LeaveKeeps

LEMMA IsotropicFailsKeeps == ASSUME PipelineAssumption, Inv, IsotropicFails PROVE Inv'
<1> DEFINE row == [Lost(island.row) EXCEPT !.reason = TRUE]
           left == [island EXCEPT !.stage = "isotropic", !.row = row]
<1>1. pc = "isotropic" /\ pc \in AtIsland /\ island \in Island /\ island.row = NoRow
  BY DEF IsotropicFails, AtIsland, Inv, Typed, Audited
<1>2. Leave(FALSE, left)
  BY DEF IsotropicFails
<1>3. run.guided \in SUBSET Guidance
  BY RunTyped DEF Inv, Typed
<1>4. row \in Row /\ row.reason = TRUE /\ row.guides = FALSE
  <2>1. island.row \in Row /\ island.row.guides = FALSE
    <3>1. NoRow \in Row
      BY NoRowHonest
    <3>2. NoRow.guides = FALSE
      BY DEF NoRow
    <3> QED BY <1>1, <3>1, <3>2
  <2>2. row = [island.row EXCEPT !.lost = run.guided, !.reason = TRUE]
    BY <2>1 DEF Lost, Row
  <2> QED BY <1>3, <2>1, <2>2 DEF Row
<1>5. HonestRow(row)
  BY <1>4 DEF HonestRow
<1> HIDE DEF row
<1>6. left \in Island /\ left.row = row /\ left.stage = "isotropic"
  BY <1>1, <1>4 DEF Island, Stage
<1> HIDE DEF left
<1>7. NotGivenUp(run, [ok |-> FALSE, faces |-> left.faces, stage |-> left.stage,
                       tried |-> left.tried])
  BY <1>6 DEF NotGivenUp
<1> QED BY <1>1, <1>2, <1>5, <1>6, <1>7, LeaveKeeps

LEMMA RecoveryFailsKeeps == ASSUME PipelineAssumption, Inv, RecoveryFails PROVE Inv'
<1> DEFINE left == [island EXCEPT !.stage = "isotropic"]
<1>1. pc \in AtIsland /\ island \in Island
  BY DEF RecoveryFails, AtIsland, Inv, Typed
<1>2. left \in Island /\ left.stage = "isotropic" /\ Diagnosed(left)
  BY <1>1 DEF RecoveryFails, Island, Stage
<1> HIDE DEF left
<1> QED BY <1>1, <1>2, DiagnosedKeeps

LEMMA AttemptTyped ==
    ASSUME Inv, Quadrangulating, NEW row \in Row
    PROVE  LET left == [island EXCEPT !.row = row, !.tried = @ \cup {pc}]
           IN  /\ pc \in AtIsland /\ left \in Island /\ left.row = row /\ left.stage = ""
               /\ left.tried = island.tried \cup {pc} /\ left.faces = island.faces
<1>1. pc \in {"quadrangulate", "fallback"} /\ pc \in AtIsland
  BY DEF Quadrangulating, AtIsland
<1>2. island \in Island /\ island.stage = ""
  BY <1>1 DEF Inv, Typed, Tried
<1>3. island.tried \cup {pc} \in Attempts
  BY <1>1, <1>2 DEF Island, Attempts
<1> QED BY <1>1, <1>2, <1>3 DEF Island

LEMMA QuadrangulateFailsKeeps ==
    ASSUME PipelineAssumption, Inv, NEW row \in Offers, QuadrangulateFails(row)
    PROVE  Inv'
<1> DEFINE left == [island EXCEPT !.row = row, !.tried = @ \cup {pc}]
<1>1. row \in Row /\ HonestRow(row)
  BY OffersHonest DEF Inv, Typed
<1>2. Quadrangulating /\ pc \in {"quadrangulate", "fallback"}
  BY DEF QuadrangulateFails, Quadrangulating
<1>3. /\ pc \in AtIsland /\ left \in Island /\ left.row = row /\ left.stage = ""
      /\ left.tried = island.tried \cup {pc}
  BY <1>1, <1>2, AttemptTyped
<1>4. IF pc = "quadrangulate" /\ Recovers
      THEN /\ island' = left /\ pc' = "recover"
           /\ UNCHANGED <<run, outcomes, rows, progressVars, cancelled, resultVars, status>>
      ELSE Diagnosed(left)
  BY DEF QuadrangulateFails
<1> HIDE DEF left
<1>5. CASE pc = "quadrangulate" /\ Recovers
  <2>1. Len(outcomes) < Len(run.sizes) /\ cancelled' \in BOOLEAN
    BY <1>3, <1>4, <1>5 DEF Inv, Typed, Audited
  <2>2. UNCHANGED <<run, outcomes, rows, merged, faces, status>>
    BY <1>4, <1>5 DEF resultVars
  <2> QED BY <1>1, <1>3, <1>4, <1>5, <2>1, <2>2, BeforeMergeKeeps DEF AtIsland
<1>6. CASE ~(pc = "quadrangulate" /\ Recovers)
  <2>1. QuadCover /\ run.fallback => "fallback" \in left.tried
    BY <1>2, <1>3, <1>6 DEF Recovers
  <2> QED BY <1>3, <1>4, <1>6, <2>1, DiagnosedKeeps
<1> QED BY <1>5, <1>6

LEMMA QuadrangulateKeeps ==
    ASSUME PipelineAssumption, Inv, NEW made \in Made, NEW row \in Offers,
           Quadrangulate(made, row)
    PROVE  Inv'
<1> DEFINE attempt == [island EXCEPT !.row = row, !.tried = @ \cup {pc}]
           left == [island EXCEPT !.faces = made, !.row = row, !.tried = @ \cup {pc}]
<1>1. row \in Row /\ HonestRow(row) /\ made \in Nat
  BY OffersHonest DEF Inv, Typed, PipelineAssumption
<1>2. Quadrangulating
  BY DEF Quadrangulate
<1>3. pc \in AtIsland /\ attempt \in Island /\ attempt.row = row /\ attempt.stage = ""
  BY <1>1, <1>2, AttemptTyped
<1>4. island \in Island /\ cancelled \in BOOLEAN /\ HonestRow(island.row)
      /\ Len(outcomes) < Len(run.sizes)
  BY <1>3 DEF Inv, Typed, Audited
<1>5. left \in Island /\ left.row = row /\ left.stage = "" /\ left.faces = made
  <2>1. island.tried \cup {pc} \in Attempts /\ island.stage = ""
    BY <1>2, <1>3, <1>4 DEF Island, Attempts, Quadrangulating, Inv, Tried
  <2> QED BY <1>1, <1>4, <2>1 DEF Island
<1>6. UNCHANGED <<run, outcomes, rows, merged, faces, cancelled>>
  BY DEF Quadrangulate, resultVars
<1>7. CASE exceeds(made, run.ceiling)
  BY <1>3, <1>4, <1>6, <1>7, BeforeMergeKeeps DEF Quadrangulate, Ended
<1>8. CASE ~exceeds(made, run.ceiling)
  <2>1. island' = left /\ pc' = "policy" /\ UNCHANGED status
    BY <1>8 DEF Quadrangulate
  <2> HIDE DEF left, attempt
  <2> QED BY <1>1, <1>3, <1>4, <1>5, <1>6, <1>8, <2>1, BeforeMergeKeeps DEF AtIsland
<1> QED BY <1>7, <1>8

LEMMA SmallPatchesKeeps ==
    ASSUME PipelineAssumption, Inv, NEW kept \in Made \cup {0}, SmallPatches(kept)
    PROVE  Inv'
<1> DEFINE stage == IF kept = 0 THEN "cleanup" ELSE island.stage
           left == [island EXCEPT !.faces = kept, !.stage = stage]
<1>1. kept \in Nat /\ pc = "policy" /\ pc \in AtIsland /\ kept <= island.faces
  BY DEF SmallPatches, AtIsland, PipelineAssumption
<1>2. island \in Island /\ island.stage = "" /\ HonestRow(island.row)
      /\ ~exceeds(island.faces, run.ceiling) /\ run.ceiling \in Nat /\ island.faces \in Nat
  BY <1>1, RunTyped DEF Inv, Typed, Tried, Audited, IslandsWithin, Island
<1>3. Leave(kept > 0, left)
  BY DEF SmallPatches
<1>4. stage \in Stage /\ stage # "quadrangulate"
  BY <1>2 DEF Stage
<1> HIDE DEF stage
<1>5. left \in Island /\ left.row = island.row /\ left.stage = stage /\ left.faces = kept
  BY <1>1, <1>2, <1>4 DEF Island
<1> HIDE DEF left
<1>6. ~exceeds(left.faces, run.ceiling)
  <2>1. ASSUME NEW f \in Nat, NEW g \in Nat, NEW limit \in Nat, g <= f, ~exceeds(f, limit)
        PROVE  ~exceeds(g, limit)
    BY <2>1 DEF exceeds
  <2> QED BY <1>1, <1>2, <1>5, <2>1
<1>7. NotGivenUp(run, [ok |-> kept > 0, faces |-> left.faces, stage |-> left.stage,
                       tried |-> left.tried])
  BY <1>4, <1>5 DEF NotGivenUp
<1>8. (kept > 0) \in BOOLEAN
  OBVIOUS
<1> QED BY <1>1, <1>2, <1>3, <1>5, <1>6, <1>7, <1>8, LeaveKeeps

-----------------------------------------------------------------------------
(* The theorems *)

LEMMA StutterKeeps == ASSUME Inv, UNCHANGED vars PROVE Inv'
<1>1. UNCHANGED <<run, pc, outcomes, rows, island, cancelled, merged, faces, status>>
  BY DEF vars, resultVars
<1>2. Typed' /\ NothingBefore'
  BY <1>1 DEF Inv, Typed, NothingBefore, CancelledHasNothing
<1>3. Audited'
  BY <1>1 DEF Inv, Audited, Delivered
<1>4. Tried' /\ IslandsWithin' /\ DeliveredWithin'
  BY <1>1 DEF Inv, Tried, IslandsWithin, DeliveredWithin, Delivered
<1> QED BY <1>2, <1>3, <1>4 DEF Inv

LEMMA NextKeeps == ASSUME PipelineAssumption, Inv, [Next]_vars PROVE Inv'
<1>1. ASSUME NEW row \in Offers,
             QuadrangulateFails(row) \/ \E made \in Made : Quadrangulate(made, row)
      PROVE  Inv'
  BY <1>1, QuadrangulateFailsKeeps, QuadrangulateKeeps
<1>2. CASE Working
  BY <1>1, <1>2, StageKeeps, IsotropicFailsKeeps, RecoveryFailsKeeps, SmallPatchesKeeps, MergeKeeps
  DEF Working
<1>3. CASE Cancel
  BY <1>3, CancelKeeps
<1>4. CASE \E p \in 0 .. 2 : Report(p)
  BY <1>4, StageKeeps
<1> QED BY <1>2, <1>3, <1>4, StutterKeeps DEF Next

LEMMA RowsAudited == ASSUME Inv PROVE GuidanceAudited
<1>1. ASSUME Delivered PROVE Len(rows) = IF run.guided = {} THEN 0 ELSE Len(run.sizes)
  BY <1>1 DEF Inv, Audited
<1>2. \A i \in DOMAIN rows : HonestRow(rows[i])
  BY DEF Inv, Audited
<1> QED BY <1>1, <1>2 DEF GuidanceAudited, HonestRow

LEMMA Invariance == ASSUME PipelineAssumption PROVE Spec => []Inv
<1>1. Init => Inv
  BY InitInv
<1>2. Inv /\ [Next]_vars => Inv'
  BY NextKeeps
<1> QED BY <1>1, <1>2, PTL DEF Spec

\* remesh() commits at its end only: whoever cancelled has nothing of it, and nobody
\* is told "cancelled" who did not cancel.
THEOREM NothingWhenCancelled == ASSUME PipelineAssumption PROVE Spec => []CancelledHasNothing
<1>1. Inv => CancelledHasNothing
  BY DEF Inv, NothingBefore
<1> QED BY <1>1, Invariance, PTL

\* enforceTopologyBudget: no island above the ceiling of the intermediates gets into
\* the result, and no empty result or one above its ceiling is delivered, though the
\* holes are filled and the faces subdivided after the merge was let through.
THEOREM CeilingsHold == ASSUME PipelineAssumption PROVE Spec => []WithinCeilings
<1>1. Inv => WithinCeilings
  BY DEF Inv, IslandsWithin, DeliveredWithin, WithinCeilings, Ok
<1> QED BY <1>1, Invariance, PTL

\* The guidance audit of a delivered result has a row for each island, and no row
\* hides guidance that was lost, whichever attempts the island went through.
THEOREM GuidanceNeverSilent == ASSUME PipelineAssumption PROVE Spec => []GuidanceAudited
<1>1. Inv => GuidanceAudited
  BY RowsAudited
<1> QED BY <1>1, Invariance, PTL

\* Where quad-cover declines an island it is diagnosed for its quadrangulation only
\* after the fallback was tried on it, if there is one.
THEOREM FallbackBeforeDiagnosis == ASSUME PipelineAssumption PROVE Spec => []FallbackTried
<1>1. Inv => FallbackTried
  BY DEF Inv, Tried, NotGivenUp, FallbackTried, Ok, QuadCover
<1> QED BY <1>1, Invariance, PTL

-----------------------------------------------------------------------------
(* Progress and the accounts of the islands *)

\* progressBase is the weight of the islands that were left; short of the delivery
\* the host was told less than the whole.
Counted ==
    /\ inner \in 0 .. 2 /\ best \in Nat /\ faces \in Nat
    /\ \A f : Running(f, run.sizes) =>
          /\ base = 20 * f[Len(outcomes)]
          /\ IF Delivered THEN best = 20 * f[Len(run.sizes)] ELSE best < 20 * f[Len(run.sizes)]

Lasting(outcome) == (outcome.ok <=> outcome.stage = "") /\ (outcome.ok => outcome.faces > 0)

\* An island that was left is ok or has the stage that failed; the result has the
\* ones and the report the others, in their order.
Accounted ==
    /\ \A i \in 1 .. Len(outcomes) : Lasting(outcomes[i])
    /\ pc \in AfterMerge \/ Delivered =>
          /\ merged = Of({i \in 1 .. Len(outcomes) : Ok(i)})
          /\ failed = Of({i \in 1 .. Len(outcomes) : ~Ok(i)})
    /\ Delivered => (status = "partial" <=> failed # <<>>)

FullInv == Inv /\ Counted /\ Accounted

LEMMA SizesRise ==
    ASSUME PipelineAssumption, Inv, NEW f, Running(f, run.sizes)
    PROVE  /\ \A k \in 0 .. Len(run.sizes) : f[k] \in Nat /\ f[k] <= f[Len(run.sizes)]
           /\ \A k \in 1 .. Len(run.sizes) :
                 f[k] = f[k - 1] + run.sizes[k] /\ run.sizes[k] \in Nat \ {0}
           /\ Len(run.sizes) \in Nat \ {0} /\ Len(outcomes) \in Nat /\ f[0] = 0
           /\ Len(outcomes) <= Len(run.sizes)
<1>1. /\ run.sizes \in Seq(Nat \ {0}) /\ Len(run.sizes) \in Nat \ {0} /\ Len(outcomes) \in Nat
      /\ Len(outcomes) <= Len(run.sizes)
  BY RunTyped DEF Inv, Typed, Audited
<1> QED BY <1>1, RunningRises DEF Running

LEMMA InitFull == ASSUME PipelineAssumption, Init PROVE FullInv
<1>1. Inv
  BY InitInv
<1>2. Len(outcomes) = 0 /\ ~Delivered /\ pc \notin AfterMerge
  BY EmptySeq DEF Init, Delivered, AfterMerge
<1>3. Counted
  <2>1. ASSUME NEW f, Running(f, run.sizes)
        PROVE  base = 20 * f[Len(outcomes)] /\ best < 20 * f[Len(run.sizes)]
    <3>1. f[0] = 0 /\ f[1] = f[1 - 1] + run.sizes[1] /\ run.sizes[1] \in Nat \ {0}
          /\ f[1] \in Nat /\ f[1] <= f[Len(run.sizes)] /\ f[Len(run.sizes)] \in Nat
      <4>1. 1 \in 1 .. Len(run.sizes) /\ 1 \in 0 .. Len(run.sizes)
            /\ Len(run.sizes) \in 0 .. Len(run.sizes)
        BY <1>1, <2>1, SizesRise
      <4> QED BY <1>1, <2>1, <4>1, SizesRise
    <3>2. f[1] > 0
      BY <3>1
    <3> QED BY <1>2, <3>1, <3>2 DEF Init
  <2> QED BY <1>2, <2>1 DEF Counted, Init
<1>4. Accounted
  BY <1>2 DEF Accounted
<1> QED BY <1>1, <1>3, <1>4 DEF FullInv

\* A step that leaves no island and does not end the run with a result.
LEMMA QuietKeeps ==
    ASSUME FullInv, UNCHANGED <<run, outcomes, base, best, faces, merged, failed>>,
           inner' \in 0 .. 2,
           \/ ~Delivered /\ ~Delivered' /\ pc' \notin AfterMerge
           \/ UNCHANGED <<pc, status>>
    PROVE  Counted' /\ Accounted'
<1>1. Counted'
  BY DEF FullInv, Counted, Delivered
<1>2. Accounted'
  BY DEF FullInv, Accounted, Delivered, Of, Ok
<1> QED BY <1>1, <1>2

LEMMA LeaveCounts ==
    ASSUME PipelineAssumption, FullInv, pc \in AtIsland, NEW ok, NEW left, Leave(ok, left),
           Lasting([ok |-> ok, faces |-> left.faces, stage |-> left.stage, tried |-> left.tried])
    PROVE  Counted' /\ Accounted'
<1> DEFINE n == Len(outcomes)
           outcome == [ok |-> ok, faces |-> left.faces, stage |-> left.stage, tried |-> left.tried]
<1>1. status = "running" /\ outcomes \in Seq(Outcome) /\ n \in Nat /\ n < Len(run.sizes)
  BY LenProperties DEF FullInv, Inv, Typed, Audited, AtIsland
<1>2. /\ outcomes' = Append(outcomes, outcome) /\ pc' = "islands" /\ base' = base + 20 * Weight
      /\ UNCHANGED <<run, best, inner, faces, status>>
  BY DEF Leave, resultVars
<1>3. ~Delivered /\ ~Delivered' /\ pc' \notin AfterMerge
  BY <1>1, <1>2 DEF Delivered, AfterMerge
<1>4. Len(outcomes') = n + 1 /\ outcomes'[n + 1] = outcome /\ \A i \in 1 .. n :
          outcomes'[i] = outcomes[i]
  BY <1>1, <1>2, AppendProperties
<1> HIDE DEF outcome
<1>5. Counted'
  <2>1. ASSUME NEW f, Running(f, run.sizes)
        PROVE  base' = 20 * f[n + 1] /\ best < 20 * f[Len(run.sizes)]
    <3>1. base = 20 * f[n] /\ best < 20 * f[Len(run.sizes)]
      BY <1>3, <2>1 DEF FullInv, Counted
    <3>2. n + 1 \in 1 .. Len(run.sizes) /\ n \in 0 .. Len(run.sizes) /\ n + 1 - 1 = n
      BY <1>1, <2>1, SizesRise DEF FullInv
    <3>3. f[n + 1] = f[n] + run.sizes[n + 1] /\ f[n] \in Nat /\ run.sizes[n + 1] \in Nat
      BY <2>1, <3>2, SizesRise DEF FullInv
    <3>4. Weight = run.sizes[n + 1]
      BY DEF Weight, Index
    <3> QED BY <1>2, <3>1, <3>3, <3>4
  <2> QED BY <1>2, <1>3, <1>4, <2>1 DEF FullInv, Counted
<1>6. Accounted'
  <2>1. ASSUME NEW i \in 1 .. n + 1 PROVE Lasting(outcomes'[i])
    <3>1. i \in 1 .. n \/ i = n + 1
      BY <1>1
    <3>2. i \in 1 .. n => outcomes'[i] = outcomes[i] /\ Lasting(outcomes[i])
      BY <1>4 DEF FullInv, Accounted
    <3> QED BY <1>4, <3>1, <3>2 DEF outcome
  <2> QED BY <1>3, <1>4, <2>1 DEF Accounted
<1> QED BY <1>5, <1>6

\* A report stays below the weight of the island it is about.
LEMMA ReportCounts ==
    ASSUME PipelineAssumption, FullInv, NEW p \in 0 .. 2, Report(p)
    PROVE  Counted' /\ Accounted'
<1>1. /\ pc \in AtIsland /\ UNCHANGED <<run, pc, outcomes, base, merged, faces, failed, status>>
      /\ inner' \in 0 .. 2
  BY DEF Report, Isotropic, Quadrangulating, AtIsland, resultVars, FullInv, Counted
<1>2. status = "running" /\ Len(outcomes) \in Nat /\ Len(outcomes) < Len(run.sizes)
  BY <1>1, LenProperties DEF FullInv, Inv, Typed, Audited, AtIsland
<1>3. ~Delivered /\ ~Delivered'
  BY <1>1, <1>2 DEF Delivered
<1>4. \E v \in {base + 3 * p * Weight, base + 6 * Weight + 6 * p * Weight} :
        best' = IF v > best THEN v ELSE best
  BY DEF Report, Tell
<1>5. best \in Nat
  BY DEF FullInv, Counted
<1>6. ASSUME NEW f, Running(f, run.sizes)
      PROVE  base = 20 * f[Len(outcomes)] /\ best' \in Nat /\ best' < 20 * f[Len(run.sizes)]
  <2> DEFINE n == Len(outcomes)
             w == Weight
             top == f[Len(run.sizes)]
  <2>1. base = 20 * f[n] /\ best < 20 * top
    BY <1>3, <1>6 DEF FullInv, Counted
  <2>2. n + 1 \in 1 .. Len(run.sizes) /\ n \in 0 .. Len(run.sizes) /\ n + 1 - 1 = n
        /\ n + 1 \in 0 .. Len(run.sizes) /\ Len(run.sizes) \in 0 .. Len(run.sizes)
    BY <1>2, <1>6, SizesRise DEF FullInv
  <2>3. w = run.sizes[n + 1]
    BY DEF Weight, Index
  <2>4. f[n + 1] = f[n] + w /\ f[n] \in Nat /\ w \in Nat \ {0} /\ f[n + 1] <= top /\ top \in Nat
    BY <1>6, <2>2, <2>3, SizesRise DEF FullInv
  <2> HIDE DEF w, top
  <2>5. 3 * p * w \in Nat /\ 3 * p * w <= 6 * w /\ 6 * p * w \in Nat /\ 6 * p * w <= 12 * w
    <3>1. p = 0 \/ p = 1 \/ p = 2
      OBVIOUS
    <3> QED BY <2>4, <3>1
  <2>6. \A v \in {base + 3 * p * w, base + 6 * w + 6 * p * w} : v \in Nat /\ v < 20 * top
    <3> DEFINE a == 3 * p * w
               b == 6 * p * w
    <3>1. a \in Nat /\ a <= 6 * w /\ b \in Nat /\ b <= 12 * w
      BY <2>5
    <3>2. PICK x : x = f[n]
      OBVIOUS
    <3>3. x \in Nat /\ base = 20 * x /\ w \in Nat \ {0} /\ top \in Nat /\ x + w <= top
      BY <2>1, <2>4, <3>2
    <3> HIDE DEF a, b
    <3>4. base + a \in Nat /\ base + a < 20 * top
      BY ONLY <3>1, <3>3
    <3>5. base + 6 * w + b \in Nat /\ base + 6 * w + b < 20 * top
      BY ONLY <3>1, <3>3
    <3> QED BY <3>4, <3>5 DEF a, b
  <2>7. best' \in Nat /\ best' < 20 * top
    BY <1>4, <1>5, <2>1, <2>6 DEF w
  <2> QED BY <2>1, <2>7 DEF top
<1>7. best' \in Nat
  <2>1. PICK f : Running(f, run.sizes)
    <3>1. run.sizes \in Seq(Nat \ {0})
      BY RunTyped DEF FullInv, Inv, Typed
    <3>2. run.sizes \in Seq(Int)
      BY <3>1, SeqMonotonic
    <3> QED BY <3>2, RunningExists
  <2> QED BY <1>6, <2>1
<1>8. Counted'
  BY <1>1, <1>3, <1>6, <1>7 DEF FullInv, Counted
<1>9. Accounted'
  BY <1>1 DEF FullInv, Accounted, Delivered, Of, Ok
<1> QED BY <1>8, <1>9

LEMMA TotalIsNat == ASSUME FullInv PROVE Total \in Nat
<1> DEFINE w == [i \in 1 .. Len(outcomes) |-> IF Ok(i) THEN outcomes[i].faces ELSE 0]
<1>1. outcomes \in Seq(Outcome) /\ Len(outcomes) \in Nat
  BY LenProperties DEF FullInv, Inv, Typed
<1>2. \A i \in 1 .. Len(outcomes) : outcomes[i] \in Outcome
  BY <1>1, ElementOfSeq
<1>3. \A i \in 1 .. Len(outcomes) : (IF Ok(i) THEN outcomes[i].faces ELSE 0) \in Nat
  BY <1>2 DEF Outcome
<1>4. w \in Seq(Nat)
  BY <1>1, <1>3
<1> HIDE DEF w
<1>5. SumOf(w) \in Nat
  BY <1>4, SumPositive
<1> QED BY <1>5 DEF Total, w

LEMMA MergeCounts ==
    ASSUME PipelineAssumption, FullInv,
           \/ Merge \/ Count
           \/ \E filled \in {0, 1} : FillHoles(filled)
           \/ \E arity \in Arity : Subdivide(arity)
    PROVE  Counted' /\ Accounted'
<1> USE DEF Ended, progressVars
<1>1. status = "running" /\ ~Delivered
  BY DEF FullInv, Inv, Typed, Merge, Count, FillHoles, Subdivide, Delivered
<1>2. UNCHANGED <<run, outcomes, base, inner>> /\ inner \in 0 .. 2 /\ best \in Nat /\ faces \in Nat
  BY DEF Merge, Count, FillHoles, Subdivide, FullInv, Counted
<1>3. Len(outcomes) = Len(run.sizes)
  <2>1. CASE Merge
    <3>1. Len(outcomes) \in Nat /\ Len(run.sizes) \in Nat
      BY RunTyped DEF FullInv, Inv, Typed
    <3> QED BY <2>1, <3>1 DEF FullInv, Inv, Audited, Merge, Index
  <2>2. CASE pc \in AfterMerge
    BY <2>2 DEF FullInv, Inv, Audited
  <2> QED BY <2>1, <2>2 DEF Count, FillHoles, Subdivide, AfterMerge
<1>4. ASSUME NEW f, Running(f, run.sizes)
      PROVE  /\ base = 20 * f[Len(run.sizes)] /\ best < 20 * f[Len(run.sizes)]
             /\ f[Len(run.sizes)] \in Nat \ {0}
  <2>1. base = 20 * f[Len(outcomes)] /\ best < 20 * f[Len(run.sizes)]
    BY <1>1, <1>4 DEF FullInv, Counted
  <2>2. f[Len(run.sizes)] \in Nat
    BY <1>4, SizesRise DEF FullInv
  <2> QED BY <1>2, <1>3, <2>1, <2>2
<1>f. PICK f : Running(f, run.sizes)
  <2>1. run.sizes \in Seq(Nat \ {0})
    BY RunTyped DEF FullInv, Inv, Typed
  <2>2. run.sizes \in Seq(Int)
    BY <2>1, SeqMonotonic
  <2> QED BY <2>2, RunningExists
<1>5. \A i \in 1 .. Len(outcomes') : Lasting(outcomes'[i])
  BY <1>2 DEF FullInv, Accounted
<1>6. CASE Merge
  <2>1. CASE MergeRefused
    <3>1. UNCHANGED <<run, outcomes, base, best, faces, merged, failed>> /\ inner' \in 0 .. 2
          /\ ~Delivered' /\ pc' \notin AfterMerge
      BY <1>2, <1>6, <2>1 DEF Merge, resultVars, Delivered, AfterMerge
    <3> QED BY <1>1, <3>1, QuietKeeps
  <2>2. CASE ~MergeRefused
    <3>1. /\ merged' = Of({i \in 1 .. Len(outcomes) : Ok(i)}) /\ faces' = Total
          /\ failed' = Of({i \in 1 .. Len(outcomes) : ~Ok(i)})
          /\ best' = (IF 19 * (base \div 20) > best THEN 19 * (base \div 20) ELSE best)
          /\ UNCHANGED status
      BY <1>6, <2>2 DEF Merge, Tell, Kept
    <3>2. ~Delivered'
      BY <1>1, <3>1 DEF Delivered
    <3>3. ASSUME NEW g, Running(g, run.sizes) PROVE best' \in Nat /\ best' < 20 * g[Len(run.sizes)]
      <4> DEFINE top == g[Len(run.sizes)]
      <4>1. base = 20 * top /\ best < 20 * top /\ top \in Nat \ {0}
        BY <1>4, <3>3
      <4> HIDE DEF top
      <4>2. base \div 20 = top
        BY <4>1
      <4>3. best' \in Nat /\ best' < 20 * top
        BY <1>2, <3>1, <4>1, <4>2
      <4> QED BY <4>3 DEF top
    <3>4. Counted'
      BY <1>2, <1>3, <1>4, <1>f, <3>1, <3>2, <3>3, TotalIsNat DEF Counted
    <3>5. Accounted'
      BY <1>2, <1>5, <3>1, <3>2 DEF Accounted, Of, Ok
    <3> QED BY <3>4, <3>5
  <2> QED BY <2>1, <2>2
<1>7. CASE Count
  <2> USE DEF AfterMerge
  <2>1. CASE OutputRefused \/ faces = 0
    <3>1. UNCHANGED <<run, outcomes, base, best, faces, merged, failed>> /\ inner' \in 0 .. 2
          /\ ~Delivered' /\ pc' \notin AfterMerge
      BY <1>2, <1>7, <2>1 DEF Count, resultVars, Delivered
    <3> QED BY <1>1, <3>1, QuietKeeps
  <2>2. CASE ~(OutputRefused \/ faces = 0)
    <3>1. /\ status' = (IF failed = <<>> THEN "success" ELSE "partial") /\ pc = "count"
          /\ best' = (IF base > best THEN base ELSE best) /\ UNCHANGED <<faces, merged, failed>>
      BY <1>7, <2>2 DEF Count, Tell, resultVars
    <3>2. Delivered'
      BY <3>1 DEF Delivered
    <3>3. ASSUME NEW g, Running(g, run.sizes) PROVE best' \in Nat /\ best' = 20 * g[Len(run.sizes)]
      BY <1>2, <1>4, <3>1, <3>3
    <3>4. Counted'
      BY <1>2, <1>3, <1>4, <1>f, <3>1, <3>2, <3>3 DEF Counted
    <3>5. Accounted'
      BY <1>2, <1>5, <3>1, <3>2 DEF FullInv, Accounted, Of, Ok
    <3> QED BY <3>4, <3>5
  <2> QED BY <2>1, <2>2
<1>8. ASSUME pc \in AfterMerge, UNCHANGED <<best, merged, failed>>, faces' \in Nat, ~Delivered'
      PROVE  Counted' /\ Accounted'
  <2>1. Counted'
    BY <1>1, <1>2, <1>8 DEF FullInv, Counted
  <2>2. Accounted'
    BY <1>2, <1>5, <1>8 DEF FullInv, Accounted, Of, Ok
  <2> QED BY <2>1, <2>2
<1>9. ASSUME NEW filled \in {0, 1}, FillHoles(filled) PROVE Counted' /\ Accounted'
  <2>1. pc \in AfterMerge /\ faces' \in Nat /\ UNCHANGED <<best, merged, failed, status>>
    BY <1>2, <1>9 DEF FillHoles, AfterMerge
  <2> QED BY <1>1, <1>8, <2>1 DEF Delivered
<1>10. ASSUME NEW arity \in Arity, Subdivide(arity) PROVE Counted' /\ Accounted'
  <2>1. arity \in Nat
    BY DEF PipelineAssumption
  <2>2. pc \in AfterMerge /\ faces' \in Nat /\ UNCHANGED <<best, merged, failed>>
        /\ status' \in {status, "error"}
    <3>1. arity * faces \in Nat
      BY <1>2, <2>1
    <3> QED BY <1>2, <1>10, <3>1 DEF Subdivide, AfterMerge
  <2> QED BY <1>1, <1>8, <2>2 DEF Delivered
<1> QED BY <1>6, <1>7, <1>9, <1>10

\* The steps, by what they do to the islands.
LEMMA IslandStepCounts ==
    ASSUME PipelineAssumption, FullInv,
           \/ Begin \/ TakeIsland \/ StageStops \/ MethodRefused
           \/ \E made \in Made : IsotropicRemesh(made)
           \/ \E row \in Offers, made \in Made : Quadrangulate(made, row)
    PROVE  Counted' /\ Accounted'
<1>1. status = "running" /\ inner \in 0 .. 2
  BY DEF FullInv, Inv, Typed, Counted, Begin, TakeIsland, StageStops, MethodRefused, IsotropicRemesh,
         Quadrangulate, Isotropic, Quadrangulating
<1> DEFINE Quiet == /\ UNCHANGED <<run, outcomes, base, best, faces, merged, failed>> /\ inner' \in 0 .. 2
                    /\ pc' \notin AfterMerge /\ status' \in {"running", "error", "cancelled"}
<1> USE <1>1 DEF Ended, AfterMerge, resultVars, progressVars
<1>2. ASSUME Begin PROVE Quiet
  BY <1>2 DEF Begin
<1>3. ASSUME TakeIsland PROVE Quiet
  BY <1>3 DEF TakeIsland
<1>4. ASSUME StageStops PROVE Quiet
  BY <1>4 DEF StageStops
<1>5. ASSUME MethodRefused PROVE Quiet
  BY <1>5 DEF MethodRefused
<1>6. ASSUME NEW made \in Made, IsotropicRemesh(made) PROVE Quiet
  BY <1>6 DEF IsotropicRemesh
<1>7. ASSUME NEW row, NEW made, Quadrangulate(made, row) PROVE Quiet
  BY <1>7 DEF Quadrangulate
<1>8. Quiet
  <2> HIDE DEF Quiet
  <2> QED BY <1>2, <1>3, <1>4, <1>5, <1>6, <1>7
<1> QED BY <1>8, QuietKeeps DEF Delivered

LEMMA LastingNot ==
    ASSUME NEW left, left.stage # ""
    PROVE  Lasting([ok |-> FALSE, faces |-> left.faces, stage |-> left.stage, tried |-> left.tried])
BY DEF Lasting

LEMMA DiagnosedCounts ==
    ASSUME PipelineAssumption, FullInv, pc \in AtIsland, NEW left \in Island, Diagnosed(left)
    PROVE  Counted' /\ Accounted'
<1> DEFINE row == [Lost(left.row) EXCEPT !.guides = FALSE, !.reason = TRUE]
           given == [left EXCEPT !.stage = IF left.stage = "" THEN "quadrangulate" ELSE left.stage,
                                 !.row = row]
<1>1. Leave(FALSE, given)
  BY DEF Diagnosed
<1>2. given.stage # ""
  BY DEF Island
<1> HIDE DEF given
<1> QED BY <1>1, <1>2, LastingNot, LeaveCounts

LEMMA FailureCounts ==
    ASSUME PipelineAssumption, FullInv, IsotropicFails \/ RecoveryFails PROVE Counted' /\ Accounted'
<1>1. island \in Island /\ pc \in AtIsland
  BY DEF FullInv, Inv, Typed, IsotropicFails, RecoveryFails, AtIsland
<1>2. CASE IsotropicFails
  <2> DEFINE left == [island EXCEPT !.stage = "isotropic",
                                    !.row = [Lost(island.row) EXCEPT !.reason = TRUE]]
  <2>1. Leave(FALSE, left)
    BY <1>2 DEF IsotropicFails
  <2>2. left.stage # ""
    BY <1>1 DEF Island
  <2> HIDE DEF left
  <2> QED BY <1>1, <2>1, <2>2, LastingNot, LeaveCounts
<1>3. CASE RecoveryFails
  <2>1. [island EXCEPT !.stage = "isotropic"] \in Island
    BY <1>1 DEF Island, Stage
  <2> QED BY <1>1, <1>3, <2>1, DiagnosedCounts DEF RecoveryFails
<1> QED BY <1>2, <1>3

LEMMA QuadrangulateFailsCounts ==
    ASSUME PipelineAssumption, FullInv, NEW row \in Offers, QuadrangulateFails(row)
    PROVE  Counted' /\ Accounted'
<1> DEFINE left == [island EXCEPT !.row = row, !.tried = @ \cup {pc}]
<1>1. row \in Row
  BY OffersHonest DEF FullInv, Inv, Typed
<1>2. Quadrangulating
  BY DEF QuadrangulateFails
<1>3. pc \in AtIsland /\ left \in Island
  BY <1>1, <1>2, AttemptTyped DEF FullInv
<1>4. IF pc = "quadrangulate" /\ Recovers
      THEN /\ island' = left /\ pc' = "recover"
           /\ UNCHANGED <<run, outcomes, rows, progressVars, cancelled, resultVars, status>>
      ELSE Diagnosed(left)
  BY DEF QuadrangulateFails
<1> HIDE DEF left
<1>5. CASE pc = "quadrangulate" /\ Recovers
  <2>1. /\ UNCHANGED <<run, outcomes, base, best, faces, merged, failed, status>>
        /\ inner' \in 0 .. 2 /\ pc' \notin AfterMerge
    BY <1>4, <1>5 DEF FullInv, Counted, AfterMerge, resultVars, progressVars
  <2>2. ~Delivered /\ ~Delivered'
    BY <1>3, <2>1 DEF FullInv, Inv, Typed, AtIsland, Delivered
  <2> QED BY <2>1, <2>2, QuietKeeps
<1>6. CASE ~(pc = "quadrangulate" /\ Recovers)
  BY <1>3, <1>4, <1>6, DiagnosedCounts
<1> QED BY <1>5, <1>6

LEMMA SmallPatchesCounts ==
    ASSUME PipelineAssumption, FullInv, NEW kept \in Made \cup {0}, SmallPatches(kept)
    PROVE  Counted' /\ Accounted'
<1> DEFINE left == [island EXCEPT !.faces = kept,
                                  !.stage = IF kept = 0 THEN "cleanup" ELSE island.stage]
<1>1. pc \in AtIsland /\ kept \in Nat /\ island \in Island /\ island.stage = ""
  <2>1. pc \in AtIsland /\ kept \in Nat
    BY DEF SmallPatches, AtIsland, PipelineAssumption
  <2> QED BY <2>1 DEF FullInv, Inv, Typed, Tried
<1>2. Leave(kept > 0, left)
  BY DEF SmallPatches
<1>3. left.faces = kept /\ left.stage = IF kept = 0 THEN "cleanup" ELSE ""
  BY <1>1 DEF Island
<1> HIDE DEF left
<1>4. Lasting([ok |-> kept > 0, faces |-> left.faces, stage |-> left.stage, tried |-> left.tried])
  <2>1. CASE kept = 0
    <3>1. left.stage = "cleanup" /\ (kept > 0) = FALSE
      BY <1>3, <2>1
    <3> QED BY <3>1, LastingNot
  <2>2. CASE kept # 0
    <3>1. left.stage = "" /\ left.faces = kept
      BY <1>3, <2>2
    <3>2. kept > 0
      <4>1. kept \in Nat /\ kept # 0
        BY <1>1, <2>2
      <4> QED BY ONLY <4>1
    <3> DEFINE o == [ok |-> kept > 0, faces |-> left.faces, stage |-> left.stage, tried |-> left.tried]
    <3>3. o.ok /\ o.stage = "" /\ o.faces > 0
      BY <3>1, <3>2
    <3> QED BY <3>3 DEF Lasting
  <2> QED BY <2>1, <2>2
<1> QED BY <1>1, <1>2, <1>4, LeaveCounts

LEMMA StepKeepsFull == ASSUME PipelineAssumption, FullInv, [Next]_vars PROVE FullInv'
<1>1. Inv'
  BY NextKeeps DEF FullInv
<1>2. CASE Working
  BY <1>1, <1>2, IslandStepCounts, FailureCounts, QuadrangulateFailsCounts, SmallPatchesCounts,
     MergeCounts DEF Working, FullInv
<1>3. CASE Cancel \/ UNCHANGED vars
  <2>1. /\ UNCHANGED <<run, pc, outcomes, base, best, faces, merged, failed, status>>
        /\ inner' \in 0 .. 2
    BY <1>3 DEF Cancel, vars, resultVars, progressVars, FullInv, Counted
  <2> QED BY <1>1, <2>1, QuietKeeps DEF FullInv
<1>4. CASE \E p \in 0 .. 2 : Report(p)
  BY <1>1, <1>4, ReportCounts DEF FullInv
<1> QED BY <1>2, <1>3, <1>4 DEF Next

LEMMA FullInvariance == ASSUME PipelineAssumption PROVE Spec => []FullInv
<1>1. Init => FullInv
  BY InitFull
<1>2. FullInv /\ [Next]_vars => FullInv'
  BY StepKeepsFull
<1> QED BY <1>1, <1>2, PTL DEF Spec

LEMMA AllAccounted == ASSUME PipelineAssumption, FullInv PROVE EveryIslandAccounted
<1> SUFFICES ASSUME Delivered PROVE EveryIslandAccounted
  BY DEF EveryIslandAccounted
<1> DEFINE n == Len(outcomes)
           good == {i \in 1 .. n : Ok(i)}
           bad == {i \in 1 .. n : ~Ok(i)}
<1>1. n = Len(run.sizes) /\ n \in Nat
  BY LenProperties DEF FullInv, Inv, Typed, Audited
<1>2. \A i \in 1 .. n : Lasting(outcomes[i]) /\ (Ok(i) <=> outcomes[i].ok)
  BY DEF FullInv, Accounted, Ok
<1>3. merged = Of(good) /\ failed = Of(bad) /\ (status = "partial" <=> failed # <<>>)
  BY DEF FullInv, Accounted
<1>4. Lists(merged, good, n) /\ Lists(failed, bad, n)
  BY <1>1, <1>3, AscendingLists DEF Of
<1>5. /\ DOMAIN merged = 1 .. Len(merged) /\ DOMAIN failed = 1 .. Len(failed)
      /\ failed \in Seq(Nat) /\ Len(failed) \in Nat
  BY <1>4, LenProperties DEF Lists
<1>6. \A i \in 1 .. n : outcomes[i].faces > 0 /\ outcomes[i].stage = "" <=> Ok(i)
  BY <1>2 DEF Lasting
<1>7. \A i \in 1 .. n : outcomes[i].stage # "" <=> ~Ok(i)
  BY <1>2 DEF Lasting
<1>8. \A i \in 1 .. n : (\E k \in DOMAIN merged : merged[k] = i) <=> Ok(i)
  BY <1>4, <1>5 DEF Lists
<1>9. \A i \in 1 .. n : (\E k \in DOMAIN failed : failed[k] = i) <=> ~Ok(i)
  BY <1>4, <1>5 DEF Lists
<1>10. \A j, k \in DOMAIN merged : j < k => merged[j] < merged[k]
  BY <1>4, <1>5 DEF Lists
<1>11. failed # <<>> <=> \E i \in 1 .. n : ~Ok(i)
  <2>1. ASSUME failed # <<>> PROVE \E i \in 1 .. n : ~Ok(i)
    <3>1. 1 \in 1 .. Len(failed)
      BY <1>5, <2>1, EmptySeq
    <3>2. failed[1] \in 1 .. n
      BY <1>4, <3>1 DEF Lists
    <3> QED BY <1>5, <1>9, <3>1, <3>2
  <2>2. ASSUME NEW i \in 1 .. n, ~Ok(i) PROVE failed # <<>>
    <3>1. PICK k \in DOMAIN failed : failed[k] = i
      BY <1>9, <2>2
    <3> QED BY <1>5, <3>1, EmptySeq
  <2> QED BY <2>1, <2>2
<1> HIDE DEF good, bad
<1> QED BY <1>1, <1>3, <1>6, <1>7, <1>8, <1>9, <1>10, <1>11 DEF EveryIslandAccounted

LEMMA FullTold == ASSUME PipelineAssumption, FullInv PROVE FullMeansDelivered
<1>1. run.sizes \in Seq(Nat \ {0})
  BY RunTyped DEF FullInv, Inv, Typed
<1>2. run.sizes \in Seq(Int)
  BY <1>1, SeqMonotonic
<1>3. PICK f : Running(f, run.sizes)
  BY <1>2, RunningExists
<1>4. SumOf(run.sizes) = f[Len(run.sizes)]
  BY <1>2, <1>3, SumIs
<1>5. Len(run.sizes) \in 0 .. Len(run.sizes)
  BY <1>1, LenProperties
<1>6. f[Len(run.sizes)] \in Nat
  BY <1>3, <1>5, SizesRise DEF FullInv
<1>7. /\ IF Delivered THEN best = 20 * f[Len(run.sizes)] ELSE best < 20 * f[Len(run.sizes)]
      /\ best \in Nat
  BY <1>3 DEF FullInv, Counted
<1> QED BY <1>4, <1>6, <1>7 DEF FullMeansDelivered, Whole

LEMMA FullIsSound == ASSUME PipelineAssumption, FullInv PROVE PipelineSound
<1>1. TypeOK
  <2>1. base \in Nat
    <3>1. run.sizes \in Seq(Nat \ {0})
      BY RunTyped DEF FullInv, Inv, Typed
    <3>2. run.sizes \in Seq(Int)
      BY <3>1, SeqMonotonic
    <3>3. PICK f : Running(f, run.sizes)
      BY <3>2, RunningExists
    <3>4. base = 20 * f[Len(outcomes)]
      BY <3>3 DEF FullInv, Counted
    <3>5. Len(outcomes) \in 0 .. Len(run.sizes)
      BY <3>3, SizesRise DEF FullInv
    <3>6. f[Len(outcomes)] \in Nat
      BY <3>3, <3>5, SizesRise DEF FullInv
    <3> QED BY <3>4, <3>6
  <2> QED BY <2>1 DEF FullInv, Inv, Typed, Audited, Counted, TypeOK
<1>2. EveryIslandAccounted /\ FullMeansDelivered
  BY AllAccounted, FullTold
<1>3. CancelledHasNothing
  BY DEF FullInv, Inv, NothingBefore
<1>4. WithinCeilings
  BY DEF FullInv, Inv, IslandsWithin, DeliveredWithin, WithinCeilings, Ok
<1>5. GuidanceAudited
  BY RowsAudited DEF FullInv
<1>6. FallbackTried
  BY DEF FullInv, Inv, Tried, NotGivenUp, FallbackTried, Ok, QuadCover
<1> QED BY <1>1, <1>2, <1>3, <1>4, <1>5, <1>6 DEF PipelineSound

\* What the host of a run may rely on, whatever the stages make of its islands and
\* whenever it cancels: besides the above, every island is in the result or in the
\* report, both in order, and progress reaches the whole when the result is delivered
\* and not before (progressBase in pipeline.cpp).
THEOREM PipelineIsSound == ASSUME PipelineAssumption PROVE Spec => []PipelineSound
<1>1. FullInv => PipelineSound
  BY FullIsSound
<1> QED BY <1>1, FullInvariance, PTL

-----------------------------------------------------------------------------
(* The charts that are merged *)

\* What the instance and this module read from one library.
LEMMA MergeLibrary ==
    /\ \A S : Unwrap!Cardinality(S) = Cardinality(S)
    /\ \A S, n : Unwrap!Ascending(S, n) = Ascending(S, n)
<1>1. \A S : Unwrap!Cardinality(S) = Cardinality(S)
  BY DEF Unwrap!Cardinality, Cardinality
<1>2. \A S, n : Unwrap!Ascending(S, n) = Ascending(S, n)
  BY DEF Unwrap!Ascending, Ascending
<1> QED BY <1>1, <1>2

\* The charts that are left, what accept is asked about two of them, and whether it
\* has said no.
Roots == {c \in Unwrap!Chart : root[c] = c}
Ask(a, b) == <<chartFaces[a], chartFaces[b]>>
SaidNo(a, b) == Ask(a, b) \in DOMAIN accept /\ ~accept[Ask(a, b)]

\* Nothing is left to do about a pair.
Settled(i) ==
    root[pairs[i][1]] # root[pairs[i][2]] => SaidNo(root[pairs[i][1]], root[pairs[i][2]])

\* The faces of a list are of one chart.
OneChart(list) ==
    \A f, g \in Unwrap!ToSet(list) :
        f \in Unwrap!Faces /\ givenCharts[f] \in Unwrap!Chart /\ Unwrap!RootOf(f) = Unwrap!RootOf(g)

GivenInv ==
    /\ givenCharts \in Seq(Unwrap!Chart \cup {-1})
    /\ Unwrap!Chart \subseteq Unwrap!Range(givenCharts)
    /\ pairs \in Borders /\ at \in 1 .. Len(pairs) + 1 /\ changed \in BOOLEAN
    /\ mergeStatus \in {"merging", "cancelled", "done"} /\ chartOf \in Seq(Unwrap!Chart \cup {-1})
    /\ mergeStatus # "done" => chartOf = givenCharts

ListsInv ==
    /\ root \in [Unwrap!Chart -> Unwrap!Chart] /\ chartFaces \in [Unwrap!Chart -> Seq(Unwrap!Faces)]
    /\ \A c \in Unwrap!Chart : root[c] <= c /\ root[root[c]] = root[c]
    /\ \A c \in Unwrap!Chart :
          /\ Unwrap!IsInjective(chartFaces[c])
          /\ Unwrap!ToSet(chartFaces[c]) =
                 {f \in Unwrap!Faces : givenCharts[f] >= 0 /\ Unwrap!RootOf(f) = c}

CountedInv == IsFiniteSet(Roots) /\ Cardinality(Roots) = Charts - merges /\ merges \in Int

\* A stamp is never ahead of its charts, so one that equals theirs is of their lists.
StampInv ==
    /\ version \in [Unwrap!Chart -> Nat] /\ \A c \in Unwrap!Chart : version[c] <= merges
    /\ \A k \in DOMAIN entries :
          /\ k \in Unwrap!Chart \X Unwrap!Chart /\ entries[k] \in Nat \X Nat
          /\ entries[k][1] <= version[Unwrap!Lesser(k[1], k[2])]
          /\ entries[k][2] <= version[Unwrap!Greater(k[1], k[2])]

\* A list that was asked about is of one chart still, so that one that has grown was
\* never asked about.
AskedInv ==
    /\ ~repeated
    /\ \A q \in DOMAIN accept : OneChart(q[1]) /\ OneChart(q[2])
    /\ \A a, b \in Roots : a # b /\ Ask(a, b) \in DOMAIN accept => Unwrap!isKnownRejected(a, b)
    /\ \A a, b \in Roots : a # b /\ Unwrap!isKnownRejected(a, b) => SaidNo(a, b)

RoundInv ==
    /\ ~changed => \A i \in 1 .. at - 1 : Settled(i)
    /\ mergeStatus = "done" => ~changed /\ at = Len(pairs) + 1 /\ Unwrap!LabellingRight

ChartInv == GivenInv /\ ListsInv /\ CountedInv /\ StampInv /\ AskedInv /\ RoundInv

-----------------------------------------------------------------------------
(* Lists *)

LEMMA ToSetIs == ASSUME NEW S, NEW s \in Seq(S) PROVE /\ DOMAIN s = 1 .. Len(s) /\ Len(s) \in Nat
                                                      /\ Unwrap!ToSet(s) =
                                                             {s[i] : i \in 1 .. Len(s)}
                                                      /\ Unwrap!ToSet(s) \subseteq S
<1>1. DOMAIN s = 1 .. Len(s) /\ Len(s) \in Nat /\ \A i \in 1 .. Len(s) : s[i] \in S
  BY LenProperties, ElementOfSeq
<1> QED BY <1>1 DEF Unwrap!ToSet

LEMMA EmptyList == ASSUME NEW S PROVE <<>> \in Seq(S) /\ Unwrap!ToSet(<<>>) = {}
    /\ Unwrap!IsInjective(<<>>)
BY DEF Unwrap!ToSet, Unwrap!IsInjective

LEMMA Joining ==
    ASSUME NEW S, NEW s \in Seq(S), NEW t \in Seq(S), Unwrap!IsInjective(s), Unwrap!IsInjective(t),
           Unwrap!ToSet(s) \cap Unwrap!ToSet(t) = {}
    PROVE  s \o t \in Seq(S) /\ Unwrap!IsInjective(s \o t)
        /\ Unwrap!ToSet(s \o t) = Unwrap!ToSet(s) \cup Unwrap!ToSet(t)
<1> DEFINE r == s \o t
           m == Len(s)
           n == Len(t)
<1>1. /\ m \in Nat /\ n \in Nat /\ DOMAIN s = 1 .. m /\ DOMAIN t = 1 .. n
      /\ Unwrap!ToSet(s) = {s[i] : i \in 1 .. m} /\ Unwrap!ToSet(t) = {t[i] : i \in 1 .. n}
  BY ToSetIs
<1>2. r \in Seq(S) /\ Len(r) = m + n
      /\ \A i \in 1 .. m + n : r[i] = IF i <= m THEN s[i] ELSE t[i - m]
  BY ConcatProperties
<1> HIDE DEF r, m, n
<1>3. DOMAIN r = 1 .. m + n /\ Unwrap!ToSet(r) = {r[i] : i \in 1 .. m + n}
  BY <1>2, ToSetIs
<1>4. \A i \in 1 .. m : i \in 1 .. m + n /\ r[i] = s[i]
  BY <1>1, <1>2
<1>5. \A i \in 1 .. n : m + i \in 1 .. m + n /\ r[m + i] = t[i]
  BY <1>1, <1>2
<1>6. \A i \in 1 .. m + n : i \in 1 .. m \/ (i - m \in 1 .. n /\ i = m + (i - m))
  BY <1>1
<1>7. Unwrap!ToSet(r) = Unwrap!ToSet(s) \cup Unwrap!ToSet(t)
  <2>1. ASSUME NEW x \in Unwrap!ToSet(r) PROVE x \in Unwrap!ToSet(s) \cup Unwrap!ToSet(t)
    <3>1. PICK i \in 1 .. m + n : x = r[i]
      BY <1>3
    <3>2. CASE i \in 1 .. m
      BY <1>1, <1>4, <3>1, <3>2
    <3>3. CASE i - m \in 1 .. n /\ i = m + (i - m)
      BY <1>1, <1>5, <3>1, <3>3
    <3> QED BY <1>6, <3>2, <3>3
  <2>2. ASSUME NEW x \in Unwrap!ToSet(s) PROVE x \in Unwrap!ToSet(r)
    BY <1>1, <1>3, <1>4
  <2>3. ASSUME NEW x \in Unwrap!ToSet(t) PROVE x \in Unwrap!ToSet(r)
    BY <1>1, <1>3, <1>5
  <2> QED BY <2>1, <2>2, <2>3
<1>8. Unwrap!IsInjective(r)
  <2>1. SUFFICES ASSUME NEW i \in 1 .. m + n, NEW j \in 1 .. m + n, r[i] = r[j] PROVE i = j
    BY <1>3 DEF Unwrap!IsInjective
  <2>2. CASE i \in 1 .. m /\ j \in 1 .. m
    BY <1>1, <1>4, <2>1, <2>2 DEF Unwrap!IsInjective
  <2>3. ASSUME NEW k \in 1 .. m, NEW l \in 1 .. n, s[k] = t[l] PROVE FALSE
    BY <1>1, <2>3
  <2>4. CASE i \in 1 .. m /\ j - m \in 1 .. n /\ j = m + (j - m)
    BY <1>4, <1>5, <2>1, <2>3, <2>4
  <2>5. CASE j \in 1 .. m /\ i - m \in 1 .. n /\ i = m + (i - m)
    BY <1>4, <1>5, <2>1, <2>3, <2>5
  <2>6. CASE i - m \in 1 .. n /\ i = m + (i - m) /\ j - m \in 1 .. n /\ j = m + (j - m)
    <3>1. t[i - m] = t[j - m]
      BY <1>5, <2>1, <2>6
    <3>2. i - m = j - m
      BY <1>1, <2>6, <3>1 DEF Unwrap!IsInjective
    <3> QED BY <2>6, <3>2
  <2> QED BY <1>6, <2>2, <2>4, <2>5, <2>6
<1> QED BY <1>2, <1>7, <1>8 DEF r

-----------------------------------------------------------------------------
(* Ranks *)

\* The members of a set of numbers, numbered by how many are less.
Rank(S, h) == Cardinality({g \in S : g < h})

LEMMA RankRises ==
    ASSUME NEW S, S \subseteq Nat, IsFiniteSet(S), NEW h \in S
    PROVE  /\ Rank(S, h) \in 0 .. Cardinality(S) - 1
           /\ \A g \in S : g < h => Rank(S, g) < Rank(S, h)
<1> DEFINE Less(x) == {y \in S : y < x}
<1>1. \A x \in S : Less(x) \in SUBSET S /\ IsFiniteSet(Less(x)) /\ Cardinality(Less(x)) \in Nat
  <2>1. SUFFICES ASSUME NEW x \in S
                 PROVE  Less(x) \in SUBSET S /\ IsFiniteSet(Less(x)) /\ Cardinality(Less(x)) \in Nat
    OBVIOUS
  <2>2. Less(x) \in SUBSET S
    OBVIOUS
  <2> HIDE DEF Less
  <2>3. IsFiniteSet(Less(x))
    BY <2>2, FS_Subset
  <2> QED BY <2>2, <2>3, FS_CardinalityType
<1>2. ASSUME NEW T, T \in SUBSET S, IsFiniteSet(T), NEW x \in S, x \notin T
      PROVE  Cardinality(T) + 1 <= Cardinality(S) /\ Cardinality(S) \in Nat
  <2>1. T \cup {x} \in SUBSET S
    BY <1>2
  <2>2. Cardinality(T \cup {x}) = Cardinality(T) + 1
    BY <1>2, FS_AddElement
  <2>3. Cardinality(T \cup {x}) <= Cardinality(S) /\ Cardinality(S) \in Nat
    BY <2>1, FS_Subset, FS_CardinalityType
  <2> QED BY <2>2, <2>3
<1>3. Rank(S, h) \in 0 .. Cardinality(S) - 1
  <2>1. h \notin Less(h)
    OBVIOUS
  <2>2. Rank(S, h) = Cardinality(Less(h))
    BY DEF Rank
  <2> HIDE DEF Less
  <2> QED BY <1>1, <1>2, <2>1, <2>2
<1>4. ASSUME NEW g \in S, g < h PROVE Rank(S, g) < Rank(S, h)
  <2>1. Less(g) \cup {g} \in SUBSET Less(h) /\ g \notin Less(g)
    <3>1. h \in Nat /\ g \in Nat /\ \A y \in S : y \in Nat
      OBVIOUS
    <3>2. \A y \in S : y < g => y < h
      BY <1>4, <3>1
    <3>3. ~(g < g)
      BY <3>1
    <3> QED BY <1>4, <3>2, <3>3
  <2>2. Rank(S, h) = Cardinality(Less(h)) /\ Rank(S, g) = Cardinality(Less(g))
    BY DEF Rank
  <2> HIDE DEF Less
  <2>3. Cardinality(Less(g) \cup {g}) = Cardinality(Less(g)) + 1
    BY <1>1, <2>1, FS_AddElement
  <2>4. Cardinality(Less(g) \cup {g}) <= Cardinality(Less(h))
    BY <1>1, <2>1, FS_Subset
  <2> QED BY <1>1, <2>2, <2>3, <2>4
<1> QED BY <1>3, <1>4

LEMMA Ranks ==
    ASSUME NEW S, S \subseteq Nat, IsFiniteSet(S)
    PROVE  /\ \A g, h \in S : Rank(S, g) = Rank(S, h) => g = h
           /\ {Rank(S, h) : h \in S} = 0 .. Cardinality(S) - 1
<1> DEFINE n == Cardinality(S)
           labels == {Rank(S, h) : h \in S}
           f == [h \in S |-> Rank(S, h)]
<1>1. n \in Nat /\ \A h \in S : Rank(S, h) \in 0 .. n - 1
  BY RankRises, FS_CardinalityType
<1>2. ASSUME NEW g \in S, NEW h \in S, Rank(S, g) = Rank(S, h) PROVE g = h
  <2>1. CASE g < h
    <3>1. Rank(S, g) < Rank(S, h)
      BY ONLY S \subseteq Nat, IsFiniteSet(S), g \in S, h \in S, <2>1, RankRises
    <3>2. Rank(S, g) \in Int /\ Rank(S, h) \in Int
      BY <1>1
    <3> QED BY ONLY <1>2, <3>1, <3>2
  <2>2. CASE h < g
    <3>1. Rank(S, h) < Rank(S, g)
      BY ONLY S \subseteq Nat, IsFiniteSet(S), g \in S, h \in S, <2>2, RankRises
    <3>2. Rank(S, g) \in Int /\ Rank(S, h) \in Int
      BY <1>1
    <3> QED BY ONLY <1>2, <3>1, <3>2
  <2> QED BY <2>1, <2>2
<1>3. f \in Bijection(S, labels)
  <2>1. f \in [S -> labels]
    OBVIOUS
  <2>2. \A y \in labels : \E h \in S : f[h] = y
    OBVIOUS
  <2>3. \A g, h \in S : f[g] = f[h] => g = h
    BY <1>2
  <2>4. f \in Surjection(S, labels)
    BY <2>1, <2>2 DEF Surjection
  <2>5. f \in Injection(S, labels)
    BY <2>1, <2>3 DEF Injection, IsInjective
  <2> QED BY <2>4, <2>5 DEF Bijection
<1>4. labels \subseteq 0 .. n - 1
  BY <1>1
<1> HIDE DEF f, labels
<1>5. Cardinality(labels) = n
  BY <1>3, FS_Bijection DEF ExistsBijection
<1>6. labels = 0 .. n - 1
  <2>1. IsFiniteSet(0 .. n - 1) /\ Cardinality(0 .. n - 1) = n
    <3>1. 0 \in Int /\ n - 1 \in Int
      BY <1>1
    <3>2. /\ IsFiniteSet(0 .. n - 1)
          /\ Cardinality(0 .. n - 1) = IF 0 > n - 1 THEN 0 ELSE n - 1 - 0 + 1
      BY ONLY <3>1, FS_Interval
    <3> QED BY <1>1, <3>2
  <2> HIDE DEF n
  <2> QED BY <1>4, <1>5, <2>1, FS_Subset
<1> QED BY <1>2, <1>6 DEF labels

-----------------------------------------------------------------------------
(* The charts that are left *)

LEMMA Shape ==
    ASSUME Unwrap!MergeAssumption, GivenInv
    PROVE  /\ Charts \in Nat /\ Charts >= 2 /\ Len(pairs) \in Nat /\ DOMAIN pairs = 1 .. Len(pairs)
           /\ \A i \in 1 .. Len(pairs) :
                  pairs[i][1] \in Unwrap!Chart /\ pairs[i][2] \in Unwrap!Chart
           /\ Unwrap!Chart \subseteq Nat /\ 0 \in Unwrap!Chart
           /\ Unwrap!Faces = 1 .. Len(givenCharts) /\ Len(givenCharts) \in Nat
           /\ \A f \in Unwrap!Faces :
                  givenCharts[f] \in Unwrap!Chart \cup {-1}
                      /\ (givenCharts[f] >= 0 <=> givenCharts[f] \in Unwrap!Chart)
<1>1. Charts \in Nat /\ Charts >= 2
  BY DEF Unwrap!MergeAssumption
<1>2. pairs \in Seq(Unwrap!Chart \X Unwrap!Chart)
  BY DEF Unwrap!MergeAssumption, GivenInv
<1>3. Len(pairs) \in Nat /\ DOMAIN pairs = 1 .. Len(pairs)
      /\ \A i \in 1 .. Len(pairs) : pairs[i] \in Unwrap!Chart \X Unwrap!Chart
  BY <1>2, LenProperties, ElementOfSeq
<1>4. Unwrap!Faces = 1 .. Len(givenCharts) /\ Len(givenCharts) \in Nat /\ \A f \in Unwrap!Faces :
          givenCharts[f] \in Unwrap!Chart \cup {-1}
  BY LenProperties, ElementOfSeq DEF GivenInv, Unwrap!Faces
<1>5. Unwrap!Chart \subseteq Nat /\ 0 \in Unwrap!Chart /\ \A x \in Unwrap!Chart \cup {-1} :
          x >= 0 <=> x \in Unwrap!Chart
  BY <1>1 DEF Unwrap!Chart
<1> QED BY <1>1, <1>3, <1>4, <1>5

LEMMA RootsAre ==
    ASSUME Unwrap!MergeAssumption, GivenInv, ListsInv
    PROVE  /\ \A c \in Unwrap!Chart : root[c] \in Roots /\ c \in Unwrap!Chart /\ root[c] <= c
           /\ 0 \in Roots /\ Roots \subseteq Unwrap!Chart
           /\ \A c \in Roots : root[c] = c /\ \E f \in Unwrap!ToSet(chartFaces[c]) :
                  f \in Unwrap!Faces
           /\ \A f \in Unwrap!Faces : givenCharts[f] \in Unwrap!Chart =>
                  Unwrap!RootOf(f) \in Roots /\ f \in Unwrap!ToSet(chartFaces[Unwrap!RootOf(f)])
           /\ \A c \in Unwrap!Chart : \A f \in Unwrap!ToSet(chartFaces[c]) :
                 f \in Unwrap!Faces /\ givenCharts[f] \in Unwrap!Chart /\ Unwrap!RootOf(f) = c
<1>1. \A c \in Unwrap!Chart : root[c] \in Roots /\ root[c] <= c /\ c \in Nat
  BY Shape DEF ListsInv, Roots
<1>2. 0 \in Roots
  <2>1. root[0] <= 0 /\ root[0] \in Nat /\ 0 \in Unwrap!Chart
    BY Shape DEF ListsInv
  <2>2. root[0] = 0
    BY <2>1
  <2> QED BY <2>1, <2>2 DEF Roots
<1>3. \A c \in Unwrap!Chart : \A f : f \in Unwrap!ToSet(chartFaces[c]) <=>
          f \in Unwrap!Faces /\ givenCharts[f] \in Unwrap!Chart /\ Unwrap!RootOf(f) = c
  BY Shape DEF ListsInv
<1>4. ASSUME NEW c \in Roots
      PROVE root[c] = c /\ \E f \in Unwrap!ToSet(chartFaces[c]) : f \in Unwrap!Faces
  <2>1. PICK f \in Unwrap!Faces : givenCharts[f] = c
    BY DEF GivenInv, Unwrap!Range, Unwrap!Faces, Roots
  <2>2. c \in Unwrap!Chart /\ Unwrap!RootOf(f) = c
    BY <2>1 DEF Roots, Unwrap!RootOf
  <2> QED BY <1>3, <2>1, <2>2 DEF Roots
<1>5. ASSUME NEW f \in Unwrap!Faces, givenCharts[f] \in Unwrap!Chart
      PROVE  Unwrap!RootOf(f) \in Roots /\ f \in Unwrap!ToSet(chartFaces[Unwrap!RootOf(f)])
  <2>1. Unwrap!RootOf(f) \in Roots /\ Unwrap!RootOf(f) \in Unwrap!Chart
    BY <1>1, <1>5 DEF Unwrap!RootOf, Roots
  <2> QED BY <1>3, <1>5, <2>1
<1> QED BY <1>1, <1>2, <1>3, <1>4, <1>5 DEF Roots

\* A question names its charts.
LEMMA AskNames ==
    ASSUME Unwrap!MergeAssumption, GivenInv, ListsInv, NEW a \in Roots, NEW b \in Roots,
           NEW c \in Roots, NEW d \in Roots,
           Ask(a, b) = Ask(c, d)
    PROVE  a = c /\ b = d
<1>1. chartFaces[a] = chartFaces[c] /\ chartFaces[b] = chartFaces[d]
  BY DEF Ask
<1>2. \A x, y \in Roots : chartFaces[x] = chartFaces[y] => x = y
  BY RootsAre
<1> QED BY <1>1, <1>2

-----------------------------------------------------------------------------
(* The charts a pass begins with *)

LEMMA ListedIs ==
    ASSUME NEW n \in Nat, NEW S, S \subseteq 1 .. n, NEW q, Lists(q, S, n)
    PROVE  q \in Seq(1 .. n) /\ Unwrap!IsInjective(q) /\ Unwrap!ToSet(q) = S
<1>1. /\ q \in Seq(Nat) /\ Len(q) \in Nat /\ DOMAIN q = 1 .. Len(q)
      /\ \A j \in 1 .. Len(q) : q[j] \in 1 .. n
      /\ \A j, l \in 1 .. Len(q) : j < l => q[j] < q[l]
      /\ \A i \in 1 .. n : (\E j \in 1 .. Len(q) : q[j] = i) <=> i \in S
  BY LenProperties DEF Lists
<1>2. q \in Seq(1 .. n)
  <2>1. q = [j \in 1 .. Len(q) |-> q[j]]
    BY <1>1, SeqDef
  <2> QED BY <1>1, <2>1, SeqDef
<1>3. Unwrap!IsInjective(q)
  <2>1. SUFFICES ASSUME NEW i \in 1 .. Len(q), NEW j \in 1 .. Len(q), q[i] = q[j] PROVE i = j
    BY <1>1 DEF Unwrap!IsInjective
  <2>2. q[i] \in Nat /\ q[j] \in Nat /\ i \in Int /\ j \in Int
    BY <1>1
  <2>3. ~(i < j) /\ ~(j < i)
    BY <1>1, <2>1, <2>2
  <2> QED BY <2>2, <2>3
<1>4. Unwrap!ToSet(q) = {q[j] : j \in 1 .. Len(q)}
  BY <1>2, ToSetIs
<1>5. Unwrap!ToSet(q) = S
  <2>1. ASSUME NEW x \in Unwrap!ToSet(q) PROVE x \in S
    BY <1>1, <1>4
  <2>2. ASSUME NEW x \in S PROVE x \in Unwrap!ToSet(q)
    BY <1>1, <1>4
  <2> QED BY <2>1, <2>2
<1> QED BY <1>2, <1>3, <1>5

LEMMA InitCharts == ASSUME Unwrap!MergeAssumption, Unwrap!Init PROVE ChartInv
<1>1. GivenInv
  <2>1. /\ chartOf \in Seq(Unwrap!Chart \cup {-1})
        /\ Unwrap!Chart \subseteq Unwrap!Range(chartOf) /\ givenCharts = chartOf
    BY DEF Unwrap!Init, Unwrap!MergeAssumption
  <2>2. pairs \in Seq(Unwrap!Chart \X Unwrap!Chart) /\ pairs \in Borders
    BY DEF Unwrap!Init, Unwrap!MergeAssumption
  <2>3. Len(pairs) \in Nat
    BY <2>2, LenProperties
  <2>4. at \in 1 .. Len(pairs) + 1
    BY <2>3 DEF Unwrap!Init
  <2> QED BY <2>1, <2>2, <2>4 DEF Unwrap!Init, GivenInv
<1>2. \A c \in Unwrap!Chart : root[c] = c /\ c <= c /\ c \in Nat
  BY <1>1, Shape DEF Unwrap!Init
<1>3. root \in [Unwrap!Chart -> Unwrap!Chart]
  BY DEF Unwrap!Init
<1>4. ASSUME NEW c \in Unwrap!Chart
      PROVE  /\ chartFaces[c] \in Seq(Unwrap!Faces) /\ Unwrap!IsInjective(chartFaces[c])
             /\ Unwrap!ToSet(chartFaces[c]) =
                    {f \in Unwrap!Faces : givenCharts[f] >= 0 /\ Unwrap!RootOf(f) = c}
  <2> DEFINE n == Len(givenCharts)
             S == {f \in DOMAIN givenCharts : givenCharts[f] = c}
  <2>1. n \in Nat /\ S \subseteq 1 .. n /\ Unwrap!Faces = 1 .. n
    BY <1>1, Shape DEF Unwrap!Faces
  <2>2. chartFaces[c] = Ascending(S, n)
    BY MergeLibrary DEF Unwrap!Init, Unwrap!FacesOf
  <2>3. S = {f \in Unwrap!Faces : givenCharts[f] >= 0 /\ Unwrap!RootOf(f) = c}
    BY <1>1, <1>2, Shape DEF Unwrap!RootOf, Unwrap!Faces
  <2> HIDE DEF n, S
  <2>4. Lists(Ascending(S, n), S, n)
    BY <2>1, AscendingLists
  <2> QED BY <2>1, <2>2, <2>3, <2>4, ListedIs
<1>5. chartFaces \in [Unwrap!Chart -> Seq(Unwrap!Faces)]
  BY <1>4 DEF Unwrap!Init
<1>6. ListsInv
  BY <1>2, <1>3, <1>4, <1>5 DEF ListsInv
<1>7. CountedInv
  <2>1. Roots = Unwrap!Chart
    BY <1>2 DEF Roots
  <2>2. Charts \in Nat /\ Charts >= 2 /\ 0 \in Int /\ Charts - 1 \in Int
    BY <1>1, Shape
  <2>3. IsFiniteSet(0 .. Charts - 1)
        /\ Cardinality(0 .. Charts - 1) = IF 0 > Charts - 1 THEN 0 ELSE Charts - 1 - 0 + 1
    BY ONLY <2>2, FS_Interval
  <2> QED BY <2>1, <2>2, <2>3 DEF CountedInv, Unwrap!Chart, Unwrap!Init
<1>8. StampInv
  BY DEF Unwrap!Init, StampInv
<1>9. AskedInv
  BY DEF Unwrap!Init, AskedInv, Unwrap!isKnownRejected
<1>10. RoundInv
  BY DEF Unwrap!Init, RoundInv
<1> QED BY <1>1, <1>6, <1>7, <1>8, <1>9, <1>10 DEF ChartInv

-----------------------------------------------------------------------------
(* Unwrap!A round *)

\* What a step that merges nothing leaves as it was.
LEMMA SameCharts ==
    ASSUME UNCHANGED <<givenCharts, root, chartFaces, merges>>, ListsInv, CountedInv
    PROVE  ListsInv' /\ CountedInv' /\ Roots' = Roots
BY DEF ListsInv, CountedInv, Roots, Unwrap!RootOf, Unwrap!Faces

LEMMA SameMemo ==
    ASSUME UNCHANGED <<givenCharts, root, chartFaces, Unwrap!memoVars, accept, repeated>>, AskedInv
    PROVE  AskedInv'
<1>1. Roots' = Roots
  BY DEF Roots
<1>2. \A a, b \in Roots : /\ Ask(a, b)' = Ask(a, b) /\ SaidNo(a, b)' = SaidNo(a, b)
                          /\ Unwrap!isKnownRejected(a, b)' = Unwrap!isKnownRejected(a, b)
  BY DEF Ask, SaidNo, Unwrap!isKnownRejected, Unwrap!memoVars, Unwrap!Stamp
<1>3. \A list : OneChart(list)' = OneChart(list)
  BY DEF OneChart, Unwrap!Faces, Unwrap!RootOf
<1> QED BY <1>1, <1>2, <1>3 DEF AskedInv

LEMMA VisitIs ==
    ASSUME Unwrap!MergeAssumption, ChartInv, Unwrap!Visiting
    PROVE  /\ at \in 1 .. Len(pairs) /\ at + 1 \in 1 .. Len(pairs) + 1
           /\ Unwrap!A \in Roots /\ Unwrap!B \in Roots /\ Unwrap!A \in Unwrap!Chart
           /\ Unwrap!B \in Unwrap!Chart
           /\ Unwrap!A = root[pairs[at][1]] /\ Unwrap!B = root[pairs[at][2]]
           /\ Unwrap!Question = Ask(Unwrap!A, Unwrap!B)
           /\ mergeStatus = "merging" /\ chartOf = givenCharts
<1>1. GivenInv /\ ListsInv
  BY DEF ChartInv
<1>2. at \in 1 .. Len(pairs) /\ at + 1 \in 1 .. Len(pairs) + 1
  BY <1>1, Shape DEF GivenInv, Unwrap!Visiting
<1>3. Unwrap!A \in Roots /\ Unwrap!B \in Roots
  BY <1>1, <1>2, Shape, RootsAre DEF Unwrap!A, Unwrap!B
<1> QED BY <1>1, <1>2, <1>3 DEF Unwrap!A, Unwrap!B, Roots, Unwrap!Question, Ask, Unwrap!Visiting,
           GivenInv

LEMMA OnwardsKeeps ==
    ASSUME Unwrap!MergeAssumption, GivenInv, Unwrap!Visiting, Unwrap!Onwards, changed' \in BOOLEAN
    PROVE  GivenInv'
<1>1. at' \in 1 .. Len(pairs') + 1
  BY Shape DEF GivenInv, Unwrap!Visiting, Unwrap!Onwards
<1> QED BY <1>1 DEF GivenInv, Unwrap!Onwards, Unwrap!Visiting

\* The next pair, when this one is settled and what was settled stays so.
LEMMA RoundGoesOn ==
    ASSUME Unwrap!MergeAssumption, ChartInv, Unwrap!Visiting, Unwrap!Onwards,
           UNCHANGED <<root, chartFaces, changed>>,
           \A i \in 1 .. Len(pairs) : Settled(i) \/ i = at => Settled(i)'
    PROVE  RoundInv'
<1>1. Len(pairs) \in Nat /\ at \in 1 .. Len(pairs) /\ at' - 1 = at /\ mergeStatus' = "merging"
  BY VisitIs, Shape DEF ChartInv, Unwrap!Onwards
<1>2. ASSUME ~changed, NEW i \in 1 .. at PROVE Settled(i)'
  <2>1. CASE i = at
    BY <1>1, <2>1
  <2>2. CASE i # at
    <3>1. i \in 1 .. at - 1 /\ i \in 1 .. Len(pairs)
      BY <1>1, <2>2
    <3> QED BY <1>2, <3>1 DEF ChartInv, RoundInv
  <2> QED BY <2>1, <2>2
<1> QED BY <1>1, <1>2 DEF RoundInv

LEMMA SkipKeeps == ASSUME Unwrap!MergeAssumption, ChartInv, Unwrap!Skip PROVE ChartInv'
<1>1. /\ Unwrap!Visiting /\ Unwrap!Onwards
             /\ (Unwrap!A = Unwrap!B \/ Unwrap!isKnownRejected(Unwrap!A, Unwrap!B))
      /\ UNCHANGED <<root, chartFaces, Unwrap!memoVars, changed, merges, accept, repeated>>
      /\ UNCHANGED <<chartOf, pairs, givenCharts, mergeStatus>>
  BY DEF Unwrap!Skip, Unwrap!Onwards
<1>2. GivenInv /\ ListsInv /\ CountedInv /\ StampInv /\ AskedInv
  BY DEF ChartInv
<1>3. GivenInv'
  BY <1>1, <1>2, OnwardsKeeps DEF GivenInv
<1>4. ListsInv' /\ CountedInv' /\ StampInv' /\ AskedInv'
  BY <1>1, <1>2, SameCharts, SameMemo DEF StampInv, Unwrap!memoVars
<1>5. \A i : Settled(i)' = Settled(i)
  BY <1>1 DEF Settled, SaidNo, Ask
<1>6. Settled(at)
  <2>1. Unwrap!A # Unwrap!B => SaidNo(Unwrap!A, Unwrap!B)
    BY <1>1, <1>2, VisitIs DEF AskedInv
  <2> QED BY <1>1, <2>1, VisitIs DEF Settled
<1>7. RoundInv'
  <2>1. \A i : i = at => Settled(i)
    BY <1>6
  <2> QED BY <1>1, <1>5, <2>1, RoundGoesOn
<1> QED BY <1>3, <1>4, <1>7 DEF ChartInv

LEMMA CancelledKeeps == ASSUME Unwrap!MergeAssumption, ChartInv, Unwrap!Cancelled PROVE ChartInv'
<1>1. /\ mergeStatus = "merging" /\ mergeStatus' = "cancelled"
      /\ UNCHANGED <<chartOf, pairs, givenCharts, root, chartFaces, Unwrap!memoVars, at, changed, merges,
                     accept, repeated>>
  BY DEF Unwrap!Cancelled, Unwrap!Visiting
<1>2. GivenInv' /\ ListsInv' /\ CountedInv' /\ StampInv' /\ AskedInv'
  BY <1>1, SameCharts, SameMemo DEF ChartInv, GivenInv, StampInv, Unwrap!memoVars
<1>3. RoundInv'
  BY <1>1 DEF ChartInv, RoundInv, Settled, SaidNo, Ask
<1> QED BY <1>2, <1>3 DEF ChartInv

LEMMA AnotherRoundKeeps == ASSUME Unwrap!MergeAssumption, ChartInv, Unwrap!AnotherRound PROVE ChartInv'
<1>1. /\ mergeStatus = "merging" /\ at' = 1 /\ changed' = FALSE
      /\ UNCHANGED <<chartOf, pairs, givenCharts, root, chartFaces, Unwrap!memoVars, merges, mergeStatus,
                     accept, repeated>>
  BY DEF Unwrap!AnotherRound
<1>2. GivenInv'
  <2>1. 1 \in 1 .. Len(pairs) + 1
    BY Shape DEF ChartInv
  <2> QED BY <1>1, <2>1 DEF ChartInv, GivenInv
<1>3. ListsInv' /\ CountedInv' /\ StampInv' /\ AskedInv'
  BY <1>1, SameCharts, SameMemo DEF ChartInv, StampInv, Unwrap!memoVars
<1>4. RoundInv'
  BY <1>1 DEF RoundInv
<1> QED BY <1>2, <1>3, <1>4 DEF ChartInv

\* What is asked was not asked before.
LEMMA AskedIs ==
    ASSUME Unwrap!MergeAssumption, ChartInv, NEW said, Unwrap!Asked(said), NEW a, NEW b,
           a = Unwrap!A, b = Unwrap!B
    PROVE  /\ Unwrap!Visiting /\ a # b /\ ~Unwrap!isKnownRejected(a, b) /\ ~repeated'
           /\ a \in Roots /\ b \in Roots /\ a \in Unwrap!Chart /\ b \in Unwrap!Chart
           /\ a = root[pairs[at][1]] /\ b = root[pairs[at][2]]
           /\ Ask(a, b) \notin DOMAIN accept /\ DOMAIN accept' = DOMAIN accept \cup {Ask(a, b)}
           /\ accept'[Ask(a, b)] = said
           /\ \A q \in DOMAIN accept : q \in DOMAIN accept' /\ accept'[q] = accept[q]
<1>1. /\ Unwrap!Visiting /\ a # b /\ ~Unwrap!isKnownRejected(a, b)
      /\ accept' = Unwrap!Put(accept, Unwrap!Question, said)
      /\ repeated' = (repeated \/ Unwrap!Question \in DOMAIN accept)
  BY DEF Unwrap!Asked
<1>2. /\ a \in Roots /\ b \in Roots /\ Unwrap!Question = Ask(a, b) /\ a \in Unwrap!Chart
      /\ b \in Unwrap!Chart
      /\ a = root[pairs[at][1]] /\ b = root[pairs[at][2]]
  BY <1>1, VisitIs
<1>3. Ask(a, b) \notin DOMAIN accept
  BY <1>1, <1>2 DEF ChartInv, AskedInv
<1>4. ~repeated'
  BY <1>1, <1>2, <1>3 DEF ChartInv, AskedInv
<1> DEFINE q == Ask(a, b)
<1>5. accept' = Unwrap!Put(accept, q, said) /\ q \notin DOMAIN accept
  BY <1>1, <1>2, <1>3
<1> HIDE DEF q
<1>6. /\ DOMAIN accept' = DOMAIN accept \cup {q} /\ accept'[q] = said
      /\ \A x \in DOMAIN accept : x \in DOMAIN accept' /\ accept'[x] = accept[x]
  <2>1. /\ DOMAIN accept' = DOMAIN accept \cup {q} /\ accept'[q] = said
        /\ \A x \in DOMAIN accept : x # q => accept'[x] = accept[x]
    BY ONLY <1>5 DEF Unwrap!Put
  <2> QED BY <1>5, <2>1
<1> QED BY <1>1, <1>2, <1>4, <1>5, <1>6 DEF q

LEMMA RejectedKeeps == ASSUME Unwrap!MergeAssumption, ChartInv, Unwrap!Rejected PROVE ChartInv'
<1>0. PICK a, b : a = Unwrap!A /\ b = Unwrap!B
  OBVIOUS
<1>1. /\ Unwrap!Asked(FALSE) /\ entries' = Unwrap!Put(entries, <<a, b>>, Unwrap!Stamp(a, b))
      /\ Unwrap!Onwards
      /\ UNCHANGED <<root, chartFaces, version, changed, merges>>
      /\ UNCHANGED <<chartOf, pairs, givenCharts, mergeStatus>>
  BY <1>0 DEF Unwrap!Rejected, Unwrap!Onwards, Unwrap!reject, Unwrap!Key
<1>2. GivenInv /\ ListsInv /\ CountedInv /\ StampInv /\ AskedInv /\ RoundInv
  BY DEF ChartInv
<1>3. /\ Unwrap!Visiting /\ a # b /\ ~repeated' /\ a \in Roots /\ b \in Roots
      /\ a \in Unwrap!Chart /\ b \in Unwrap!Chart
      /\ a = root[pairs[at][1]] /\ b = root[pairs[at][2]]
      /\ Ask(a, b) \notin DOMAIN accept /\ DOMAIN accept' = DOMAIN accept \cup {Ask(a, b)}
      /\ accept'[Ask(a, b)] = FALSE
      /\ \A q \in DOMAIN accept : q \in DOMAIN accept' /\ accept'[q] = accept[q]
  BY <1>0, <1>1, AskedIs
<1>5. GivenInv'
  BY <1>1, <1>2, <1>3, OnwardsKeeps DEF GivenInv
<1>6. ListsInv' /\ CountedInv' /\ Roots' = Roots
  BY <1>1, <1>2, SameCharts
<1>7. /\ DOMAIN entries' = DOMAIN entries \cup {<<a, b>>} /\ entries'[<<a, b>>] = Unwrap!Stamp(a, b)
      /\ \A k \in DOMAIN entries : k # <<a, b>> => entries'[k] = entries[k]
  <2> DEFINE asked == <<a, b>>
             stamp == Unwrap!Stamp(a, b)
  <2>1. entries' = Unwrap!Put(entries, asked, stamp)
    BY <1>1
  <2> HIDE DEF asked, stamp
  <2>2. /\ DOMAIN entries' = DOMAIN entries \cup {asked} /\ entries'[asked] = stamp
        /\ \A k \in DOMAIN entries : k # asked => entries'[k] = entries[k]
    BY ONLY <2>1 DEF Unwrap!Put
  <2> QED BY <2>2 DEF asked, stamp
<1>8. StampInv'
  <2>1. version[Unwrap!Lesser(a, b)] \in Nat /\ version[Unwrap!Greater(a, b)] \in Nat
    BY <1>2, <1>3 DEF StampInv, Unwrap!Lesser, Unwrap!Greater
  <2>2. ASSUME NEW k \in DOMAIN entries'
        PROVE  /\ k \in Unwrap!Chart \X Unwrap!Chart /\ entries'[k] \in Nat \X Nat
               /\ entries'[k][1] <= version[Unwrap!Lesser(k[1], k[2])]
               /\ entries'[k][2] <= version[Unwrap!Greater(k[1], k[2])]
    <3>1. CASE k = <<a, b>>
      BY <1>3, <1>7, <2>1, <3>1 DEF Unwrap!Stamp
    <3>2. CASE k # <<a, b>>
      <4>1. k \in DOMAIN entries
        BY <1>7, <3>2
      <4> QED BY <1>2, <1>7, <3>2, <4>1 DEF StampInv
    <3> QED BY <3>1, <3>2
  <2> QED BY <1>1, <1>2, <2>2 DEF StampInv
<1>9. \A c, d : Ask(c, d)' = Ask(c, d)
  BY <1>1 DEF Ask
<1>10. \A c, d : SaidNo(c, d) => SaidNo(c, d)'
  BY <1>3, <1>9 DEF SaidNo
<1>11. SaidNo(a, b)'
  BY <1>3, <1>9 DEF SaidNo
<1>12. Unwrap!isKnownRejected(a, b)'
  BY <1>1, <1>7 DEF Unwrap!isKnownRejected, Unwrap!Key, Unwrap!Stamp
<1>13. \A c, d : <<c, d>> # <<a, b>> => Unwrap!isKnownRejected(c, d)' = Unwrap!isKnownRejected(c, d)
  BY <1>1, <1>7 DEF Unwrap!isKnownRejected, Unwrap!Key, Unwrap!Stamp
<1>14. AskedInv'
  <2>1. ASSUME NEW q \in DOMAIN accept' PROVE OneChart(q[1])' /\ OneChart(q[2])'
    <3>1. \A list : OneChart(list)' = OneChart(list)
      BY <1>1 DEF OneChart, Unwrap!Faces, Unwrap!RootOf
    <3>2. OneChart(chartFaces[a]) /\ OneChart(chartFaces[b])
      BY <1>2, <1>3, RootsAre DEF OneChart
    <3>3. CASE q = Ask(a, b)
      BY <3>1, <3>2, <3>3 DEF Ask
    <3>4. CASE q # Ask(a, b)
      BY <1>2, <1>3, <3>1, <3>4 DEF AskedInv
    <3> QED BY <3>3, <3>4
  <2>2. ASSUME NEW c \in Roots, NEW d \in Roots, c # d, Ask(c, d)' \in DOMAIN accept'
        PROVE  Unwrap!isKnownRejected(c, d)'
    <3>1. CASE Ask(c, d) = Ask(a, b)
      <4>1. c = a /\ d = b
        BY <1>2, <1>3, <3>1, AskNames
      <4> QED BY <1>12, <4>1
    <3>2. CASE Ask(c, d) # Ask(a, b)
      <4>1. Ask(c, d) \in DOMAIN accept /\ <<c, d>> # <<a, b>>
        BY <1>3, <1>9, <2>2, <3>2
      <4> QED BY <1>2, <1>13, <2>2, <4>1 DEF AskedInv
    <3> QED BY <3>1, <3>2
  <2>3. ASSUME NEW c \in Roots, NEW d \in Roots, c # d, Unwrap!isKnownRejected(c, d)'
        PROVE  SaidNo(c, d)'
    <3>1. CASE <<c, d>> = <<a, b>>
      BY <1>11, <3>1
    <3>2. CASE <<c, d>> # <<a, b>>
      BY <1>2, <1>10, <1>13, <2>3, <3>2 DEF AskedInv
    <3> QED BY <3>1, <3>2
  <2> QED BY <1>3, <1>6, <2>1, <2>2, <2>3 DEF AskedInv
<1>15. RoundInv'
  <2>1. \A i : Settled(i) => Settled(i)'
    BY <1>1, <1>10 DEF Settled
  <2>2. \A i : i = at => Settled(i)'
    BY <1>1, <1>3, <1>11 DEF Settled
  <2> QED BY <1>1, <1>3, <2>1, <2>2, RoundGoesOn
<1> QED BY <1>5, <1>6, <1>8, <1>14, <1>15 DEF ChartInv

LEMMA MergedLists ==
    ASSUME Unwrap!MergeAssumption, GivenInv, ListsInv, CountedInv, NEW keep \in Roots,
           NEW drop \in Roots, keep < drop,
           root' = [c \in Unwrap!Chart |-> IF root[c] = drop THEN keep ELSE root[c]],
           chartFaces' = [chartFaces EXCEPT ![keep] = @ \o chartFaces[drop], ![drop] = <<>>],
           merges' = merges + 1, UNCHANGED givenCharts
    PROVE  /\ ListsInv' /\ CountedInv' /\ Roots' = Roots \ {drop}
           /\ Unwrap!ToSet(chartFaces'[keep]) =
                  Unwrap!ToSet(chartFaces[keep]) \cup Unwrap!ToSet(chartFaces[drop])
           /\ \A c \in Unwrap!Chart : c # keep /\ c # drop => chartFaces'[c] = chartFaces[c]
<1>1. /\ keep \in Unwrap!Chart /\ drop \in Unwrap!Chart /\ root[keep] = keep
      /\ root[drop] = drop /\ keep # drop
      /\ Unwrap!Faces' = Unwrap!Faces /\ Unwrap!Chart \subseteq Nat
  BY Shape DEF Roots, Unwrap!Faces
<1>2. \A c \in Unwrap!Chart : /\ root[c] \in Unwrap!Chart /\ root[c] <= c /\ root[root[c]] = root[c]
                       /\ chartFaces[c] \in Seq(Unwrap!Faces) /\ Unwrap!IsInjective(chartFaces[c])
                       /\ Unwrap!ToSet(chartFaces[c]) =
                              {f \in Unwrap!Faces : givenCharts[f] >= 0 /\ Unwrap!RootOf(f) = c}
  BY DEF ListsInv
<1>3. \A c \in Unwrap!Chart : root'[c] = IF root[c] = drop THEN keep ELSE root[c]
  OBVIOUS
<1>4. Roots' = Roots \ {drop}
  BY <1>1, <1>2, <1>3 DEF Roots
<1>5. CountedInv'
  <2>1. /\ IsFiniteSet(Roots \ {drop}) /\ Cardinality(Roots \ {drop}) = Cardinality(Roots) - 1
    BY FS_RemoveElement DEF CountedInv
  <2>2. Charts \in Int
    BY Shape
  <2> QED BY <1>4, <2>1, <2>2 DEF CountedInv
<1>6. \A f \in Unwrap!Faces : givenCharts[f] >= 0 => givenCharts[f] \in Unwrap!Chart
  BY Shape
<1>7. \A f \in Unwrap!Faces : givenCharts[f] >= 0 =>
          Unwrap!RootOf(f)' = IF Unwrap!RootOf(f) = drop THEN keep ELSE Unwrap!RootOf(f)
  BY <1>3, <1>6 DEF Unwrap!RootOf
<1>8. /\ chartFaces'[keep] = chartFaces[keep] \o chartFaces[drop] /\ chartFaces'[drop] = <<>>
      /\ \A c \in Unwrap!Chart : c # keep /\ c # drop => chartFaces'[c] = chartFaces[c]
      /\ DOMAIN chartFaces' = Unwrap!Chart /\ chartFaces' = [c \in Unwrap!Chart |-> chartFaces'[c]]
  BY <1>1 DEF ListsInv
<1>9. /\ chartFaces'[keep] \in Seq(Unwrap!Faces) /\ Unwrap!IsInjective(chartFaces'[keep])
      /\ Unwrap!ToSet(chartFaces'[keep]) =
             Unwrap!ToSet(chartFaces[keep]) \cup Unwrap!ToSet(chartFaces[drop])
  <2> DEFINE s == chartFaces[keep]
             t == chartFaces[drop]
  <2>1. /\ s \in Seq(Unwrap!Faces) /\ t \in Seq(Unwrap!Faces) /\ Unwrap!IsInjective(s)
        /\ Unwrap!IsInjective(t)
        /\ Unwrap!ToSet(s) \cap Unwrap!ToSet(t) = {}
    BY <1>1, <1>2
  <2>2. chartFaces'[keep] = s \o t
    BY <1>8
  <2> HIDE DEF s, t
  <2>3. /\ s \o t \in Seq(Unwrap!Faces) /\ Unwrap!IsInjective(s \o t)
        /\ Unwrap!ToSet(s \o t) = Unwrap!ToSet(s) \cup Unwrap!ToSet(t)
    BY ONLY <2>1, Joining
  <2>4. chartFaces'[keep] \in Seq(Unwrap!Faces) /\ Unwrap!IsInjective(chartFaces'[keep])
        /\ Unwrap!ToSet(chartFaces'[keep]) = Unwrap!ToSet(s) \cup Unwrap!ToSet(t)
    BY ONLY <2>2, <2>3
  <2> QED BY <2>4 DEF s, t
<1>10. ASSUME NEW c \in Unwrap!Chart
       PROVE  /\ chartFaces'[c] \in Seq(Unwrap!Faces) /\ Unwrap!IsInjective(chartFaces'[c])
              /\ Unwrap!ToSet(chartFaces'[c]) =
                     {f \in Unwrap!Faces : givenCharts[f] >= 0 /\ Unwrap!RootOf(f)' = c}
  <2>1. CASE c = keep
    <3>1. Unwrap!ToSet(chartFaces'[c]) =
              {f \in Unwrap!Faces : givenCharts[f] >= 0 /\ (Unwrap!RootOf(f) = keep \/ Unwrap!RootOf(f) = drop)}
      BY <1>1, <1>2, <1>9, <2>1
    <3>2. \A f \in Unwrap!Faces : givenCharts[f] >= 0 =>
              (Unwrap!RootOf(f)' = c <=> Unwrap!RootOf(f) = keep \/ Unwrap!RootOf(f) = drop)
      BY <1>7, <2>1
    <3> QED BY <1>9, <2>1, <3>1, <3>2
  <2>2. CASE c = drop
    <3>1. /\ Unwrap!ToSet(chartFaces'[c]) = {} /\ chartFaces'[c] \in Seq(Unwrap!Faces)
          /\ Unwrap!IsInjective(chartFaces'[c])
      BY <1>8, <2>2, EmptyList
    <3>2. \A f \in Unwrap!Faces : givenCharts[f] >= 0 => Unwrap!RootOf(f)' # c
      BY <1>1, <1>7, <2>2
    <3> QED BY <3>1, <3>2
  <2>3. CASE c # keep /\ c # drop
    <3>1. \A f \in Unwrap!Faces : givenCharts[f] >= 0 =>
              (Unwrap!RootOf(f)' = c <=> Unwrap!RootOf(f) = c)
      BY <1>7, <2>3
    <3> QED BY <1>2, <1>8, <2>3, <3>1
  <2> QED BY <2>1, <2>2, <2>3
<1>11. ListsInv'
  <2>1. root' \in [Unwrap!Chart -> Unwrap!Chart]
    BY <1>1, <1>2
  <2>2. \A c \in Unwrap!Chart : root'[c] <= c /\ root'[root'[c]] = root'[c]
    BY <1>1, <1>2, <1>3
  <2>3. chartFaces' \in [Unwrap!Chart -> Seq(Unwrap!Faces)]
    <3>1. \A c \in Unwrap!Chart : chartFaces'[c] \in Seq(Unwrap!Faces)
      BY <1>10
    <3> QED BY <1>8, <3>1
  <2>4. \A c \in Unwrap!Chart : /\ Unwrap!IsInjective(chartFaces'[c])
                         /\ Unwrap!ToSet(chartFaces'[c]) =
                                {f \in Unwrap!Faces' : givenCharts'[f] >= 0 /\ Unwrap!RootOf(f)' = c}
    BY <1>1, <1>10
  <2> QED BY <1>1, <2>1, <2>2, <2>3, <2>4 DEF ListsInv
<1> QED BY <1>4, <1>5, <1>8, <1>9, <1>11

LEMMA MergedKeeps == ASSUME Unwrap!MergeAssumption, ChartInv, Unwrap!Merged PROVE ChartInv'
<1>0. PICK a, b : a = Unwrap!A /\ b = Unwrap!B
  OBVIOUS
<1> DEFINE keep == Unwrap!Lesser(a, b)
           drop == Unwrap!Greater(a, b)
<1>1. /\ Unwrap!Asked(TRUE) /\ Unwrap!Onwards /\ changed' = TRUE /\ merges' = merges + 1
      /\ UNCHANGED entries
      /\ root' = [c \in Unwrap!Chart |-> IF root[c] = drop THEN keep ELSE root[c]]
      /\ chartFaces' = [chartFaces EXCEPT ![keep] = @ \o chartFaces[drop], ![drop] = <<>>]
      /\ version' = [version EXCEPT ![keep] = @ + 1]
      /\ UNCHANGED <<chartOf, pairs, givenCharts, mergeStatus>>
  BY <1>0 DEF Unwrap!Merged, Unwrap!Onwards
<1>2. GivenInv /\ ListsInv /\ CountedInv /\ StampInv /\ AskedInv /\ RoundInv
  BY DEF ChartInv
<1>3. /\ Unwrap!Visiting /\ a # b /\ ~repeated' /\ a \in Roots /\ b \in Roots
      /\ a \in Unwrap!Chart /\ b \in Unwrap!Chart
      /\ DOMAIN accept' = DOMAIN accept \cup {Ask(a, b)}
      /\ \A q \in DOMAIN accept : q \in DOMAIN accept' /\ accept'[q] = accept[q]
  BY <1>0, <1>1, AskedIs
<1>4. /\ keep \in Roots /\ drop \in Roots /\ keep < drop /\ keep \in Unwrap!Chart
      /\ drop \in Unwrap!Chart
      /\ {keep, drop} = {a, b} /\ Unwrap!Chart \subseteq Nat
  <2>1. a \in Nat /\ b \in Nat /\ Unwrap!Chart \subseteq Nat
    BY <1>2, <1>3, Shape
  <2> QED BY <1>3, <2>1 DEF Unwrap!Lesser, Unwrap!Greater
<1> HIDE DEF keep, drop
<1>5. GivenInv'
  BY <1>1, <1>2, <1>3, OnwardsKeeps
<1>6. /\ ListsInv' /\ CountedInv' /\ Roots' = Roots \ {drop}
      /\ Unwrap!ToSet(chartFaces'[keep]) =
             Unwrap!ToSet(chartFaces[keep]) \cup Unwrap!ToSet(chartFaces[drop])
      /\ \A c \in Unwrap!Chart : c # keep /\ c # drop => chartFaces'[c] = chartFaces[c]
  BY <1>1, <1>2, <1>4, MergedLists
<1>7. /\ version' \in [Unwrap!Chart -> Nat] /\ version'[keep] = version[keep] + 1
      /\ version[keep] \in Nat
      /\ \A c \in Unwrap!Chart : version[c] \in Nat /\ version[c] <= version'[c]
                          /\ (c # keep => version'[c] = version[c])
  BY <1>1, <1>2, <1>4 DEF StampInv
<1>8. \A c, d \in Unwrap!Chart : Unwrap!Lesser(c, d) \in {c, d} /\ Unwrap!Greater(c, d) \in {c, d}
  BY DEF Unwrap!Lesser, Unwrap!Greater
<1>9. \A k \in DOMAIN entries : /\ k \in Unwrap!Chart \X Unwrap!Chart /\ entries[k] \in Nat \X Nat
                                /\ entries[k][1] <= version[Unwrap!Lesser(k[1], k[2])]
                                /\ entries[k][2] <= version[Unwrap!Greater(k[1], k[2])]
  BY <1>2 DEF StampInv
<1>10. StampInv'
  <2>1. \A c \in Unwrap!Chart : version'[c] <= merges'
    <3>1. \A c \in Unwrap!Chart : version[c] <= merges
      BY <1>2 DEF StampInv
    <3>2. merges \in Int
      BY <1>2 DEF CountedInv
    <3> QED BY <1>1, <1>7, <3>1, <3>2
  <2>2. ASSUME NEW k \in DOMAIN entries
        PROVE  /\ k \in Unwrap!Chart \X Unwrap!Chart /\ entries[k] \in Nat \X Nat
               /\ entries[k][1] <= version'[Unwrap!Lesser(k[1], k[2])]
               /\ entries[k][2] <= version'[Unwrap!Greater(k[1], k[2])]
    <3>1. k[1] \in Unwrap!Chart /\ k[2] \in Unwrap!Chart
      BY <1>9
    <3>2. Unwrap!Lesser(k[1], k[2]) \in Unwrap!Chart /\ Unwrap!Greater(k[1], k[2]) \in Unwrap!Chart
      BY <1>8, <3>1
    <3>3. /\ version[Unwrap!Lesser(k[1], k[2])] <= version'[Unwrap!Lesser(k[1], k[2])]
          /\ version[Unwrap!Greater(k[1], k[2])] <= version'[Unwrap!Greater(k[1], k[2])]
      BY <1>7, <3>2
    <3>4. /\ version[Unwrap!Lesser(k[1], k[2])] \in Nat
          /\ version'[Unwrap!Lesser(k[1], k[2])] \in Nat
          /\ version[Unwrap!Greater(k[1], k[2])] \in Nat
          /\ version'[Unwrap!Greater(k[1], k[2])] \in Nat
          /\ entries[k][1] \in Nat /\ entries[k][2] \in Nat
      BY <1>7, <1>9, <3>2
    <3> QED BY <1>9, <3>3, <3>4
  <2> QED BY <1>1, <1>7, <2>1, <2>2 DEF StampInv
<1>11. ASSUME NEW c \in Roots', NEW d \in Roots', c # d, c # keep, d # keep
       PROVE  /\ c \in Roots /\ d \in Roots /\ Ask(c, d)' = Ask(c, d) /\ Ask(c, d) # Ask(a, b)
              /\ Unwrap!isKnownRejected(c, d)' = Unwrap!isKnownRejected(c, d)
  <2>1. /\ c \in Roots /\ d \in Roots /\ c # drop /\ d # drop /\ c \in Unwrap!Chart
        /\ d \in Unwrap!Chart
    BY <1>6, <1>11 DEF Roots
  <2>2. Ask(c, d)' = Ask(c, d)
    BY <1>6, <1>11, <2>1 DEF Ask
  <2>3. Ask(c, d) # Ask(a, b)
    BY <1>2, <1>3, <1>4, <1>11, <2>1, AskNames
  <2>4. /\ version'[Unwrap!Lesser(c, d)] = version[Unwrap!Lesser(c, d)]
        /\ version'[Unwrap!Greater(c, d)] = version[Unwrap!Greater(c, d)]
    BY <1>7, <1>8, <1>11, <2>1
  <2>5. Unwrap!isKnownRejected(c, d)' = Unwrap!isKnownRejected(c, d)
    BY <1>1, <2>4 DEF Unwrap!isKnownRejected, Unwrap!Key, Unwrap!Stamp
  <2> QED BY <2>1, <2>2, <2>3, <2>5
<1>12. ASSUME NEW c \in Roots', NEW d \in Roots', c # d, c = keep \/ d = keep
       PROVE  ~Unwrap!isKnownRejected(c, d)'
  <2>1. SUFFICES ASSUME <<c, d>> \in DOMAIN entries,
                        entries[<<c, d>>] =
                            <<version'[Unwrap!Lesser(c, d)], version'[Unwrap!Greater(c, d)]>>
                 PROVE  FALSE
    BY <1>1 DEF Unwrap!isKnownRejected, Unwrap!Key, Unwrap!Stamp
  <2>2. c \in Unwrap!Chart /\ d \in Unwrap!Chart
    BY <1>6 DEF Roots
  <2>3. /\ version'[Unwrap!Lesser(c, d)] <= version[Unwrap!Lesser(c, d)]
        /\ version'[Unwrap!Greater(c, d)] <= version[Unwrap!Greater(c, d)]
    BY <1>9, <2>1
  <2>4. Unwrap!Lesser(c, d) = keep \/ Unwrap!Greater(c, d) = keep
    <3>1. c \in Nat /\ d \in Nat
      BY <1>4, <2>2
    <3> QED BY <1>12, <3>1 DEF Unwrap!Lesser, Unwrap!Greater
  <2> QED BY <1>7, <2>3, <2>4
<1>13. ASSUME NEW list, OneChart(list) PROVE OneChart(list)'
  <2>1. SUFFICES ASSUME NEW f \in Unwrap!ToSet(list), NEW g \in Unwrap!ToSet(list)
                 PROVE  f \in Unwrap!Faces' /\ givenCharts'[f] \in Unwrap!Chart
                     /\ Unwrap!RootOf(f)' = Unwrap!RootOf(g)'
    BY DEF OneChart
  <2>2. /\ f \in Unwrap!Faces /\ givenCharts[f] \in Unwrap!Chart
        /\ givenCharts[g] \in Unwrap!Chart /\ Unwrap!RootOf(f) = Unwrap!RootOf(g)
    BY <1>13 DEF OneChart
  <2> QED BY <1>1, <2>2 DEF Unwrap!Faces, Unwrap!RootOf
<1>14. OneChart(chartFaces[a]) /\ OneChart(chartFaces[b])
  BY <1>2, <1>3, RootsAre DEF OneChart
<1>15. \A q \in DOMAIN accept' : OneChart(q[1]) /\ OneChart(q[2])
  <2>1. \A q : q = Ask(a, b) => OneChart(q[1]) /\ OneChart(q[2])
    BY <1>14 DEF Ask
  <2> QED BY <1>2, <1>3, <2>1 DEF AskedInv
<1>16. ~OneChart(chartFaces'[keep])
  <2>1. PICK f \in Unwrap!ToSet(chartFaces[keep]) : f \in Unwrap!Faces
    BY <1>2, <1>4, RootsAre
  <2>2. PICK g \in Unwrap!ToSet(chartFaces[drop]) : g \in Unwrap!Faces
    BY <1>2, <1>4, RootsAre
  <2>3. Unwrap!RootOf(f) = keep /\ Unwrap!RootOf(g) = drop /\ keep # drop
    BY <1>2, <1>4, <2>1, <2>2, RootsAre
  <2>4. f \in Unwrap!ToSet(chartFaces'[keep]) /\ g \in Unwrap!ToSet(chartFaces'[keep])
    BY <1>6, <2>1, <2>2
  <2> QED BY <2>3, <2>4 DEF OneChart
<1>17. AskedInv'
  <2>1. ASSUME NEW c \in Roots', NEW d \in Roots', c # d, Ask(c, d)' \in DOMAIN accept'
        PROVE  Unwrap!isKnownRejected(c, d)'
    <3>1. c # keep /\ d # keep
      <4>1. Ask(c, d)' = <<chartFaces'[c], chartFaces'[d]>>
        BY DEF Ask
      <4>2. OneChart(chartFaces'[c]) /\ OneChart(chartFaces'[d])
        BY <1>15, <2>1, <4>1
      <4> QED BY <1>16, <4>2
    <3>2. c \in Roots /\ d \in Roots /\ Ask(c, d) \in DOMAIN accept
      BY <1>3, <1>11, <2>1, <3>1
    <3> QED BY <1>2, <1>11, <2>1, <3>1, <3>2 DEF AskedInv
  <2>2. ASSUME NEW c \in Roots', NEW d \in Roots', c # d, Unwrap!isKnownRejected(c, d)'
        PROVE  SaidNo(c, d)'
    <3>1. c # keep /\ d # keep
      BY <1>12, <2>2
    <3>2. c \in Roots /\ d \in Roots /\ SaidNo(c, d) /\ Ask(c, d)' = Ask(c, d)
      BY <1>2, <1>11, <2>2, <3>1 DEF AskedInv
    <3> QED BY <1>3, <3>2 DEF SaidNo
  <2> QED BY <1>3, <1>13, <1>15, <2>1, <2>2 DEF AskedInv
<1>18. RoundInv'
  BY <1>1, <1>3 DEF RoundInv, Unwrap!Visiting
<1> QED BY <1>5, <1>6, <1>10, <1>17, <1>18 DEF ChartInv

-----------------------------------------------------------------------------
(* The labels *)

LEMMA LeastOf ==
    ASSUME NEW T, T \subseteq Nat, T # {}
    PROVE  \E h \in T : \A g \in T : h <= g
<1> DEFINE Below == {ss \in Nat \X Nat : ss[1] < ss[2]}
<1>1. IsWellFoundedOn(Below, Nat)
  BY NatLessThanWellFounded DEF OpToRel
<1> HIDE DEF Below
<1>2. PICK h \in T : \A g \in T : ~(<<g, h>> \in Below)
  BY <1>1, WFMin
<1>3. \A g \in T : ~(g < h)
  BY <1>2 DEF Below
<1>4. \A g \in T : g \in Nat /\ h \in Nat
  OBVIOUS
<1> QED BY <1>3, <1>4

\* One first face per chart that is left.
LEMMA FirstAre ==
    ASSUME Unwrap!MergeAssumption, GivenInv, ListsInv, CountedInv, chartOf = givenCharts
    PROVE  /\ Unwrap!FirstFaces \subseteq Nat /\ IsFiniteSet(Unwrap!FirstFaces)
           /\ Unwrap!FirstFaces \subseteq {f \in Unwrap!Faces : givenCharts[f] \in Unwrap!Chart}
           /\ \A f \in Unwrap!Faces : givenCharts[f] \in Unwrap!Chart =>
                  \E h \in Unwrap!FirstFaces : Unwrap!RootOf(h) = Unwrap!RootOf(f)
           /\ \A g, h \in Unwrap!FirstFaces : Unwrap!RootOf(g) = Unwrap!RootOf(h) => g = h
           /\ Cardinality(Unwrap!FirstFaces) = Charts - merges
<1> DEFINE F == Unwrap!FirstFaces
           f0 == [h \in F |-> Unwrap!RootOf(h)]
<1>1. /\ Unwrap!Faces = 1 .. Len(givenCharts) /\ Len(givenCharts) \in Nat
      /\ \A f \in Unwrap!Faces : givenCharts[f] >= 0 <=> givenCharts[f] \in Unwrap!Chart
  BY Shape
<1>2. F = {f \in Unwrap!Faces : givenCharts[f] \in Unwrap!Chart /\ \A g \in 1 .. f - 1 :
                             givenCharts[g] \in Unwrap!Chart => Unwrap!RootOf(g) # Unwrap!RootOf(f)}
  <2>1. \A f \in Unwrap!Faces : \A g \in 1 .. f - 1 : g \in Unwrap!Faces
    BY <1>1
  <2> QED BY <1>1, <2>1 DEF Unwrap!FirstFaces, Unwrap!Labelled, Unwrap!RootOf, Unwrap!Faces
<1> HIDE DEF F
<1>3. F \subseteq Unwrap!Faces /\ F \subseteq Nat /\ IsFiniteSet(F)
  <2>1. F \in SUBSET (1 .. Len(givenCharts)) /\ 1 \in Int /\ Len(givenCharts) \in Int
    BY <1>1, <1>2
  <2>2. IsFiniteSet(1 .. Len(givenCharts))
    BY ONLY <2>1, FS_Interval
  <2>3. IsFiniteSet(F)
    BY ONLY <2>1, <2>2, FS_Subset
  <2> QED BY <1>1, <2>1, <2>3
<1>4. ASSUME NEW f \in Unwrap!Faces, givenCharts[f] \in Unwrap!Chart
      PROVE \E h \in F : Unwrap!RootOf(h) = Unwrap!RootOf(f)
  <2> DEFINE T == {h \in Unwrap!Faces : givenCharts[h] \in Unwrap!Chart /\ Unwrap!RootOf(h) = Unwrap!RootOf(f)}
  <2>1. T \subseteq Nat /\ T # {}
    BY <1>1, <1>4
  <2>2. PICK h \in T : \A g \in T : h <= g
    <3> HIDE DEF T
    <3> QED BY ONLY <2>1, LeastOf
  <2>3. \A g \in 1 .. h - 1 : g \in Unwrap!Faces /\ ~(h <= g)
    BY <1>1
  <2>4. h \in F
    BY <1>2, <2>2, <2>3
  <2> QED BY <2>4
<1>5. ASSUME NEW g \in F, NEW h \in F, Unwrap!RootOf(g) = Unwrap!RootOf(h) PROVE g = h
  <2>1. /\ g \in Nat /\ h \in Nat /\ g \in Unwrap!Faces /\ h \in Unwrap!Faces
        /\ givenCharts[g] \in Unwrap!Chart /\ givenCharts[h] \in Unwrap!Chart
    BY <1>1, <1>2
  <2>2. ~(g < h)
    <3>1. SUFFICES ASSUME g < h PROVE FALSE
      OBVIOUS
    <3>2. g \in 1 .. h - 1
      BY <1>1, <2>1, <3>1
    <3> QED BY <1>2, <1>5, <2>1, <3>2
  <2>3. ~(h < g)
    <3>1. SUFFICES ASSUME h < g PROVE FALSE
      OBVIOUS
    <3>2. h \in 1 .. g - 1
      BY <1>1, <2>1, <3>1
    <3> QED BY <1>2, <1>5, <2>1, <3>2
  <2> QED BY <2>1, <2>2, <2>3
<1>6. Cardinality(F) = Cardinality(Roots)
  <2>1. \A h \in F : Unwrap!RootOf(h) \in Roots
    BY <1>2, RootsAre
  <2>2. f0 \in [F -> Roots]
    BY <2>1
  <2>3. \A c \in Roots : \E h \in F : f0[h] = c
    <3>1. SUFFICES ASSUME NEW c \in Roots PROVE \E h \in F : Unwrap!RootOf(h) = c
      OBVIOUS
    <3>2. PICK f \in Unwrap!ToSet(chartFaces[c]) : f \in Unwrap!Faces
      BY RootsAre
    <3>3. givenCharts[f] \in Unwrap!Chart /\ Unwrap!RootOf(f) = c
      BY <3>2, RootsAre
    <3> QED BY <1>4, <3>2, <3>3
  <2>4. \A g, h \in F : f0[g] = f0[h] => g = h
    BY <1>5
  <2> HIDE DEF f0
  <2>5. f0 \in Surjection(F, Roots)
    BY ONLY <2>2, <2>3 DEF Surjection
  <2>6. f0 \in Injection(F, Roots)
    BY ONLY <2>2, <2>4 DEF Injection, IsInjective
  <2>7. ExistsBijection(F, Roots)
    BY <2>5, <2>6 DEF Bijection, ExistsBijection
  <2>8. Cardinality(Roots) = Cardinality(F)
    BY ONLY <1>3, <2>7, FS_Bijection
  <2> QED BY <2>8
<1> QED BY <1>2, <1>3, <1>4, <1>5, <1>6 DEF F, CountedInv

LEMMA LabelIs ==
    ASSUME Unwrap!MergeAssumption, GivenInv, ListsInv, CountedInv, chartOf = givenCharts,
           NEW f \in Unwrap!Faces, givenCharts[f] \in Unwrap!Chart,
           NEW h \in Unwrap!FirstFaces, Unwrap!RootOf(h) = Unwrap!RootOf(f)
    PROVE  Unwrap!NewLabel(f) = Rank(Unwrap!FirstFaces, h)
<1>1. \A g \in Unwrap!FirstFaces :
          (\E k \in Unwrap!FirstFaces : root[chartOf[k]] = root[chartOf[f]] /\ g < k)
                              <=> g < h
  BY FirstAre DEF Unwrap!RootOf
<1>2. {g \in Unwrap!FirstFaces : \E k \in Unwrap!FirstFaces : root[chartOf[k]] = root[chartOf[f]] /\ g < k}
         = {g \in Unwrap!FirstFaces : g < h}
  BY <1>1
<1> QED BY <1>2, MergeLibrary DEF Unwrap!NewLabel, Rank

LEMMA RelabelKeeps == ASSUME Unwrap!MergeAssumption, ChartInv, Unwrap!Relabel PROVE ChartInv'
<1>1. /\ mergeStatus = "merging" /\ at > Len(pairs) /\ ~changed /\ mergeStatus' = "done"
      /\ chartOf' = [f \in DOMAIN chartOf |-> IF Unwrap!Labelled(f) THEN Unwrap!NewLabel(f) ELSE chartOf[f]]
      /\ UNCHANGED <<pairs, givenCharts, root, chartFaces, Unwrap!memoVars, at, changed, merges, accept, repeated>>
  BY DEF Unwrap!Relabel
<1>2. /\ GivenInv /\ ListsInv /\ CountedInv /\ StampInv /\ AskedInv /\ RoundInv
      /\ chartOf = givenCharts
  BY <1>1 DEF ChartInv, GivenInv
<1> DEFINE F == Unwrap!FirstFaces
           n == Charts - merges
<1>3. /\ Unwrap!Faces = 1 .. Len(givenCharts) /\ Len(givenCharts) \in Nat /\ Charts \in Nat
      /\ \A f \in Unwrap!Faces :
             givenCharts[f] \in Unwrap!Chart \cup {-1}
                 /\ (givenCharts[f] >= 0 <=> givenCharts[f] \in Unwrap!Chart)
  BY <1>2, Shape
<1>4. /\ F \subseteq Nat /\ IsFiniteSet(F)
             /\ F \subseteq {f \in Unwrap!Faces : givenCharts[f] \in Unwrap!Chart}
      /\ \A f \in Unwrap!Faces : givenCharts[f] \in Unwrap!Chart =>
             \E h \in F : Unwrap!RootOf(h) = Unwrap!RootOf(f)
      /\ \A g, h \in F : Unwrap!RootOf(g) = Unwrap!RootOf(h) => g = h
      /\ Cardinality(F) = n
  BY <1>2, FirstAre
<1>5. \A f \in Unwrap!Faces, h \in F :
          givenCharts[f] \in Unwrap!Chart /\ Unwrap!RootOf(h) = Unwrap!RootOf(f) =>
              Unwrap!NewLabel(f) = Rank(F, h)
  BY <1>2, LabelIs
<1>6. /\ DOMAIN chartOf' = Unwrap!Faces
      /\ \A f \in Unwrap!Faces :
             chartOf'[f] =
                 IF givenCharts[f] \in Unwrap!Chart THEN Unwrap!NewLabel(f) ELSE givenCharts[f]
  BY <1>1, <1>2, <1>3 DEF Unwrap!Labelled, Unwrap!Faces
<1> HIDE DEF F, n
<1>7. /\ \A g, h \in F : Rank(F, g) = Rank(F, h) => g = h
      /\ {Rank(F, h) : h \in F} = 0 .. n - 1
  <2>1. /\ \A g, h \in F : Rank(F, g) = Rank(F, h) => g = h
        /\ {Rank(F, h) : h \in F} = 0 .. Cardinality(F) - 1
    <3>1. F \subseteq Nat /\ IsFiniteSet(F)
      BY <1>4
    <3> QED BY ONLY <3>1, Ranks
  <2> QED BY <1>4, <2>1
<1>8. \A f \in Unwrap!Faces : givenCharts[f] \in Unwrap!Chart =>
          \E h \in F : Unwrap!RootOf(h) = Unwrap!RootOf(f) /\ chartOf'[f] = Rank(F, h)
  BY <1>4, <1>5, <1>6
<1>9. \A f, g \in Unwrap!Faces :
          givenCharts[f] \in Unwrap!Chart /\ givenCharts[g] \in Unwrap!Chart =>
          (chartOf'[f] = chartOf'[g] <=> Unwrap!RootOf(f) = Unwrap!RootOf(g))
  <2>1. SUFFICES ASSUME NEW f \in Unwrap!Faces, NEW g \in Unwrap!Faces,
                        givenCharts[f] \in Unwrap!Chart, givenCharts[g] \in Unwrap!Chart
                 PROVE  chartOf'[f] = chartOf'[g] <=> Unwrap!RootOf(f) = Unwrap!RootOf(g)
    OBVIOUS
  <2>2. PICK h \in F : Unwrap!RootOf(h) = Unwrap!RootOf(f) /\ chartOf'[f] = Rank(F, h)
    BY <1>8, <2>1
  <2>3. PICK k \in F : Unwrap!RootOf(k) = Unwrap!RootOf(g) /\ chartOf'[g] = Rank(F, k)
    BY <1>8, <2>1
  <2> QED BY <1>4, <1>7, <2>2, <2>3
<1>10. {chartOf'[f] : f \in {g \in Unwrap!Faces : givenCharts[g] \in Unwrap!Chart}} = 0 .. n - 1
  <2>1. \A f \in Unwrap!Faces : givenCharts[f] \in Unwrap!Chart =>
            chartOf'[f] \in {Rank(F, h) : h \in F}
    BY <1>8
  <2>2. ASSUME NEW h \in F
        PROVE h \in Unwrap!Faces /\ givenCharts[h] \in Unwrap!Chart /\ chartOf'[h] = Rank(F, h)
    BY <1>4, <1>5, <1>6
  <2> QED BY <1>7, <2>1, <2>2
<1>11. n <= Charts /\ n \in Int
  <2>1. Cardinality(Roots) <= Charts
    <3>1. Roots \in SUBSET (0 .. Charts - 1) /\ 0 \in Int /\ Charts - 1 \in Int
      BY <1>3 DEF Roots, Unwrap!Chart
    <3>2. IsFiniteSet(0 .. Charts - 1)
          /\ Cardinality(0 .. Charts - 1) = IF 0 > Charts - 1 THEN 0 ELSE Charts - 1 - 0 + 1
      BY ONLY <3>1, FS_Interval
    <3>3. Cardinality(Roots) <= Cardinality(0 .. Charts - 1)
      BY ONLY <3>1, <3>2, FS_Subset
    <3> QED BY <1>3, <3>2, <3>3
  <2> QED BY <1>2, <1>3, <2>1 DEF CountedInv, n
<1>12. chartOf' \in Seq(Unwrap!Chart \cup {-1})
  <2>1. \A f \in Unwrap!Faces : chartOf'[f] \in Unwrap!Chart \cup {-1}
    <3>1. SUFFICES ASSUME NEW f \in Unwrap!Faces PROVE chartOf'[f] \in Unwrap!Chart \cup {-1}
      OBVIOUS
    <3>2. CASE givenCharts[f] \in Unwrap!Chart
      <4>1. chartOf'[f] \in 0 .. n - 1
        BY <1>10, <3>2
      <4> QED BY <1>3, <1>11, <4>1 DEF Unwrap!Chart
    <3>3. CASE givenCharts[f] \notin Unwrap!Chart
      BY <1>3, <1>6, <3>3
    <3> QED BY <3>2, <3>3
  <2>2. chartOf' = [f \in 1 .. Len(givenCharts) |-> chartOf'[f]]
    BY <1>1, <1>2, <1>3 DEF Unwrap!Faces
  <2> QED BY <1>3, <2>1, <2>2, SeqDef
<1>13. Unwrap!LabellingRight'
  <2>1. {chartOf'[f] : f \in {g \in Unwrap!Faces : givenCharts[g] >= 0}} = 0 .. Charts - merges - 1
    BY <1>3, <1>10 DEF n
  <2>2. \A f, g \in Unwrap!Faces : givenCharts[f] >= 0 /\ givenCharts[g] >= 0 =>
          (chartOf'[f] = chartOf'[g] <=> Unwrap!RootOf(f) = Unwrap!RootOf(g))
    BY <1>3, <1>9
  <2>3. Unwrap!Faces' = Unwrap!Faces /\ \A f : Unwrap!RootOf(f)' = Unwrap!RootOf(f)
    BY <1>1 DEF Unwrap!Faces, Unwrap!RootOf
  <2> QED BY <1>1, <2>1, <2>2, <2>3, ZenonT(60) DEF Unwrap!LabellingRight
<1>14. GivenInv'
  BY <1>1, <1>2, <1>12 DEF GivenInv
<1>15. ListsInv' /\ CountedInv' /\ StampInv' /\ AskedInv'
  BY <1>1, <1>2, SameCharts, SameMemo DEF StampInv, Unwrap!memoVars
<1>16. RoundInv'
  <2>1. at' = Len(pairs') + 1
    BY <1>1, <1>2, Shape DEF GivenInv
  <2>2. \A i : Settled(i)' = Settled(i)
    BY <1>1 DEF Settled, SaidNo, Ask
  <2> QED BY <1>1, <1>2, <1>13, <2>1, <2>2 DEF RoundInv
<1> QED BY <1>14, <1>15, <1>16 DEF ChartInv

LEMMA ChartStep == ASSUME Unwrap!MergeAssumption, ChartInv, [Unwrap!Next]_(Unwrap!vars) PROVE ChartInv'
<1>1. CASE UNCHANGED Unwrap!vars
  <2> USE <1>1 DEF Unwrap!vars, Unwrap!memoVars
  <2>1. GivenInv' /\ ListsInv' /\ CountedInv' /\ StampInv' /\ AskedInv'
    BY SameCharts, SameMemo DEF ChartInv, GivenInv, StampInv
  <2>2. Unwrap!LabellingRight' = Unwrap!LabellingRight
    BY DEF Unwrap!LabellingRight, Unwrap!Faces, Unwrap!RootOf
  <2>3. RoundInv'
    BY <2>2 DEF ChartInv, RoundInv, Settled, SaidNo, Ask
  <2> QED BY <2>1, <2>3 DEF ChartInv
<1> QED BY <1>1, SkipKeeps, RejectedKeeps, MergedKeeps, CancelledKeeps, AnotherRoundKeeps,
           RelabelKeeps DEF Unwrap!Next, Unwrap!Pass

\* What MCEngine's MergeRight says.
LEMMA ChartsSound ==
    ASSUME Unwrap!MergeAssumption, ChartInv
    PROVE  /\ Unwrap!TypeOK /\ Unwrap!MemoIsAccept /\ Unwrap!NeverAskedTwice
           /\ Unwrap!FixpointReached /\ Unwrap!ListsAreCharts /\ Unwrap!LabellingRight
<1> USE DEF ChartInv
<1>1. Charts \in Nat /\ Charts >= 2 /\ DOMAIN pairs = 1 .. Len(pairs) /\ Len(pairs) \in Nat
  BY Shape
<1>2. merges \in 0 .. Charts - 1
  <2>1. Roots \in SUBSET (0 .. Charts - 1) /\ 0 \in Int /\ Charts - 1 \in Int /\ 0 \in Roots
    BY <1>1, RootsAre DEF Roots, Unwrap!Chart
  <2>2. IsFiniteSet(0 .. Charts - 1)
        /\ Cardinality(0 .. Charts - 1) = IF 0 > Charts - 1 THEN 0 ELSE Charts - 1 - 0 + 1
    BY ONLY <2>1, FS_Interval
  <2>3. Cardinality(Roots) <= Cardinality(0 .. Charts - 1)
    BY ONLY <2>1, <2>2, FS_Subset
  <2>4. IsFiniteSet(Roots) /\ Roots # {}
    BY <2>1 DEF CountedInv
  <2>5. Cardinality(Roots) \in Nat /\ Cardinality(Roots) # 0
    BY ONLY <2>4, FS_CardinalityType, FS_EmptySet
  <2> QED BY <1>1, <2>2, <2>3, <2>5 DEF CountedInv
<1>3. version \in [Unwrap!Chart -> 0 .. Charts - 1]
  <2>1. \A c \in Unwrap!Chart : version[c] \in 0 .. Charts - 1
    BY <1>1, <1>2 DEF StampInv
  <2> QED BY <2>1 DEF StampInv
<1>4. DOMAIN entries \subseteq Unwrap!Chart \X Unwrap!Chart
  BY DEF StampInv
<1>5. Unwrap!TypeOK
  BY <1>2, <1>3, <1>4 DEF Unwrap!TypeOK, GivenInv, ListsInv
<1>6. Unwrap!MemoIsAccept
  BY DEF Unwrap!MemoIsAccept, AskedInv, SaidNo, Ask, Roots
<1>7. Unwrap!NeverAskedTwice
  BY DEF Unwrap!NeverAskedTwice, AskedInv
<1>8. Unwrap!FixpointReached
  <2>1. SUFFICES ASSUME mergeStatus = "done", NEW i \in 1 .. Len(pairs) PROVE Settled(i)
    BY <1>1 DEF Unwrap!FixpointReached, Settled, SaidNo, Ask
  <2>2. at - 1 = Len(pairs) /\ ~changed
    BY <1>1, <2>1 DEF RoundInv
  <2> QED BY <2>1, <2>2 DEF RoundInv
<1>9. Unwrap!ListsAreCharts
  BY DEF Unwrap!ListsAreCharts, ListsInv
<1>10. Unwrap!LabellingRight
  BY DEF Unwrap!LabellingRight, RoundInv, GivenInv
<1> QED BY <1>5, <1>6, <1>7, <1>8, <1>9, <1>10

\* greedyMergeCharts() with its memo gives what it would without: no merge is skipped
\* that accept was not asked about with the very same face lists, none is asked about
\* twice, and the labels that come out are the charts of a fixpoint, without gaps.
THEOREM MemoChangesNothing ==
    ASSUME Unwrap!MergeAssumption
    PROVE  Unwrap!Spec =>
               [](/\ Unwrap!TypeOK /\ Unwrap!MemoIsAccept /\ Unwrap!NeverAskedTwice
                  /\ Unwrap!FixpointReached /\ Unwrap!ListsAreCharts /\ Unwrap!LabellingRight)
<1>1. Unwrap!Init => ChartInv
  BY InitCharts
<1>2. ChartInv /\ [Unwrap!Next]_(Unwrap!vars) => ChartInv'
  BY ChartStep
<1> QED BY <1>1, <1>2, ChartsSound, PTL DEF Unwrap!Spec

-----------------------------------------------------------------------------
(* A bundle that is written, refused, cancelled or fails *)

\* The tiles of the maps, and those before tile n of map e.
Cells == (1 .. Bundle!Maps) \X (1 .. Bundle!BakedTiles)
CellsBefore(e, n) == {c \in Cells : c[1] < e \/ (c[1] = e /\ c[2] < n)}
PathOf(c) == Bundle!MapPath(c[1], c[2])

\* What the report lists, and whose paths are taken.
Reported == CellsBefore(entry, IF step = "write" THEN tile ELSE 1)
Taken == CellsBefore(entry, IF step \in {"write", "paths"} THEN tile
                            ELSE IF step = "stream" THEN Bundle!BakedTiles + 1 ELSE 1)

\* The files of the map that is streamed, and those of them that are finished.
Streamed == IF step = "stream" THEN {Bundle!MapPath(entry, t) : t \in 1 .. opened} ELSE {}
Finished == IF step = "stream" THEN 1 .. tile - 1 ELSE {}

PlaceInv ==
    /\ entry \in 1 .. Bundle!Maps + 1 /\ tile \in 1 .. Bundle!BakedTiles
    /\ opened \in 0 .. MaxTiles
    /\ step # "map" => entry <= Bundle!Maps
    /\ step \in {"bake", "write"} => ~bounded
    /\ step \in {"paths", "stream"} => bounded
    /\ step = "bake" => tile = 1
    /\ step = "paths" => opened = 0
    /\ step = "stream" => opened \in {tile - 1, tile}
    /\ ~Bundle!OneNameForAll

FilesInv ==
    /\ written = {PathOf(c) : c \in Taken}
    /\ \A c \in Taken : preset.names[c[1]] \in Suffix
    /\ \A c, d \in Taken : PathOf(c) = PathOf(d) => c = d
    /\ files = {[path |-> MeshPath, map |-> 0, tile |-> 0]}
           \cup {Bundle!Report(c[1], c[2]) : c \in Reported}

\* What the maps find at a path.
Found(p) == IF p = MeshPath THEN Bundle!Content(0, 0, TRUE) ELSE before[p]

DiskInv ==
    /\ \A c \in Reported : disk[PathOf(c)] = Bundle!Content(c[1], c[2], TRUE)
    /\ \A t \in Finished : disk[Bundle!MapPath(entry, t)] = Bundle!Content(entry, t, TRUE)
    /\ \A p \in Bundle!Path :
           disk[p] = Found(p) \/ p \in Streamed \/ \E c \in Reported : p = PathOf(c)

\* A bundle has begun to write, or has not, or is over.
UnderWay ==
    bundleOutcome = "none" /\
    IF step = "mesh" THEN files = {} /\ written = {} /\ disk = before /\ entry = 1 /\ tile = 1
    ELSE PlaceInv /\ FilesInv /\ DiskInv

SerialInv ==
    /\ \A p \in Bundle!Path : disk[p].of <= bundles /\ before[p].of <= bundles
    /\ bundles # 0 => \A p \in Bundle!Path : before[p].of < bundles
    /\ bundles = 0 => step = "idle" /\ ~bounded

FileContent == [of : 0 .. MaxBundles, map : Nat, tile : 0 .. MaxTiles, whole : BOOLEAN]

ParamInv ==
    /\ preset \in Presets /\ tiles \in 1 .. MaxTiles /\ udim \in BOOLEAN /\ bounded \in BOOLEAN
    /\ bundles \in 0 .. MaxBundles /\ before \in [Bundle!Path -> FileContent]

BundleIsTrue ==
    /\ Bundle!ReportTrue /\ Bundle!NoCutMapWhenBounded
    /\ Bundle!RefusedLeavesNothing /\ Bundle!OthersUntouched /\ Bundle!OkIsComplete

BundleInv ==
    Bundle!TypeOK /\ ParamInv /\ SerialInv /\ BundleIsTrue /\ (step # "idle" => UnderWay)

Shaped ==
    /\ Bundle!Maps \in Nat /\ Bundle!BakedTiles \in 1 .. MaxTiles /\ MaxTiles \in Nat \ {0}
    /\ MaxBundles \in Nat
    /\ \A m \in 1 .. Bundle!Maps : preset.names[m] \in Suffix \cup {Outside}
    /\ preset.namesTiles \in BOOLEAN

LEMMA Shapes == ASSUME Bundle!BundleAssumption, ParamInv PROVE Shaped
<1>1. /\ preset.names \in Seq(Suffix \cup {Outside}) /\ preset.namesTiles \in BOOLEAN
      /\ MaxTiles \in Nat \ {0} /\ MaxBundles \in Nat
  BY DEF Bundle!BundleAssumption, ParamInv
<1>2. Bundle!Maps \in Nat /\ \A m \in 1 .. Bundle!Maps : preset.names[m] \in Suffix \cup {Outside}
  BY <1>1 DEF Bundle!Maps
<1>3. Bundle!BakedTiles \in 1 .. MaxTiles
  BY <1>1 DEF Bundle!BakedTiles, ParamInv
<1> QED BY <1>1, <1>2, <1>3 DEF Shaped

\* A name of the directory gives a path of it.
LEMMA Inside ==
    ASSUME Bundle!BundleAssumption, NEW m, NEW t \in 0 .. MaxTiles, preset.names[m] \in Suffix,
           preset.namesTiles \in BOOLEAN,
           MaxTiles \in Nat
    PROVE  Bundle!MapPath(m, t) \in Bundle!Path
BY DEF Bundle!BundleAssumption, Bundle!MapPath, Bundle!Path

LEMMA CellsGrow ==
    ASSUME Bundle!Maps \in Nat, Bundle!BakedTiles \in Nat \ {0}, NEW e \in 1 .. Bundle!Maps
    PROVE  /\ \A n \in 1 .. Bundle!BakedTiles :
                  CellsBefore(e, n + 1) = CellsBefore(e, n) \cup {<<e, n>>}
           /\ CellsBefore(e, Bundle!BakedTiles + 1) = CellsBefore(e + 1, 1)
           /\ CellsBefore(e, Bundle!BakedTiles + 1) =
                  CellsBefore(e, 1) \cup {<<e, n>> : n \in 1 .. Bundle!BakedTiles}
           /\ \A n \in 1 .. Bundle!BakedTiles :
                  <<e, n>> \in Cells /\ <<e, n>> \notin CellsBefore(e, 1)
BY DEF CellsBefore, Cells

LEMMA CellsAre ==
    ASSUME Bundle!Maps \in Nat, Bundle!BakedTiles \in Nat \ {0}
    PROVE  /\ CellsBefore(1, 1) = {} /\ CellsBefore(Bundle!Maps + 1, 1) = Cells
           /\ \A e, n \in Int : CellsBefore(e, n) \subseteq Cells
           /\ \A e, n, k \in Int : n <= k => CellsBefore(e, n) \subseteq CellsBefore(e, k)
BY DEF CellsBefore, Cells

\* The files of what is reported, and of the map that is streamed, are taken.
LEMMA InWritten ==
    ASSUME Shaped, PlaceInv, FilesInv
    PROVE  /\ Reported \subseteq Taken /\ Taken \subseteq Cells /\ Streamed \subseteq written
           /\ \A c \in Taken : PathOf(c) \in written
<1>1. /\ Bundle!Maps \in Nat /\ Bundle!BakedTiles \in Nat \ {0}
      /\ entry \in Int /\ tile \in Int /\ tile >= 1 /\ Bundle!BakedTiles + 1 \in Int
      /\ 1 <= Bundle!BakedTiles + 1
  BY DEF PlaceInv, Shaped
<1>2. Reported \subseteq Taken /\ Taken \subseteq Cells
  <2>1. /\ CellsBefore(entry, 1) \subseteq CellsBefore(entry, tile)
        /\ CellsBefore(entry, 1) \subseteq CellsBefore(entry, Bundle!BakedTiles + 1)
    BY <1>1, CellsAre
  <2>2. /\ CellsBefore(entry, 1) \subseteq Cells
        /\ CellsBefore(entry, tile) \subseteq Cells
        /\ CellsBefore(entry, Bundle!BakedTiles + 1) \subseteq Cells
    BY <1>1, CellsAre
  <2> QED BY <2>1, <2>2 DEF Reported, Taken
<1>3. \A c \in Taken : PathOf(c) \in written
  BY DEF FilesInv
<1>4. ASSUME step = "stream", NEW n \in 1 .. opened
      PROVE  Bundle!MapPath(entry, n) \in written
  <2>1. entry \in 1 .. Bundle!Maps /\ n \in 1 .. Bundle!BakedTiles
    BY <1>1, <1>4 DEF PlaceInv
  <2>2. <<entry, n>> \in Taken
    BY <1>1, <1>4, <2>1, CellsGrow DEF Taken
  <2>3. PathOf(<<entry, n>>) = Bundle!MapPath(entry, n)
    BY DEF PathOf
  <2> QED BY <1>3, <2>2, <2>3
<1> QED BY <1>2, <1>3, <1>4 DEF Streamed

\* What a bundle under way reports is what it has written.
LEMMA RunningIsTrue ==
    Bundle!BundleAssumption /\ Shaped /\ step # "idle" /\ bundleOutcome = "none" /\ UnderWay
        => BundleIsTrue
<1> SUFFICES ASSUME Bundle!BundleAssumption, Shaped, step # "idle", bundleOutcome = "none", UnderWay
             PROVE Bundle!ReportTrue
  BY DEF BundleIsTrue, Bundle!NoCutMapWhenBounded, Bundle!RefusedLeavesNothing,
     Bundle!OthersUntouched, Bundle!OkIsComplete
<1>1. CASE step = "mesh"
  BY <1>1 DEF UnderWay, Bundle!ReportTrue
<1>2. CASE step # "mesh"
  <2>1. FilesInv /\ DiskInv /\ PlaceInv
    BY <1>2 DEF UnderWay
  <2>2. ASSUME NEW f \in files, f = [path |-> MeshPath, map |-> 0, tile |-> 0]
        PROVE  \/ disk[f.path] = [of |-> bundles, map |-> f.map, tile |-> f.tile, whole |-> TRUE]
               \/ f.map = 0 /\ MeshPath \in written
    <3>1. MeshPath \in Bundle!Path
      BY DEF Bundle!BundleAssumption
    <3>2. disk[MeshPath] = Found(MeshPath) \/ MeshPath \in written
      BY <2>1, <3>1, InWritten DEF DiskInv
    <3> QED BY <2>2, <3>2 DEF Found, Bundle!Content
  <2>3. ASSUME NEW f \in files, NEW c \in Reported, f = Bundle!Report(c[1], c[2])
        PROVE  disk[f.path] = [of |-> bundles, map |-> f.map, tile |-> f.tile, whole |-> TRUE]
    BY <2>1, <2>3 DEF DiskInv, Bundle!Content, Bundle!Report, PathOf
  <2> QED BY <2>1, <2>2, <2>3 DEF FilesInv, Bundle!ReportTrue
<1> QED BY <1>1, <1>2

LEMMA InitBundle == ASSUME Bundle!BundleAssumption, Bundle!Init PROVE BundleInv
<1>1. MaxTiles \in Nat \ {0} /\ MaxBundles \in Nat /\ Bundle!Absent \in FileContent
  BY DEF Bundle!BundleAssumption, Bundle!Absent, FileContent
<1>2. ParamInv
  <2>1. tiles \in 1 .. MaxTiles /\ bundles \in 0 .. MaxBundles
    BY <1>1 DEF Bundle!Init
  <2>2. before \in [Bundle!Path -> FileContent]
    BY <1>1 DEF Bundle!Init
  <2> QED BY <2>1, <2>2 DEF ParamInv, Bundle!Init
<1>3. SerialInv
  BY DEF SerialInv, Bundle!Init, Bundle!Absent
<1>4. Bundle!TypeOK
  <2>1. disk \in [Bundle!Path -> FileContent]
    BY <1>1 DEF Bundle!Init
  <2>2. entry \in 0 .. Bundle!Maps + 1 /\ tile \in 0 .. Bundle!BakedTiles
    BY <1>1, <1>2, Shapes DEF Bundle!Init, Shaped
  <2> QED BY <1>1, <2>1, <2>2 DEF Bundle!TypeOK, Bundle!Init, FileContent
<1>5. BundleIsTrue
  BY DEF BundleIsTrue, Bundle!Init, Bundle!ReportTrue, Bundle!NoCutMapWhenBounded,
     Bundle!RefusedLeavesNothing, Bundle!OthersUntouched, Bundle!OkIsComplete
<1> QED BY <1>2, <1>3, <1>4, <1>5 DEF BundleInv, Bundle!Init

-----------------------------------------------------------------------------
(* The steps *)

\* What a step within a bundle leaves alone.
LEMMA StaysIs ==
    ASSUME Bundle!Stays
    PROVE  /\ Bundle!Maps' = Bundle!Maps /\ Bundle!BakedTiles' = Bundle!BakedTiles
                  /\ Cells' = Cells /\ bundles' = bundles
           /\ before' = before /\ bounded' = bounded /\ preset' = preset
           /\ Bundle!OneNameForAll' = Bundle!OneNameForAll
           /\ udim' = udim /\ tiles' = tiles
           /\ \A e, n : CellsBefore(e, n)' = CellsBefore(e, n)
           /\ \A c : PathOf(c)' = PathOf(c)
           /\ \A m, t : Bundle!MapPath(m, t)' = Bundle!MapPath(m, t)
                  /\ Bundle!Report(m, t)' = Bundle!Report(m, t)
           /\ \A m, t, w : Bundle!Content(m, t, w)' = Bundle!Content(m, t, w)
           /\ \A p : Found(p)' = Found(p)
BY DEF Bundle!Stays, Bundle!paramVars, Bundle!Maps, Bundle!BakedTiles, Cells, Bundle!OneNameForAll,
   CellsBefore, PathOf, Bundle!MapPath, Bundle!Report, Bundle!Content, Found

LEMMA Serials ==
    ASSUME Bundle!BundleAssumption, BundleInv, Bundle!Stays, step # "idle",
           disk' \in [Bundle!Path -> FileContent], \A p \in Bundle!Path : disk'[p].of <= bundles
    PROVE  SerialInv' /\ ParamInv' /\ bundles \in Nat \ {0}
<1>1. ParamInv'
  BY DEF BundleInv, ParamInv, Bundle!Stays, Bundle!paramVars
<1>2. bundles # 0 /\ bundles \in Nat
  BY Shapes DEF BundleInv, SerialInv, ParamInv, Shaped
<1>3. SerialInv'
  BY <1>2 DEF BundleInv, SerialInv, Bundle!Stays, Bundle!paramVars
<1> QED BY <1>1, <1>2, <1>3

LEMMA Contents ==
    ASSUME Bundle!BundleAssumption, BundleInv, NEW m \in Nat, NEW t \in 0 .. MaxTiles,
           NEW w \in BOOLEAN
    PROVE  Bundle!Content(m, t, w) \in FileContent /\ Bundle!Content(m, t, w).of = bundles
        /\ Bundle!Content(m, t, w).whole = w
BY DEF BundleInv, ParamInv, Bundle!Content, FileContent

\* One file is written.
LEMMA Writing ==
    ASSUME Bundle!BundleAssumption, BundleInv, Bundle!Stays, step # "idle", NEW p \in Bundle!Path,
           NEW m \in Nat, NEW t \in 0 .. MaxTiles, NEW w \in BOOLEAN, Bundle!OnDisk(p, Bundle!Content(m, t, w))
    PROVE  /\ disk' \in [Bundle!Path -> FileContent] /\ disk'[p] = Bundle!Content(m, t, w)
           /\ \A q \in Bundle!Path : q # p => disk'[q] = disk[q]
           /\ SerialInv' /\ ParamInv' /\ bundles \in Nat \ {0}
<1>1. disk \in [Bundle!Path -> FileContent]
  BY DEF BundleInv, Bundle!TypeOK, FileContent
<1>2. Bundle!Content(m, t, w) \in FileContent /\ Bundle!Content(m, t, w).of = bundles
  BY Contents
<1>3. disk' = [disk EXCEPT ![p] = Bundle!Content(m, t, w)]
  BY DEF Bundle!OnDisk
<1> HIDE DEF FileContent, Bundle!Content
<1>4. /\ disk' \in [Bundle!Path -> FileContent] /\ disk'[p] = Bundle!Content(m, t, w)
      /\ \A q \in Bundle!Path : q # p => disk'[q] = disk[q]
  BY <1>1, <1>2, <1>3
<1>5. \A q \in Bundle!Path : disk'[q].of <= bundles
  <2>1. bundles <= bundles
    BY DEF BundleInv, ParamInv
  <2> QED BY <1>2, <1>4, <2>1 DEF BundleInv, SerialInv
<1> QED BY <1>4, <1>5, Serials

LEMMA NothingWritten ==
    ASSUME Bundle!BundleAssumption, BundleInv, Bundle!Stays, step # "idle", UNCHANGED disk
    PROVE  disk' \in [Bundle!Path -> FileContent] /\ SerialInv' /\ ParamInv'
        /\ bundles \in Nat \ {0}
<1>1. disk' \in [Bundle!Path -> FileContent] /\ \A q \in Bundle!Path : disk'[q].of <= bundles
  BY DEF BundleInv, Bundle!TypeOK, FileContent, SerialInv
<1> QED BY <1>1, Serials

\* A bundle that goes on.
LEMMA BundleGoesOn ==
    ASSUME Bundle!BundleAssumption, step' # "idle", UnderWay', SerialInv', ParamInv',
           Bundle!TypeOK'
    PROVE  BundleInv'
<1>1. (Bundle!BundleAssumption /\ Shaped /\ step # "idle" /\ bundleOutcome = "none" /\ UnderWay
           => BundleIsTrue)'
  BY RunningIsTrue, PTL
<1>2. Shaped'
  <2>1. (ParamInv => Shaped)'
    BY Shapes, PTL
  <2> QED BY <2>1
<1> QED BY <1>1, <1>2 DEF BundleInv, UnderWay

LEMMA BeginKeeps == ASSUME Bundle!BundleAssumption, BundleInv, Bundle!Begin PROVE BundleInv'
<1>1. MaxTiles \in Nat \ {0} /\ MaxBundles \in Nat
  BY Shapes DEF BundleInv, Shaped
<1>2. /\ disk \in [Bundle!Path -> FileContent] /\ disk' = disk /\ before' = disk
      /\ bundles \in Nat /\ bundles' = bundles + 1
  BY <1>1 DEF BundleInv, ParamInv, Bundle!TypeOK, FileContent, Bundle!Begin
<1>3. ParamInv'
  <2>1. tiles' \in 1 .. MaxTiles /\ bundles' \in 0 .. MaxBundles
    BY <1>1, <1>2 DEF Bundle!Begin
  <2> QED BY <1>2, <2>1 DEF ParamInv, Bundle!Begin
<1>4. SerialInv'
  <2>1. \A p \in Bundle!Path : disk[p].of \in Nat /\ disk[p].of <= bundles
    BY <1>2 DEF BundleInv, SerialInv, FileContent
  <2> QED BY <1>1, <1>2, <2>1 DEF SerialInv
<1>5. /\ Bundle!Maps' \in Nat /\ Bundle!BakedTiles' \in 1 .. MaxTiles
  <2>1. (ParamInv => Shaped)'
    BY Shapes, PTL
  <2> QED BY <1>3, <2>1 DEF Shaped
<1>6. Bundle!TypeOK'
  <2>1. /\ entry' \in 0 .. Bundle!Maps' + 1 /\ tile' \in 0 .. Bundle!BakedTiles'
        /\ opened' \in 0 .. MaxTiles /\ written' \subseteq Bundle!Path
    <3>1. entry' = 1 /\ tile' = 1 /\ opened' = 0 /\ written' = {}
      BY DEF Bundle!Begin
    <3>2. \A m \in Nat : 1 \in 0 .. m + 1
      OBVIOUS
    <3>3. 1 \in 0 .. Bundle!Maps' + 1
      BY <1>5, <3>2
    <3>4. 1 \in 0 .. Bundle!BakedTiles' /\ 0 \in 0 .. MaxTiles
      BY <1>1, <1>5
    <3> QED BY <3>1, <3>3, <3>4
  <2> QED BY <1>2, <2>1 DEF Bundle!TypeOK, FileContent, Bundle!Begin
<1>7. UnderWay' /\ step' # "idle"
  BY DEF UnderWay, Bundle!Begin
<1> QED BY <1>3, <1>4, <1>6, <1>7, BundleGoesOn

\* A bundle that ends before it has written anything.
LEMMA EndsAtOnceKeeps == ASSUME Bundle!BundleAssumption, BundleInv, Bundle!CannotStart
    \/ Bundle!RefusedBeforeWriting PROVE BundleInv'
<1>1. /\ step = "mesh" /\ Bundle!Stays /\ UNCHANGED <<disk, entry, tile, written, opened, files>>
      /\ step' = "idle" /\ bundleOutcome' \in {"refused", "cancelled"}
  BY DEF Bundle!CannotStart, Bundle!RefusedBeforeWriting, Bundle!Ends
<1>2. disk' \in [Bundle!Path -> FileContent] /\ SerialInv' /\ ParamInv' /\ bundles \in Nat \ {0}
  BY <1>1, NothingWritten
<1>3. disk = before /\ files = {} /\ written' = {}
  BY <1>1 DEF BundleInv, UnderWay
<1>4. Bundle!TypeOK'
  BY <1>1, <1>2, StaysIs DEF BundleInv, Bundle!TypeOK, FileContent
<1>5. before' = before /\ bundles' = bundles /\ \A p \in Bundle!Path : disk'[p].of < bundles
  BY <1>1, <1>2, <1>3 DEF BundleInv, SerialInv, Bundle!Stays
<1>6. BundleIsTrue'
  <2>1. Bundle!NoCutMapWhenBounded'
    <3>1. \A p \in Bundle!Path : disk'[p].of # bundles'
      <4>1. SUFFICES ASSUME NEW p \in Bundle!Path PROVE disk'[p].of # bundles'
        OBVIOUS
      <4>2. disk'[p].of \in Int /\ disk'[p].of < bundles
        BY <1>2, <1>5 DEF FileContent
      <4> QED BY <1>2, <1>5, <4>2
    <3> QED BY <1>3, <3>1 DEF Bundle!NoCutMapWhenBounded
  <2>2. Bundle!OthersUntouched'
    BY <1>1, <1>3, <1>5 DEF Bundle!OthersUntouched
  <2> QED BY <1>1, <1>3, <1>5, <2>1, <2>2 DEF BundleIsTrue, Bundle!ReportTrue,
             Bundle!RefusedLeavesNothing, Bundle!OkIsComplete
<1> QED BY <1>1, <1>2, <1>4, <1>6 DEF BundleInv

LEMMA ExportMeshKeeps == ASSUME Bundle!BundleAssumption, BundleInv, Bundle!ExportMesh PROVE BundleInv'
<1>1. /\ step = "mesh" /\ ~Bundle!OneNameForAll
      /\ Bundle!OnDisk(MeshPath, Bundle!Content(0, 0, TRUE)) /\ Bundle!Stays
      /\ files' = {[path |-> MeshPath, map |-> 0, tile |-> 0]} /\ step' = "map"
      /\ UNCHANGED <<entry, tile, written, opened, bundleOutcome>>
  BY DEF Bundle!ExportMesh
<1>2. Bundle!Maps \in Nat /\ Bundle!BakedTiles \in 1 .. MaxTiles /\ MaxTiles \in Nat \ {0}
  BY Shapes DEF BundleInv, Shaped
<1>3. MeshPath \in Bundle!Path
  BY DEF Bundle!BundleAssumption
<1>4. /\ disk' \in [Bundle!Path -> FileContent]
      /\ disk'[MeshPath] = Bundle!Content(0, 0, TRUE)
      /\ \A q \in Bundle!Path : q # MeshPath => disk'[q] = disk[q]
      /\ SerialInv' /\ ParamInv' /\ bundles \in Nat \ {0}
  <2>1. 0 \in Nat /\ 0 \in 0 .. MaxTiles
    BY <1>2
  <2>2. TRUE \in BOOLEAN /\ step # "idle"
    BY <1>1
  <2> QED BY <1>1, <1>3, <2>1, <2>2, Writing
<1>5. written = {} /\ disk = before /\ entry = 1 /\ tile = 1 /\ bundleOutcome = "none"
  BY <1>1 DEF BundleInv, UnderWay
<1>6. Reported' = {} /\ Taken' = {} /\ Streamed' = {}
  <2>1. CellsBefore(1, 1) = {}
    BY <1>2, CellsAre
  <2> QED BY <1>1, <1>5, <2>1, StaysIs DEF Reported, Taken, Streamed
<1>7. Bundle!TypeOK'
  BY <1>1, <1>2, <1>4, <1>5, StaysIs DEF BundleInv, Bundle!TypeOK, FileContent
<1>8. PlaceInv'
  BY <1>1, <1>2, <1>5, StaysIs DEF BundleInv, Bundle!TypeOK, PlaceInv
<1>9. FilesInv'
  BY <1>1, <1>5, <1>6 DEF FilesInv
<1>10. DiskInv'
  <2>1. \A p \in Bundle!Path : disk'[p] = Found(p)
    BY <1>4, <1>5 DEF Found
  <2>2. (\A p \in Bundle!Path : disk[p] = Found(p))'
    BY <1>1, <2>1, StaysIs
  <2>3. Finished' = {}
    BY <1>1 DEF Finished
  <2> QED BY <1>6, <2>2, <2>3 DEF DiskInv
<1>11. UnderWay'
  BY <1>1, <1>5, <1>8, <1>9, <1>10 DEF UnderWay
<1> QED BY <1>1, <1>4, <1>7, <1>11, BundleGoesOn

LEMMA ExportMeshFailsKeeps == ASSUME Bundle!BundleAssumption, BundleInv, Bundle!ExportMeshFails PROVE BundleInv'
<1>1. /\ step = "mesh" /\ Bundle!Stays
             /\ (disk' = disk \/ Bundle!OnDisk(MeshPath, Bundle!Content(0, 0, FALSE)))
      /\ step' = "idle" /\ bundleOutcome' = "error"
      /\ UNCHANGED <<entry, tile, written, opened, files>>
  BY DEF Bundle!ExportMeshFails, Bundle!Ends
<1>2. MaxTiles \in Nat \ {0} /\ MeshPath \in Bundle!Path
  BY Shapes DEF BundleInv, Bundle!BundleAssumption, Shaped
<1>3. /\ disk' \in [Bundle!Path -> FileContent] /\ SerialInv' /\ ParamInv' /\ bundles \in Nat \ {0}
      /\ \A q \in Bundle!Path : q # MeshPath => disk'[q] = disk[q]
  <2>1. CASE disk' = disk
    BY <1>1, <2>1, NothingWritten
  <2>2. CASE Bundle!OnDisk(MeshPath, Bundle!Content(0, 0, FALSE))
    <3>1. 0 \in Nat /\ 0 \in 0 .. MaxTiles
      BY <1>2
    <3>2. FALSE \in BOOLEAN /\ step # "idle"
      BY <1>1
    <3> QED BY <1>1, <1>2, <2>2, <3>1, <3>2, Writing
  <2> QED BY <1>1, <2>1, <2>2
<1>4. disk = before /\ files = {} /\ written = {}
  BY <1>1 DEF BundleInv, UnderWay
<1>5. Bundle!TypeOK'
  BY <1>1, <1>3, StaysIs DEF BundleInv, Bundle!TypeOK, FileContent
<1>6. before' = before /\ bundles' = bundles
  BY <1>1 DEF Bundle!Stays
<1>7. \A p \in Bundle!Path : before[p].of \in Int /\ before[p].of # bundles
  <2>1. \A p \in Bundle!Path : before[p].of \in Int /\ before[p].of < bundles
    BY <1>3 DEF BundleInv, SerialInv, ParamInv, FileContent
  <2> QED BY <1>3, <2>1
<1>8. BundleIsTrue'
  <2>1. Bundle!NoCutMapWhenBounded'
    BY <1>1, <1>3, <1>4, <1>6, <1>7 DEF Bundle!NoCutMapWhenBounded
  <2>2. Bundle!OthersUntouched'
    BY <1>1, <1>3, <1>4, <1>6 DEF Bundle!OthersUntouched
  <2> QED BY <1>1, <1>4, <1>6, <2>1, <2>2 DEF BundleIsTrue, Bundle!ReportTrue,
             Bundle!RefusedLeavesNothing, Bundle!OkIsComplete
<1> QED BY <1>1, <1>3, <1>5, <1>8 DEF BundleInv

\* What is known of a bundle that has written its mesh.
LEMMA AtWork ==
    ASSUME Bundle!BundleAssumption, BundleInv, step \notin {"idle", "mesh"}
    PROVE  /\ bundleOutcome = "none" /\ PlaceInv /\ FilesInv /\ DiskInv /\ Shaped
           /\ Bundle!Maps \in Nat /\ Bundle!BakedTiles \in Nat \ {0}
           /\ Bundle!BakedTiles <= MaxTiles /\ MaxTiles \in Nat
           /\ bundles \in Nat \ {0} /\ disk \in [Bundle!Path -> FileContent]
           /\ \A p \in Bundle!Path : before[p].of # bundles
           /\ written \subseteq Bundle!Path
<1>1. UnderWay /\ ParamInv /\ SerialInv
  BY DEF BundleInv
<1>2. /\ Shaped /\ Bundle!Maps \in Nat /\ Bundle!BakedTiles \in Nat \ {0}
      /\ Bundle!BakedTiles <= MaxTiles /\ MaxTiles \in Nat
  BY <1>1, Shapes DEF Shaped
<1>3. bundles \in Nat \ {0}
  BY <1>1, <1>2 DEF SerialInv, ParamInv, Shaped
<1>4. \A p \in Bundle!Path : before[p].of # bundles
  <2>1. \A p \in Bundle!Path : before[p].of \in Int /\ before[p].of < bundles
    BY <1>1, <1>3 DEF SerialInv, ParamInv, FileContent
  <2> QED BY <1>3, <2>1
<1> QED BY <1>1, <1>2, <1>3, <1>4 DEF UnderWay, BundleInv, Bundle!TypeOK, FileContent

LEMMA CellIs ==
    ASSUME NEW c \in Cells
    PROVE  c[1] \in 1 .. Bundle!Maps /\ c[2] \in 1 .. Bundle!BakedTiles /\ c = <<c[1], c[2]>>
BY DEF Cells

\* A bundle that stops after it has written its mesh: what it leaves begun is of the
\* map it was at, at paths it had taken, and if it is bounded, nothing.
LEMMA Stopping ==
    ASSUME Bundle!BundleAssumption, BundleInv, step \notin {"idle", "mesh"}, Bundle!Stays,
           step' = "idle",
           bundleOutcome' \in {"cancelled", "error", "ok"}, UNCHANGED <<files, entry, tile>>,
           written' \subseteq Bundle!Path, written \subseteq written', opened' \in 0 .. MaxTiles,
           disk' \in [Bundle!Path -> FileContent], SerialInv', ParamInv',
           NEW begun, Streamed \subseteq begun, begun \subseteq written',
           \A p \in Bundle!Path : p \notin begun => disk'[p] = disk[p],
           \A c \in Reported : PathOf(c) \notin begun /\ PathOf(c) \in Bundle!Path,
           bounded => \A p \in begun : disk'[p].of # bundles,
           \A p \in begun : \E t \in 1 .. (IF bounded THEN opened' ELSE tile) :
               p = Bundle!MapPath(entry, t),
           bundleOutcome' = "ok" => begun = {} /\ Bundle!OkIsComplete'
    PROVE  BundleInv'
<1>1. /\ FilesInv /\ DiskInv /\ PlaceInv /\ Shaped
      /\ \A p \in Bundle!Path : before[p].of # bundles
  BY AtWork
<1>2. before' = before /\ bundles' = bundles /\ bounded' = bounded
  BY StaysIs
<1>3. Bundle!TypeOK'
  BY StaysIs DEF BundleInv, Bundle!TypeOK, FileContent
<1>4. \A c \in Reported : disk'[PathOf(c)] = Bundle!Content(c[1], c[2], TRUE)
  BY <1>1 DEF DiskInv
<1>5. ASSUME NEW p \in Bundle!Path, p \notin begun
      PROVE  \/ disk'[p] = Found(p)
             \/ \E c \in Reported : p = PathOf(c) /\ Bundle!Report(c[1], c[2]) \in files
  BY <1>1, <1>5 DEF DiskInv, FilesInv
<1>6. Bundle!ReportTrue'
  <2>1. MeshPath \in Bundle!Path
    BY DEF Bundle!BundleAssumption
  <2>2. disk'[MeshPath] = Found(MeshPath) \/ MeshPath \in written'
    <3>1. \A c \in Reported : PathOf(c) \in written'
      BY <1>1, InWritten
    <3> QED BY <1>5, <2>1, <3>1
  <2>3. ASSUME NEW f \in files, f = [path |-> MeshPath, map |-> 0, tile |-> 0]
        PROVE  \/ disk'[f.path] = [of |-> bundles, map |-> f.map, tile |-> f.tile, whole |-> TRUE]
               \/ f.map = 0 /\ MeshPath \in written'
    BY <2>2, <2>3 DEF Found, Bundle!Content
  <2>4. ASSUME NEW f \in files, NEW c \in Reported, f = Bundle!Report(c[1], c[2])
        PROVE  disk'[f.path] = [of |-> bundles, map |-> f.map, tile |-> f.tile, whole |-> TRUE]
    BY <1>4, <2>4 DEF Bundle!Content, Bundle!Report, PathOf
  <2> QED BY <1>1, <1>2, <2>3, <2>4 DEF FilesInv, Bundle!ReportTrue
<1>7. Bundle!NoCutMapWhenBounded'
  <2>1. SUFFICES ASSUME bounded, NEW p \in Bundle!Path, disk'[p].of = bundles
                 PROVE disk'[p].whole
    BY <1>2 DEF Bundle!NoCutMapWhenBounded
  <2>2. disk'[p] = Found(p) \/ \E c \in Reported : p = PathOf(c)
    BY <1>5, <2>1
  <2>3. CASE disk'[p] = Found(p)
    <3>1. p = MeshPath
      BY <1>1, <2>1, <2>3 DEF Found
    <3> QED BY <2>3, <3>1 DEF Found, Bundle!Content
  <2>4. ASSUME NEW c \in Reported, p = PathOf(c) PROVE disk'[p].whole
    <3>1. disk'[p] = Bundle!Content(c[1], c[2], TRUE)
      BY <1>4, <2>4
    <3> QED BY <3>1 DEF Bundle!Content
  <2> QED BY <2>2, <2>3, <2>4
<1>8. Bundle!OthersUntouched'
  <2>1. SUFFICES ASSUME NEW p \in Bundle!Path \ {f.path : f \in files}, disk'[p] # before[p],
                        p # MeshPath
        PROVE  bundleOutcome' # "ok" /\ \E t \in 1 .. (IF bounded THEN opened' ELSE tile) :
            p = Bundle!MapPath(entry, t)
    BY StaysIs DEF Bundle!OthersUntouched
  <2>2. \A c \in Reported : Bundle!Report(c[1], c[2]).path = PathOf(c)
    BY DEF Bundle!Report, PathOf
  <2>3. Found(p) = before[p]
    BY <2>1 DEF Found
  <2>4. p \in begun
    BY <1>5, <2>1, <2>2, <2>3
  <2> QED BY <2>4
<1>9. BundleIsTrue'
  BY <1>6, <1>7, <1>8 DEF BundleIsTrue, Bundle!RefusedLeavesNothing, Bundle!OkIsComplete
<1> QED BY <1>3, <1>9 DEF BundleInv

\* The same, of one that has begun nothing it does not report.
LEMMA StoppingBetween ==
    ASSUME Bundle!BundleAssumption, BundleInv, step \notin {"idle", "mesh"}, Bundle!Stays,
           step' = "idle",
           bundleOutcome' \in {"cancelled", "error"},
           UNCHANGED <<disk, files, entry, tile, written>>, opened' \in 0 .. MaxTiles,
           disk' \in [Bundle!Path -> FileContent], SerialInv', ParamInv', Streamed = {},
           \A c \in Reported : PathOf(c) \in Bundle!Path
    PROVE  BundleInv'
<1> DEFINE begun == {}
<1>1. Streamed \subseteq begun /\ begun \subseteq written' /\ written \subseteq written'
          /\ (bundleOutcome' = "ok" => begun = {} /\ Bundle!OkIsComplete')
  OBVIOUS
<1>2. \A p \in Bundle!Path : p \notin begun => disk'[p] = disk[p]
  OBVIOUS
<1>3. \A c \in Reported : PathOf(c) \notin begun /\ PathOf(c) \in Bundle!Path
  OBVIOUS
<1>4. /\ bounded => \A p \in begun : disk'[p].of # bundles
      /\ \A p \in begun : \E t \in 1 .. (IF bounded THEN opened' ELSE tile) :
             p = Bundle!MapPath(entry, t)
  OBVIOUS
<1> HIDE DEF begun
<1>5. bundleOutcome' \in {"cancelled", "error", "ok"} /\ written' \subseteq Bundle!Path
  BY AtWork
<1> QED BY <1>1, <1>2, <1>3, <1>4, <1>5, Stopping

\* The paths of what is reported are of the directory, and taken.
LEMMA ReportedPaths ==
    ASSUME Bundle!BundleAssumption, BundleInv, step \notin {"idle", "mesh"}
    PROVE  /\ Reported \subseteq Taken /\ Taken \subseteq Cells
           /\ \A c \in Taken : PathOf(c) \in Bundle!Path
<1>1. /\ PlaceInv /\ FilesInv /\ Shaped /\ Bundle!Maps \in Nat /\ Bundle!BakedTiles \in Nat \ {0}
      /\ Bundle!BakedTiles <= MaxTiles /\ MaxTiles \in Nat
  BY AtWork
<1>2. Reported \subseteq Taken /\ Taken \subseteq Cells
  BY <1>1, InWritten
<1>3. SUFFICES ASSUME NEW c \in Taken PROVE PathOf(c) \in Bundle!Path
  BY <1>2
<1>4. c[2] \in 0 .. MaxTiles /\ preset.names[c[1]] \in Suffix
  BY <1>1, <1>2, CellIs DEF FilesInv
<1> QED BY <1>1, <1>4, Inside DEF PathOf, Shaped

LEMMA MapStopsKeeps == ASSUME Bundle!BundleAssumption, BundleInv, Bundle!MapStops PROVE BundleInv'
<1>1. /\ step \in {"map", "bake"} /\ Bundle!Stays /\ step' = "idle"
      /\ bundleOutcome' \in {"cancelled", "error"}
      /\ UNCHANGED <<disk, entry, tile, written, opened, files>>
  BY DEF Bundle!MapStops, Bundle!Ends
<1>2. disk' \in [Bundle!Path -> FileContent] /\ SerialInv' /\ ParamInv'
  BY <1>1, NothingWritten
<1>3. Streamed = {} /\ written' \subseteq Bundle!Path /\ opened' \in 0 .. MaxTiles
  BY <1>1 DEF Streamed, BundleInv, Bundle!TypeOK
<1>4. \A c \in Reported : PathOf(c) \in Bundle!Path
  BY <1>1, ReportedPaths
<1> QED BY <1>1, <1>2, <1>3, <1>4, StoppingBetween

LEMMA WriteMapFailsKeeps == ASSUME Bundle!BundleAssumption, BundleInv, Bundle!WriteMapFails PROVE BundleInv'
<1> DEFINE path == Bundle!MapPath(entry, tile)
<1>1. /\ step = "write" /\ Bundle!Stays /\ step' = "idle" /\ bundleOutcome' = "error"
      /\ UNCHANGED <<entry, tile, opened, files>>
  BY DEF Bundle!WriteMapFails, Bundle!Ends
<1>2. /\ PlaceInv /\ FilesInv /\ Shaped /\ Bundle!Maps \in Nat
      /\ Bundle!BakedTiles <= MaxTiles /\ MaxTiles \in Nat /\ Bundle!BakedTiles \in Nat
  BY <1>1, AtWork
<1>3. /\ entry \in 1 .. Bundle!Maps /\ tile \in 1 .. Bundle!BakedTiles /\ ~bounded
      /\ tile \in 0 .. MaxTiles
      /\ entry \in Nat /\ opened' \in 0 .. MaxTiles
  BY <1>1, <1>2 DEF PlaceInv
<1>4. /\ Streamed = {} /\ written \subseteq Bundle!Path
      /\ \A c \in Reported : PathOf(c) \in written /\ PathOf(c) \in Bundle!Path
  BY <1>1, <1>2, ReportedPaths DEF Streamed, FilesInv, BundleInv, Bundle!TypeOK
<1>5. CASE Bundle!Unusable(entry, tile)
  <2>1. UNCHANGED <<disk, written>>
    BY <1>5 DEF Bundle!WriteMapFails
  <2>2. disk' \in [Bundle!Path -> FileContent] /\ SerialInv' /\ ParamInv'
    BY <1>1, <2>1, NothingWritten
  <2> QED BY <1>1, <1>3, <1>4, <2>1, <2>2, StoppingBetween
<1>6. CASE ~Bundle!Unusable(entry, tile)
  <2>1. /\ path \notin written /\ written' = written \cup {path}
        /\ disk' = disk \/ Bundle!OnDisk(path, Bundle!Content(entry, tile, FALSE))
    BY <1>6 DEF Bundle!WriteMapFails, Bundle!Unusable
  <2>2. path \in Bundle!Path
    <3>1. preset.names[entry] \in Suffix
      BY <1>2, <1>3, <1>6 DEF Bundle!Unusable, Shaped
    <3> QED BY <1>2, <1>3, <3>1, Inside DEF Shaped
  <2>3. /\ disk' \in [Bundle!Path -> FileContent] /\ SerialInv' /\ ParamInv'
        /\ \A q \in Bundle!Path : q # path => disk'[q] = disk[q]
    <3>1. CASE disk' = disk
      BY <1>1, <3>1, NothingWritten
    <3>2. CASE Bundle!OnDisk(path, Bundle!Content(entry, tile, FALSE))
      <4>1. FALSE \in BOOLEAN
        OBVIOUS
      <4> QED BY <1>1, <1>3, <2>2, <3>2, <4>1, Writing
    <3> QED BY <2>1, <3>1, <3>2
  <2>4. written' \subseteq Bundle!Path /\ \A p \in {path} :
            \E t \in 1 .. (IF bounded THEN opened' ELSE tile) : p = Bundle!MapPath(entry, t)
    BY <1>3, <1>4, <2>1, <2>2
  <2>5. \A c \in Reported : PathOf(c) \notin {path} /\ PathOf(c) \in Bundle!Path
    BY <1>4, <2>1
  <2> HIDE DEF path
  <2>6. /\ Streamed \subseteq {path} /\ {path} \subseteq written' /\ written \subseteq written'
        /\ \A p \in Bundle!Path : p \notin {path} => disk'[p] = disk[p]
    BY <1>4, <2>1, <2>3
  <2> QED BY <1>1, <1>3, <2>3, <2>4, <2>5, <2>6, Stopping
<1> QED BY <1>5, <1>6

\* A step within a map.
LEMMA Onwards ==
    ASSUME Bundle!BundleAssumption, BundleInv, Bundle!Stays, SerialInv', ParamInv',
           disk' \in [Bundle!Path -> FileContent],
           UNCHANGED bundleOutcome, step \notin {"idle", "mesh"},
           step' \in {"map", "bake", "write", "paths", "stream"}, written' \subseteq Bundle!Path,
           PlaceInv', FilesInv', DiskInv'
    PROVE  BundleInv'
<1>1. /\ Bundle!Maps \in Nat /\ Bundle!BakedTiles \in Nat /\ Bundle!Maps' = Bundle!Maps
      /\ Bundle!BakedTiles' = Bundle!BakedTiles /\ bundleOutcome = "none"
  BY AtWork, StaysIs
<1>2. entry' \in 0 .. Bundle!Maps' + 1 /\ tile' \in 0 .. Bundle!BakedTiles'
  BY <1>1 DEF PlaceInv
<1>3. Bundle!TypeOK'
  BY <1>1, <1>2 DEF Bundle!TypeOK, FileContent, BundleInv, PlaceInv
<1>4. UnderWay'
  BY <1>1 DEF UnderWay
<1> QED BY <1>3, <1>4, BundleGoesOn

LEMMA StartMapKeeps == ASSUME Bundle!BundleAssumption, BundleInv, Bundle!StartMap PROVE BundleInv'
<1>1. /\ Bundle!Stays /\ UNCHANGED <<disk, entry, written, files, bundleOutcome>>
      /\ step = "map" /\ entry <= Bundle!Maps /\ step' = (IF bounded THEN "paths" ELSE "bake")
      /\ tile' = 1 /\ opened' = 0
  BY DEF Bundle!StartMap
<1>2. /\ PlaceInv /\ FilesInv /\ DiskInv /\ Bundle!BakedTiles \in Nat \ {0}
      /\ MaxTiles \in Nat /\ written \subseteq Bundle!Path
  BY <1>1, AtWork
<1>3. Taken' = Taken /\ Reported' = Reported /\ Streamed' = Streamed /\ Finished' = Finished
  BY <1>1, StaysIs DEF Taken, Reported, Streamed, Finished
<1>4. PlaceInv'
  BY <1>1, <1>2, StaysIs DEF PlaceInv
<1>5. FilesInv'
  BY <1>1, <1>2, <1>3, StaysIs DEF FilesInv
<1>6. DiskInv'
  BY <1>1, <1>2, <1>3, StaysIs, ZenonT(60) DEF DiskInv, Finished
<1>7. disk' \in [Bundle!Path -> FileContent] /\ SerialInv' /\ ParamInv'
  BY <1>1, NothingWritten
<1> QED BY <1>1, <1>2, <1>4, <1>5, <1>6, <1>7, Onwards

LEMMA BakeWholeKeeps == ASSUME Bundle!BundleAssumption, BundleInv, Bundle!BakeWhole PROVE BundleInv'
<1>1. /\ Bundle!Stays /\ UNCHANGED <<disk, entry, tile, written, opened, files, bundleOutcome>>
      /\ step = "bake" /\ step' = "write"
  BY DEF Bundle!BakeWhole
<1>2. /\ PlaceInv /\ FilesInv /\ DiskInv /\ Bundle!BakedTiles \in Nat \ {0}
      /\ MaxTiles \in Nat /\ written \subseteq Bundle!Path
  BY <1>1, AtWork
<1>3. Taken' = Taken /\ Reported' = Reported /\ Streamed' = Streamed /\ Finished' = Finished
  BY <1>1, <1>2, StaysIs DEF Taken, Reported, Streamed, Finished, PlaceInv
<1>4. PlaceInv'
  BY <1>1, <1>2, StaysIs DEF PlaceInv
<1>5. FilesInv'
  BY <1>1, <1>2, <1>3, StaysIs DEF FilesInv
<1>6. DiskInv'
  BY <1>1, <1>2, <1>3, StaysIs, ZenonT(60) DEF DiskInv, Finished
<1>7. disk' \in [Bundle!Path -> FileContent] /\ SerialInv' /\ ParamInv'
  BY <1>1, NothingWritten
<1> QED BY <1>1, <1>2, <1>4, <1>5, <1>6, <1>7, Onwards

LEMMA AllWrittenKeeps == ASSUME Bundle!BundleAssumption, BundleInv, Bundle!AllWritten PROVE BundleInv'
<1>1. /\ step = "map" /\ entry > Bundle!Maps /\ Bundle!Stays /\ step' = "idle"
      /\ bundleOutcome' = "ok"
      /\ UNCHANGED <<disk, entry, tile, written, opened, files>>
  BY DEF Bundle!AllWritten, Bundle!Ends
<1>2. PlaceInv /\ FilesInv /\ Bundle!Maps \in Nat /\ Bundle!BakedTiles \in Nat \ {0}
  BY <1>1, AtWork
<1>3. disk' \in [Bundle!Path -> FileContent] /\ SerialInv' /\ ParamInv'
  BY <1>1, NothingWritten
<1>4. Streamed = {} /\ written' \subseteq Bundle!Path /\ opened' \in 0 .. MaxTiles
  BY <1>1 DEF Streamed, BundleInv, Bundle!TypeOK
<1>5. /\ Taken = Cells /\ Reported = Cells
      /\ \A c \in Taken : PathOf(c) \in Bundle!Path
  <2>1. entry = Bundle!Maps + 1
    BY <1>1, <1>2 DEF PlaceInv
  <2>2. CellsBefore(Bundle!Maps + 1, 1) = Cells
    BY <1>2, CellsAre
  <2> QED BY <1>1, <2>1, <2>2, ReportedPaths DEF Taken, Reported
<1> DEFINE mesh == [path |-> MeshPath, map |-> 0, tile |-> 0]
<1>6. Bundle!OkIsComplete'
  <2>1. files = {mesh} \cup {Bundle!Report(c[1], c[2]) : c \in Cells}
    BY <1>2, <1>5 DEF FilesInv
  <2>2. \A c \in Cells :
            <<Bundle!Report(c[1], c[2]).map, Bundle!Report(c[1], c[2]).tile>> = c
                /\ Bundle!Report(c[1], c[2]).path = PathOf(c)
    BY CellIs DEF Bundle!Report, PathOf
  <2>3. mesh.map = 0 /\ mesh.tile = 0 /\ mesh.path = MeshPath
    OBVIOUS
  <2> HIDE DEF mesh
  <2>4. {<<f.map, f.tile>> : f \in files} = {<<0, 0>>} \cup Cells
    <3>1. ASSUME NEW f \in files PROVE <<f.map, f.tile>> \in {<<0, 0>>} \cup Cells
      BY <2>1, <2>2, <2>3
    <3>2. ASSUME NEW c \in Cells PROVE \E f \in files : <<f.map, f.tile>> = c
      BY <2>1, <2>2
    <3>3. \E f \in files : <<f.map, f.tile>> = <<0, 0>>
      BY <2>1, <2>3
    <3> QED BY <3>1, <3>2, <3>3
  <2>5. ASSUME NEW f \in files, NEW g \in files, f.path = g.path, f # g
        PROVE  MeshPath \in written /\ 0 \in {f.map, g.map}
    <3>1. ASSUME NEW c \in Cells, f = Bundle!Report(c[1], c[2]), NEW d \in Cells,
                 g = Bundle!Report(d[1], d[2])
          PROVE  FALSE
      <4>1. PathOf(c) = PathOf(d)
        BY <2>2, <2>5, <3>1
      <4>2. c = d
        BY <1>2, <1>5, <4>1 DEF FilesInv
      <4> QED BY <2>5, <3>1, <4>2
    <3>2. ASSUME NEW c \in Cells PROVE Bundle!Report(c[1], c[2]).path \in written
      BY <1>2, <1>5, <2>2 DEF FilesInv
    <3>3. f = mesh \/ g = mesh
      BY <2>1, <3>1
    <3>4. \E c \in Cells : Bundle!Report(c[1], c[2]) \in {f, g}
      BY <2>1, <2>5
    <3>5. PICK c \in Cells : Bundle!Report(c[1], c[2]) \in {f, g}
      BY <3>4
    <3>6. f.path \in written
      BY <2>5, <3>2, <3>5
    <3> QED BY <2>3, <2>5, <3>3, <3>6
  <2>6. Cells = (1 .. Bundle!Maps) \X (1 .. IF udim THEN tiles ELSE 1)
    BY DEF Cells, Bundle!BakedTiles
  <2> QED BY <1>1, <2>4, <2>5, <2>6, StaysIs DEF Bundle!OkIsComplete
<1>7. /\ Streamed \subseteq {} /\ {} \subseteq written' /\ written \subseteq written'
      /\ \A p \in Bundle!Path : p \notin {} => disk'[p] = disk[p]
      /\ \A c \in Reported : PathOf(c) \notin {} /\ PathOf(c) \in Bundle!Path
      /\ bounded => \A p \in {} : disk'[p].of # bundles
      /\ \A p \in {} : \E t \in 1 .. (IF bounded THEN opened' ELSE tile) :
             p = Bundle!MapPath(entry, t)
  BY <1>1, <1>4, <1>5
<1> QED BY <1>1, <1>3, <1>4, <1>6, <1>7, Stopping

\* A path that was free is taken.
LEMMA OneMoreTaken ==
    ASSUME FilesInv, Bundle!Stays, NEW e, NEW t, Taken' = Taken \cup {<<e, t>>},
           written' = written \cup {Bundle!MapPath(e, t)}, Bundle!MapPath(e, t) \notin written,
           preset.names[e] \in Suffix
    PROVE  /\ written' = {PathOf(c) : c \in Taken}'
                  /\ (\A c \in Taken : preset.names[c[1]] \in Suffix)'
           /\ (\A c, d \in Taken : PathOf(c) = PathOf(d) => c = d)'
<1>1. PathOf(<<e, t>>) = Bundle!MapPath(e, t)
  BY DEF PathOf
<1>2. /\ written = {PathOf(c) : c \in Taken} /\ \A c \in Taken : preset.names[c[1]] \in Suffix
      /\ \A c, d \in Taken : PathOf(c) = PathOf(d) => c = d
  BY DEF FilesInv
<1>3. \A c \in Taken : PathOf(c) # Bundle!MapPath(e, t)
  BY <1>2
<1>4. preset' = preset /\ \A c : PathOf(c)' = PathOf(c)
  BY StaysIs
<1>5. written' = {PathOf(c) : c \in Taken}'
  BY <1>1, <1>2, <1>4
<1>6. (\A c \in Taken : preset.names[c[1]] \in Suffix)'
  BY <1>2, <1>4
<1>7. (\A c, d \in Taken : PathOf(c) = PathOf(d) => c = d)'
  BY <1>1, <1>2, <1>3, <1>4
<1> QED BY <1>5, <1>6, <1>7

LEMMA WriteMapKeeps == ASSUME Bundle!BundleAssumption, BundleInv, Bundle!WriteMap PROVE BundleInv'
<1> DEFINE path == Bundle!MapPath(entry, tile)
<1>1. /\ step = "write" /\ Bundle!Stays
      /\ Bundle!OnDisk(path, Bundle!Content(entry, tile, TRUE)) /\ Bundle!NextTile
      /\ path \notin written /\ written' = written \cup {path} /\ preset.names[entry] # Outside
      /\ files' = files \cup {Bundle!Report(entry, tile)} /\ UNCHANGED <<opened, bundleOutcome>>
  BY DEF Bundle!WriteMap, Bundle!Unusable
<1>2. /\ PlaceInv /\ FilesInv /\ DiskInv /\ Shaped /\ Bundle!Maps \in Nat
      /\ Bundle!BakedTiles \in Nat \ {0}
      /\ Bundle!BakedTiles <= MaxTiles /\ MaxTiles \in Nat /\ written \subseteq Bundle!Path
  BY <1>1, AtWork
<1>3. /\ entry \in 1 .. Bundle!Maps /\ tile \in 1 .. Bundle!BakedTiles
      /\ tile \in 0 .. MaxTiles /\ entry \in Nat
      /\ opened \in 0 .. MaxTiles /\ ~bounded
  BY <1>1, <1>2 DEF PlaceInv
<1>4. preset.names[entry] \in Suffix /\ path \in Bundle!Path
  BY <1>1, <1>2, <1>3, Inside DEF Shaped
<1>5. /\ disk' \in [Bundle!Path -> FileContent]
      /\ disk'[path] = Bundle!Content(entry, tile, TRUE)
      /\ \A q \in Bundle!Path : q # path => disk'[q] = disk[q]
      /\ SerialInv' /\ ParamInv'
  <2>1. TRUE \in BOOLEAN
    OBVIOUS
  <2> QED BY <1>1, <1>3, <1>4, <2>1, Writing
<1>6. /\ Taken' = Taken \cup {<<entry, tile>>} /\ Reported' = Reported \cup {<<entry, tile>>}
      /\ Streamed' = {} /\ Finished' = {}
  <2>1. Taken = CellsBefore(entry, tile) /\ Reported = CellsBefore(entry, tile)
    BY <1>1 DEF Taken, Reported
  <2>2. CellsBefore(entry, tile + 1) = CellsBefore(entry, tile) \cup {<<entry, tile>>}
    BY <1>2, <1>3, CellsGrow
  <2>3. CASE Bundle!LastTile(tile)
    <3>1. step' = "map" /\ entry' = entry + 1 /\ tile = Bundle!BakedTiles
      BY <1>1, <1>2, <1>3, <2>3 DEF Bundle!NextTile, Bundle!LastTile
    <3>2. CellsBefore(entry + 1, 1) = CellsBefore(entry, tile + 1)
      BY <1>2, <1>3, <3>1, CellsGrow
    <3> QED BY <2>1, <2>2, <3>1, <3>2, <1>1, StaysIs DEF Taken, Reported, Streamed, Finished
  <2>4. CASE ~Bundle!LastTile(tile)
    <3>1. step' = step /\ entry' = entry /\ tile' = tile + 1
      BY <1>1, <2>4 DEF Bundle!NextTile
    <3> QED BY <2>1, <2>2, <3>1, <1>1, StaysIs DEF Taken, Reported, Streamed, Finished
  <2> QED BY <2>3, <2>4
<1>7. PlaceInv' /\ step' \in {"map", "write"}
  <2>1. CASE Bundle!LastTile(tile)
    BY <1>1, <1>2, <1>3, <2>1, StaysIs DEF Bundle!NextTile, PlaceInv
  <2>2. CASE ~Bundle!LastTile(tile)
    BY <1>1, <1>2, <1>3, <2>2, StaysIs DEF Bundle!NextTile, PlaceInv, Bundle!LastTile
  <2> QED BY <2>1, <2>2
<1>8. FilesInv'
  <2>1. files' = {[path |-> MeshPath, map |-> 0, tile |-> 0]}
            \cup {Bundle!Report(c[1], c[2]) : c \in Reported'}
    <3> DEFINE x == <<entry, tile>>
    <3>1. Bundle!Report(x[1], x[2]) = Bundle!Report(entry, tile)
      OBVIOUS
    <3>2. Reported' = Reported \cup {x}
      BY <1>6
    <3> HIDE DEF x
    <3> QED BY <1>1, <1>2, <3>1, <3>2 DEF FilesInv
  <2>2. /\ written' = {PathOf(c) : c \in Taken}'
               /\ (\A c \in Taken : preset.names[c[1]] \in Suffix)'
        /\ (\A c, d \in Taken : PathOf(c) = PathOf(d) => c = d)'
    BY <1>1, <1>2, <1>4, <1>6, OneMoreTaken
  <2>3. \A c : Bundle!Report(c[1], c[2])' = Bundle!Report(c[1], c[2])
    BY <1>1, StaysIs
  <2> QED BY <2>1, <2>2, <2>3 DEF FilesInv
<1>9. DiskInv'
  <2>1. \A c \in Reported : PathOf(c) \in Bundle!Path /\ PathOf(c) # path
    BY <1>1, <1>2, ReportedPaths DEF FilesInv
  <2>2. \A c \in Reported' : disk'[PathOf(c)] = Bundle!Content(c[1], c[2], TRUE)
    <3> DEFINE x == <<entry, tile>>
    <3>1. x[1] = entry /\ x[2] = tile /\ PathOf(x) = path
      BY DEF PathOf
    <3>2. Reported' = Reported \cup {x}
      BY <1>6
    <3>3. disk'[PathOf(x)] = Bundle!Content(x[1], x[2], TRUE)
      BY <1>5, <3>1
    <3>4. ASSUME NEW c \in Reported PROVE disk'[PathOf(c)] = Bundle!Content(c[1], c[2], TRUE)
      BY <1>2, <1>5, <2>1 DEF DiskInv
    <3> HIDE DEF x
    <3> QED BY <3>2, <3>3, <3>4
  <2>3. PathOf(<<entry, tile>>) = path
    BY DEF PathOf
  <2>4. Streamed = {}
    BY <1>1 DEF Streamed
  <2>5. \A p \in Bundle!Path : disk'[p] = Found(p) \/ \E c \in Reported' : p = PathOf(c)
    BY <1>2, <1>5, <1>6, <2>3, <2>4 DEF DiskInv
  <2>6. (\A c \in Reported : disk[PathOf(c)] = Bundle!Content(c[1], c[2], TRUE))'
    BY <1>1, <2>2, StaysIs
  <2>7. (\A p \in Bundle!Path :
             disk[p] = Found(p) \/ p \in Streamed \/ \E c \in Reported : p = PathOf(c))'
    BY <1>1, <2>5, StaysIs
  <2> QED BY <1>6, <2>6, <2>7 DEF DiskInv
<1> QED BY <1>1, <1>2, <1>4, <1>5, <1>7, <1>8, <1>9, Onwards

LEMMA ResolvePathKeeps == ASSUME Bundle!BundleAssumption, BundleInv, Bundle!ResolvePath PROVE BundleInv'
<1> DEFINE path == Bundle!MapPath(entry, tile)
<1>1. step = "paths" /\ Bundle!Stays /\ UNCHANGED <<disk, entry, opened, files>>
  BY DEF Bundle!ResolvePath
<1>2. /\ PlaceInv /\ FilesInv /\ DiskInv /\ Shaped /\ Bundle!Maps \in Nat
      /\ Bundle!BakedTiles \in Nat \ {0}
      /\ Bundle!BakedTiles <= MaxTiles /\ MaxTiles \in Nat /\ written \subseteq Bundle!Path
  BY <1>1, AtWork
<1>3. /\ entry \in 1 .. Bundle!Maps /\ tile \in 1 .. Bundle!BakedTiles
      /\ tile \in 0 .. MaxTiles /\ entry \in Nat
      /\ opened = 0 /\ bounded
  BY <1>1, <1>2 DEF PlaceInv
<1>4. disk' \in [Bundle!Path -> FileContent] /\ SerialInv' /\ ParamInv'
  BY <1>1, NothingWritten
<1>5. CASE Bundle!Unusable(entry, tile)
  <2>1. step' = "idle" /\ bundleOutcome' = "error" /\ UNCHANGED <<tile, written>>
    BY <1>5 DEF Bundle!ResolvePath, Bundle!Ends
  <2>2. Streamed = {} /\ opened' \in 0 .. MaxTiles /\ \A c \in Reported : PathOf(c) \in Bundle!Path
    BY <1>1, <1>2, <1>3, ReportedPaths DEF Streamed
  <2> QED BY <1>1, <1>2, <1>4, <2>1, <2>2, StoppingBetween
<1>6. CASE ~Bundle!Unusable(entry, tile)
  <2>1. /\ path \notin written /\ preset.names[entry] # Outside /\ written' = written \cup {path}
        /\ UNCHANGED bundleOutcome
        /\ \/ tile < Bundle!BakedTiles /\ tile' = tile + 1 /\ step' = step
           \/ tile = Bundle!BakedTiles /\ tile' = 1 /\ step' = "stream"
    BY <1>2, <1>3, <1>6 DEF Bundle!ResolvePath, Bundle!Unusable
  <2>2. preset.names[entry] \in Suffix /\ path \in Bundle!Path
    BY <1>2, <1>3, <2>1, Inside DEF Shaped
  <2>3. /\ Taken' = Taken \cup {<<entry, tile>>} /\ Reported' = Reported /\ Streamed' = {}
        /\ Streamed = {} /\ Finished' = {}
    <3>1. CellsBefore(entry, tile + 1) = CellsBefore(entry, tile) \cup {<<entry, tile>>}
      BY <1>2, <1>3, CellsGrow
    <3>2. Taken = CellsBefore(entry, tile) /\ Reported = CellsBefore(entry, 1) /\ Streamed = {}
      BY <1>1 DEF Taken, Reported, Streamed
    <3>3. CASE tile < Bundle!BakedTiles /\ tile' = tile + 1 /\ step' = step
      BY <1>1, <3>1, <3>2, <3>3, StaysIs DEF Taken, Reported, Streamed, Finished
    <3>4. CASE tile = Bundle!BakedTiles /\ tile' = 1 /\ step' = "stream"
      <4>1. Streamed' = {} /\ Finished' = {}
        BY <1>1, <1>3, <3>4 DEF Streamed, Finished
      <4> QED BY <1>1, <3>1, <3>2, <3>4, <4>1, StaysIs DEF Taken, Reported
    <3> QED BY <2>1, <3>3, <3>4
  <2>4. PlaceInv' /\ step' \in {"paths", "stream"}
    BY <1>1, <1>2, <1>3, <2>1, StaysIs DEF PlaceInv
  <2>5. FilesInv'
    <3>1. files' = {[path |-> MeshPath, map |-> 0, tile |-> 0]}
              \cup {Bundle!Report(c[1], c[2]) : c \in Reported'}
      BY <1>1, <1>2, <2>3 DEF FilesInv
    <3>2. /\ written' = {PathOf(c) : c \in Taken}'
                 /\ (\A c \in Taken : preset.names[c[1]] \in Suffix)'
          /\ (\A c, d \in Taken : PathOf(c) = PathOf(d) => c = d)'
      BY <1>1, <1>2, <2>1, <2>2, <2>3, OneMoreTaken
    <3>3. \A c : Bundle!Report(c[1], c[2])' = Bundle!Report(c[1], c[2])
      BY <1>1, StaysIs
    <3> QED BY <3>1, <3>2, <3>3 DEF FilesInv
  <2>6. DiskInv'
    BY <1>1, <1>2, <2>3, StaysIs, ZenonT(60) DEF DiskInv
  <2>7. written' \subseteq Bundle!Path
    BY <1>2, <2>1, <2>2
  <2> QED BY <1>1, <1>4, <2>1, <2>4, <2>5, <2>6, <2>7, Onwards
<1> QED BY <1>5, <1>6

\* The files of a map that is streamed are none of those before.
LEMMA StreamIsNew ==
    ASSUME Bundle!BundleAssumption, BundleInv, step = "stream"
    PROVE  /\ Taken = CellsBefore(entry, Bundle!BakedTiles + 1) /\ Reported = CellsBefore(entry, 1)
           /\ Taken = Reported \cup {<<entry, t>> : t \in 1 .. Bundle!BakedTiles}
           /\ \A t \in 1 .. Bundle!BakedTiles :
                 /\ Bundle!MapPath(entry, t) \in Bundle!Path
                 /\ PathOf(<<entry, t>>) = Bundle!MapPath(entry, t)
                 /\ \A c \in Reported : PathOf(c) # Bundle!MapPath(entry, t)
                 /\ \A u \in 1 .. Bundle!BakedTiles :
                        Bundle!MapPath(entry, u) = Bundle!MapPath(entry, t) => u = t
<1>1. /\ PlaceInv /\ FilesInv /\ Bundle!Maps \in Nat /\ Bundle!BakedTiles \in Nat \ {0}
      /\ entry \in 1 .. Bundle!Maps
  BY AtWork DEF PlaceInv
<1>2. /\ Taken = CellsBefore(entry, Bundle!BakedTiles + 1) /\ Reported = CellsBefore(entry, 1)
      /\ CellsBefore(entry, Bundle!BakedTiles + 1) =
             CellsBefore(entry, 1) \cup {<<entry, n>> : n \in 1 .. Bundle!BakedTiles}
      /\ \A n \in 1 .. Bundle!BakedTiles : <<entry, n>> \notin CellsBefore(entry, 1)
  BY <1>1, CellsGrow DEF Taken, Reported
<1>3. \A t : PathOf(<<entry, t>>) = Bundle!MapPath(entry, t)
  BY DEF PathOf
<1>4. \A c, d \in Taken : PathOf(c) = PathOf(d) => c = d
  BY <1>1 DEF FilesInv
<1>5. \A c \in Taken : PathOf(c) \in Bundle!Path
  BY ReportedPaths
<1>6. ASSUME NEW t \in 1 .. Bundle!BakedTiles
      PROVE  /\ Bundle!MapPath(entry, t) \in Bundle!Path
             /\ \A c \in Reported : PathOf(c) # Bundle!MapPath(entry, t)
             /\ \A u \in 1 .. Bundle!BakedTiles :
                    Bundle!MapPath(entry, u) = Bundle!MapPath(entry, t) => u = t
  <2>1. <<entry, t>> \in Taken /\ <<entry, t>> \notin Reported
    BY <1>2
  <2>2. \A u \in 1 .. Bundle!BakedTiles : <<entry, u>> \in Taken
    BY <1>2
  <2>3. \A c \in Reported : PathOf(c) # Bundle!MapPath(entry, t)
    BY <1>2, <1>3, <1>4, <2>1
  <2>4. \A u \in 1 .. Bundle!BakedTiles : Bundle!MapPath(entry, u) = Bundle!MapPath(entry, t) =>
            <<entry, u>> = <<entry, t>>
    BY <1>3, <1>4, <2>1, <2>2
  <2> QED BY <1>3, <1>5, <2>1, <2>3, <2>4
<1> QED BY <1>2, <1>3, <1>6

\* What a step of the stream needs to be shown of.
LEMMA StreamPlace ==
    ASSUME Bundle!BundleAssumption, BundleInv, step = "stream"
    PROVE  /\ PlaceInv /\ FilesInv /\ DiskInv /\ Bundle!Maps \in Nat
                  /\ Bundle!BakedTiles \in Nat \ {0}
           /\ Bundle!BakedTiles <= MaxTiles /\ MaxTiles \in Nat /\ written \subseteq Bundle!Path
           /\ entry \in 1 .. Bundle!Maps /\ entry \in Nat
           /\ tile \in 1 .. Bundle!BakedTiles /\ tile \in 0 .. MaxTiles
           /\ opened \in {tile - 1, tile} /\ opened \in 0 .. MaxTiles /\ bounded
           /\ Streamed = {Bundle!MapPath(entry, t) : t \in 1 .. opened} /\ Finished = 1 .. tile - 1
           /\ bundles \in Nat \ {0}
BY AtWork DEF PlaceInv, Streamed, Finished

LEMMA OpenNextKeeps == ASSUME Bundle!BundleAssumption, BundleInv, Bundle!OpenNext PROVE BundleInv'
<1> DEFINE path == Bundle!MapPath(entry, tile)
<1>1. /\ step = "stream" /\ opened < tile /\ opened' = opened + 1 /\ Bundle!Stays
      /\ Bundle!OnDisk(path, Bundle!Content(entry, tile, FALSE))
      /\ UNCHANGED <<step, entry, tile, written, files, bundleOutcome>>
  BY DEF Bundle!OpenNext
<1>2. /\ PlaceInv /\ FilesInv /\ DiskInv /\ Bundle!Maps \in Nat /\ Bundle!BakedTiles \in Nat \ {0}
      /\ Bundle!BakedTiles <= MaxTiles /\ MaxTiles \in Nat /\ written \subseteq Bundle!Path
      /\ entry \in 1 .. Bundle!Maps /\ entry \in Nat /\ tile \in 1 .. Bundle!BakedTiles
      /\ tile \in 0 .. MaxTiles
      /\ opened \in {tile - 1, tile} /\ bounded
      /\ Streamed = {Bundle!MapPath(entry, t) : t \in 1 .. opened} /\ Finished = 1 .. tile - 1
  BY <1>1, StreamPlace
<1>3. /\ \A c \in Reported : PathOf(c) # path
      /\ path \in Bundle!Path
      /\ \A u \in 1 .. Bundle!BakedTiles : Bundle!MapPath(entry, u) = path => u = tile
  BY <1>1, <1>2, StreamIsNew
<1>4. /\ disk' \in [Bundle!Path -> FileContent] /\ \A q \in Bundle!Path : q # path =>
             disk'[q] = disk[q]
      /\ SerialInv' /\ ParamInv'
  <2>1. FALSE \in BOOLEAN
    OBVIOUS
  <2> QED BY <1>1, <1>2, <1>3, <2>1, Writing
<1>5. Taken' = Taken /\ Reported' = Reported /\ Finished' = Finished
  BY <1>1, StaysIs DEF Taken, Reported, Finished
<1>6. Streamed' = Streamed \cup {path}
  <2>1. /\ opened' = tile /\ opened = tile - 1
        /\ 1 .. tile = (1 .. tile - 1) \cup {tile}
    BY <1>1, <1>2
  <2>2. Streamed' = {Bundle!MapPath(entry, t) : t \in 1 .. tile}
    BY <1>1, <2>1, StaysIs DEF Streamed
  <2> QED BY <1>2, <2>1, <2>2
<1>7. PlaceInv'
  BY <1>1, <1>2, StaysIs DEF PlaceInv
<1>8. FilesInv'
  BY <1>1, <1>2, <1>5, StaysIs DEF FilesInv
<1>9. DiskInv'
  <2>1. \A c \in Reported : PathOf(c) \in Bundle!Path
    BY <1>1, ReportedPaths
  <2>2. (\A c \in Reported : disk[PathOf(c)] = Bundle!Content(c[1], c[2], TRUE))'
    <3>1. \A c \in Reported : disk'[PathOf(c)] = Bundle!Content(c[1], c[2], TRUE)
      BY <1>2, <1>3, <1>4, <2>1 DEF DiskInv
    <3> QED BY <1>1, <1>5, <3>1, StaysIs
  <2>3. \A t \in Finished : disk'[Bundle!MapPath(entry, t)] = Bundle!Content(entry, t, TRUE)
    <3>1. SUFFICES ASSUME NEW t \in Finished
                   PROVE disk'[Bundle!MapPath(entry, t)] = disk[Bundle!MapPath(entry, t)]
      BY <1>2 DEF DiskInv
    <3>2. t \in 1 .. Bundle!BakedTiles /\ t # tile
      BY <1>2
    <3>3. Bundle!MapPath(entry, t) \in Bundle!Path /\ Bundle!MapPath(entry, t) # path
      BY <1>1, <1>3, <3>2, StreamIsNew
    <3> QED BY <1>4, <3>3
  <2>4. (\A t \in Finished : disk[Bundle!MapPath(entry, t)] = Bundle!Content(entry, t, TRUE))'
    BY <1>1, <1>5, <2>3, StaysIs
  <2>5. (\A p \in Bundle!Path :
             disk[p] = Found(p) \/ p \in Streamed \/ \E c \in Reported : p = PathOf(c))'
    BY <1>1, <1>2, <1>4, <1>5, <1>6, StaysIs DEF DiskInv
  <2> QED BY <2>2, <2>4, <2>5 DEF DiskInv
<1> QED BY <1>1, <1>2, <1>4, <1>7, <1>8, <1>9, Onwards

LEMMA FinishFileKeeps == ASSUME Bundle!BundleAssumption, BundleInv, Bundle!FinishFile PROVE BundleInv'
<1> DEFINE path == Bundle!MapPath(entry, tile)
<1>1. /\ step = "stream" /\ opened = tile /\ Bundle!Stays /\ Bundle!NextTile
      /\ Bundle!OnDisk(path, Bundle!Content(entry, tile, TRUE))
      /\ UNCHANGED <<written, opened, bundleOutcome>>
  BY DEF Bundle!FinishFile
<1>2. /\ PlaceInv /\ FilesInv /\ DiskInv /\ Bundle!Maps \in Nat /\ Bundle!BakedTiles \in Nat \ {0}
      /\ Bundle!BakedTiles <= MaxTiles /\ MaxTiles \in Nat /\ written \subseteq Bundle!Path
      /\ entry \in 1 .. Bundle!Maps /\ entry \in Nat /\ tile \in 1 .. Bundle!BakedTiles
      /\ tile \in 0 .. MaxTiles
      /\ opened \in 0 .. MaxTiles /\ bounded
      /\ Streamed = {Bundle!MapPath(entry, t) : t \in 1 .. tile} /\ Finished = 1 .. tile - 1
  BY <1>1, StreamPlace
<1>3. /\ \A c \in Reported : PathOf(c) # path
      /\ path \in Bundle!Path
      /\ \A u \in 1 .. Bundle!BakedTiles : Bundle!MapPath(entry, u) = path => u = tile
      /\ Taken = Reported \cup {<<entry, t>> : t \in 1 .. Bundle!BakedTiles}
      /\ Taken = CellsBefore(entry, Bundle!BakedTiles + 1) /\ Reported = CellsBefore(entry, 1)
      /\ \A t \in 1 .. Bundle!BakedTiles :
             Bundle!MapPath(entry, t) \in Bundle!Path
                 /\ PathOf(<<entry, t>>) = Bundle!MapPath(entry, t)
  BY <1>1, <1>2, StreamIsNew
<1>4. /\ disk' \in [Bundle!Path -> FileContent] /\ \A q \in Bundle!Path : q # path =>
             disk'[q] = disk[q]
      /\ disk'[path] = Bundle!Content(entry, tile, TRUE) /\ SerialInv' /\ ParamInv'
  <2>1. TRUE \in BOOLEAN
    OBVIOUS
  <2> QED BY <1>1, <1>2, <1>3, <2>1, Writing
<1>5. \A c \in Reported : disk'[PathOf(c)] = Bundle!Content(c[1], c[2], TRUE)
  <2>1. \A c \in Reported : PathOf(c) \in Bundle!Path
    BY <1>1, ReportedPaths
  <2> QED BY <1>2, <1>3, <1>4, <2>1 DEF DiskInv
<1>6. \A t \in 1 .. tile : disk'[Bundle!MapPath(entry, t)] = Bundle!Content(entry, t, TRUE)
  <2>1. SUFFICES ASSUME NEW t \in 1 .. tile, t # tile
                 PROVE disk'[Bundle!MapPath(entry, t)] = Bundle!Content(entry, t, TRUE)
    BY <1>4
  <2>2. t \in 1 .. Bundle!BakedTiles /\ t \in Finished
    BY <1>2, <2>1
  <2>3. Bundle!MapPath(entry, t) \in Bundle!Path /\ Bundle!MapPath(entry, t) # path
    BY <1>3, <2>1, <2>2
  <2> QED BY <1>2, <1>4, <2>2, <2>3 DEF DiskInv
<1>7. \A p \in Bundle!Path :
          \/ disk'[p] = Found(p) \/ \E c \in Reported : p = PathOf(c)
          \/ \E t \in 1 .. tile : p = Bundle!MapPath(entry, t)
  BY <1>2, <1>4 DEF DiskInv
<1>8. CASE ~Bundle!LastTile(tile)
  <2>1. /\ step' = step /\ entry' = entry /\ tile' = tile + 1
        /\ tile + 1 <= Bundle!BakedTiles /\ files' = files
    BY <1>1, <1>2, <1>8 DEF Bundle!NextTile, Bundle!LastTile, Bundle!FinishFile
  <2>2. Taken' = Taken /\ Reported' = Reported
    BY <1>1, <2>1, StaysIs DEF Taken, Reported
  <2>3. Streamed' = Streamed /\ Finished' = 1 .. tile
    <3>1. tile' - 1 = tile
      BY <1>2, <2>1
    <3> QED BY <1>1, <2>1, <3>1, StaysIs DEF Streamed, Finished
  <2>4. PlaceInv'
    BY <1>1, <1>2, <2>1, StaysIs DEF PlaceInv
  <2>5. FilesInv'
    BY <1>1, <1>2, <2>1, <2>2, StaysIs DEF FilesInv
  <2>6. DiskInv'
    <3>1. (\A c \in Reported : disk[PathOf(c)] = Bundle!Content(c[1], c[2], TRUE))'
      BY <1>1, <1>5, <2>2, StaysIs
    <3>2. (\A t \in Finished : disk[Bundle!MapPath(entry, t)] = Bundle!Content(entry, t, TRUE))'
      BY <1>1, <1>6, <2>1, <2>3, StaysIs
    <3>3. (\A p \in Bundle!Path :
               disk[p] = Found(p) \/ p \in Streamed \/ \E c \in Reported : p = PathOf(c))'
      BY <1>1, <1>2, <1>7, <2>2, <2>3, StaysIs
    <3> QED BY <3>1, <3>2, <3>3 DEF DiskInv
  <2> QED BY <1>1, <1>2, <1>4, <2>1, <2>4, <2>5, <2>6, Onwards
<1>9. CASE Bundle!LastTile(tile)
  <2>1. /\ step' = "map" /\ entry' = entry + 1 /\ tile' = tile /\ tile = Bundle!BakedTiles
        /\ files' = files \cup {Bundle!Report(entry, t) : t \in 1 .. Bundle!BakedTiles}
    BY <1>1, <1>2, <1>9 DEF Bundle!NextTile, Bundle!LastTile, Bundle!FinishFile
  <2>2. Taken' = Taken /\ Reported' = Taken /\ Streamed' = {} /\ Finished' = {}
    <3>1. CellsBefore(entry, Bundle!BakedTiles + 1) = CellsBefore(entry + 1, 1)
      BY <1>2, CellsGrow
    <3> QED BY <1>1, <1>3, <2>1, <3>1, StaysIs DEF Taken, Reported, Streamed, Finished
  <2>3. PlaceInv'
    BY <1>1, <1>2, <2>1, StaysIs DEF PlaceInv
  <2>4. \A c \in Taken : \/ c \in Reported
                         \/ \E t \in 1 .. Bundle!BakedTiles :
                                c = <<entry, t>> /\ c[1] = entry /\ c[2] = t
    BY <1>3
  <2>5. {Bundle!Report(c[1], c[2]) : c \in Taken} =
            {Bundle!Report(c[1], c[2]) : c \in Reported}
                \cup {Bundle!Report(entry, t) : t \in 1 .. Bundle!BakedTiles}
    <3>1. ASSUME NEW t \in 1 .. Bundle!BakedTiles
          PROVE \E c \in Taken : Bundle!Report(entry, t) = Bundle!Report(c[1], c[2])
      <4>1. <<entry, t>> \in Taken /\ <<entry, t>>[1] = entry /\ <<entry, t>>[2] = t
        BY <1>3
      <4> QED BY <4>1
    <3>2. Reported \subseteq Taken
      BY <1>3
    <3> QED BY <2>4, <3>1, <3>2
  <2>6. FilesInv'
    <3>1. files' = {[path |-> MeshPath, map |-> 0, tile |-> 0]}
              \cup {Bundle!Report(c[1], c[2]) : c \in Taken}
      BY <1>2, <2>1, <2>5 DEF FilesInv
    <3> QED BY <1>1, <1>2, <2>1, <2>2, <3>1, StaysIs DEF FilesInv
  <2>7. DiskInv'
    <3>1. \A c \in Taken : disk'[PathOf(c)] = Bundle!Content(c[1], c[2], TRUE)
      <4>1. SUFFICES ASSUME NEW t \in 1 .. Bundle!BakedTiles, NEW c, c = <<entry, t>>,
                            c[1] = entry, c[2] = t
            PROVE  disk'[PathOf(c)] = Bundle!Content(c[1], c[2], TRUE)
        BY <1>5, <2>4
      <4>2. PathOf(c) = Bundle!MapPath(entry, t)
        BY <1>3, <4>1
      <4>3. disk'[Bundle!MapPath(entry, t)] = Bundle!Content(entry, t, TRUE)
        BY <1>6, <2>1
      <4> QED BY <4>1, <4>2, <4>3
    <3>2. (\A c \in Reported : disk[PathOf(c)] = Bundle!Content(c[1], c[2], TRUE))'
      BY <1>1, <2>2, <3>1, StaysIs
    <3>3. \A p \in Bundle!Path : disk'[p] = Found(p) \/ \E c \in Taken : p = PathOf(c)
      <4>1. SUFFICES ASSUME NEW p \in Bundle!Path, NEW t \in 1 .. tile, p = Bundle!MapPath(entry, t)
            PROVE  \E c \in Taken : p = PathOf(c)
        BY <1>3, <1>7
      <4>2. <<entry, t>> \in Taken /\ PathOf(<<entry, t>>) = p
        BY <1>3, <2>1, <4>1
      <4> QED BY <4>2
    <3>4. (\A p \in Bundle!Path :
               disk[p] = Found(p) \/ p \in Streamed \/ \E c \in Reported : p = PathOf(c))'
      BY <1>1, <2>2, <3>3, StaysIs
    <3> QED BY <2>2, <3>2, <3>4 DEF DiskInv
  <2> QED BY <1>1, <1>2, <1>4, <2>1, <2>3, <2>6, <2>7, Onwards
<1> QED BY <1>8, <1>9

LEMMA StreamStopsKeeps == ASSUME Bundle!BundleAssumption, BundleInv, Bundle!StreamStops PROVE BundleInv'
<1>1. /\ step = "stream" /\ Bundle!Stays /\ step' = "idle"
      /\ bundleOutcome' \in {"cancelled", "error"}
      /\ UNCHANGED <<entry, tile, written, files>>
  BY DEF Bundle!StreamStops, Bundle!Ends
<1>2. PICK n \in {opened} \cup {tile} :
         /\ opened' = n
         /\ disk' = [p \in Bundle!Path |-> IF p \in Bundle!Abandoned(n) THEN Bundle!Absent ELSE disk[p]]
  BY DEF Bundle!StreamStops
<1>3. /\ Bundle!BakedTiles \in Nat \ {0} /\ Bundle!BakedTiles <= MaxTiles /\ MaxTiles \in Nat
      /\ written \subseteq Bundle!Path
      /\ tile \in 1 .. Bundle!BakedTiles /\ opened \in {tile - 1, tile} /\ bounded
      /\ Streamed = {Bundle!MapPath(entry, t) : t \in 1 .. opened} /\ bundles \in Nat \ {0}
  BY <1>1, StreamPlace
<1>4. n \in 0 .. MaxTiles /\ 1 .. n \subseteq 1 .. Bundle!BakedTiles /\ 1 .. opened \subseteq 1 .. n
  BY <1>2, <1>3
<1>5. Streamed \subseteq Bundle!Abandoned(n)
          /\ Bundle!Abandoned(n) \subseteq {Bundle!MapPath(entry, t) : t \in 1 .. Bundle!BakedTiles}
  BY <1>3, <1>4 DEF Bundle!Abandoned
<1>6. /\ Bundle!Abandoned(n) \subseteq written' /\ written \subseteq written'
      /\ \A c \in Reported : PathOf(c) \notin Bundle!Abandoned(n)
      /\ \A c \in Reported : PathOf(c) \in Bundle!Path
  <2>1. \A p \in Bundle!Abandoned(n) : \E t \in 1 .. Bundle!BakedTiles :
            p = Bundle!MapPath(entry, t)
    BY <1>5
  <2>2. \A t \in 1 .. Bundle!BakedTiles :
            /\ \A c \in Reported : PathOf(c) # Bundle!MapPath(entry, t)
            /\ <<entry, t>> \in Taken /\ PathOf(<<entry, t>>) = Bundle!MapPath(entry, t)
    BY <1>1, StreamIsNew
  <2>3. /\ \A c \in Reported : PathOf(c) \in Bundle!Path
        /\ \A c \in Taken : PathOf(c) \in written
    BY <1>1, AtWork, InWritten, ReportedPaths
  <2>4. \A p \in Bundle!Abandoned(n) : p \in written /\ \A c \in Reported : PathOf(c) # p
    <3>1. SUFFICES ASSUME NEW p, NEW t \in 1 .. Bundle!BakedTiles, p = Bundle!MapPath(entry, t)
                   PROVE p \in written /\ \A c \in Reported : PathOf(c) # p
      BY <2>1
    <3> QED BY <2>2, <2>3, <3>1
  <2>5. written' = written
    BY <1>1
  <2> QED BY <2>3, <2>4, <2>5
<1>7. Bundle!Absent \in FileContent /\ Bundle!Absent.of = 0
  BY <1>3, Shapes DEF Bundle!Absent, FileContent, BundleInv, Shaped
<1>8. disk \in [Bundle!Path -> FileContent]
  BY <1>1, AtWork
<1>9. /\ disk' \in [Bundle!Path -> FileContent] /\ \A p \in Bundle!Path :
             p \notin Bundle!Abandoned(n) => disk'[p] = disk[p]
      /\ \A p \in Bundle!Path : p \in Bundle!Abandoned(n) => disk'[p] = Bundle!Absent
  BY <1>2, <1>7, <1>8
<1>10. SerialInv' /\ ParamInv'
  <2>1. \A p \in Bundle!Path : disk'[p].of <= bundles
    BY <1>3, <1>7, <1>9 DEF BundleInv, SerialInv
  <2> QED BY <1>1, <1>9, <2>1, Serials
<1>11. /\ bounded => \A p \in Bundle!Abandoned(n) : disk'[p].of # bundles
       /\ \A p \in Bundle!Abandoned(n) : \E t \in 1 .. (IF bounded THEN opened' ELSE tile) :
              p = Bundle!MapPath(entry, t)
  <2>1. Bundle!Abandoned(n) \subseteq Bundle!Path
    <3>1. \A t \in 1 .. Bundle!BakedTiles : Bundle!MapPath(entry, t) \in Bundle!Path
      BY <1>1, StreamIsNew
    <3> QED BY <1>5, <3>1
  <2>2. \A p \in Bundle!Abandoned(n) : disk'[p].of # bundles
    BY <1>3, <1>7, <1>9, <2>1
  <2>3. \A p \in Bundle!Abandoned(n) : \E t \in 1 .. opened' : p = Bundle!MapPath(entry, t)
    BY <1>2 DEF Bundle!Abandoned
  <2> QED BY <1>3, <2>2, <2>3
<1>12. opened' \in 0 .. MaxTiles /\ written' \subseteq Bundle!Path
  BY <1>1, <1>2, <1>3, <1>4
<1> QED BY <1>1, <1>5, <1>6, <1>9, <1>10, <1>11, <1>12, Stopping

LEMMA BundleStep == ASSUME Bundle!BundleAssumption, BundleInv, [Bundle!Next]_(Bundle!vars) PROVE BundleInv'
<1>1. CASE UNCHANGED Bundle!vars
  <2> USE <1>1 DEF Bundle!vars, Bundle!paramVars
  <2>1. Bundle!TypeOK' /\ ParamInv' /\ SerialInv'
    BY DEF BundleInv, Bundle!TypeOK, ParamInv, SerialInv, Bundle!Maps, Bundle!BakedTiles
  <2>2. BundleIsTrue'
    BY DEF BundleInv, BundleIsTrue, Bundle!ReportTrue, Bundle!NoCutMapWhenBounded,
       Bundle!RefusedLeavesNothing, Bundle!OthersUntouched,
           Bundle!OkIsComplete, Bundle!Maps, Bundle!MapPath
  <2>3. UnderWay' = UnderWay
    BY DEF UnderWay, PlaceInv, FilesInv, DiskInv, Found, Taken, Reported, Streamed, Finished,
       CellsBefore, Cells, PathOf,
           Bundle!MapPath, Bundle!Maps, Bundle!BakedTiles, Bundle!Report, Bundle!Content,
           Bundle!OneNameForAll
  <2> QED BY <2>1, <2>2, <2>3 DEF BundleInv
<1> QED BY <1>1, BeginKeeps, EndsAtOnceKeeps, ExportMeshKeeps, ExportMeshFailsKeeps, MapStopsKeeps,
           StartMapKeeps, AllWrittenKeeps, BakeWholeKeeps, WriteMapKeeps, WriteMapFailsKeeps,
           ResolvePathKeeps,
           OpenNextKeeps, FinishFileKeeps, StreamStopsKeeps DEF Bundle!Next

LEMMA BundleSound ==
    ASSUME BundleInv
    PROVE  /\ Bundle!TypeOK /\ Bundle!ReportTrue /\ Bundle!NoCutMapWhenBounded
           /\ Bundle!RefusedLeavesNothing /\ Bundle!OthersUntouched /\ Bundle!OkIsComplete
BY DEF BundleInv, BundleIsTrue

\* writeBundle() tells the truth, whatever names the maps and the mesh have: what
\* the result lists is on the disk, whole, and every map under a name of its own;
\* only the mesh may be overwritten, by the one map that has its name.  A refusal
\* leaves nothing; a cancelled or failed bundle with a bound on its working set
\* leaves no cut map, at the path of the mesh neither if a map had taken it, and
\* changes no path but those of its report and of the map it stopped at.
THEOREM BundlesTellTheTruth ==
    ASSUME Bundle!BundleAssumption
    PROVE  Bundle!Spec =>
               [](/\ Bundle!TypeOK /\ Bundle!ReportTrue /\ Bundle!NoCutMapWhenBounded
                  /\ Bundle!RefusedLeavesNothing /\ Bundle!OthersUntouched /\ Bundle!OkIsComplete)
<1>1. Bundle!Init => BundleInv
  BY InitBundle
<1>2. BundleInv /\ [Bundle!Next]_(Bundle!vars) => BundleInv'
  BY BundleStep
<1> QED BY <1>1, <1>2, BundleSound, PTL DEF Bundle!Spec

-----------------------------------------------------------------------------
(* The flow solver: edges and their twins *)

\* What the instance and this module read from one library.
LEMMA FlowLibrary ==
    /\ \A w : Flow!SumOf(w) = SumOf(w)
    /\ \A S, n : Flow!Ascending(S, n) = Ascending(S, n)
<1>1. \A w : Flow!SumOf(w) = SumOf(w)
  BY DEF Flow!SumOf, SumOf
<1>2. \A S, n : Flow!Ascending(S, n) = Ascending(S, n)
  BY DEF Flow!Ascending, Ascending
<1> QED BY <1>1, <1>2

From(id) == Flow!To(Flow!Twin(id))

\* The two edges of an arc.
Up(k) == 2 * (k - 1)
Down(k) == 2 * (k - 1) + 1

LEMMA UpAndDown ==
    /\ \A k \in Int : /\ Up(k) \in Int /\ Up(k) % 2 = 0 /\ Up(k) \div 2 + 1 = k
                      /\ Down(k) \in Int /\ Down(k) % 2 = 1 /\ Down(k) \div 2 + 1 = k
                      /\ Up(k) + 1 = Down(k) /\ Down(k) - 1 = Up(k)
    /\ \A m \in Nat : \A k \in 1 .. m : Up(k) \in 0 .. 2 * m - 1 /\ Down(k) \in 0 .. 2 * m - 1
    /\ \A m \in Nat : \A id \in 0 .. 2 * m - 1 : \E k \in 1 .. m : id = Up(k) \/ id = Down(k)
    /\ \A k, l \in Int : Up(k) # Down(l) /\ (Up(k) = Up(l) => k = l) /\ (Down(k) = Down(l) => k = l)
<1>1. \A k \in Int : /\ Up(k) \in Int /\ Up(k) % 2 = 0 /\ Up(k) \div 2 + 1 = k
                     /\ Down(k) \in Int /\ Down(k) % 2 = 1 /\ Down(k) \div 2 + 1 = k
                     /\ Up(k) + 1 = Down(k) /\ Down(k) - 1 = Up(k)
  BY DEF Up, Down
<1>2. \A m \in Nat : \A k \in 1 .. m : Up(k) \in 0 .. 2 * m - 1 /\ Down(k) \in 0 .. 2 * m - 1
  BY DEF Up, Down
<1>3. ASSUME NEW m \in Nat, NEW id \in 0 .. 2 * m - 1
      PROVE  \E k \in 1 .. m : id = Up(k) \/ id = Down(k)
  <2>1. id \div 2 + 1 \in 1 .. m /\ (id = 2 * (id \div 2) \/ id = 2 * (id \div 2) + 1)
    OBVIOUS
  <2>2. (id \div 2 + 1) - 1 = id \div 2
    OBVIOUS
  <2> QED BY <2>1, <2>2 DEF Up, Down
<1>4. \A k, l \in Int : Up(k) # Down(l) /\ (Up(k) = Up(l) => k = l) /\ (Down(k) = Down(l) => k = l)
  BY DEF Up, Down
<1> QED BY <1>1, <1>2, <1>3, <1>4

LEMMA Arcs ==
    ASSUME Flow!FlowAssumption, arcs \in Networks
    PROVE  /\ Len(arcs) \in Nat /\ Flow!Edge = 0 .. 2 * Len(arcs) - 1 /\ Flow!Edge \subseteq Nat
           /\ Flow!source \in Flow!Node /\ Flow!sink \in Flow!Node /\ Flow!source # Flow!sink
           /\ Flow!Node = 0 .. Nodes - 1 /\ Nodes \in Nat
           /\ \A k \in 1 .. Len(arcs) :
                 /\ arcs[k].from \in Flow!Node /\ arcs[k].to \in Flow!Node
                 /\ arcs[k].cap \in Nat /\ arcs[k].cost \in Nat
           /\ SumOf([k \in 1 .. Len(arcs) |-> arcs[k].cost]) < kInf
<1>1. arcs \in Seq([from : Flow!Node, to : Flow!Node, cap : Nat, cost : Nat])
  BY DEF Flow!FlowAssumption, Flow!Node
<1>2. Len(arcs) \in Nat /\ \A k \in 1 .. Len(arcs) :
          arcs[k] \in [from : Flow!Node, to : Flow!Node, cap : Nat, cost : Nat]
  BY <1>1, LenProperties, ElementOfSeq
<1>3. SumOf([k \in 1 .. Len(arcs) |-> arcs[k].cost]) < kInf
  BY FlowLibrary DEF Flow!FlowAssumption
<1>4. Flow!Edge = 0 .. 2 * Len(arcs) - 1 /\ Flow!Edge \subseteq Nat
  BY <1>2 DEF Flow!Edge, Flow!EdgesOf
<1>5. /\ Flow!source \in Flow!Node /\ Flow!sink \in Flow!Node /\ Flow!source # Flow!sink
      /\ Flow!Node = 0 .. Nodes - 1 /\ Nodes \in Nat
  BY DEF Flow!FlowAssumption, Flow!Node, Flow!source, Flow!sink
<1> QED BY <1>2, <1>3, <1>4, <1>5

LEMMA Twins ==
    ASSUME Flow!FlowAssumption, arcs \in Networks
    PROVE  /\ \A k \in 1 .. Len(arcs) :
                 /\ Up(k) \in Flow!Edge /\ Down(k) \in Flow!Edge
                 /\ Flow!Twin(Up(k)) = Down(k) /\ Flow!Twin(Down(k)) = Up(k)
                 /\ Flow!To(Up(k)) = arcs[k].to /\ Flow!To(Down(k)) = arcs[k].from
                 /\ From(Up(k)) = arcs[k].from /\ From(Down(k)) = arcs[k].to
                 /\ Flow!cost(Up(k)) = arcs[k].cost /\ Flow!cost(Down(k)) = -arcs[k].cost
                 /\ Flow!cap(Up(k)) = arcs[k].cap /\ Flow!cap(Down(k)) = 0
           /\ \A id \in Flow!Edge : \E k \in 1 .. Len(arcs) : id = Up(k) \/ id = Down(k)
           /\ \A id \in Flow!Edge :
                 /\ Flow!Twin(id) \in Flow!Edge /\ Flow!Twin(Flow!Twin(id)) = id
                 /\ Flow!Twin(id) # id
                 /\ Flow!To(id) \in Flow!Node /\ From(id) \in Flow!Node
                 /\ From(Flow!Twin(id)) = Flow!To(id)
                 /\ Flow!cost(id) \in Int /\ Flow!cap(id) \in Nat
                 /\ Flow!cost(Flow!Twin(id)) = -Flow!cost(id)
<1>1. ASSUME NEW k \in 1 .. Len(arcs)
      PROVE  /\ Up(k) \in Flow!Edge /\ Down(k) \in Flow!Edge
             /\ Flow!Twin(Up(k)) = Down(k) /\ Flow!Twin(Down(k)) = Up(k)
             /\ Flow!To(Up(k)) = arcs[k].to /\ Flow!To(Down(k)) = arcs[k].from
             /\ From(Up(k)) = arcs[k].from /\ From(Down(k)) = arcs[k].to
             /\ Flow!cost(Up(k)) = arcs[k].cost /\ Flow!cost(Down(k)) = -arcs[k].cost
             /\ Flow!cap(Up(k)) = arcs[k].cap /\ Flow!cap(Down(k)) = 0
  <2>1. k \in Int /\ Up(k) \in Flow!Edge /\ Down(k) \in Flow!Edge
    <3>1. Len(arcs) \in Nat /\ Flow!Edge = 0 .. 2 * Len(arcs) - 1
      BY Arcs
    <3>2. k \in Int
      OBVIOUS
    <3>3. Up(k) \in 0 .. 2 * Len(arcs) - 1 /\ Down(k) \in 0 .. 2 * Len(arcs) - 1
      BY <3>1, UpAndDown
    <3> QED BY <3>1, <3>2, <3>3
  <2>2. /\ Up(k) % 2 = 0 /\ Up(k) \div 2 + 1 = k /\ Up(k) + 1 = Down(k)
        /\ Down(k) % 2 = 1 /\ Down(k) \div 2 + 1 = k /\ Down(k) - 1 = Up(k)
    BY <2>1, UpAndDown
  <2>3. /\ Flow!Twin(Up(k)) = Down(k) /\ Flow!Twin(Down(k)) = Up(k)
        /\ Flow!Arc(Up(k)) = arcs[k] /\ Flow!Arc(Down(k)) = arcs[k]
    BY <2>2 DEF Flow!Twin, Flow!Arc
  <2>4. Flow!To(Up(k)) = arcs[k].to /\ Flow!To(Down(k)) = arcs[k].from
    BY <2>2, <2>3 DEF Flow!To
  <2>5. From(Up(k)) = arcs[k].from /\ From(Down(k)) = arcs[k].to
    BY <2>3, <2>4 DEF From
  <2>6. /\ Flow!cost(Up(k)) = arcs[k].cost /\ Flow!cost(Down(k)) = -arcs[k].cost
        /\ Flow!cap(Up(k)) = arcs[k].cap /\ Flow!cap(Down(k)) = 0
    BY <2>2, <2>3 DEF Flow!cost, Flow!cap
  <2> QED BY <2>1, <2>3, <2>4, <2>5, <2>6
<1>2. \A id \in Flow!Edge : \E k \in 1 .. Len(arcs) : id = Up(k) \/ id = Down(k)
  <2>1. Len(arcs) \in Nat /\ Flow!Edge = 0 .. 2 * Len(arcs) - 1
    BY Arcs
  <2>2. \A m \in Nat : \A id \in 0 .. 2 * m - 1 : \E k \in 1 .. m : id = Up(k) \/ id = Down(k)
    BY UpAndDown
  <2> QED BY <2>1, <2>2
<1>3. ASSUME NEW id \in Flow!Edge
      PROVE  /\ Flow!Twin(id) \in Flow!Edge /\ Flow!Twin(Flow!Twin(id)) = id /\ Flow!Twin(id) # id
             /\ Flow!To(id) \in Flow!Node /\ From(id) \in Flow!Node
             /\ From(Flow!Twin(id)) = Flow!To(id)
             /\ Flow!cost(id) \in Int /\ Flow!cap(id) \in Nat
             /\ Flow!cost(Flow!Twin(id)) = -Flow!cost(id)
  <2>1. PICK k \in 1 .. Len(arcs) : id = Up(k) \/ id = Down(k)
    BY <1>2
  <2>2. /\ arcs[k].from \in Flow!Node /\ arcs[k].to \in Flow!Node /\ arcs[k].cap \in Nat
        /\ arcs[k].cost \in Nat
        /\ Up(k) # Down(k)
    BY <2>1, Arcs, UpAndDown
  <2>3. Flow!Twin(id) \in Flow!Edge /\ Flow!Twin(Flow!Twin(id)) = id /\ Flow!Twin(id) # id
    BY <1>1, <2>1, <2>2
  <2>4. Flow!To(id) \in Flow!Node /\ From(id) \in Flow!Node /\ From(Flow!Twin(id)) = Flow!To(id)
    BY <1>1, <2>1, <2>2, <2>3 DEF From
  <2>5. Flow!cost(id) \in Int /\ Flow!cap(id) \in Nat /\ Flow!cost(Flow!Twin(id)) = -Flow!cost(id)
    <3>1. \A m \in Nat : -m \in Int /\ -(-m) = m /\ m \in Int /\ 0 \in Nat
      OBVIOUS
    <3> QED BY <1>1, <2>1, <2>2, <3>1
  <2> QED BY <2>3, <2>4, <2>5
<1> QED BY <1>1, <1>2, <1>3

-----------------------------------------------------------------------------
(* The invariant *)

Reached(v) == dist[v] # kInf

\* Prices at which no edge with room is too cheap: there is no cycle on which
\* flow could be sent round at a gain.
FairPrices(price) ==
    /\ price \in [Flow!Node -> Int]
    /\ \A id \in Flow!Edge : Flow!Residual(id) > 0 =>
           price[Flow!To(id)] <= price[From(id)] + Flow!cost(id)

\* What has been pushed is a flow, of the amount and the cost it says.
FlowInv ==
    /\ arcs \in Networks /\ flow \in [Flow!Edge -> Int]
    /\ \A id \in Flow!Edge : flow[Flow!Twin(id)] = -flow[id] /\ Flow!Residual(id) >= 0
    /\ totalFlow \in Nat /\ totalCost \in Int /\ Flow!CostOf(Flow!Pushed) = totalCost
    /\ Flow!NetOut(Flow!Pushed, Flow!source) = totalFlow
    /\ \A u \in Flow!Node \ {Flow!source, Flow!sink} : Flow!NetOut(Flow!Pushed, u) = 0

DistanceInv(price) ==
    /\ dist \in [Flow!Node -> Int] /\ \A v \in Flow!Node : dist[v] <= kInf
    /\ dist[Flow!source] = 0
    /\ \A v \in Flow!Node : Reached(v) => price[v] <= dist[v] + price[Flow!source]

\* The edges by which nodes were reached, none of which was reached by a node it
\* leads to.
TreeInv ==
    /\ prevEdge \in [Flow!Node -> Flow!Edge \cup {Flow!None}] /\ prevEdge[Flow!source] = Flow!None
    /\ \A v \in Flow!Node \ {Flow!source} : prevEdge[v] = Flow!None <=> ~Reached(v)
    /\ \A v \in Flow!Node : prevEdge[v] # Flow!None =>
          /\ Flow!To(prevEdge[v]) = v /\ Flow!Residual(prevEdge[v]) > 0
          /\ Reached(From(prevEdge[v]))
          /\ dist[From(prevEdge[v])] + Flow!cost(prevEdge[v]) <= dist[v]

Ranked(rank) ==
    /\ rank \in [Flow!Node -> Nat]
    /\ \A v \in Flow!Node : prevEdge[v] # Flow!None => rank[From(prevEdge[v])] < rank[v]

\* An edge by which a node could be reached at less is still to be looked at.
OpenInv ==
    /\ queue \in Seq(Flow!Node) /\ inQueue \subseteq Flow!Node
    /\ visiting = Flow!Idle \/ visiting \in Seq(Flow!Edge)
    /\ \A v \in inQueue : \E i \in 1 .. Len(queue) : queue[i] = v
    /\ \A id \in Flow!Edge :
          Flow!Residual(id) > 0 /\ Reached(From(id))
              /\ dist[From(id)] + Flow!cost(id) < dist[Flow!To(id)] =>
              From(id) \in inQueue \/ \E i \in 1 .. Len(visiting) : visiting[i] = id

SolvedInv == solved \in BOOLEAN
    /\ (solved => visiting = Flow!Idle /\ queue = <<>> /\ ~Reached(Flow!sink))

SearchInv(price) == DistanceInv(price) /\ TreeInv /\ OpenInv /\ SolvedInv /\ \E rank : Ranked(rank)

SolverInv == FlowInv /\ \E price : FairPrices(price) /\ SearchInv(price)

LEMMA Infinite == ASSUME Flow!FlowAssumption, arcs \in Networks PROVE kInf \in Nat \ {0}
<1>1. [k \in 1 .. Len(arcs) |-> arcs[k].cost] \in Seq(Nat)
  BY Arcs
<1>2. SumOf([k \in 1 .. Len(arcs) |-> arcs[k].cost]) \in Nat
  BY <1>1, SumPositive
<1>3. kInf \in Nat
  BY DEF Flow!FlowAssumption
<1> HIDE DEF Flow!FlowAssumption
<1> QED BY <1>2, <1>3, Arcs

\* While nothing is pushed, the network is the same.
LEMMA SameNetwork ==
    ASSUME UNCHANGED <<arcs, flow>>
    PROVE  /\ Flow!Edge' = Flow!Edge /\ \A id : Flow!Residual(id)' = Flow!Residual(id)
           /\ \A id : Flow!To(id)' = Flow!To(id) /\ From(id)' = From(id)
                  /\ Flow!cost(id)' = Flow!cost(id)
BY DEF Flow!Edge, Flow!Residual, Flow!cap, Flow!cost, From, Flow!To, Flow!Arc

LEMMA SameFlow ==
    ASSUME FlowInv, UNCHANGED <<arcs, flow, totalFlow, totalCost>>
    PROVE  FlowInv'
<1>1. /\ Flow!Edge' = Flow!Edge /\ \A id : Flow!Residual(id)' = Flow!Residual(id)
  BY SameNetwork
<1>2. Flow!Pushed' = Flow!Pushed /\ Flow!CostOf(Flow!Pushed)' = Flow!CostOf(Flow!Pushed) /\ \A u :
          Flow!NetOut(Flow!Pushed, u)' = Flow!NetOut(Flow!Pushed, u)
  BY DEF Flow!Pushed, Flow!CostOf, Flow!NetOut
<1> QED BY <1>1, <1>2 DEF FlowInv

LEMMA SamePrices ==
    ASSUME NEW price, FairPrices(price), UNCHANGED <<arcs, flow>>
    PROVE  FairPrices(price)'
BY SameNetwork DEF FairPrices

\* A search that begins.
LEMMA FreshSearch ==
    ASSUME Flow!FlowAssumption, arcs \in Networks, NEW price, FairPrices(price),
           dist = [v \in Flow!Node |-> IF v = Flow!source THEN 0 ELSE kInf],
           prevEdge = [v \in Flow!Node |-> Flow!None],
           queue = <<Flow!source>>, inQueue = {Flow!source}, visiting = Flow!Idle, solved = FALSE
    PROVE  SearchInv(price)
<1>0. /\ kInf \in Nat \ {0} /\ Flow!source \in Flow!Node /\ price \in [Flow!Node -> Int]
      /\ Flow!None \notin Flow!Edge
  BY Infinite, Arcs DEF FairPrices, Flow!None
<1>1. DistanceInv(price)
  <2>1. \A v \in Flow!Node : Reached(v) => v = Flow!source
    BY <1>0 DEF Reached
  <2>2. dist \in [Flow!Node -> Int] /\ dist[Flow!source] = 0 /\ \A v \in Flow!Node : dist[v] <= kInf
    BY <1>0
  <2>3. price[Flow!source] \in Int /\ price[Flow!source] <= 0 + price[Flow!source]
    BY <1>0
  <2> QED BY <2>1, <2>2, <2>3 DEF DistanceInv
<1>2. TreeInv
  BY <1>0 DEF TreeInv, Reached
<1>3. OpenInv
  <2>1. /\ queue \in Seq(Flow!Node) /\ inQueue \subseteq Flow!Node /\ Len(queue) = 1
        /\ queue[1] = Flow!source
    BY <1>0
  <2>2. \A v \in inQueue : \E i \in 1 .. Len(queue) : queue[i] = v
    BY <2>1
  <2>3. \A id \in Flow!Edge : Reached(From(id)) => From(id) \in inQueue
    BY Twins DEF Reached
  <2> QED BY <2>1, <2>2, <2>3 DEF OpenInv
<1>4. SolvedInv
  BY DEF SolvedInv
<1>5. Ranked([v \in Flow!Node |-> 0])
  BY DEF Ranked
<1> QED BY <1>1, <1>2, <1>3, <1>4, <1>5 DEF SearchInv

LEMMA InitFlow == ASSUME Flow!FlowAssumption, Flow!Init PROVE SolverInv
<1>0. arcs \in Networks /\ kInf \in Nat \ {0}
  BY Infinite DEF Flow!Init
<1> DEFINE zero == [k \in 1 .. Len(arcs) |-> 0]
           price == [v \in Flow!Node |-> 0]
<1>1. \A id \in Flow!Edge : flow[id] = 0
  BY DEF Flow!Init, Flow!Edge
<1>2. SumOf(zero) = 0
  <2>1. zero \in [1 .. Len(arcs) -> Int] /\ Len(arcs) \in Nat
    BY <1>0, Arcs
  <2>2. CASE Len(arcs) = 0
    <3>1. zero \in Seq(Int) /\ Len(zero) = 0
      BY <2>1, <2>2
    <3> QED BY <3>1, SumEmpty
  <2>3. CASE Len(arcs) # 0
    <3>1. 1 \in 1 .. Len(arcs) /\ zero[1] = 0 /\ \A i \in 1 .. Len(arcs) : zero[i] = 0
      BY <2>1, <2>3
    <3> HIDE DEF zero
    <3> QED BY <2>1, <3>1, SumSpike
  <2> QED BY <2>2, <2>3
<1>3. FlowInv
  <2>1. \A k \in 1 .. Len(arcs) : Flow!Pushed[k] = 0
    <3>1. \A k \in 1 .. Len(arcs) : Up(k) \in Flow!Edge
      BY <1>0, Twins
    <3> QED BY <1>1, <3>1 DEF Flow!Pushed, Up
  <2>2. Flow!CostOf(Flow!Pushed) = 0
    <3>1. \A k \in 1 .. Len(arcs) : Flow!Pushed[k] * arcs[k].cost = 0
      BY <1>0, <2>1, Arcs
    <3> QED BY <1>2, <3>1, FlowLibrary DEF Flow!CostOf
  <2>3. \A u : Flow!NetOut(Flow!Pushed, u) = 0
    <3>1. \A u : \A k \in 1 .. Len(arcs) :
              (IF arcs[k].from = u THEN Flow!Pushed[k] ELSE 0) - (IF arcs[k].to = u THEN Flow!Pushed[k] ELSE 0) = 0
      BY <2>1
    <3> QED BY <1>2, <3>1, FlowLibrary DEF Flow!NetOut
  <2>4. \A id \in Flow!Edge : flow[Flow!Twin(id)] = -flow[id] /\ Flow!Residual(id) >= 0
    <3>1. \A id \in Flow!Edge : Flow!Twin(id) \in Flow!Edge /\ Flow!cap(id) \in Nat
      BY <1>0, Twins
    <3> QED BY <1>1, <3>1 DEF Flow!Residual
  <2>5. flow \in [Flow!Edge -> Int] /\ totalFlow = 0 /\ totalCost = 0
    BY DEF Flow!Init, Flow!Edge
  <2> QED BY <1>0, <2>2, <2>3, <2>4, <2>5 DEF FlowInv
<1>4. FairPrices(price)
  <2>1. ASSUME NEW id \in Flow!Edge, Flow!Residual(id) > 0 PROVE Flow!cost(id) >= 0
    <3>1. PICK k \in 1 .. Len(arcs) : id = Up(k) \/ id = Down(k)
      BY <1>0, Twins
    <3>2. CASE id = Up(k)
      <4>1. Flow!cost(id) = arcs[k].cost /\ arcs[k].cost \in Nat
        BY <1>0, <3>2, Arcs, Twins
      <4> QED BY <4>1
    <3>3. CASE id = Down(k)
      <4>1. Flow!cap(id) = 0 /\ flow[id] = 0
        BY <1>0, <1>1, <3>3, Twins
      <4> QED BY <2>1, <4>1 DEF Flow!Residual
    <3> QED BY <3>1, <3>2, <3>3
  <2>2. \A id \in Flow!Edge :
            Flow!To(id) \in Flow!Node /\ From(id) \in Flow!Node /\ Flow!cost(id) \in Int
    BY <1>0, Twins
  <2>3. ASSUME NEW id \in Flow!Edge, Flow!Residual(id) > 0
        PROVE price[Flow!To(id)] <= price[From(id)] + Flow!cost(id)
    BY <2>1, <2>2, <2>3
  <2>4. price \in [Flow!Node -> Int]
    OBVIOUS
  <2> HIDE DEF price
  <2> QED BY <2>3, <2>4 DEF FairPrices
<1>5. /\ dist = [v \in Flow!Node |-> IF v = Flow!source THEN 0 ELSE kInf]
      /\ prevEdge = [v \in Flow!Node |-> Flow!None] /\ Flow!None \notin Flow!Edge
      /\ queue = <<Flow!source>> /\ inQueue = {Flow!source} /\ visiting = Flow!Idle
      /\ solved = FALSE
      /\ Flow!source \in Flow!Node
  BY <1>0, Arcs DEF Flow!Init, Flow!None
<1>6. SearchInv(price)
  BY <1>0, <1>4, <1>5, FreshSearch
<1> HIDE DEF price
<1> QED BY <1>3, <1>4, <1>6 DEF SolverInv

LEMMA SameSolved ==
    ASSUME Flow!FlowAssumption, SolverInv, UNCHANGED Flow!vars
    PROVE  SolverInv'
<1>1. PICK price : FairPrices(price) /\ SearchInv(price)
  BY DEF SolverInv
<1>2. FlowInv' /\ FairPrices(price)'
  BY <1>1, SameFlow, SamePrices DEF SolverInv, Flow!vars
<1>3. /\ Flow!Edge' = Flow!Edge /\ \A id : Flow!Residual(id)' = Flow!Residual(id)
      /\ \A id : Flow!To(id)' = Flow!To(id) /\ From(id)' = From(id)
             /\ Flow!cost(id)' = Flow!cost(id)
  BY SameNetwork DEF Flow!vars
<1>4. DistanceInv(price)' /\ TreeInv' /\ OpenInv' /\ SolvedInv'
  BY <1>1, <1>3 DEF Flow!vars, Flow!search, SearchInv, DistanceInv, TreeInv, OpenInv, SolvedInv,
     Reached
<1>5. \A rank : Ranked(rank) => Ranked(rank)'
  BY <1>3 DEF Flow!vars, Flow!search, Ranked
<1> QED BY <1>1, <1>2, <1>4, <1>5 DEF SolverInv, SearchInv

-----------------------------------------------------------------------------
(* The Flow!search *)

\* The edges that leave a node are looked at, each of them.
LEMMA Leaving ==
    ASSUME Flow!FlowAssumption, arcs \in Networks, NEW u
    PROVE  /\ Flow!adj(u) \in Seq(Flow!Edge)
           /\ \A id \in Flow!Edge : From(id) = u =>
                  \E i \in 1 .. Len(Flow!adj(u)) : Flow!adj(u)[i] = id
<1> DEFINE S == {k \in 1 .. 2 * Len(arcs) : Flow!To(Flow!Twin(k - 1)) = u}
           leaving == Ascending(S, 2 * Len(arcs))
           edges == [i \in 1 .. Len(leaving) |-> leaving[i] - 1]
<1>1. 2 * Len(arcs) \in Nat /\ Flow!Edge = 0 .. 2 * Len(arcs) - 1
  BY Arcs
<1>2. Lists(leaving, S, 2 * Len(arcs))
  <2> HIDE DEF S
  <2> QED BY <1>1, AscendingLists
<1>3. Flow!adj(u) = edges
  BY FlowLibrary DEF Flow!adj
<1> HIDE DEF leaving
<1>4. Len(leaving) \in Nat /\ \A j \in 1 .. Len(leaving) : leaving[j] \in 1 .. 2 * Len(arcs)
  <2>1. leaving \in Seq(Nat) /\ \A j \in 1 .. Len(leaving) : leaving[j] \in 1 .. 2 * Len(arcs)
    BY <1>2 DEF Lists
  <2> QED BY <2>1, LenProperties
<1>5. edges \in [1 .. Len(leaving) -> Flow!Edge]
  BY <1>1, <1>4
<1>6. edges \in Seq(Flow!Edge) /\ Len(edges) = Len(leaving)
  <2> HIDE DEF edges
  <2> QED BY <1>4, <1>5
<1>7. ASSUME NEW id \in Flow!Edge, From(id) = u
      PROVE  \E i \in 1 .. Len(leaving) : edges[i] = id
  <2>1. id + 1 \in 1 .. 2 * Len(arcs) /\ (id + 1) - 1 = id
    BY <1>1
  <2>2. id + 1 \in S
    BY <1>7, <2>1 DEF From
  <2>3. PICK j \in 1 .. Len(leaving) : leaving[j] = id + 1
    BY <1>2, <2>1, <2>2 DEF Lists
  <2> QED BY <2>1, <2>3
<1> HIDE DEF edges
<1> QED BY <1>3, <1>6, <1>7

LEMMA VisitKeeps == ASSUME Flow!FlowAssumption, SolverInv, Flow!Visit PROVE SolverInv'
<1>1. PICK price : FairPrices(price) /\ SearchInv(price)
  BY DEF SolverInv
<1>2. FlowInv' /\ FairPrices(price)'
  BY <1>1, SameFlow, SamePrices DEF SolverInv, Flow!Visit
<1>3. /\ Flow!Edge' = Flow!Edge /\ \A id : Flow!Residual(id)' = Flow!Residual(id)
      /\ \A id : Flow!To(id)' = Flow!To(id) /\ From(id)' = From(id)
             /\ Flow!cost(id)' = Flow!cost(id)
  BY SameNetwork DEF Flow!Visit
<1>4. DistanceInv(price)' /\ TreeInv' /\ \E rank : Ranked(rank)'
  BY <1>1, <1>3 DEF Flow!Visit, SearchInv, DistanceInv, TreeInv, Reached, Ranked
<1>5. SolvedInv'
  BY <1>1 DEF Flow!Visit, SearchInv, SolvedInv
<1> DEFINE u == Head(queue)
<1>6. /\ queue \in Seq(Flow!Node) /\ queue # <<>> /\ inQueue \subseteq Flow!Node
      /\ \A v \in inQueue : \E i \in 1 .. Len(queue) : queue[i] = v
      /\ visiting = Flow!Idle /\ arcs \in Networks
  BY <1>1 DEF SearchInv, OpenInv, Flow!Visit, SolverInv, FlowInv
<1>7. /\ Tail(queue) \in Seq(Flow!Node) /\ Len(queue) \in Nat /\ Len(Tail(queue)) = Len(queue) - 1
      /\ \A i \in 1 .. Len(queue) - 1 : Tail(queue)[i] = queue[i + 1]
      /\ u = queue[1]
  BY <1>6, HeadTailProperties
<1>8. queue' = Tail(queue) /\ inQueue' = inQueue \ {u} /\ visiting' = Flow!adj(u)
  BY DEF Flow!Visit, Flow!Leaves
<1> HIDE DEF u
<1>9. \A v \in inQueue' : \E i \in 1 .. Len(queue') : queue'[i] = v
  <2>1. TAKE v \in inQueue'
  <2>2. PICK i \in 1 .. Len(queue) : queue[i] = v
    BY <1>6, <1>8, <2>1
  <2>3. i # 1
    BY <1>7, <1>8, <2>1, <2>2
  <2>4. i - 1 \in 1 .. Len(queue) - 1 /\ (i - 1) + 1 = i
    BY <1>7, <2>2, <2>3
  <2> QED BY <1>7, <1>8, <2>2, <2>4
<1>10. ASSUME NEW id \in Flow!Edge, Flow!Residual(id) > 0, Reached(From(id)),
              dist[From(id)] + Flow!cost(id) < dist[Flow!To(id)]
       PROVE  From(id) \in inQueue' \/ \E i \in 1 .. Len(visiting') : visiting'[i] = id
  <2>1. From(id) \in inQueue
    <3>1. From(id) \in inQueue \/ \E i \in 1 .. Len(visiting) : visiting[i] = id
      BY <1>1, <1>10 DEF SearchInv, OpenInv
    <3>2. Len(Flow!Idle) = 1 /\ Flow!Idle[1] = -1
      BY DEF Flow!Idle
    <3>3. id \in Nat
      BY <1>6, Arcs
    <3> QED BY <1>6, <3>1, <3>2, <3>3
  <2>2. From(id) = u => \E i \in 1 .. Len(visiting') : visiting'[i] = id
    BY <1>6, <1>8, Leaving
  <2> QED BY <1>8, <2>1, <2>2
<1>11. OpenInv'
  <2>1. visiting' \in Seq(Flow!Edge)
    BY <1>6, <1>8, Leaving
  <2>2. queue' \in Seq(Flow!Node) /\ inQueue' \subseteq Flow!Node
    BY <1>6, <1>7, <1>8
  <2>3. dist' = dist
    BY DEF Flow!Visit
  <2> QED BY <1>3, <1>9, <1>10, <2>1, <2>2, <2>3 DEF OpenInv, Reached
<1> QED BY <1>1, <1>2, <1>4, <1>5, <1>11 DEF SolverInv, SearchInv

LEMMA VisitedKeeps == ASSUME Flow!FlowAssumption, SolverInv, Flow!Visited PROVE SolverInv'
<1>1. PICK price : FairPrices(price) /\ SearchInv(price)
  BY DEF SolverInv
<1>2. FlowInv' /\ FairPrices(price)'
  BY <1>1, SameFlow, SamePrices DEF SolverInv, Flow!Visited
<1>3. /\ Flow!Edge' = Flow!Edge /\ \A id : Flow!Residual(id)' = Flow!Residual(id)
      /\ \A id : Flow!To(id)' = Flow!To(id) /\ From(id)' = From(id)
             /\ Flow!cost(id)' = Flow!cost(id)
  BY SameNetwork DEF Flow!Visited
<1>4. DistanceInv(price)' /\ TreeInv' /\ \E rank : Ranked(rank)'
  BY <1>1, <1>3 DEF Flow!Visited, SearchInv, DistanceInv, TreeInv, Reached, Ranked
<1>5. SolvedInv'
  BY <1>1 DEF Flow!Visited, SearchInv, SolvedInv, Flow!Idle
<1>6. OpenInv'
  BY <1>1, <1>3 DEF Flow!Visited, SearchInv, OpenInv, Reached
<1> QED BY <1>1, <1>2, <1>4, <1>5, <1>6 DEF SolverInv, SearchInv

LEMMA NoPathKeeps == ASSUME Flow!FlowAssumption, SolverInv, Flow!NoPath PROVE SolverInv'
<1>1. PICK price : FairPrices(price) /\ SearchInv(price)
  BY DEF SolverInv
<1>2. FlowInv' /\ FairPrices(price)'
  BY <1>1, SameFlow, SamePrices DEF SolverInv, Flow!NoPath
<1>3. /\ Flow!Edge' = Flow!Edge /\ \A id : Flow!Residual(id)' = Flow!Residual(id)
      /\ \A id : Flow!To(id)' = Flow!To(id) /\ From(id)' = From(id)
             /\ Flow!cost(id)' = Flow!cost(id)
  BY SameNetwork DEF Flow!NoPath
<1>4. DistanceInv(price)' /\ TreeInv' /\ OpenInv' /\ \E rank : Ranked(rank)'
  BY <1>1, <1>3 DEF Flow!NoPath, Flow!search, SearchInv, DistanceInv, TreeInv, OpenInv, Reached,
     Ranked
<1>5. SolvedInv'
  BY <1>1 DEF Flow!NoPath, Flow!Searched, Flow!search, SearchInv, SolvedInv, Reached
<1> QED BY <1>1, <1>2, <1>4, <1>5 DEF SolverInv, SearchInv

\* What hangs below a node in the tree can be moved below another.
LEMMA RankMoves ==
    ASSUME NEW rank, Ranked(rank), NEW below, NEW v \in Flow!Node, NEW u \in Flow!Node, NEW id,
           NEW moved,
           v \in below, u \notin below, From(id) = u,
           moved[v] = id, \A x \in Flow!Node \ {v} : moved[x] = prevEdge[x],
           \A x \in Flow!Node : prevEdge[x] # Flow!None => From(prevEdge[x]) \in Flow!Node,
           \A x \in Flow!Node : prevEdge[x] # Flow!None /\ From(prevEdge[x]) \in below =>
               x \in below
    PROVE  \E r \in [Flow!Node -> Nat] :
               \A x \in Flow!Node : moved[x] # Flow!None => r[From(moved[x])] < r[x]
<1> DEFINE r == [x \in Flow!Node |-> IF x \in below THEN rank[x] + rank[u] + 1 ELSE rank[x]]
<1>1. rank \in [Flow!Node -> Nat] /\ \A x \in Flow!Node : prevEdge[x] # Flow!None =>
          rank[From(prevEdge[x])] < rank[x]
  BY DEF Ranked
<1>2. /\ r \in [Flow!Node -> Nat]
      /\ \A x \in Flow!Node : r[x] = IF x \in below THEN rank[x] + rank[u] + 1 ELSE rank[x]
  BY <1>1
<1>3. \A x \in Flow!Node : rank[x] \in Nat
  BY <1>1
<1> HIDE DEF r
<1>4. r[From(id)] < r[v]
  <2>1. r[u] = rank[u] /\ r[v] = rank[v] + rank[u] + 1 /\ rank[u] \in Nat /\ rank[v] \in Nat
    BY <1>2, <1>3
  <2> QED BY <2>1
<1>5. ASSUME NEW x \in Flow!Node \ {v}, moved[x] # Flow!None PROVE r[From(moved[x])] < r[x]
  <2>1. moved[x] = prevEdge[x] /\ From(moved[x]) \in Flow!Node /\ rank[From(moved[x])] < rank[x]
        /\ (From(moved[x]) \in below => x \in below)
    BY <1>1, <1>5
  <2> DEFINE p == From(moved[x])
  <2>2. p \in Flow!Node /\ rank[p] < rank[x] /\ (p \in below => x \in below)
    BY <2>1
  <2> HIDE DEF p
  <2>3. rank[p] \in Nat /\ rank[x] \in Nat /\ rank[u] \in Nat
    BY <1>3, <2>2
  <2>4. r[p] < r[x]
    BY <1>2, <2>2, <2>3
  <2> QED BY <2>4 DEF p
<1> QED BY <1>2, <1>4, <1>5

LEMMA RelaxKeeps == ASSUME Flow!FlowAssumption, SolverInv, Flow!Relax PROVE SolverInv'
<1>1. PICK price : FairPrices(price) /\ SearchInv(price)
  BY DEF SolverInv
<1>2. FlowInv' /\ FairPrices(price)'
  BY <1>1, SameFlow, SamePrices DEF SolverInv, Flow!Relax
<1>3. /\ Flow!Edge' = Flow!Edge /\ \A id : Flow!Residual(id)' = Flow!Residual(id)
      /\ \A id : Flow!To(id)' = Flow!To(id) /\ From(id)' = From(id)
             /\ Flow!cost(id)' = Flow!cost(id)
  BY SameNetwork DEF Flow!Relax
<1>4. /\ arcs \in Networks /\ kInf \in Nat \ {0} /\ Flow!source \in Flow!Node
      /\ Flow!None \notin Flow!Edge
  BY Infinite, Arcs DEF SolverInv, FlowInv, Flow!None
<1> DEFINE id == Head(visiting)
           u == From(id)
           v == Flow!To(id)
           nd == dist[u] + Flow!cost(id)
           shorter == Flow!Residual(id) > 0 /\ dist[u] # kInf /\ nd < dist[v]
           enters == shorter /\ v \notin inQueue
<1>5. /\ dist' = (IF shorter THEN [dist EXCEPT ![v] = nd] ELSE dist)
      /\ prevEdge' = (IF shorter THEN [prevEdge EXCEPT ![v] = id] ELSE prevEdge)
      /\ queue' = (IF enters THEN Append(queue, v) ELSE queue)
      /\ inQueue' = (IF enters THEN inQueue \cup {v} ELSE inQueue)
      /\ visiting' = Tail(visiting) /\ visiting \notin {Flow!Idle, <<>>} /\ UNCHANGED solved
  BY DEF Flow!Relax, From
<1>6. /\ visiting \in Seq(Flow!Edge) /\ visiting # <<>> /\ visiting # Flow!Idle
      /\ queue \in Seq(Flow!Node) /\ inQueue \subseteq Flow!Node
      /\ \A x \in inQueue : \E i \in 1 .. Len(queue) : queue[i] = x
      /\ \A e \in Flow!Edge :
             Flow!Residual(e) > 0 /\ Reached(From(e))
                 /\ dist[From(e)] + Flow!cost(e) < dist[Flow!To(e)] =>
              From(e) \in inQueue \/ \E i \in 1 .. Len(visiting) : visiting[i] = e
  BY <1>1, <1>5 DEF SearchInv, OpenInv
<1>7. id \in Flow!Edge /\ u \in Flow!Node /\ v \in Flow!Node /\ Flow!cost(id) \in Int
  <2>1. id \in Flow!Edge
    BY <1>6, HeadTailProperties
  <2> HIDE DEF id
  <2> QED BY <1>4, <2>1, Twins
<1>8. /\ visiting' \in Seq(Flow!Edge) /\ Len(visiting) \in Nat /\ Len(visiting') = Len(visiting) - 1
      /\ \A i \in 1 .. Len(visiting) - 1 : visiting'[i] = visiting[i + 1]
      /\ id = visiting[1]
  BY <1>5, <1>6, HeadTailProperties
<1> HIDE DEF id
<1>9. /\ dist \in [Flow!Node -> Int] /\ \A x \in Flow!Node : dist[x] <= kInf
      /\ dist[Flow!source] = 0 /\ \A x \in Flow!Node : Reached(x) =>
             price[x] <= dist[x] + price[Flow!source]
      /\ price \in [Flow!Node -> Int] /\ prevEdge \in [Flow!Node -> Flow!Edge \cup {Flow!None}]
      /\ \A e \in Flow!Edge : Flow!Residual(e) > 0 =>
             price[Flow!To(e)] <= price[From(e)] + Flow!cost(e)
  BY <1>1 DEF SearchInv, DistanceInv, FairPrices, TreeInv
<1>10. /\ dist[u] \in Int /\ dist[v] \in Int /\ price[u] \in Int /\ price[v] \in Int
       /\ price[Flow!source] \in Int
       /\ nd \in Int
  BY <1>4, <1>7, <1>9
<1>11. shorter => /\ nd < dist[v] /\ nd # kInf /\ price[v] <= nd + price[Flow!source] /\ v # Flow!source /\ u # v
                  /\ nd - price[v] >= dist[u] - price[u] /\ Reached(u)
  <2>1. SUFFICES ASSUME shorter
                 PROVE  /\ nd < dist[v] /\ nd # kInf /\ price[v] <= nd + price[Flow!source]
                               /\ v # Flow!source
                        /\ u # v /\ nd - price[v] >= dist[u] - price[u] /\ Reached(u)
    OBVIOUS
  <2>2. /\ Reached(u) /\ price[u] <= dist[u] + price[Flow!source]
        /\ price[v] <= price[u] + Flow!cost(id) /\ dist[v] <= kInf
    BY <1>7, <1>9, <2>1 DEF Reached
  <2>3. /\ nd < dist[v] /\ nd # kInf /\ price[v] <= nd + price[Flow!source]
        /\ nd - price[v] >= dist[u] - price[u]
    BY <1>4, <1>7, <1>10, <2>1, <2>2
  <2>4. v # Flow!source
    <3>1. v = Flow!source => price[v] = price[Flow!source] /\ dist[v] = 0
      BY <1>9
    <3> HIDE DEF v, u, nd
    <3> QED BY <1>10, <2>3, <3>1
  <2>5. u # v
    <3>1. u = v => dist[u] = dist[v] /\ price[u] = price[v]
      OBVIOUS
    <3> HIDE DEF v, u, nd
    <3> QED BY <1>10, <2>3, <3>1
  <2> QED BY <2>2, <2>3, <2>4, <2>5
<1>12. /\ dist' \in [Flow!Node -> Int]
       /\ \A x \in Flow!Node : dist'[x] = IF shorter /\ x = v THEN nd ELSE dist[x]
       /\ prevEdge' \in [Flow!Node -> Flow!Edge \cup {Flow!None}]
       /\ \A x \in Flow!Node : prevEdge'[x] = IF shorter /\ x = v THEN id ELSE prevEdge[x]
  <2> HIDE DEF u, v, nd
  <2> QED BY <1>5, <1>7, <1>9, <1>10
<1>13. \A x \in Flow!Node : dist'[x] # kInf <=> Reached(x) \/ (shorter /\ x = v)
  <2> HIDE DEF u, v, nd
  <2> QED BY <1>11, <1>12 DEF Reached
<1>14. DistanceInv(price)'
  <2>1. \A x \in Flow!Node : dist'[x] <= kInf
    <3> HIDE DEF u, v, nd, shorter
    <3> QED BY <1>4, <1>7, <1>9, <1>10, <1>11, <1>12
  <2>2. dist'[Flow!source] = 0
    BY <1>4, <1>9, <1>11, <1>12
  <2>3. \A x \in Flow!Node : dist'[x] # kInf => price[x] <= dist'[x] + price[Flow!source]
    <3> HIDE DEF u, v, nd, shorter
    <3> QED BY <1>9, <1>11, <1>12, <1>13
  <2> QED BY <1>12, <2>1, <2>2, <2>3 DEF DistanceInv, Reached
<1>15. TreeInv /\ \A e \in Flow!Edge :
           From(e) \in Flow!Node /\ Flow!To(e) \in Flow!Node /\ Flow!cost(e) \in Int
  BY <1>1, <1>4, Twins DEF SearchInv
<1>16. \A x \in Flow!Node : dist'[x] <= dist[x] /\ dist'[x] \in Int /\ dist[x] \in Int
  <2> HIDE DEF u, v, nd, shorter
  <2>1. \A x \in Flow!Node : dist[x] \in Int /\ dist'[x] \in Int
    BY <1>9, <1>12
  <2> QED BY <1>10, <1>11, <1>12, <2>1
<1>17. TreeInv'
  <2> HIDE DEF u, v, nd, shorter
  <2>1. prevEdge'[Flow!source] = Flow!None
    BY <1>4, <1>11, <1>12, <1>15 DEF TreeInv
  <2>2. \A x \in Flow!Node \ {Flow!source} : prevEdge'[x] = Flow!None <=> ~(dist'[x] # kInf)
    BY <1>4, <1>7, <1>12, <1>13, <1>15 DEF TreeInv
  <2>3. ASSUME NEW x \in Flow!Node, prevEdge'[x] # Flow!None
        PROVE  /\ Flow!To(prevEdge'[x]) = x /\ Flow!Residual(prevEdge'[x]) > 0
                      /\ dist'[From(prevEdge'[x])] # kInf
               /\ dist'[From(prevEdge'[x])] + Flow!cost(prevEdge'[x]) <= dist'[x]
    <3>1. CASE shorter /\ x = v
      <4>1. /\ prevEdge'[x] = id /\ dist'[x] = nd /\ Flow!To(id) = x /\ From(id) = u
            /\ Flow!Residual(id) > 0
        BY <1>12, <3>1 DEF u, v, shorter
      <4>2. dist'[u] = dist[u] /\ dist'[u] # kInf
        BY <1>7, <1>11, <1>12, <1>13, <3>1
      <4> QED BY <1>7, <1>10, <4>1, <4>2 DEF nd
    <3>2. CASE ~(shorter /\ x = v)
      <4>1. /\ prevEdge'[x] = prevEdge[x] /\ dist'[x] = dist[x] /\ prevEdge[x] # Flow!None
            /\ prevEdge[x] \in Flow!Edge
        BY <1>12, <2>3, <3>2, <1>15 DEF TreeInv
      <4> DEFINE e == prevEdge[x]
      <4>2. /\ Flow!To(e) = x /\ Flow!Residual(e) > 0 /\ Reached(From(e))
            /\ dist[From(e)] + Flow!cost(e) <= dist[x]
            /\ e \in Flow!Edge
        BY <1>15, <4>1 DEF TreeInv
      <4> HIDE DEF e
      <4>3. From(e) \in Flow!Node /\ Flow!cost(e) \in Int
        BY <1>15, <4>2
      <4>4. /\ dist'[From(e)] <= dist[From(e)] /\ dist'[From(e)] \in Int
            /\ dist[From(e)] \in Int /\ dist[x] \in Int
        BY <1>16, <4>3
      <4>5. dist'[From(e)] + Flow!cost(e) <= dist[x]
        BY <4>2, <4>3, <4>4
      <4>6. dist'[From(e)] # kInf
        BY <1>13, <4>2, <4>3
      <4> QED BY <4>1, <4>2, <4>5, <4>6 DEF e
    <3> QED BY <3>1, <3>2
  <2>4. /\ \A e : Flow!To(e)' = Flow!To(e) /\ From(e)' = From(e) /\ Flow!cost(e)' = Flow!cost(e)
               /\ Flow!Residual(e)' = Flow!Residual(e)
        /\ Flow!Edge' = Flow!Edge
    BY <1>3
  <2> QED BY <1>12, <2>1, <2>2, <2>3, <2>4 DEF TreeInv, Reached
<1>18. OpenInv'
  <2> HIDE DEF u, v, nd
  <2>1. queue' \in Seq(Flow!Node) /\ inQueue' \subseteq Flow!Node /\ \A x \in inQueue' :
            \E i \in 1 .. Len(queue') : queue'[i] = x
    <3>1. CASE enters
      <4>1. /\ queue' \in Seq(Flow!Node) /\ Len(queue') = Len(queue) + 1 /\ Len(queue) \in Nat
            /\ queue'[Len(queue) + 1] = v
            /\ \A i \in 1 .. Len(queue) : queue'[i] = queue[i]
        <5>1. queue' = Append(queue, v) /\ queue \in Seq(Flow!Node) /\ v \in Flow!Node
          BY <1>5, <1>6, <1>7, <3>1
        <5> QED BY ONLY <5>1, AppendProperties, LenProperties
      <4>2. inQueue' = inQueue \cup {v}
        BY <1>5, <3>1
      <4>3. \A x \in inQueue : \E i \in 1 .. Len(queue') : queue'[i] = x
        <5>1. TAKE x \in inQueue
        <5>2. PICK i \in 1 .. Len(queue) : queue[i] = x
          BY <1>6, <5>1
        <5>3. i \in 1 .. Len(queue') /\ queue'[i] = x
          BY <4>1, <5>2
        <5> QED BY <5>3
      <4>4. Len(queue) + 1 \in 1 .. Len(queue')
        BY <4>1
      <4> QED BY <1>6, <1>7, <4>1, <4>2, <4>3, <4>4
    <3>2. CASE ~enters
      <4>1. queue' = queue /\ inQueue' = inQueue
        BY <1>5, <3>2
      <4> QED BY <1>6, <4>1
    <3> QED BY <3>1, <3>2
  <2>2. shorter => v \in inQueue'
    BY <1>5
  <2>3. inQueue \subseteq inQueue'
    BY <1>5
  <2> HIDE DEF enters
  <2>4. ASSUME NEW e \in Flow!Edge, Flow!Residual(e) > 0, dist'[From(e)] # kInf,
               dist'[From(e)] + Flow!cost(e) < dist'[Flow!To(e)]
        PROVE  From(e) \in inQueue' \/ \E i \in 1 .. Len(visiting') : visiting'[i] = e
    <3>1. CASE shorter /\ From(e) = v
      BY <2>2, <3>1
    <3>2. CASE ~(shorter /\ From(e) = v)
      <4>1. From(e) \in Flow!Node /\ Flow!To(e) \in Flow!Node /\ Flow!cost(e) \in Int
        BY <1>15
      <4>2. Reached(From(e)) /\ dist'[From(e)] = dist[From(e)]
        BY <1>12, <1>13, <2>4, <3>2, <4>1
      <4>3. dist[From(e)] + Flow!cost(e) < dist[Flow!To(e)]
        <5>1. /\ dist'[Flow!To(e)] <= dist[Flow!To(e)] /\ dist'[Flow!To(e)] \in Int
              /\ dist[Flow!To(e)] \in Int /\ dist[From(e)] \in Int
          BY <1>16, <4>1
        <5> QED BY <2>4, <4>1, <4>2, <5>1
      <4>4. From(e) \in inQueue \/ \E i \in 1 .. Len(visiting) : visiting[i] = e
        BY <1>6, <2>4, <4>2, <4>3
      <4>5. e # id
        <5>1. ASSUME e = id PROVE FALSE
          <6>1. From(e) = u /\ Flow!To(e) = v
            BY <5>1 DEF u, v
          <6>2. shorter
            BY <2>4, <4>2, <4>3, <5>1, <6>1 DEF Reached, nd
          <6>3. dist'[v] = nd /\ dist'[u] = dist[u]
            BY <1>7, <1>11, <1>12, <6>2
          <6>4. dist'[u] + Flow!cost(id) < dist'[v]
            BY <2>4, <5>1, <6>1
          <6> QED BY <1>7, <1>10, <6>3, <6>4 DEF nd
        <5> QED BY <5>1
      <4>6. ASSUME NEW i \in 1 .. Len(visiting), visiting[i] = e
            PROVE  \E j \in 1 .. Len(visiting') : visiting'[j] = e
        <5>1. i # 1
          BY <1>8, <4>5, <4>6
        <5>2. i - 1 \in 1 .. Len(visiting) - 1 /\ (i - 1) + 1 = i
          BY <1>8, <5>1
        <5> QED BY <1>8, <4>6, <5>2
      <4> QED BY <2>3, <4>4, <4>6
    <3> QED BY <3>1, <3>2
  <2> QED BY <1>3, <1>8, <2>1, <2>4 DEF OpenInv, Reached
<1>19. SolvedInv'
  BY <1>1, <1>5 DEF SearchInv, SolvedInv
<1>20. \E rank : Ranked(rank)'
  <2>1. PICK rank : Ranked(rank)
    BY <1>1 DEF SearchInv
  <2>2. CASE ~shorter
    <3>1. prevEdge' = prevEdge
      BY <1>5, <2>2
    <3>2. Ranked(rank)'
      BY <1>3, <2>1, <3>1 DEF Ranked
    <3> QED BY <3>2
  <2>3. CASE shorter
    <3> HIDE DEF nd
    <3> DEFINE below == IF Reached(v)
                        THEN {x \in Flow!Node : Reached(x) /\ dist[x] - price[x] >= dist[v] - price[v]}
                        ELSE {v}
    <3> HIDE DEF u, v, shorter
    <3>1. v \in below
      BY <1>7, <1>10
    <3>2. u \notin below
      <4>1. dist[u] - price[u] < dist[v] - price[v] /\ u # v
        BY <1>7, <1>10, <1>11, <2>3
      <4> QED BY <1>10, <4>1
    <3>3. \A x \in Flow!Node : prevEdge[x] # Flow!None => From(prevEdge[x]) \in Flow!Node
      BY <1>9, <1>15
    <3>4. ASSUME NEW x \in Flow!Node, prevEdge[x] # Flow!None, From(prevEdge[x]) \in below
          PROVE x \in below
      <4> DEFINE e == prevEdge[x]
      <4>1. /\ e \in Flow!Edge /\ Flow!To(e) = x /\ Flow!Residual(e) > 0 /\ Reached(From(e))
            /\ dist[From(e)] + Flow!cost(e) <= dist[x] /\ From(e) \in below
        BY <1>15, <3>4 DEF TreeInv
      <4>2. x # Flow!source /\ Reached(x)
        BY <1>15, <3>4 DEF TreeInv
      <4> HIDE DEF e
      <4>3. Reached(v) /\ dist[From(e)] - price[From(e)] >= dist[v] - price[v]
        <5>1. Reached(v)
          <6>1. ~Reached(v) => From(e) = v
            BY <4>1
          <6> QED BY <4>1, <6>1
        <5> QED BY <4>1, <5>1
      <4>4. /\ From(e) \in Flow!Node /\ Flow!cost(e) \in Int
            /\ price[x] <= price[From(e)] + Flow!cost(e)
        BY <1>9, <1>15, <4>1
      <4>5. /\ dist[From(e)] \in Int /\ price[From(e)] \in Int /\ dist[x] \in Int
            /\ price[x] \in Int
            /\ dist[v] \in Int /\ price[v] \in Int
        BY <1>9, <1>10, <4>4
      <4>6. dist[x] - price[x] >= dist[v] - price[v]
        BY <4>1, <4>3, <4>4, <4>5
      <4> QED BY <4>2, <4>3, <4>6
    <3> HIDE DEF below
    <3>5. From(id) = u /\ prevEdge'[v] = id /\ \A x \in Flow!Node \ {v} : prevEdge'[x] = prevEdge[x]
      BY <1>7, <1>12, <2>3 DEF u
    <3>6. \E r \in [Flow!Node -> Nat] : \A x \in Flow!Node : prevEdge'[x] # Flow!None =>
              r[From(prevEdge'[x])] < r[x]
      BY <1>7, <2>1, <3>1, <3>2, <3>3, <3>4, <3>5, RankMoves
    <3>7. PICK r \in [Flow!Node -> Nat] : \A x \in Flow!Node : prevEdge'[x] # Flow!None =>
              r[From(prevEdge'[x])] < r[x]
      BY <3>6
    <3>8. Ranked(r)'
      BY <1>3, <3>7 DEF Ranked
    <3> QED BY <3>8
  <2> QED BY <2>2, <2>3
<1> QED BY <1>1, <1>2, <1>14, <1>17, <1>18, <1>19, <1>20 DEF SolverInv, SearchInv

\* When nothing is left to look at, the distances are final and tight in the tree.
LEMMA SearchSettled ==
    ASSUME Flow!FlowAssumption, FlowInv, NEW price, SearchInv(price), visiting = Flow!Idle,
           queue = <<>>
    PROVE  /\ \A id \in Flow!Edge : Flow!Residual(id) > 0 /\ Reached(From(id)) =>
                  dist[Flow!To(id)] <= dist[From(id)] + Flow!cost(id)
           /\ \A v \in Flow!Node : prevEdge[v] # Flow!None =>
                  dist[v] = dist[From(prevEdge[v])] + Flow!cost(prevEdge[v])
<1>1. /\ arcs \in Networks /\ inQueue = {} /\ \A id \in Flow!Edge : id # -1
  <2>1. arcs \in Networks /\ \A v \in inQueue : \E i \in 1 .. Len(queue) : queue[i] = v
    BY DEF FlowInv, SearchInv, OpenInv
  <2>2. Len(queue) = 0
    OBVIOUS
  <2>3. \A id \in Flow!Edge : id # -1
    BY <2>1, Arcs
  <2> QED BY <2>1, <2>2, <2>3
<1>2. \A id \in Flow!Edge : ~\E i \in 1 .. Len(visiting) : visiting[i] = id
  <2>1. Len(visiting) = 1 /\ visiting[1] = -1
    BY DEF Flow!Idle
  <2> QED BY <1>1, <2>1
<1>3. dist \in [Flow!Node -> Int]
  BY DEF SearchInv, DistanceInv
<1>4. ASSUME NEW id \in Flow!Edge, Flow!Residual(id) > 0, Reached(From(id))
      PROVE  dist[Flow!To(id)] <= dist[From(id)] + Flow!cost(id)
  <2>1. ~(dist[From(id)] + Flow!cost(id) < dist[Flow!To(id)])
    BY <1>1, <1>2, <1>4 DEF SearchInv, OpenInv
  <2>2. From(id) \in Flow!Node /\ Flow!To(id) \in Flow!Node /\ Flow!cost(id) \in Int
    BY <1>1, Twins
  <2> QED BY <1>3, <2>1, <2>2
<1>5. ASSUME NEW v \in Flow!Node, prevEdge[v] # Flow!None
      PROVE  dist[v] = dist[From(prevEdge[v])] + Flow!cost(prevEdge[v])
  <2> DEFINE e == prevEdge[v]
  <2>1. /\ e \in Flow!Edge /\ Flow!To(e) = v /\ Flow!Residual(e) > 0 /\ Reached(From(e))
        /\ dist[From(e)] + Flow!cost(e) <= dist[v]
    BY <1>5 DEF SearchInv, TreeInv
  <2> HIDE DEF e
  <2>2. dist[v] <= dist[From(e)] + Flow!cost(e)
    BY <1>4, <2>1
  <2>3. From(e) \in Flow!Node /\ Flow!cost(e) \in Int
    BY <1>1, <2>1, Twins
  <2> QED BY <1>3, <2>1, <2>2, <2>3 DEF e
<1> QED BY <1>4, <1>5

-----------------------------------------------------------------------------
(* The path to a node, and the flow along it *)

ClosedUp(S) == \A y \in S : prevEdge[y] # Flow!None => From(prevEdge[y]) \in S

\* v, what it was reached by, and so on.
Ancestors(v) == {x \in Flow!Node : \A S \in SUBSET Flow!Node : v \in S /\ ClosedUp(S) => x \in S}

LEMMA AncestorsAre ==
    ASSUME Flow!FlowAssumption, arcs \in Networks, TreeInv, NEW v \in Flow!Node
    PROVE  Ancestors(v) =
        {v} \cup (IF prevEdge[v] = Flow!None THEN {} ELSE Ancestors(From(prevEdge[v])))
<1>1. \A y \in Flow!Node : prevEdge[y] # Flow!None => From(prevEdge[y]) \in Flow!Node
  BY Twins DEF TreeInv
<1>2. \A w \in Flow!Node :
          w \in Ancestors(w) /\ Ancestors(w) \subseteq Flow!Node /\ ClosedUp(Ancestors(w))
  <2>1. SUFFICES ASSUME NEW w \in Flow!Node, NEW y \in Ancestors(w), prevEdge[y] # Flow!None
                 PROVE  From(prevEdge[y]) \in Ancestors(w)
    BY DEF Ancestors, ClosedUp
  <2>2. y \in Flow!Node /\ \A S \in SUBSET Flow!Node : w \in S /\ ClosedUp(S) => y \in S
    BY <2>1 DEF Ancestors
  <2>3. \A S \in SUBSET Flow!Node : w \in S /\ ClosedUp(S) => From(prevEdge[y]) \in S
    BY <2>1, <2>2 DEF ClosedUp
  <2> QED BY <1>1, <2>1, <2>2, <2>3 DEF Ancestors
<1>3. CASE prevEdge[v] = Flow!None
  <2>1. {v} \in SUBSET Flow!Node /\ ClosedUp({v})
    BY <1>3 DEF ClosedUp
  <2>2. Ancestors(v) \subseteq {v}
    BY <2>1 DEF Ancestors
  <2> QED BY <1>2, <1>3, <2>2
<1>4. CASE prevEdge[v] # Flow!None
  <2> DEFINE p == From(prevEdge[v])
             A == {v} \cup Ancestors(p)
  <2>1. p \in Flow!Node
    BY <1>1, <1>4
  <2>2. A \in SUBSET Flow!Node /\ v \in A /\ ClosedUp(A)
    <3>1. Ancestors(p) \subseteq Flow!Node /\ ClosedUp(Ancestors(p)) /\ p \in Ancestors(p)
      BY <1>2, <2>1
    <3> QED BY <3>1 DEF ClosedUp
  <2>3. Ancestors(v) \subseteq A
    <3> HIDE DEF A
    <3> QED BY <2>2 DEF Ancestors
  <2>4. Ancestors(p) \subseteq Ancestors(v)
    <3>1. \A S \in SUBSET Flow!Node : v \in S /\ ClosedUp(S) => p \in S
      BY <1>4 DEF ClosedUp
    <3> HIDE DEF p
    <3> QED BY <2>1, <3>1 DEF Ancestors
  <2> QED BY <1>2, <1>4, <2>3, <2>4
<1> QED BY <1>3, <1>4

LEMMA PathIs ==
    ASSUME Flow!FlowAssumption, arcs \in Networks, TreeInv
    PROVE  \A v \in Flow!Node : Flow!PathTo[v] =
               IF v = Flow!source \/ prevEdge[v] = Flow!None THEN {}
               ELSE {prevEdge[v]} \cup Flow!PathTo[From(prevEdge[v])]
<1> DEFINE Goes(q) == q = [v \in Flow!Node |->
               IF v = Flow!source \/ prevEdge[v] = Flow!None THEN {}
               ELSE {prevEdge[v]} \cup q[Flow!To(Flow!Twin(prevEdge[v]))]]
           g == [v \in Flow!Node |-> {prevEdge[x] : x \in {y \in Ancestors(v) : prevEdge[y] # Flow!None}}]
<1>1. \A y \in Flow!Node : prevEdge[y] # Flow!None => From(prevEdge[y]) \in Flow!Node
  BY Twins DEF TreeInv
<1>2. ASSUME NEW v \in Flow!Node
      PROVE  g[v] = IF v = Flow!source \/ prevEdge[v] = Flow!None THEN {}
                    ELSE {prevEdge[v]} \cup g[Flow!To(Flow!Twin(prevEdge[v]))]
  <2>1. CASE prevEdge[v] = Flow!None
    <3>1. Ancestors(v) = {v}
      BY <2>1, AncestorsAre
    <3> QED BY <2>1, <3>1
  <2>2. CASE prevEdge[v] # Flow!None
    <3>1. /\ v # Flow!source /\ From(prevEdge[v]) \in Flow!Node
          /\ From(prevEdge[v]) = Flow!To(Flow!Twin(prevEdge[v]))
      BY <1>1, <2>2 DEF TreeInv, From
    <3>2. Ancestors(v) = {v} \cup Ancestors(From(prevEdge[v]))
      BY <2>2, AncestorsAre
    <3>3. g[v] = {prevEdge[v]} \cup g[From(prevEdge[v])]
      BY <2>2, <3>1, <3>2
    <3> QED BY <2>2, <3>1, <3>3
  <2> QED BY <2>1, <2>2
<1>3. Goes(g)
  <2> DEFINE T(q, v) == IF v = Flow!source \/ prevEdge[v] = Flow!None THEN {}
                        ELSE {prevEdge[v]} \cup q[Flow!To(Flow!Twin(prevEdge[v]))]
  <2>1. g = [v \in Flow!Node |-> g[v]]
    OBVIOUS
  <2>2. \A v \in Flow!Node : g[v] = T(g, v)
    BY <1>2
  <2> HIDE DEF g
  <2>3. g = [v \in Flow!Node |-> T(g, v)]
    BY <2>1, <2>2
  <2> QED BY <2>3
<1>4. Flow!PathTo = CHOOSE q : Goes(q)
  BY DEF Flow!PathTo
<1>5. Goes(Flow!PathTo)
  <2> HIDE DEF Goes, g
  <2> QED BY <1>3, <1>4
<1>6. \A v \in Flow!Node : Flow!PathTo[v] =
               IF v = Flow!source \/ prevEdge[v] = Flow!None THEN {}
               ELSE {prevEdge[v]} \cup Flow!PathTo[Flow!To(Flow!Twin(prevEdge[v]))]
  <2> DEFINE table == [v \in Flow!Node |-> IF v = Flow!source \/ prevEdge[v] = Flow!None THEN {}
                                      ELSE {prevEdge[v]}
                                          \cup Flow!PathTo[Flow!To(Flow!Twin(prevEdge[v]))]]
  <2>1. \A v \in Flow!Node : table[v] = IF v = Flow!source \/ prevEdge[v] = Flow!None THEN {}
                                   ELSE {prevEdge[v]}
                                       \cup Flow!PathTo[Flow!To(Flow!Twin(prevEdge[v]))]
    BY Zenon
  <2>2. Flow!PathTo = table
    BY <1>5
  <2> HIDE DEF table
  <2> QED BY <2>1, <2>2
<1> QED BY <1>6 DEF From

\* What a set of edges carries, arc by arc.
Along(path) == [k \in 1 .. Len(arcs) |-> (IF Up(k) \in path THEN 1 ELSE 0)
                                             - (IF Down(k) \in path THEN 1 ELSE 0)]

Term(f, u, k) == (IF arcs[k].from = u THEN f[k] ELSE 0) - (IF arcs[k].to = u THEN f[k] ELSE 0)

LEMMA Terms ==
    ASSUME Flow!FlowAssumption, arcs \in Networks, NEW f \in [1 .. Len(arcs) -> Int], NEW u
    PROVE  /\ [k \in 1 .. Len(arcs) |-> Term(f, u, k)] \in [1 .. Len(arcs) -> Int]
           /\ [k \in 1 .. Len(arcs) |-> f[k] * arcs[k].cost] \in [1 .. Len(arcs) -> Int]
           /\ Flow!NetOut(f, u) = SumOf([k \in 1 .. Len(arcs) |-> Term(f, u, k)])
           /\ Flow!CostOf(f) = SumOf([k \in 1 .. Len(arcs) |-> f[k] * arcs[k].cost])
           /\ Flow!NetOut(f, u) \in Int /\ Flow!CostOf(f) \in Int
<1>1. ASSUME NEW k \in 1 .. Len(arcs) PROVE Term(f, u, k) \in Int /\ f[k] * arcs[k].cost \in Int
  <2>1. f[k] \in Int /\ arcs[k].cost \in Nat
    BY Arcs
  <2> QED BY <2>1 DEF Term
<1>2. Flow!NetOut(f, u) = SumOf([k \in 1 .. Len(arcs) |-> Term(f, u, k)])
  BY FlowLibrary DEF Flow!NetOut, Term
<1>3. Flow!CostOf(f) = SumOf([k \in 1 .. Len(arcs) |-> f[k] * arcs[k].cost])
  BY FlowLibrary DEF Flow!CostOf
<1>4. /\ [k \in 1 .. Len(arcs) |-> Term(f, u, k)] \in [1 .. Len(arcs) -> Int]
      /\ [k \in 1 .. Len(arcs) |-> f[k] * arcs[k].cost] \in [1 .. Len(arcs) -> Int]
  BY <1>1
<1>5. \A w \in [1 .. Len(arcs) -> Int] : SumOf(w) \in Int
  <2>1. Len(arcs) \in Nat
    BY Arcs
  <2>2. \A w \in [1 .. Len(arcs) -> Int] : w \in Seq(Int)
    BY <2>1
  <2> QED BY <2>2, SumInt
<1> QED BY <1>2, <1>3, <1>4, <1>5

LEMMA NetLinear ==
    ASSUME Flow!FlowAssumption, arcs \in Networks, NEW f \in [1 .. Len(arcs) -> Int],
           NEW g \in [1 .. Len(arcs) -> Int], NEW h \in [1 .. Len(arcs) -> Int], NEW c \in Int,
           \A k \in 1 .. Len(arcs) : h[k] = f[k] + c * g[k]
    PROVE  /\ \A u : Flow!NetOut(h, u) = Flow!NetOut(f, u) + c * Flow!NetOut(g, u)
           /\ Flow!CostOf(h) = Flow!CostOf(f) + c * Flow!CostOf(g)
<1> DEFINE T(x, u) == [k \in 1 .. Len(arcs) |-> Term(x, u, k)]
           C(x) == [k \in 1 .. Len(arcs) |-> x[k] * arcs[k].cost]
<1>1. Len(arcs) \in Nat /\ c \in Int
  BY Arcs
<1>2. \A u : /\ T(f, u) \in [1 .. Len(arcs) -> Int] /\ T(g, u) \in [1 .. Len(arcs) -> Int]
             /\ T(h, u) \in [1 .. Len(arcs) -> Int]
             /\ Flow!NetOut(f, u) = SumOf(T(f, u)) /\ Flow!NetOut(g, u) = SumOf(T(g, u))
             /\ Flow!NetOut(h, u) = SumOf(T(h, u))
  BY Terms
<1>3. /\ C(f) \in [1 .. Len(arcs) -> Int] /\ C(g) \in [1 .. Len(arcs) -> Int]
      /\ C(h) \in [1 .. Len(arcs) -> Int]
      /\ Flow!CostOf(f) = SumOf(C(f)) /\ Flow!CostOf(g) = SumOf(C(g))
      /\ Flow!CostOf(h) = SumOf(C(h))
  BY Terms
<1>4. ASSUME NEW u, NEW k \in 1 .. Len(arcs) PROVE T(h, u)[k] = T(f, u)[k] + c * T(g, u)[k]
  <2>1. f[k] \in Int /\ g[k] \in Int /\ h[k] = f[k] + c * g[k] /\ c * 0 = 0
        /\ c * (0 - g[k]) = 0 - c * g[k] /\ c * (g[k] - 0) = c * g[k] /\ c * (g[k] - g[k]) = 0
    OBVIOUS
  <2>2. Term(h, u, k) = Term(f, u, k) + c * Term(g, u, k)
    <3> DEFINE cg == c * g[k]
    <3>1. cg \in Int /\ c * g[k] = cg
      BY <2>1
    <3> HIDE DEF cg
    <3>2. h[k] = f[k] + cg
      BY <2>1, <3>1
    <3>3. c * Term(g, u, k) =
              (IF arcs[k].from = u THEN cg ELSE 0) - (IF arcs[k].to = u THEN cg ELSE 0)
      <4>1. CASE arcs[k].from = u /\ arcs[k].to = u
        BY <2>1, <3>1, <4>1 DEF Term
      <4>2. CASE arcs[k].from = u /\ arcs[k].to # u
        BY <2>1, <3>1, <4>2 DEF Term
      <4>3. CASE arcs[k].from # u /\ arcs[k].to = u
        BY <2>1, <3>1, <4>3 DEF Term
      <4>4. CASE arcs[k].from # u /\ arcs[k].to # u
        BY <2>1, <3>1, <4>4 DEF Term
      <4> QED BY <4>1, <4>2, <4>3, <4>4
    <3> QED BY <2>1, <3>1, <3>2, <3>3, SMTT(40) DEF Term
  <2> QED BY <2>2
<1>5. ASSUME NEW k \in 1 .. Len(arcs) PROVE C(h)[k] = C(f)[k] + c * C(g)[k]
  <2>1. f[k] \in Int /\ g[k] \in Int /\ h[k] = f[k] + c * g[k] /\ arcs[k].cost \in Int
    BY Arcs
  <2>2. \A a, b, x, y \in Int : (a + x * b) * y = a * y + x * (b * y)
    OBVIOUS
  <2>3. h[k] * arcs[k].cost = f[k] * arcs[k].cost + c * (g[k] * arcs[k].cost)
    BY <2>1, <2>2
  <2> QED BY <2>3
<1> HIDE DEF T, C
<1>6. \A u : SumOf(T(h, u)) = SumOf(T(f, u)) + c * SumOf(T(g, u))
  <2>1. TAKE u
  <2>2. /\ T(f, u) \in [1 .. Len(arcs) -> Int] /\ T(g, u) \in [1 .. Len(arcs) -> Int]
        /\ T(h, u) \in [1 .. Len(arcs) -> Int]
        /\ \A k \in 1 .. Len(arcs) : T(h, u)[k] = T(f, u)[k] + c * T(g, u)[k]
    BY <1>2, <1>4
  <2> DEFINE tf == T(f, u)
             tg == T(g, u)
             th == T(h, u)
             n == Len(arcs)
  <2>3. /\ n \in Nat /\ c \in Int /\ tf \in [1 .. n -> Int] /\ tg \in [1 .. n -> Int]
        /\ th \in [1 .. n -> Int] /\ \A k \in 1 .. n : th[k] = tf[k] + c * tg[k]
    BY <1>1, <2>2
  <2> HIDE DEF tf, tg, th, n
  <2>4. SumOf(th) = SumOf(tf) + c * SumOf(tg)
    BY ONLY <2>3, SumLinear
  <2> QED BY <2>4 DEF tf, tg, th
<1>7. SumOf(C(h)) = SumOf(C(f)) + c * SumOf(C(g))
  <2>1. \A k \in 1 .. Len(arcs) : C(h)[k] = C(f)[k] + c * C(g)[k]
    BY <1>5
  <2> DEFINE tf == C(f)
             tg == C(g)
             th == C(h)
             n == Len(arcs)
  <2>3. /\ n \in Nat /\ c \in Int /\ tf \in [1 .. n -> Int] /\ tg \in [1 .. n -> Int]
        /\ th \in [1 .. n -> Int] /\ \A k \in 1 .. n : th[k] = tf[k] + c * tg[k]
    BY <1>1, <1>3, <2>1
  <2> HIDE DEF tf, tg, th, n
  <2>4. SumOf(th) = SumOf(tf) + c * SumOf(tg)
    BY ONLY <2>3, SumLinear
  <2> QED BY <2>4 DEF tf, tg, th
<1> QED BY <1>2, <1>3, <1>6, <1>7

LEMMA EdgeFlow ==
    ASSUME Flow!FlowAssumption, arcs \in Networks, NEW e \in Flow!Edge
    PROVE  /\ Along({e}) \in [1 .. Len(arcs) -> Int]
           /\ \A u : Flow!NetOut(Along({e}), u) =
                  (IF From(e) = u THEN 1 ELSE 0) - (IF Flow!To(e) = u THEN 1 ELSE 0)
           /\ Flow!CostOf(Along({e})) = Flow!cost(e)
<1>1. PICK j \in 1 .. Len(arcs) : e = Up(j) \/ e = Down(j)
  BY Twins
<1> DEFINE f == Along({e})
<1>2. f \in [1 .. Len(arcs) -> Int] /\ Len(arcs) \in Nat
  BY Arcs DEF Along
<1>3. \A k \in 1 .. Len(arcs) : k # j => f[k] = 0
  <2>1. TAKE k \in 1 .. Len(arcs)
  <2>2. j \in Int /\ k \in Int
    BY <1>1
  <2>3. k # j => Up(k) # e /\ Down(k) # e
    BY <1>1, <2>2, UpAndDown
  <2> QED BY <2>3 DEF Along
<1>4. f[j] = IF e = Up(j) THEN 1 ELSE -1
  <2>1. Up(j) # Down(j)
    <3>1. j \in Int
      BY <1>1
    <3> QED BY <3>1, UpAndDown
  <2>2. f[j] = (IF Up(j) = e THEN 1 ELSE 0) - (IF Down(j) = e THEN 1 ELSE 0)
    BY <1>1 DEF Along
  <2>3. CASE e = Up(j)
    <3>1. Down(j) # e /\ Up(j) = e
      BY <2>1, <2>3
    <3> QED BY <2>2, <3>1
  <2>4. CASE e # Up(j)
    <3>1. Down(j) = e
      BY <1>1, <2>4
    <3> QED BY <2>2, <2>4, <3>1
  <2> QED BY <2>3, <2>4
<1> HIDE DEF f
<1>5. \A u : Flow!NetOut(f, u) = Term(f, u, j)
  <2>1. TAKE u
  <2> DEFINE t == [k \in 1 .. Len(arcs) |-> Term(f, u, k)]
  <2>2. t \in [1 .. Len(arcs) -> Int] /\ Flow!NetOut(f, u) = SumOf(t)
    BY <1>2, Terms
  <2>3. t[j] = Term(f, u, j) /\ \A k \in 1 .. Len(arcs) : k # j => t[k] = 0
    <3>1. \A k \in 1 .. Len(arcs) : k # j => Term(f, u, k) = 0
      BY <1>3 DEF Term
    <3> QED BY <1>1, <3>1
  <2> HIDE DEF t
  <2>4. SumOf(t) = t[j]
    BY <1>1, <1>2, <2>2, <2>3, SumSpike
  <2> QED BY <2>2, <2>3, <2>4
<1>6. Flow!CostOf(f) = f[j] * arcs[j].cost
  <2> DEFINE t == [k \in 1 .. Len(arcs) |-> f[k] * arcs[k].cost]
  <2>1. t \in [1 .. Len(arcs) -> Int] /\ Flow!CostOf(f) = SumOf(t)
    BY <1>2, Terms
  <2>2. t[j] = f[j] * arcs[j].cost /\ \A k \in 1 .. Len(arcs) : k # j => t[k] = 0
    <3>1. \A k \in 1 .. Len(arcs) : k # j => f[k] * arcs[k].cost = 0
      <4>1. \A k \in 1 .. Len(arcs) : arcs[k].cost \in Nat
        BY Arcs
      <4> QED BY <1>3, <4>1
    <3> QED BY <1>1, <3>1
  <2> HIDE DEF t
  <2>3. SumOf(t) = t[j]
    BY <1>1, <1>2, <2>1, <2>2, SumSpike
  <2> QED BY <2>1, <2>2, <2>3
<1>7. arcs[j].cost \in Nat /\ j \in Int
  BY <1>1, Arcs
<1>8. CASE e = Up(j)
  <2>1. f[j] = 1 /\ From(e) = arcs[j].from /\ Flow!To(e) = arcs[j].to /\ Flow!cost(e) = arcs[j].cost
    BY <1>1, <1>4, <1>8, Twins
  <2>2. f[j] * arcs[j].cost = arcs[j].cost
    BY <1>7, <2>1
  <2>3. \A u : Flow!NetOut(f, u) =
            (IF From(e) = u THEN 1 ELSE 0) - (IF Flow!To(e) = u THEN 1 ELSE 0)
    BY <1>5, <2>1 DEF Term
  <2> QED BY <1>2, <1>6, <2>1, <2>2, <2>3 DEF f
<1>9. CASE e # Up(j)
  <2>1. /\ f[j] = -1 /\ From(e) = arcs[j].to /\ Flow!To(e) = arcs[j].from
        /\ Flow!cost(e) = -arcs[j].cost
    BY <1>1, <1>4, <1>9, Twins
  <2>2. f[j] * arcs[j].cost = -arcs[j].cost
    <3>1. \A x, y \in Int : x = -1 => x * y = -y
      OBVIOUS
    <3> QED BY <1>7, <2>1, <3>1
  <2>3. \A u : Flow!NetOut(f, u) =
            (IF From(e) = u THEN 1 ELSE 0) - (IF Flow!To(e) = u THEN 1 ELSE 0)
    BY <1>5, <2>1 DEF Term
  <2>4. Flow!CostOf(f) = Flow!cost(e)
    BY <1>6, <2>1, <2>2
  <2> QED BY <1>2, <2>3, <2>4 DEF f
<1> QED BY <1>8, <1>9

\* A set of edges grows by one that is not in it, in either direction.
LEMMA AlongGrows ==
    ASSUME Flow!FlowAssumption, arcs \in Networks, NEW path, NEW e \in Flow!Edge,
           e \notin path, Flow!Twin(e) \notin path
    PROVE  /\ Along(path) \in [1 .. Len(arcs) -> Int]
           /\ \A u : Flow!NetOut(Along({e} \cup path), u) =
                  Flow!NetOut(Along(path), u) + ((IF From(e) = u THEN 1 ELSE 0) - (IF Flow!To(e) = u THEN 1 ELSE 0))
           /\ Flow!CostOf(Along({e} \cup path)) = Flow!CostOf(Along(path)) + Flow!cost(e)
<1> DEFINE f == Along(path)
           g == Along({e})
           h == Along({e} \cup path)
<1>1. /\ f \in [1 .. Len(arcs) -> Int] /\ g \in [1 .. Len(arcs) -> Int]
      /\ h \in [1 .. Len(arcs) -> Int]
  BY DEF Along
<1>2. ASSUME NEW k \in 1 .. Len(arcs) PROVE h[k] = f[k] + 1 * g[k]
  <2>1. /\ f[k] = (IF Up(k) \in path THEN 1 ELSE 0) - (IF Down(k) \in path THEN 1 ELSE 0)
        /\ g[k] = (IF Up(k) = e THEN 1 ELSE 0) - (IF Down(k) = e THEN 1 ELSE 0)
        /\ h[k] = (IF Up(k) = e \/ Up(k) \in path THEN 1 ELSE 0) - (IF Down(k) = e \/ Down(k) \in path THEN 1 ELSE 0)
    BY DEF Along
  <2>2. Up(k) = e => Up(k) \notin path /\ Down(k) \notin path /\ Down(k) # e
    BY Twins
  <2>3. Down(k) = e => Up(k) \notin path /\ Down(k) \notin path /\ Up(k) # e
    BY Twins
  <2> HIDE DEF f, g, h
  <2>4. CASE Up(k) = e
    BY <2>1, <2>2, <2>4
  <2>5. CASE Down(k) = e
    BY <2>1, <2>3, <2>5
  <2>6. CASE Up(k) # e /\ Down(k) # e
    BY <2>1, <2>6
  <2> QED BY <2>4, <2>5, <2>6
<1>3. /\ \A u : Flow!NetOut(g, u) =
             (IF From(e) = u THEN 1 ELSE 0) - (IF Flow!To(e) = u THEN 1 ELSE 0)
      /\ Flow!CostOf(g) = Flow!cost(e)
  BY EdgeFlow
<1> HIDE DEF f, g, h
<1>4. (\A u : Flow!NetOut(h, u) = Flow!NetOut(f, u) + 1 * Flow!NetOut(g, u))
          /\ Flow!CostOf(h) = Flow!CostOf(f) + 1 * Flow!CostOf(g)
  <2>1. 1 \in Int
    OBVIOUS
  <2> QED BY <1>1, <1>2, <2>1, NetLinear, ZenonT(60)
<1>5. (\A u : Flow!NetOut(g, u) \in Int) /\ Flow!CostOf(g) \in Int
  BY <1>1, Terms
<1>6. \A u : Flow!NetOut(h, u) =
          Flow!NetOut(f, u) + ((IF From(e) = u THEN 1 ELSE 0) - (IF Flow!To(e) = u THEN 1 ELSE 0))
  BY <1>3, <1>4, <1>5
<1>7. Flow!CostOf(h) = Flow!CostOf(f) + Flow!cost(e)
  BY <1>3, <1>4, <1>5
<1> QED BY <1>1, <1>6, <1>7 DEF f, g, h

LEMMA NothingAlong ==
    ASSUME Flow!FlowAssumption, arcs \in Networks
    PROVE  Flow!CostOf(Along({})) = 0 /\ \A u : Flow!NetOut(Along({}), u) = 0
<1> DEFINE f == Along({})
<1>1. f \in [1 .. Len(arcs) -> Int] /\ 1 \in Int /\ \A k \in 1 .. Len(arcs) : f[k] = f[k] + 1 * f[k]
  BY DEF Along
<1> HIDE DEF f
<1>2. Flow!CostOf(f) = Flow!CostOf(f) + 1 * Flow!CostOf(f) /\ \A u :
          Flow!NetOut(f, u) = Flow!NetOut(f, u) + 1 * Flow!NetOut(f, u)
  BY <1>1, NetLinear
<1>3. Flow!CostOf(f) \in Int /\ \A u : Flow!NetOut(f, u) \in Int
  BY <1>1, Terms
<1>4. Flow!CostOf(f) = 0
  BY ONLY <1>2, <1>3, OnlyZero, Zenon
<1>5. \A u : Flow!NetOut(f, u) = 0
  BY ONLY <1>2, <1>3, OnlyZero, Zenon
<1> QED BY <1>4, <1>5 DEF f

\* What the search tree holds of the way from the source to v.
GoodPath(rank, v, path) ==
    /\ path \subseteq Flow!Edge
    /\ \A e \in path : /\ Flow!Residual(e) > 0 /\ prevEdge[Flow!To(e)] = e /\ Flow!To(e) \in Flow!Node
                       /\ rank[Flow!To(e)] <= rank[v]
    /\ \A u : Flow!NetOut(Along(path), u) =
           (IF u = Flow!source THEN 1 ELSE 0) - (IF u = v THEN 1 ELSE 0)
    /\ Flow!CostOf(Along(path)) = dist[v]

LEMMA PathsAreGood ==
    ASSUME Flow!FlowAssumption, FlowInv, NEW price, SearchInv(price), visiting = Flow!Idle,
           queue = <<>>,
           NEW rank, Ranked(rank)
    PROVE  \A v \in Flow!Node : Reached(v) => GoodPath(rank, v, Flow!PathTo[v])
<1> DEFINE S == {n \in Nat : \A v \in Flow!Node : rank[v] < n /\ Reached(v) => GoodPath(rank, v, Flow!PathTo[v])}
<1>1. arcs \in Networks /\ TreeInv
  BY DEF FlowInv, SearchInv
<1>2. /\ \A v \in Flow!Node : rank[v] \in Nat
      /\ \A v \in Flow!Node : prevEdge[v] # Flow!None => rank[From(prevEdge[v])] < rank[v]
  BY DEF Ranked
<1>3. 0 \in S
  BY <1>2
<1>4. ASSUME NEW n \in Nat, n \in S PROVE n + 1 \in S
  <2>1. SUFFICES ASSUME NEW v \in Flow!Node, rank[v] < n + 1, Reached(v)
                 PROVE  GoodPath(rank, v, Flow!PathTo[v])
    OBVIOUS
  <2>2. Flow!PathTo[v] = IF v = Flow!source \/ prevEdge[v] = Flow!None THEN {}
                    ELSE {prevEdge[v]} \cup Flow!PathTo[From(prevEdge[v])]
    BY <1>1, PathIs
  <2>3. CASE v = Flow!source
    <3>1. Flow!PathTo[v] = {} /\ dist[v] = 0
      BY <2>2, <2>3 DEF SearchInv, DistanceInv
    <3>2. Flow!CostOf(Along({})) = 0 /\ \A u : Flow!NetOut(Along({}), u) = 0
      BY <1>1, NothingAlong
    <3> QED BY <2>3, <3>1, <3>2 DEF GoodPath
  <2>4. CASE v # Flow!source
    <3> DEFINE e == prevEdge[v]
               p == From(e)
               path == Flow!PathTo[p]
    <3>1. /\ e \in Flow!Edge /\ e # Flow!None /\ Flow!To(e) = v /\ Flow!Residual(e) > 0
          /\ Reached(p)
      BY <1>1, <2>1, <2>4 DEF TreeInv
    <3>2. /\ p \in Flow!Node /\ rank[p] < rank[v] /\ Flow!cost(e) \in Int
          /\ From(Flow!Twin(e)) = Flow!To(e) /\ Flow!Twin(e) # e
      BY <1>1, <1>2, <3>1, Twins
    <3>3. dist[v] = dist[p] + Flow!cost(e)
      BY <3>1, SearchSettled
    <3>4. Flow!PathTo[v] = {e} \cup path
      BY <2>2, <2>4, <3>1
    <3>5. prevEdge[v] = e
      OBVIOUS
    <3>6. Flow!Twin(e) # Flow!None /\ Flow!To(Flow!Twin(e)) = p
      <4>1. Flow!Twin(e) \in Flow!Edge
        BY <1>1, <3>1, Twins
      <4>2. Flow!Twin(e) # -1
        BY <1>1, <4>1, Arcs
      <4> QED BY <4>2 DEF From, Flow!None
    <3> HIDE DEF e, path
    <3>7. GoodPath(rank, p, path)
      <4>1. rank[p] < n
        <5>1. rank[p] \in Nat /\ rank[v] \in Nat
          BY <1>2, <3>2
        <5> QED BY <2>1, <3>2, <5>1
      <4> QED BY <1>4, <3>1, <3>2, <4>1 DEF path
    <3> HIDE DEF p
    <3>8. rank[p] \in Nat /\ rank[v] \in Nat
      BY <1>2, <3>2
    <3>9. e \notin path
      <4>1. e \in path => rank[v] <= rank[p]
        BY <3>1, <3>7 DEF GoodPath
      <4> QED BY <3>2, <3>8, <4>1
    <3>10. Flow!Twin(e) \notin path
      <4>1. Flow!Twin(e) \in path => prevEdge[p] = Flow!Twin(e)
        BY <3>6, <3>7 DEF GoodPath
      <4>2. Flow!Twin(e) \in path => rank[v] < rank[p]
        BY <1>2, <3>1, <3>2, <3>6, <4>1
      <4> QED BY <3>2, <3>8, <4>2
    <3>11. /\ \A u : Flow!NetOut(Along({e} \cup path), u) =
                  Flow!NetOut(Along(path), u) + ((IF From(e) = u THEN 1 ELSE 0) - (IF Flow!To(e) = u THEN 1 ELSE 0))
           /\ Flow!CostOf(Along({e} \cup path)) = Flow!CostOf(Along(path)) + Flow!cost(e)
      BY <1>1, <3>1, <3>9, <3>10, AlongGrows
    <3>12. \A u : Flow!NetOut(Along({e} \cup path), u) =
               (IF u = Flow!source THEN 1 ELSE 0) - (IF u = v THEN 1 ELSE 0)
      <4>1. TAKE u
      <4>2. Flow!NetOut(Along(path), u) =
                (IF u = Flow!source THEN 1 ELSE 0) - (IF u = p THEN 1 ELSE 0)
        BY <3>7 DEF GoodPath
      <4>3. From(e) = p /\ Flow!To(e) = v
        BY <3>1 DEF p
      <4>4. Flow!NetOut(Along({e} \cup path), u) =
                ((IF u = Flow!source THEN 1 ELSE 0) - (IF u = p THEN 1 ELSE 0))
                    + ((IF p = u THEN 1 ELSE 0) - (IF v = u THEN 1 ELSE 0))
        BY <3>11, <4>2, <4>3
      <4> QED BY <4>4
    <3>13. Flow!CostOf(Along({e} \cup path)) = dist[v]
      BY <3>3, <3>7, <3>11 DEF GoodPath
    <3>14. ASSUME NEW d \in {e} \cup path
           PROVE  /\ d \in Flow!Edge /\ Flow!Residual(d) > 0 /\ prevEdge[Flow!To(d)] = d
                         /\ Flow!To(d) \in Flow!Node
                  /\ rank[Flow!To(d)] <= rank[v]
      <4>1. CASE d = e
        BY <2>1, <3>1, <3>5, <3>8, <4>1
      <4>2. CASE d \in path
        <5>1. /\ d \in Flow!Edge /\ Flow!Residual(d) > 0 /\ prevEdge[Flow!To(d)] = d
              /\ Flow!To(d) \in Flow!Node
              /\ rank[Flow!To(d)] <= rank[p]
          BY <3>7, <4>2 DEF GoodPath
        <5>2. rank[Flow!To(d)] \in Nat
          BY <1>2, <5>1
        <5> QED BY <3>2, <3>8, <5>1, <5>2
      <4> QED BY <4>1, <4>2
    <3> QED BY <3>4, <3>12, <3>13, <3>14 DEF GoodPath
  <2> QED BY <2>3, <2>4
<1>5. \A n \in Nat : n \in S
  <2> HIDE DEF S
  <2> QED BY <1>3, <1>4, NatsFrom
<1>6. ASSUME NEW v \in Flow!Node, Reached(v) PROVE GoodPath(rank, v, Flow!PathTo[v])
  <2>1. rank[v] + 1 \in S /\ rank[v] < rank[v] + 1
    BY <1>2, <1>5
  <2> QED BY <1>6, <2>1
<1> QED BY <1>6

\* No path goes along an arc and back.
LEMMA OneWay ==
    ASSUME Flow!FlowAssumption, arcs \in Networks, NEW rank, Ranked(rank), NEW v, NEW path,
           GoodPath(rank, v, path),
           NEW e \in path
    PROVE  Flow!Twin(e) \notin path
<1>1. e \in Flow!Edge /\ prevEdge[Flow!To(e)] = e /\ Flow!To(e) \in Flow!Node
  BY DEF GoodPath
<1>2. /\ From(e) \in Flow!Node /\ From(Flow!Twin(e)) = Flow!To(e)
      /\ Flow!To(Flow!Twin(e)) = From(e) /\ Flow!Twin(e) \in Flow!Edge
  BY <1>1, Twins DEF From
<1>3. SUFFICES ASSUME Flow!Twin(e) \in path PROVE FALSE
  OBVIOUS
<1>4. prevEdge[From(e)] = Flow!Twin(e)
  BY <1>2, <1>3 DEF GoodPath
<1>5. e # Flow!None /\ Flow!Twin(e) # Flow!None
  BY <1>1, <1>2, Arcs DEF Flow!None
<1>6. rank[From(e)] < rank[Flow!To(e)] /\ rank[Flow!To(e)] < rank[From(e)]
  BY <1>1, <1>2, <1>4, <1>5 DEF Ranked
<1>7. rank[From(e)] \in Nat /\ rank[Flow!To(e)] \in Nat
  BY <1>1, <1>2 DEF Ranked
<1> QED BY <1>6, <1>7

-----------------------------------------------------------------------------
(* Flow is pushed along the path *)

LEMMA PathsCostLess ==
    ASSUME Flow!FlowAssumption, arcs \in Networks, NEW path
    PROVE  Flow!CostOf(Along(path)) < kInf
<1> DEFINE t == [k \in 1 .. Len(arcs) |-> Along(path)[k] * arcs[k].cost]
           c == [k \in 1 .. Len(arcs) |-> arcs[k].cost]
           n == Len(arcs)
<1>1. n \in Nat /\ \A k \in 1 .. n : arcs[k].cost \in Nat
  BY Arcs
<1>2. Along(path) \in [1 .. n -> Int] /\ \A k \in 1 .. n : Along(path)[k] \in {-1, 0, 1}
  BY DEF Along
<1>3. t \in [1 .. n -> Int] /\ Flow!CostOf(Along(path)) = SumOf(t)
  BY <1>2, Terms
<1>4. ASSUME NEW k \in 1 .. n PROVE t[k] <= c[k]
  <2>1. \A a \in {-1, 0, 1}, b \in Nat : a * b <= b
    <3>1. \A b \in Nat : -1 * b <= b /\ 0 * b <= b /\ 1 * b <= b
      OBVIOUS
    <3> QED BY <3>1
  <2>2. Along(path)[k] * arcs[k].cost <= arcs[k].cost
    BY <1>1, <1>2, <2>1
  <2> QED BY <2>2
<1>5. c \in [1 .. n -> Int] /\ c \in Seq(Int) /\ SumOf(c) < kInf
  BY <1>1, Arcs
<1>6. t \in Seq(Int)
  BY <1>1, <1>3
<1> HIDE DEF t, c, n
<1>7. SumOf(t) <= SumOf(c)
  BY ONLY <1>1, <1>3, <1>4, <1>5, SumAtMost
<1>8. SumOf(t) \in Int /\ SumOf(c) \in Int /\ kInf \in Int
  BY <1>5, <1>6, SumInt DEF Flow!FlowAssumption
<1> QED BY <1>3, <1>5, <1>7, <1>8

\* The search reaches all it can: no edge with room leaves what it reached.
LEMMA CutOff ==
    ASSUME Flow!FlowAssumption, FlowInv, NEW price, SearchInv(price), visiting = Flow!Idle,
           queue = <<>>,
           NEW id \in Flow!Edge, Flow!Residual(id) > 0, Reached(From(id))
    PROVE  Reached(Flow!To(id))
<1> DEFINE u == From(id)
           v == Flow!To(id)
           path == Flow!PathTo[u]
<1>1. arcs \in Networks /\ TreeInv /\ dist \in [Flow!Node -> Int]
  BY DEF FlowInv, SearchInv, DistanceInv
<1>2. u \in Flow!Node /\ v \in Flow!Node /\ Flow!cost(id) \in Int
  BY <1>1, Twins
<1>3. PICK rank : Ranked(rank)
  BY DEF SearchInv
<1>4. GoodPath(rank, u, path)
  BY <1>2, <1>3, PathsAreGood
<1>5. SUFFICES ASSUME ~Reached(v) PROVE FALSE
  OBVIOUS
<1>6. prevEdge[v] = Flow!None
  BY <1>1, <1>2, <1>5 DEF TreeInv
<1>7. /\ id # Flow!None /\ Flow!Twin(id) # Flow!None /\ Flow!To(Flow!Twin(id)) = u
      /\ From(Flow!Twin(id)) = v
  <2>1. Flow!Twin(id) \in Flow!Edge
    BY <1>1, Twins
  <2>2. id \in Nat /\ Flow!Twin(id) \in Nat /\ From(Flow!Twin(id)) = Flow!To(id)
    BY <1>1, <2>1, Arcs, Twins
  <2> QED BY <2>2 DEF Flow!None, From
<1>8. id \notin path
  <2>1. id \in path => prevEdge[v] = id
    BY <1>4 DEF GoodPath
  <2> QED BY <1>6, <1>7, <2>1
<1>9. Flow!Twin(id) \notin path
  <2>1. Flow!Twin(id) \in path => prevEdge[u] = Flow!Twin(id)
    BY <1>4, <1>7 DEF GoodPath
  <2>2. prevEdge[u] = Flow!Twin(id) => Reached(v)
    BY <1>1, <1>2, <1>7 DEF TreeInv
  <2> QED BY <1>5, <2>1, <2>2
<1>10. /\ Flow!CostOf(Along({id} \cup path)) = Flow!CostOf(Along(path)) + Flow!cost(id)
       /\ Flow!CostOf(Along(path)) = dist[u]
  BY <1>1, <1>4, <1>8, <1>9, AlongGrows DEF GoodPath
<1>11. Flow!CostOf(Along({id} \cup path)) < kInf
  BY <1>1, PathsCostLess
<1>12. dist[v] <= dist[u] + Flow!cost(id)
  BY SearchSettled
<1> HIDE DEF u, v, path
<1>13. dist[v] < kInf
  <2>1. dist[v] \in Int /\ dist[u] \in Int /\ kInf \in Int
    BY <1>1, <1>2 DEF Flow!FlowAssumption
  <2>2. dist[u] + Flow!cost(id) < kInf
    BY <1>10, <1>11
  <2> QED BY <1>2, <1>12, <2>1, <2>2
<1>14. dist[v] = kInf /\ kInf \in Int
  BY <1>5 DEF Reached, Flow!FlowAssumption
<1> QED BY <1>13, <1>14

LEMMA Pushes ==
    ASSUME Flow!FlowAssumption, FlowInv, NEW path, path \subseteq Flow!Edge,
           \A id \in path : Flow!Residual(id) > 0
    PROVE  Flow!Bottleneck(path) \in Nat \ {0} /\ \A id \in path :
        Flow!Bottleneck(path) <= Flow!Residual(id)
<1> DEFINE S == {Flow!Residual(id) : id \in path} \cup {kInf}
<1>1. arcs \in Networks /\ flow \in [Flow!Edge -> Int]
  BY DEF FlowInv
<1>2. \A id \in path : Flow!Residual(id) \in Nat \ {0}
  <2>1. \A id \in Flow!Edge : Flow!cap(id) \in Nat
    BY <1>1, Twins
  <2>2. TAKE id \in path
  <2>3. Flow!cap(id) \in Nat /\ flow[id] \in Int /\ Flow!Residual(id) > 0
    BY <1>1, <2>1
  <2> QED BY <2>3 DEF Flow!Residual
<1>3. S \subseteq Nat \ {0} /\ S # {} /\ S \subseteq Nat
  BY <1>1, <1>2, Infinite
<1>4. Flow!Bottleneck(path) = Flow!Min(S)
  BY DEF Flow!Bottleneck
<1>5. \A id \in path : Flow!Residual(id) \in S
  OBVIOUS
<1> HIDE DEF S
<1>6. \E h \in S : \A g \in S : h <= g
  BY <1>3, LeastOf
<1>7. Flow!Min(S) \in S /\ \A x \in S : Flow!Min(S) <= x
  BY <1>6 DEF Flow!Min
<1> QED BY <1>3, <1>4, <1>5, <1>7

\* What is added to the flow of an edge.
Gain(path, push, id) == IF id \in path THEN push ELSE IF Flow!Twin(id) \in path THEN -push ELSE 0

LEMMA AugmentFlow ==
    ASSUME Flow!FlowAssumption, FlowInv, NEW rank, Ranked(rank), NEW path,
           GoodPath(rank, Flow!sink, path),
           NEW push \in Nat \ {0}, \A id \in path : push <= Flow!Residual(id),
           flow' = [id \in Flow!Edge |-> flow[id] + Gain(path, push, id)],
           totalFlow' = totalFlow + push, totalCost' = totalCost + push * dist[Flow!sink], arcs' =
               arcs,
           dist[Flow!sink] \in Int
    PROVE  FlowInv'
<1>1. /\ arcs \in Networks /\ flow \in [Flow!Edge -> Int]
      /\ \A id \in Flow!Edge : flow[Flow!Twin(id)] = -flow[id] /\ Flow!Residual(id) >= 0
      /\ totalFlow \in Nat /\ totalCost \in Int /\ Flow!CostOf(Flow!Pushed) = totalCost
      /\ Flow!NetOut(Flow!Pushed, Flow!source) = totalFlow
      /\ \A u \in Flow!Node \ {Flow!source, Flow!sink} : Flow!NetOut(Flow!Pushed, u) = 0
  BY DEF FlowInv
<1>2. \A id \in Flow!Edge :
          Flow!Twin(id) \in Flow!Edge /\ Flow!Twin(Flow!Twin(id)) = id /\ Flow!cap(id) \in Nat
  BY <1>1, Twins
<1>3. \A id \in path : Flow!Twin(id) \notin path
  BY <1>1, OneWay
<1>4. \A id \in Flow!Edge :
          Gain(path, push, id) \in Int /\ Gain(path, push, Flow!Twin(id)) = -Gain(path, push, id)
  <2>1. TAKE id \in Flow!Edge
  <2>2. push \in Int /\ -push \in Int /\ -(-push) = push
    <3>1. \A m \in Nat : m \in Int /\ -m \in Int /\ -(-m) = m
      OBVIOUS
    <3> QED BY <3>1
  <2>3. CASE id \in path
    BY <1>2, <1>3, <2>2, <2>3 DEF Gain
  <2>4. CASE id \notin path
    <3>1. CASE Flow!Twin(id) \in path
      BY <1>2, <2>2, <2>4, <3>1 DEF Gain
    <3>2. CASE Flow!Twin(id) \notin path
      <4>1. Gain(path, push, id) = 0 /\ Gain(path, push, Flow!Twin(id)) = 0
        BY <1>2, <2>4, <3>2 DEF Gain
      <4>2. \A m, n \in Int : m + n = 0 => m = -n
        OBVIOUS
      <4> DEFINE a == Gain(path, push, id)
                 b == Gain(path, push, Flow!Twin(id))
      <4>3. a \in Int /\ b \in Int /\ b + a = 0
        BY <4>1
      <4> HIDE DEF a, b
      <4>4. b = -a
        BY <4>2, <4>3
      <4> QED BY <4>3, <4>4 DEF a, b
    <3> QED BY <3>1, <3>2
  <2> QED BY <2>3, <2>4
<1>5. Flow!Edge' = Flow!Edge /\ \A id :
          Flow!Twin(id)' = Flow!Twin(id) /\ Flow!cap(id)' = Flow!cap(id)
  BY DEF Flow!Edge, Flow!Twin, Flow!cap, Flow!Arc
<1>6. /\ flow' \in [Flow!Edge -> Int]
      /\ \A id \in Flow!Edge : flow'[id] = flow[id] + Gain(path, push, id)
  BY <1>1, <1>4
<1>7. ASSUME NEW id \in Flow!Edge
      PROVE  flow'[Flow!Twin(id)] = -flow'[id] /\ Flow!cap(id) - flow'[id] >= 0
  <2>1. /\ flow[id] \in Int /\ flow[Flow!Twin(id)] = -flow[id]
        /\ Flow!cap(id) - flow[id] >= 0 /\ Flow!cap(id) \in Nat
        /\ Gain(path, push, id) \in Int /\ Gain(path, push, Flow!Twin(id)) = -Gain(path, push, id)
        /\ flow'[id] = flow[id] + Gain(path, push, id)
        /\ flow'[Flow!Twin(id)] = flow[Flow!Twin(id)] + Gain(path, push, Flow!Twin(id))
    BY <1>1, <1>2, <1>4, <1>6 DEF Flow!Residual
  <2>2. Gain(path, push, id) <= Flow!cap(id) - flow[id]
    <3>1. CASE id \in path
      BY <3>1 DEF Gain, Flow!Residual
    <3>2. CASE id \notin path
      <4>1. Gain(path, push, id) <= 0
        BY <3>2 DEF Gain
      <4> QED BY <2>1, <4>1
    <3> QED BY <3>1, <3>2
  <2> QED BY <2>1, <2>2
<1> DEFINE more == [k \in 1 .. Len(arcs) |-> Flow!Pushed[k] + push * Along(path)[k]]
<1>8. /\ Flow!Pushed \in [1 .. Len(arcs) -> Int] /\ Along(path) \in [1 .. Len(arcs) -> Int]
      /\ more \in [1 .. Len(arcs) -> Int]
  <2>1. \A k \in 1 .. Len(arcs) : Up(k) \in Flow!Edge
    BY <1>1, Twins
  <2>2. Flow!Pushed \in [1 .. Len(arcs) -> Int]
    BY <1>1, <2>1 DEF Flow!Pushed, Up
  <2>3. Along(path) \in [1 .. Len(arcs) -> Int]
    BY DEF Along
  <2> HIDE DEF more
  <2>4. \A k \in 1 .. Len(arcs) : Flow!Pushed[k] + push * Along(path)[k] \in Int
    <3>1. TAKE k \in 1 .. Len(arcs)
    <3>2. Flow!Pushed[k] \in Int /\ Along(path)[k] \in Int
      BY <2>2, <2>3
    <3> QED BY <3>2
  <2> QED BY <2>2, <2>3, <2>4 DEF more
<1>9. Flow!Pushed' = more
  <2>1. ASSUME NEW k \in 1 .. Len(arcs) PROVE flow'[Up(k)] = flow[Up(k)] + push * Along(path)[k]
    <3>1. Up(k) \in Flow!Edge /\ Flow!Twin(Up(k)) = Down(k)
      BY <1>1, Twins
    <3>2. flow'[Up(k)] = flow[Up(k)] + Gain(path, push, Up(k))
      BY <1>6, <3>1
    <3>3. Along(path)[k] = (IF Up(k) \in path THEN 1 ELSE 0) - (IF Down(k) \in path THEN 1 ELSE 0)
      BY DEF Along
    <3>4. Gain(path, push, Up(k)) = push * Along(path)[k]
      <4>1. CASE Up(k) \in path
        <5>1. Down(k) \notin path
          BY <1>3, <3>1, <4>1
        <5>2. Along(path)[k] = 1 /\ push * 1 = push
          BY <3>3, <4>1, <5>1
        <5> QED BY <4>1, <5>2 DEF Gain
      <4>2. CASE Up(k) \notin path /\ Down(k) \in path
        <5>1. Along(path)[k] = -1
          BY <3>3, <4>2
        <5>2. \A x \in Int : x = -1 => push * x = -push
          OBVIOUS
        <5>3. push * Along(path)[k] = -push
          BY <5>1, <5>2
        <5>4. Gain(path, push, Up(k)) = -push
          BY <3>1, <4>2 DEF Gain
        <5> QED BY <5>3, <5>4
      <4>3. CASE Up(k) \notin path /\ Down(k) \notin path
        <5>1. Along(path)[k] = 0 /\ push * 0 = 0
          BY <3>3, <4>3
        <5>2. Gain(path, push, Up(k)) = 0
          BY <3>1, <4>3 DEF Gain
        <5> QED BY <5>1, <5>2
      <4> QED BY <4>1, <4>2, <4>3
    <3> QED BY <3>2, <3>4
  <2>2. Flow!Pushed' = [k \in 1 .. Len(arcs) |-> flow'[Up(k)]] /\ \A k \in 1 .. Len(arcs) :
            Flow!Pushed[k] = flow[Up(k)]
    BY DEF Flow!Pushed, Up
  <2> QED BY <2>1, <2>2
<1>10. (\A u : Flow!NetOut(Flow!Pushed, u)' = Flow!NetOut(more, u))
           /\ Flow!CostOf(Flow!Pushed)' = Flow!CostOf(more)
  <2> HIDE DEF more
  <2> QED BY <1>9 DEF Flow!NetOut, Flow!CostOf
<1>11. /\ \A u : Flow!NetOut(more, u) =
              Flow!NetOut(Flow!Pushed, u) + push * Flow!NetOut(Along(path), u)
       /\ Flow!CostOf(more) = Flow!CostOf(Flow!Pushed) + push * Flow!CostOf(Along(path))
  <2>1. push \in Int /\ \A k \in 1 .. Len(arcs) : more[k] = Flow!Pushed[k] + push * Along(path)[k]
    OBVIOUS
  <2> DEFINE now == Flow!Pushed
             a == Along(path)
  <2>2. /\ now \in [1 .. Len(arcs) -> Int] /\ a \in [1 .. Len(arcs) -> Int]
        /\ more \in [1 .. Len(arcs) -> Int] /\ \A k \in 1 .. Len(arcs) :
               more[k] = now[k] + push * a[k]
    BY <1>8, <2>1
  <2> HIDE DEF more, now, a
  <2>3. /\ \A u : Flow!NetOut(more, u) = Flow!NetOut(now, u) + push * Flow!NetOut(a, u)
        /\ Flow!CostOf(more) = Flow!CostOf(now) + push * Flow!CostOf(a)
    <3>1. Flow!FlowAssumption /\ arcs \in Networks /\ push \in Int
      BY <1>1, <2>1
    <3> HIDE DEF Flow!FlowAssumption
    <3> QED BY ONLY <2>2, <3>1, NetLinear, ZenonT(60)
  <2> QED BY <2>3 DEF now, a
<1> HIDE DEF more
<1>12. /\ Flow!CostOf(Along(path)) = dist[Flow!sink]
       /\ \A u : Flow!NetOut(Along(path), u) =
              (IF u = Flow!source THEN 1 ELSE 0) - (IF u = Flow!sink THEN 1 ELSE 0)
  BY DEF GoodPath
<1>13. Flow!CostOf(Flow!Pushed)' = totalCost'
  BY <1>1, <1>10, <1>11, <1>12
<1>14. Flow!source \in Flow!Node /\ Flow!sink \in Flow!Node /\ Flow!source # Flow!sink
  BY <1>1, Arcs
<1>15. Flow!NetOut(Flow!Pushed, Flow!source)' = totalFlow'
  <2>1. Flow!NetOut(Along(path), Flow!source) = 1 /\ push * 1 = push
    BY <1>12, <1>14
  <2>2. Flow!NetOut(more, Flow!source) = totalFlow + push
    BY <1>1, <1>11, <2>1
  <2>3. Flow!NetOut(Flow!Pushed, Flow!source)' = Flow!NetOut(more, Flow!source)
    BY <1>10
  <2> QED BY <2>2, <2>3
<1>16. \A u \in Flow!Node \ {Flow!source, Flow!sink} : Flow!NetOut(Flow!Pushed, u)' = 0
  <2>1. TAKE u \in Flow!Node \ {Flow!source, Flow!sink}
  <2>2. Flow!NetOut(Along(path), u) = 0 /\ push * 0 = 0
    BY <1>12
  <2>3. Flow!NetOut(more, u) = 0
    BY <1>1, <1>11, <2>2
  <2>4. Flow!NetOut(Flow!Pushed, u)' = Flow!NetOut(more, u)
    BY <1>10
  <2> QED BY <2>3, <2>4
<1>17. totalFlow' \in Nat /\ totalCost' \in Int
  <2>1. \A x, y \in Int : x * y \in Int
    OBVIOUS
  <2>2. push \in Int /\ push * dist[Flow!sink] \in Int
    BY <2>1
  <2> QED BY <1>1, <2>2
<1>18. \A id \in Flow!Edge' : flow'[Flow!Twin(id)'] = -flow'[id] /\ Flow!Residual(id)' >= 0
  BY <1>5, <1>7 DEF Flow!Residual
<1> QED BY <1>1, <1>5, <1>6, <1>13, <1>15, <1>16, <1>17, <1>18 DEF FlowInv

FreshState ==
    /\ dist = [v \in Flow!Node |-> IF v = Flow!source THEN 0 ELSE kInf]
    /\ prevEdge = [v \in Flow!Node |-> Flow!None]
    /\ queue = <<Flow!source>> /\ inQueue = {Flow!source} /\ visiting = Flow!Idle /\ solved = FALSE

FreshSearches ==
    Flow!FlowAssumption /\ arcs \in Networks /\ FreshState =>
        \A price : FairPrices(price) => SearchInv(price)

LEMMA FreshAlways == FreshSearches
BY FreshSearch DEF FreshSearches, FreshState

\* The prices after a search: the distances, and more than them where it did not
\* reach.
LEMMA NewPrices ==
    ASSUME Flow!FlowAssumption, FlowInv, NEW price, FairPrices(price), SearchInv(price),
           visiting = Flow!Idle, queue = <<>>, NEW rank, NEW path, GoodPath(rank, Flow!sink, path),
           NEW push \in Nat \ {0},
           flow' = [id \in Flow!Edge |-> flow[id] + Gain(path, push, id)], arcs' = arcs
    PROVE  \E fair : FairPrices(fair)'
<1>1. arcs \in Networks /\ TreeInv /\ dist \in [Flow!Node -> Int] /\ price \in [Flow!Node -> Int]
  BY DEF FlowInv, SearchInv, DistanceInv, FairPrices
<1>2. /\ \A id \in Flow!Edge : /\ Flow!To(id) \in Flow!Node /\ From(id) \in Flow!Node /\ Flow!cost(id) \in Int /\ Flow!Twin(id) \in Flow!Edge
                          /\ Flow!Twin(Flow!Twin(id)) = id
                          /\ Flow!cost(Flow!Twin(id)) = -Flow!cost(id)
                          /\ Flow!cap(id) \in Nat /\ From(Flow!Twin(id)) = Flow!To(id)
                          /\ Flow!To(Flow!Twin(id)) = From(id)
      /\ Len(arcs) \in Nat /\ Flow!Edge = 0 .. 2 * Len(arcs) - 1
  BY <1>1, Arcs, Twins DEF From
<1> DEFINE gap == [id \in Flow!Edge |-> dist[Flow!To(id)] - price[From(id)] - Flow!cost(id)]
<1>3. gap \in [Flow!Edge -> Int] /\ \A id \in Flow!Edge :
          gap[id] = dist[Flow!To(id)] - price[From(id)] - Flow!cost(id)
  <2>1. ASSUME NEW id \in Flow!Edge
        PROVE dist[Flow!To(id)] - price[From(id)] - Flow!cost(id) \in Int
    <3>1. dist[Flow!To(id)] \in Int /\ price[From(id)] \in Int /\ Flow!cost(id) \in Int
      BY <1>1, <1>2
    <3> QED BY <3>1
  <2> QED BY <2>1
<1> HIDE DEF gap
<1>4. PICK c \in Int : \A id \in Flow!Edge : gap[id] <= c
  <2>1. 2 * Len(arcs) \in Nat /\ gap \in [0 .. 2 * Len(arcs) - 1 -> Int]
    BY <1>2, <1>3
  <2>2. \E c \in Int : \A id \in 0 .. 2 * Len(arcs) - 1 : gap[id] <= c
    BY ONLY <2>1, Bounded
  <2> QED BY <1>2, <2>2
<1>5. PICK fair \in [Flow!Node -> Int] :
          \A v \in Flow!Node : fair[v] = IF Reached(v) THEN dist[v] ELSE price[v] + c
  <2> DEFINE new == [v \in Flow!Node |-> IF Reached(v) THEN dist[v] ELSE price[v] + c]
  <2>1. \A v \in Flow!Node : dist[v] \in Int /\ price[v] + c \in Int
    BY <1>1
  <2>2. /\ new \in [Flow!Node -> Int]
        /\ \A v \in Flow!Node : new[v] = IF Reached(v) THEN dist[v] ELSE price[v] + c
    BY <2>1
  <2> HIDE DEF new
  <2> QED BY <2>2
<1>6. ASSUME NEW id \in Flow!Edge, Flow!Residual(id) > 0
      PROVE fair[Flow!To(id)] <= fair[From(id)] + Flow!cost(id)
  <2> DEFINE u == From(id)
             v == Flow!To(id)
  <2>1. /\ u \in Flow!Node /\ v \in Flow!Node /\ Flow!cost(id) \in Int /\ dist[u] \in Int
        /\ dist[v] \in Int
        /\ price[u] \in Int /\ price[v] \in Int
    BY <1>1, <1>2
  <2>2. CASE Reached(u)
    <3>1. Reached(v) /\ dist[v] <= dist[u] + Flow!cost(id)
      BY <1>6, <2>2, CutOff, SearchSettled
    <3> QED BY <1>5, <2>1, <2>2, <3>1
  <2>3. CASE ~Reached(u) /\ Reached(v)
    <3>1. dist[v] - price[u] - Flow!cost(id) <= c
      BY <1>3, <1>4
    <3>2. fair[u] = price[u] + c /\ fair[v] = dist[v]
      BY <1>5, <2>1, <2>3
    <3> HIDE DEF u, v
    <3>3. fair[v] <= fair[u] + Flow!cost(id)
      BY <2>1, <3>1, <3>2
    <3> QED BY <3>3 DEF u, v
  <2>4. CASE ~Reached(u) /\ ~Reached(v)
    <3>1. price[v] <= price[u] + Flow!cost(id)
      BY <1>6 DEF FairPrices
    <3>2. fair[u] = price[u] + c /\ fair[v] = price[v] + c
      BY <1>5, <2>1, <2>4
    <3> HIDE DEF u, v
    <3>3. fair[v] <= fair[u] + Flow!cost(id)
      BY <2>1, <3>1, <3>2
    <3> QED BY <3>3 DEF u, v
  <2> QED BY <2>2, <2>3, <2>4
<1>7. ASSUME NEW id \in Flow!Edge, Flow!Twin(id) \in path
      PROVE fair[Flow!To(id)] <= fair[From(id)] + Flow!cost(id)
  <2> DEFINE e == Flow!Twin(id)
             u == From(id)
             v == Flow!To(id)
  <2>1. /\ e \in Flow!Edge /\ prevEdge[u] = e /\ e # Flow!None /\ u \in Flow!Node
        /\ v \in Flow!Node /\ From(e) = v
    <3>1. e \in Flow!Edge /\ From(e) = v /\ Flow!To(e) = u /\ u \in Flow!Node /\ v \in Flow!Node
      BY <1>2
    <3>2. prevEdge[Flow!To(e)] = e
      BY <1>7 DEF GoodPath
    <3>3. e # Flow!None
      BY <1>1, <3>1, Arcs DEF Flow!None
    <3> HIDE DEF e, u, v
    <3> QED BY <3>1, <3>2, <3>3
  <2>2. dist[u] = dist[v] + Flow!cost(e) /\ Flow!cost(e) = -Flow!cost(id)
    BY <1>2, <2>1, SearchSettled
  <2>3. Reached(v) /\ Reached(u)
    BY <1>1, <2>1 DEF TreeInv
  <2>4. /\ Flow!cost(id) \in Int /\ dist[u] \in Int /\ dist[v] \in Int /\ fair[u] = dist[u]
        /\ fair[v] = dist[v]
    BY <1>1, <1>2, <1>5, <2>1, <2>3
  <2> HIDE DEF e, u, v
  <2>5. fair[v] <= fair[u] + Flow!cost(id)
    BY <2>2, <2>4
  <2> QED BY <2>5 DEF u, v
<1>8. ASSUME NEW id \in Flow!Edge, Flow!cap(id) - flow'[id] > 0
      PROVE Flow!Residual(id) > 0 \/ Flow!Twin(id) \in path
  <2>1. flow'[id] = flow[id] + Gain(path, push, id)
    OBVIOUS
  <2>2. flow[id] \in Int /\ Flow!cap(id) \in Nat
    BY <1>2 DEF FlowInv
  <2>3. CASE id \in path
    BY <2>3 DEF GoodPath
  <2>4. CASE id \notin path /\ Flow!Twin(id) \notin path
    <3>1. Gain(path, push, id) = 0
      BY <2>4 DEF Gain
    <3> QED BY <1>8, <2>1, <2>2, <3>1 DEF Flow!Residual
  <2> QED BY <2>3, <2>4
<1>9. /\ Flow!Edge' = Flow!Edge
      /\ \A id : Flow!To(id)' = Flow!To(id) /\ From(id)' = From(id)
             /\ Flow!cost(id)' = Flow!cost(id) /\ Flow!cap(id)' = Flow!cap(id)
  BY DEF Flow!Edge, Flow!To, From, Flow!cost, Flow!cap, Flow!Arc
<1>10. \A id \in Flow!Edge : Flow!Residual(id)' > 0 =>
           fair[Flow!To(id)'] <= fair[From(id)'] + Flow!cost(id)'
  BY <1>6, <1>7, <1>8, <1>9 DEF Flow!Residual
<1>11. FairPrices(fair)'
  <2>1. \A id \in Flow!Edge' : (Flow!Residual(id) > 0)' =>
            (fair[Flow!To(id)] <= fair[From(id)] + Flow!cost(id))'
    BY <1>9, <1>10
  <2>2. (fair \in [Flow!Node -> Int])'
    BY <1>5 DEF Flow!Node
  <2> QED BY <2>1, <2>2 DEF FairPrices
<1> QED BY <1>11

LEMMA AugmentKeeps == ASSUME Flow!FlowAssumption, SolverInv, Flow!Augment PROVE SolverInv'
<1>1. PICK price : FairPrices(price) /\ SearchInv(price)
  BY DEF SolverInv
<1>2. PICK rank : Ranked(rank)
  BY <1>1 DEF SearchInv
<1>3. /\ FlowInv /\ visiting = Flow!Idle /\ queue = <<>> /\ Reached(Flow!sink)
      /\ solved = FALSE /\ arcs' = arcs /\ solved' = solved
  BY <1>1 DEF SolverInv, Flow!Augment, Flow!Searched, Reached, SearchInv, SolvedInv
<1>4. Flow!sink \in Flow!Node /\ arcs \in Networks
  BY <1>3, Arcs DEF FlowInv
<1> DEFINE path == Flow!PathTo[Flow!sink]
           push == Flow!Bottleneck(path)
<1>5. GoodPath(rank, Flow!sink, path)
  BY <1>1, <1>2, <1>3, <1>4, PathsAreGood
<1>6. push \in Nat \ {0} /\ \A id \in path : push <= Flow!Residual(id)
  <2>1. path \subseteq Flow!Edge /\ \A id \in path : Flow!Residual(id) > 0
    BY <1>5 DEF GoodPath
  <2> HIDE DEF path
  <2> QED BY <1>3, <2>1, Pushes
<1>7. /\ flow' = [id \in Flow!Edge |-> flow[id] + Gain(path, push, id)]
      /\ totalFlow' = totalFlow + push /\ totalCost' = totalCost + push * dist[Flow!sink]
  BY DEF Flow!Augment, Gain
<1> HIDE DEF path, push
<1>8. dist[Flow!sink] \in Int
  BY <1>1, <1>4 DEF SearchInv, DistanceInv
<1>9. FlowInv'
  BY <1>2, <1>3, <1>5, <1>6, <1>7, <1>8, AugmentFlow
<1>10. \E fair : FairPrices(fair)'
  BY <1>1, <1>3, <1>5, <1>6, <1>7, NewPrices
<1>11. PICK fair : FairPrices(fair)'
  BY <1>10
<1>12. FreshSearches'
  BY FreshAlways, PTL
<1>13. FreshState'
  BY <1>3 DEF Flow!Augment, Flow!Fresh, FreshState
<1>14. SearchInv(fair)'
  BY <1>3, <1>4, <1>11, <1>12, <1>13 DEF FreshSearches
<1> QED BY <1>9, <1>11, <1>14 DEF SolverInv

LEMMA FlowStep == Flow!FlowAssumption /\ SolverInv /\ [Flow!Next]_(Flow!vars) => SolverInv'
BY SameSolved, VisitKeeps, RelaxKeeps, VisitedKeeps, AugmentKeeps, NoPathKeeps DEF Flow!Next

-----------------------------------------------------------------------------
(* Every other flow *)

\* A flow weighed with the difference of a price along each arc.
Weigh(d, price) == SumOf([k \in 1 .. Len(arcs) |-> d[k] * (price[arcs[k].from] - price[arcs[k].to])])

LEMMA Weighed ==
    ASSUME Flow!FlowAssumption, arcs \in Networks, NEW d \in [1 .. Len(arcs) -> Int],
           NEW price \in [Flow!Node -> Int]
    PROVE  /\ [k \in 1 .. Len(arcs) |-> d[k] * (price[arcs[k].from] - price[arcs[k].to])]
                  \in [1 .. Len(arcs) -> Int]
           /\ Weigh(d, price) \in Int
<1> DEFINE w == [k \in 1 .. Len(arcs) |-> d[k] * (price[arcs[k].from] - price[arcs[k].to])]
<1>1. ASSUME NEW k \in 1 .. Len(arcs) PROVE d[k] * (price[arcs[k].from] - price[arcs[k].to]) \in Int
  <2>1. d[k] \in Int /\ arcs[k].from \in Flow!Node /\ arcs[k].to \in Flow!Node
    BY Arcs
  <2>2. price[arcs[k].from] \in Int /\ price[arcs[k].to] \in Int
    BY <2>1
  <2> QED BY <2>1, <2>2
<1>2. w \in [1 .. Len(arcs) -> Int] /\ Len(arcs) \in Nat
  BY <1>1, Arcs
<1>3. Weigh(d, price) = SumOf(w)
  BY DEF Weigh
<1> HIDE DEF w
<1>4. w \in Seq(Int)
  BY <1>2
<1>5. SumOf(w) \in Int
  BY <1>4, SumInt
<1> QED BY <1>2, <1>3, <1>5 DEF w

\* Flow that no inner node keeps is weighed by what leaves the source and the sink.
LEMMA Exchange ==
    ASSUME Flow!FlowAssumption, arcs \in Networks, NEW d \in [1 .. Len(arcs) -> Int],
           NEW price \in [Flow!Node -> Int],
           \A u \in Flow!Node \ {Flow!source, Flow!sink} : Flow!NetOut(d, u) = 0
    PROVE  Weigh(d, price) =
        price[Flow!source] * Flow!NetOut(d, Flow!source) + price[Flow!sink] * Flow!NetOut(d, Flow!sink)
<1> DEFINE n == Len(arcs)
           part(m) == [u \in Flow!Node |-> IF u < m THEN price[u] ELSE 0]
           w(m) == [k \in 1 .. n |-> d[k] * (part(m)[arcs[k].from] - part(m)[arcs[k].to])]
           Said(m) == (IF Flow!source < m THEN price[Flow!source] * Flow!NetOut(d, Flow!source) ELSE 0)
                          + (IF Flow!sink < m THEN price[Flow!sink] * Flow!NetOut(d, Flow!sink) ELSE 0)
           S == {m \in Nat : m <= Nodes => Weigh(d, part(m)) = Said(m)}
<1>1. /\ n \in Nat /\ Flow!source \in Flow!Node /\ Flow!sink \in Flow!Node
      /\ Flow!source # Flow!sink /\ Flow!Node = 0 .. Nodes - 1 /\ Nodes \in Nat
      /\ \A k \in 1 .. n : arcs[k].from \in Flow!Node /\ arcs[k].to \in Flow!Node /\ d[k] \in Int
  BY Arcs
<1>2. \A u : Flow!NetOut(d, u) \in Int
  BY Terms
<1>3. ASSUME NEW m \in Nat
      PROVE  part(m) \in [Flow!Node -> Int] /\ w(m) \in [1 .. n -> Int]
          /\ Weigh(d, part(m)) = SumOf(w(m))
  <2>1. part(m) \in [Flow!Node -> Int]
    BY <1>1
  <2>2. Weigh(d, part(m)) = SumOf(w(m))
    BY DEF Weigh
  <2> HIDE DEF part
  <2> QED BY <2>1, <2>2, Weighed
<1>4. 0 \in S
  <2>1. \A k \in 1 .. n : w(0)[k] = 0 * w(0)[k]
    <3>1. ASSUME NEW k \in 1 .. n PROVE w(0)[k] = 0 * w(0)[k]
      <4>1. part(0)[arcs[k].from] = 0 /\ part(0)[arcs[k].to] = 0
        BY <1>1
      <4> HIDE DEF part
      <4>2. w(0)[k] = d[k] * (0 - 0)
        BY <4>1
      <4>3. d[k] * (0 - 0) = 0 /\ 0 * 0 = 0
        BY <1>1
      <4> HIDE DEF w
      <4> QED BY <4>2, <4>3
    <3> QED BY <3>1
  <2> DEFINE x == w(0)
  <2>2. x \in [1 .. n -> Int] /\ \A k \in 1 .. n : x[k] = x[k] + (-1) * x[k]
    <3>1. x \in [1 .. n -> Int]
      BY <1>3
    <3>2. \A k \in 1 .. n : x[k] = 0 * x[k]
      BY <2>1
    <3> HIDE DEF x
    <3>3. ASSUME NEW k \in 1 .. n PROVE x[k] = x[k] + (-1) * x[k]
      <4>1. x[k] \in Int
        BY <3>1
      <4>2. x[k] = 0 * x[k]
        BY <3>2
      <4>3. \A y \in Int : y = 0 * y => y = y + (-1) * y
        OBVIOUS
      <4> QED BY <4>1, <4>2, <4>3
    <3> QED BY <3>1, <3>3
  <2> HIDE DEF x
  <2>3. SumOf(x) = SumOf(x) + (-1) * SumOf(x)
    <3>1. -1 \in Int
      OBVIOUS
    <3> QED BY ONLY <1>1, <2>2, <3>1, SumLinear
  <2>4. SumOf(x) \in Int
    <3> HIDE DEF n
    <3>1. x \in Seq(Int)
      BY ONLY <1>1, <2>2
    <3> QED BY <3>1, SumInt
  <2>5. SumOf(x) = 0
    BY <2>3, <2>4
  <2>6. Weigh(d, part(0)) = 0
    BY <1>3, <2>5 DEF x
  <2>7. Said(0) = 0
    BY <1>1
  <2> HIDE DEF part, Said
  <2> QED BY <2>6, <2>7
<1>5. ASSUME NEW m \in Nat, m \in S PROVE m + 1 \in S
  <2>1. SUFFICES ASSUME m + 1 <= Nodes PROVE Weigh(d, part(m + 1)) = Said(m + 1)
    OBVIOUS
  <2>2. m \in Flow!Node /\ Weigh(d, part(m)) = Said(m)
    BY <1>1, <1>5, <2>1
  <2> DEFINE now == w(m)
             next == w(m + 1)
             term == [k \in 1 .. n |-> Term(d, m, k)]
             c == price[m]
  <2>3. /\ now \in [1 .. n -> Int] /\ next \in [1 .. n -> Int] /\ term \in [1 .. n -> Int]
        /\ c \in Int
        /\ Weigh(d, part(m)) = SumOf(now) /\ Weigh(d, part(m + 1)) = SumOf(next)
        /\ Flow!NetOut(d, m) = SumOf(term)
    <3>1. m + 1 \in Nat
      OBVIOUS
    <3>2. c \in Int
      BY <2>2
    <3>3. term \in [1 .. n -> Int] /\ Flow!NetOut(d, m) = SumOf(term)
      BY Terms
    <3> HIDE DEF part, w, term, c
    <3> QED BY <1>3, <3>1, <3>2, <3>3
  <2>4. ASSUME NEW k \in 1 .. n PROVE next[k] = now[k] + c * term[k]
    <3> DEFINE p == part(m)[arcs[k].from]
               q == part(m)[arcs[k].to]
               x == IF arcs[k].from = m THEN 1 ELSE 0
               y == IF arcs[k].to = m THEN 1 ELSE 0
               a == d[k]
    <3>1. part(m + 1)[arcs[k].from] = p + c * x /\ part(m + 1)[arcs[k].to] = q + c * y
      <4>1. \A u \in Flow!Node : part(m + 1)[u] = part(m)[u] + c * (IF u = m THEN 1 ELSE 0)
        <5>1. TAKE u \in Flow!Node
        <5>2. CASE u = m
          <6>1. part(m + 1)[u] = c /\ part(m)[u] = 0 /\ c * 1 = c
            BY <1>1, <5>2, <2>3
          <6> HIDE DEF c, part
          <6> QED BY <2>3, <5>2, <6>1
        <5>3. CASE u # m
          <6>1. u < m + 1 <=> u < m
            BY <1>1, <5>3
          <6>2. part(m + 1)[u] = part(m)[u] /\ part(m)[u] \in Int /\ c * 0 = 0
            BY <1>1, <6>1, <2>3
          <6> HIDE DEF c, part
          <6> QED BY <5>3, <6>2
        <5> QED BY <5>2, <5>3
      <4> HIDE DEF c, part
      <4> QED BY <1>1, <4>1
    <3>2. p \in Int /\ q \in Int /\ x \in Int /\ y \in Int /\ a \in Int
      <4>1. part(m) \in [Flow!Node -> Int]
        BY <1>3
      <4> HIDE DEF part
      <4> QED BY <1>1, <4>1, SMTT(40)
    <3>3. term[k] = a * (x - y)
      <4>1. a * (x - y) = (IF arcs[k].from = m THEN a ELSE 0) - (IF arcs[k].to = m THEN a ELSE 0)
        <5>1. CASE arcs[k].from = m /\ arcs[k].to = m
          BY <3>2, <5>1
        <5>2. CASE arcs[k].from = m /\ arcs[k].to # m
          BY <3>2, <5>2
        <5>3. CASE arcs[k].from # m /\ arcs[k].to = m
          BY <3>2, <5>3
        <5>4. CASE arcs[k].from # m /\ arcs[k].to # m
          BY <3>2, <5>4
        <5> QED BY <5>1, <5>2, <5>3, <5>4
      <4> QED BY <4>1 DEF Term
    <3>4. now[k] = a * (p - q) /\ next[k] = a * ((p + c * x) - (q + c * y))
      <4>1. /\ now[k] = a * (p - q)
            /\ next[k] = a * (part(m + 1)[arcs[k].from] - part(m + 1)[arcs[k].to])
        OBVIOUS
      <4> HIDE DEF now, next, p, q, c, x, y, part
      <4> QED BY <3>1, <4>1
    <3>5. a * ((p + c * x) - (q + c * y)) = a * (p - q) + c * (a * (x - y))
      <4> HIDE DEF a, p, q, c, x, y
      <4> QED BY ONLY <2>3, <3>2
    <3> HIDE DEF a, p, q, c, x, y, now, next, term
    <3> QED BY <3>3, <3>4, <3>5
  <2> HIDE DEF now, next, term, c
  <2>5. SumOf(next) = SumOf(now) + c * SumOf(term)
    BY ONLY <1>1, <2>3, <2>4, SumLinear, ZenonT(60)
  <2>6. Weigh(d, part(m + 1)) = Said(m) + c * Flow!NetOut(d, m)
    BY <2>2, <2>3, <2>5
  <2>7. Said(m + 1) = Said(m) + c * Flow!NetOut(d, m)
    <3>0. /\ Flow!source < m + 1 <=> Flow!source < m \/ Flow!source = m
          /\ Flow!sink < m + 1 <=> Flow!sink < m \/ Flow!sink = m
          /\ ~(m < m) /\ Flow!source \in Int /\ Flow!sink \in Int
      BY <1>1, <2>2
    <3>1. /\ price[Flow!source] * Flow!NetOut(d, Flow!source) \in Int
          /\ price[Flow!sink] * Flow!NetOut(d, Flow!sink) \in Int
      <4>1. \A x, y \in Int : x * y \in Int
        OBVIOUS
      <4> QED BY <1>1, <1>2, <4>1
    <3>2. CASE m = Flow!source
      <4>1. /\ c * Flow!NetOut(d, m) = price[Flow!source] * Flow!NetOut(d, Flow!source)
            /\ ~(Flow!sink = m) /\ ~(Flow!source < m)
        BY <1>1, <3>0, <3>2 DEF c
      <4> QED BY <3>0, <3>1, <3>2, <4>1
    <3>3. CASE m = Flow!sink
      <4>1. /\ c * Flow!NetOut(d, m) = price[Flow!sink] * Flow!NetOut(d, Flow!sink)
            /\ ~(Flow!source = m) /\ ~(Flow!sink < m)
        BY <1>1, <3>0, <3>3 DEF c
      <4> QED BY <3>0, <3>1, <3>3, <4>1
    <3>4. CASE m # Flow!source /\ m # Flow!sink
      <4>1. Flow!NetOut(d, m) = 0 /\ c * 0 = 0
        BY <2>2, <2>3, <3>4
      <4> QED BY <3>0, <3>1, <3>4, <4>1
    <3> QED BY <3>2, <3>3, <3>4
  <2> HIDE DEF part, Said
  <2> QED BY <2>6, <2>7
<1>6. Nodes \in S
  <2> HIDE DEF S
  <2> QED BY <1>1, <1>4, <1>5, NatsFrom
<1>7. Weigh(d, part(Nodes)) = Said(Nodes)
  BY <1>1, <1>6
<1>8. part(Nodes) = price
  BY <1>1
<1>9. Said(Nodes) =
          price[Flow!source] * Flow!NetOut(d, Flow!source) + price[Flow!sink] * Flow!NetOut(d, Flow!sink)
  BY <1>1
<1> HIDE DEF part, Said
<1> QED BY <1>7, <1>8, <1>9

\* What leaves the source enters the sink.
LEMMA Balanced ==
    ASSUME Flow!FlowAssumption, arcs \in Networks, NEW d \in [1 .. Len(arcs) -> Int],
           \A u \in Flow!Node \ {Flow!source, Flow!sink} :
               Flow!NetOut(d, u) = 0, Flow!NetOut(d, Flow!source) = 0
    PROVE  Flow!NetOut(d, Flow!sink) = 0
<1> DEFINE one == [u \in Flow!Node |-> 1]
<1>1. /\ one \in [Flow!Node -> Int] /\ Flow!source \in Flow!Node /\ Flow!sink \in Flow!Node
      /\ one[Flow!source] = 1 /\ one[Flow!sink] = 1
  BY Arcs
<1>2. Flow!NetOut(d, Flow!source) \in Int /\ Flow!NetOut(d, Flow!sink) \in Int
  BY Terms
<1>3. Weigh(d, one) = SumOf([k \in 1 .. Len(arcs) |-> d[k] * (1 - 1)])
  <2>1. \A k \in 1 .. Len(arcs) : one[arcs[k].from] = 1 /\ one[arcs[k].to] = 1
    BY Arcs
  <2> HIDE DEF one
  <2> QED BY <2>1 DEF Weigh
<1> DEFINE x == [k \in 1 .. Len(arcs) |-> d[k] * (1 - 1)]
           n == Len(arcs)
<1>4. n \in Nat /\ -1 \in Int /\ x \in [1 .. n -> Int] /\ \A k \in 1 .. n :
          x[k] = x[k] + (-1) * x[k]
  <2>0. n \in Nat
    BY Arcs
  <2>1. n \in Nat /\ \A k \in 1 .. n : d[k] * (1 - 1) = 0
    <3>1. \A k \in 1 .. n : d[k] \in Int
      OBVIOUS
    <3>2. \A y \in Int : y * (1 - 1) = 0
      OBVIOUS
    <3> QED BY <2>0, <3>1, <3>2
  <2>2. \A k \in 1 .. n : x[k] = 0
    BY <2>1
  <2>3. x \in [1 .. n -> Int]
    BY <2>1
  <2> HIDE DEF x
  <2> QED BY <2>1, <2>2, <2>3
<1>5. SumOf(x) = 0
  <2> HIDE DEF x, n
  <2>1. SumOf(x) = SumOf(x) + (-1) * SumOf(x)
    BY ONLY <1>4, SumLinear
  <2>2. x \in Seq(Int)
    BY <1>4
  <2>3. SumOf(x) \in Int
    BY <2>2, SumInt
  <2> QED BY <2>1, <2>3
<1>6. Weigh(d, one) =
          one[Flow!source] * Flow!NetOut(d, Flow!source) + one[Flow!sink] * Flow!NetOut(d, Flow!sink)
  <2> HIDE DEF one
  <2> QED BY <1>1, Exchange
<1> HIDE DEF one
<1>7. 0 = 1 * Flow!NetOut(d, Flow!source) + 1 * Flow!NetOut(d, Flow!sink)
  BY <1>1, <1>3, <1>5, <1>6
<1> QED BY <1>2, <1>7

-----------------------------------------------------------------------------
LEMMA FlowIs ==
    ASSUME Flow!FlowAssumption, arcs \in Networks, NEW f \in Flow!Flows
    PROVE  /\ f \in [1 .. Len(arcs) -> Int]
           /\ \A k \in 1 .. Len(arcs) : f[k] \in Nat /\ f[k] <= arcs[k].cap
           /\ \A u \in Flow!Node \ {Flow!source, Flow!sink} : Flow!NetOut(f, u) = 0
<1>1. /\ f \in [1 .. Len(arcs) -> UNION {0 .. arcs[k].cap : k \in 1 .. Len(arcs)}]
      /\ \A k \in 1 .. Len(arcs) : f[k] <= arcs[k].cap
      /\ \A u \in Flow!Node \ {Flow!source, Flow!sink} : Flow!NetOut(f, u) = 0
  BY DEF Flow!Flows
<1>2. UNION {0 .. arcs[k].cap : k \in 1 .. Len(arcs)} \subseteq Nat
  OBVIOUS
<1>3. \A k \in 1 .. Len(arcs) : f[k] \in Nat
  BY <1>1, <1>2
<1>4. f = [k \in 1 .. Len(arcs) |-> f[k]]
  BY <1>1
<1>5. f \in [1 .. Len(arcs) -> Int]
  BY <1>3, <1>4
<1> QED BY <1>1, <1>3, <1>5

LEMMA PushedIs ==
    ASSUME Flow!FlowAssumption, FlowInv
    PROVE  /\ Flow!Pushed \in Flow!Flows /\ Flow!Pushed \in [1 .. Len(arcs) -> Int]
           /\ \A k \in 1 .. Len(arcs) :
                 /\ Flow!Pushed[k] \in Nat
                 /\ Flow!Residual(Up(k)) = arcs[k].cap - Flow!Pushed[k]
                 /\ Flow!Residual(Down(k)) = Flow!Pushed[k]
<1>1. arcs \in Networks /\ flow \in [Flow!Edge -> Int] /\ \A id \in Flow!Edge :
          flow[Flow!Twin(id)] = -flow[id] /\ Flow!Residual(id) >= 0
  BY DEF FlowInv
<1>2. ASSUME NEW k \in 1 .. Len(arcs)
      PROVE  /\ Flow!Pushed[k] \in Nat /\ Flow!Pushed[k] <= arcs[k].cap
             /\ Flow!Residual(Up(k)) = arcs[k].cap - Flow!Pushed[k]
             /\ Flow!Residual(Down(k)) = Flow!Pushed[k]
  <2>1. /\ Up(k) \in Flow!Edge /\ Down(k) \in Flow!Edge /\ Flow!Twin(Up(k)) = Down(k)
        /\ Flow!cap(Up(k)) = arcs[k].cap /\ Flow!cap(Down(k)) = 0 /\ arcs[k].cap \in Nat
    BY <1>1, Arcs, Twins
  <2>2. Flow!Pushed[k] = flow[Up(k)]
    BY DEF Flow!Pushed, Up
  <2>3. flow[Up(k)] \in Int /\ flow[Down(k)] = -flow[Up(k)]
    BY <1>1, <2>1
  <2>4. Flow!Residual(Up(k)) >= 0 /\ Flow!Residual(Down(k)) >= 0
    BY <1>1, <2>1
  <2>5. /\ Flow!Residual(Up(k)) = arcs[k].cap - Flow!Pushed[k]
        /\ Flow!Residual(Down(k)) = 0 - (-Flow!Pushed[k])
    BY <2>1, <2>2, <2>3 DEF Flow!Residual
  <2>6. Flow!Pushed[k] \in Int /\ 0 - (-Flow!Pushed[k]) = Flow!Pushed[k]
    BY <2>2, <2>3
  <2> QED BY <2>1, <2>4, <2>5, <2>6
<1>3. Flow!Pushed = [k \in 1 .. Len(arcs) |-> Flow!Pushed[k]]
  BY DEF Flow!Pushed
<1>4. Flow!Pushed \in [1 .. Len(arcs) -> UNION {0 .. arcs[k].cap : k \in 1 .. Len(arcs)}]
  <2>1. \A k \in 1 .. Len(arcs) : Flow!Pushed[k] \in 0 .. arcs[k].cap
    <3>1. TAKE k \in 1 .. Len(arcs)
    <3>2. arcs[k].cap \in Nat
      BY <1>1, Arcs
    <3> QED BY <1>2, <3>2
  <2>2. \A k \in 1 .. Len(arcs) : Flow!Pushed[k] \in UNION {0 .. arcs[j].cap : j \in 1 .. Len(arcs)}
    BY <2>1
  <2> QED BY <1>3, <2>2
<1>5. Flow!Pushed \in [1 .. Len(arcs) -> Int]
  <2>1. \A k \in 1 .. Len(arcs) : Flow!Pushed[k] \in Int
    BY <1>2
  <2> QED BY <1>3, <2>1
<1>6. Flow!Pushed \in Flow!Flows
  BY <1>2, <1>4 DEF Flow!Flows, FlowInv
<1> QED BY <1>2, <1>5, <1>6

\* No other flow of the same amount is cheaper: at fair prices what it has more
\* costs, and what it has less would have been taken back.
LEMMA Cheapest ==
    ASSUME Flow!FlowAssumption, FlowInv, NEW price, FairPrices(price),
           NEW f \in Flow!Flows, Flow!NetOut(f, Flow!source) = totalFlow
    PROVE  Flow!CostOf(f) >= totalCost
<1> DEFINE n == Len(arcs)
           d == [k \in 1 .. n |-> f[k] - Flow!Pushed[k]]
<1>1. /\ arcs \in Networks /\ totalFlow \in Nat /\ totalCost \in Int
      /\ Flow!CostOf(Flow!Pushed) = totalCost
      /\ Flow!NetOut(Flow!Pushed, Flow!source) = totalFlow /\ price \in [Flow!Node -> Int]
      /\ \A u \in Flow!Node \ {Flow!source, Flow!sink} : Flow!NetOut(Flow!Pushed, u) = 0
  BY DEF FlowInv, FairPrices
<1>2. /\ f \in [1 .. n -> Int] /\ \A k \in 1 .. n : f[k] \in Nat /\ f[k] <= arcs[k].cap
      /\ \A u \in Flow!Node \ {Flow!source, Flow!sink} : Flow!NetOut(f, u) = 0
  BY <1>1, FlowIs
<1>3. /\ Flow!Pushed \in [1 .. n -> Int]
      /\ \A k \in 1 .. n : /\ Flow!Pushed[k] \in Nat /\ Flow!Residual(Up(k)) = arcs[k].cap - Flow!Pushed[k]
                           /\ Flow!Residual(Down(k)) = Flow!Pushed[k]
  BY PushedIs
<1>4. n \in Nat /\ 1 \in Int
  BY <1>1, Arcs
<1>5. d \in [1 .. n -> Int] /\ \A k \in 1 .. n :
          f[k] = Flow!Pushed[k] + 1 * d[k] /\ d[k] = f[k] - Flow!Pushed[k]
  <2>1. \A k \in 1 .. n : f[k] \in Int /\ Flow!Pushed[k] \in Int
    BY <1>2, <1>3
  <2>2. d \in [1 .. n -> Int] /\ \A k \in 1 .. n : d[k] = f[k] - Flow!Pushed[k]
    BY <2>1
  <2>3. \A x, y \in Int : x = y + 1 * (x - y)
    OBVIOUS
  <2> HIDE DEF d
  <2> QED BY <2>1, <2>2, <2>3
<1> HIDE DEF d, n
<1>6. (\A u : Flow!NetOut(f, u) = Flow!NetOut(Flow!Pushed, u) + 1 * Flow!NetOut(d, u))
          /\ Flow!CostOf(f) = Flow!CostOf(Flow!Pushed) + 1 * Flow!CostOf(d)
  <2> DEFINE now == Flow!Pushed
  <2>1. /\ Flow!FlowAssumption /\ arcs \in Networks /\ f \in [1 .. Len(arcs) -> Int]
        /\ now \in [1 .. Len(arcs) -> Int] /\ d \in [1 .. Len(arcs) -> Int] /\ 1 \in Int
        /\ \A k \in 1 .. Len(arcs) : f[k] = now[k] + 1 * d[k]
    BY <1>1, <1>2, <1>3, <1>4, <1>5 DEF n
  <2> HIDE DEF Flow!FlowAssumption, now
  <2>2. (\A u : Flow!NetOut(f, u) = Flow!NetOut(now, u) + 1 * Flow!NetOut(d, u))
            /\ Flow!CostOf(f) = Flow!CostOf(now) + 1 * Flow!CostOf(d)
    BY ONLY <2>1, NetLinear
  <2> QED BY <2>2 DEF now
<1>7. (\A u : Flow!NetOut(d, u) \in Int) /\ Flow!CostOf(d) \in Int
  BY <1>1, <1>5, Terms DEF n
<1>8. Flow!NetOut(d, Flow!source) = 0 /\ \A u \in Flow!Node \ {Flow!source, Flow!sink} :
          Flow!NetOut(d, u) = 0
  <2>1. Flow!NetOut(d, Flow!source) = 0
    <3>1. totalFlow = totalFlow + 1 * Flow!NetOut(d, Flow!source)
      BY <1>1, <1>6
    <3> QED BY <1>1, <1>7, <3>1
  <2>2. ASSUME NEW u \in Flow!Node \ {Flow!source, Flow!sink} PROVE Flow!NetOut(d, u) = 0
    <3>1. 0 = 0 + 1 * Flow!NetOut(d, u)
      BY <1>1, <1>2, <1>6
    <3> QED BY <1>7, <3>1
  <2> QED BY <2>1, <2>2
<1>9. Flow!NetOut(d, Flow!sink) = 0
  BY <1>1, <1>5, <1>8, Balanced DEF n
<1>10. Weigh(d, price) = 0
  <2>1. Weigh(d, price) =
            price[Flow!source] * Flow!NetOut(d, Flow!source) + price[Flow!sink] * Flow!NetOut(d, Flow!sink)
    BY <1>1, <1>5, <1>8, Exchange DEF n
  <2>2. price[Flow!source] \in Int /\ price[Flow!sink] \in Int
    BY <1>1, Arcs
  <2> QED BY <1>8, <1>9, <2>1, <2>2
<1> DEFINE w == [k \in 1 .. n |-> d[k] * (price[arcs[k].from] - price[arcs[k].to])]
           c == [k \in 1 .. n |-> d[k] * arcs[k].cost]
           z == [k \in 1 .. n |-> c[k] + 1 * w[k]]
<1>11. w \in [1 .. n -> Int] /\ SumOf(w) = 0 /\ c \in [1 .. n -> Int] /\ SumOf(c) = Flow!CostOf(d)
  BY <1>1, <1>5, <1>10, Weighed, Terms DEF n, Weigh
<1>12. ASSUME NEW k \in 1 .. n PROVE c[k] + 1 * w[k] \in Nat
  <2> DEFINE a == price[arcs[k].from]
             b == price[arcs[k].to]
             e == arcs[k].cost
             x == d[k]
  <2>1. /\ arcs[k].from \in Flow!Node /\ arcs[k].to \in Flow!Node /\ e \in Int
        /\ arcs[k].cap \in Nat
        /\ Up(k) \in Flow!Edge /\ Down(k) \in Flow!Edge
        /\ Flow!To(Up(k)) = arcs[k].to /\ Flow!To(Down(k)) = arcs[k].from
        /\ From(Up(k)) = arcs[k].from /\ From(Down(k)) = arcs[k].to
        /\ Flow!cost(Up(k)) = e /\ Flow!cost(Down(k)) = -e
    BY <1>1, Arcs, Twins DEF n
  <2>2. a \in Int /\ b \in Int /\ x \in Int
    BY <1>1, <1>5, <2>1
  <2>3. Flow!Residual(Up(k)) > 0 => b <= a + e
    BY <2>1 DEF FairPrices
  <2>4. Flow!Residual(Down(k)) > 0 => a <= b + (-e)
    BY <2>1 DEF FairPrices
  <2>5. x > 0 => Flow!Residual(Up(k)) > 0
    BY <1>2, <1>3, <1>5, <2>1
  <2>6. x < 0 => Flow!Residual(Down(k)) > 0
    BY <1>2, <1>3, <1>5, <2>1
  <2>7. c[k] + 1 * w[k] = x * (e + (a - b))
    <3>1. c[k] = x * e /\ w[k] = x * (a - b)
      OBVIOUS
    <3> HIDE DEF c, w, a, b, e, x
    <3> QED BY <2>1, <2>2, <3>1
  <2> HIDE DEF c, w, a, b, e, x
  <2> DEFINE y == e + (a - b)
  <2>8. y \in Int /\ (x > 0 => y >= 0) /\ (x < 0 => y <= 0)
    BY <2>1, <2>2, <2>3, <2>4, <2>5, <2>6
  <2>9. c[k] + 1 * w[k] = x * y
    BY <2>7
  <2> HIDE DEF y
  <2>10. x * y \in Nat
    <3>1. CASE x > 0
      <4>1. x \in Nat /\ y \in Nat
        BY <2>2, <2>8, <3>1
      <4>2. \A p, q \in Nat : p * q \in Nat
        OBVIOUS
      <4> QED BY <4>1, <4>2
    <3>2. CASE x < 0
      <4>1. -x \in Nat /\ -y \in Nat
        BY <2>2, <2>8, <3>2
      <4>2. \A p, q \in Nat : p * q \in Nat
        OBVIOUS
      <4>3. (-x) * (-y) \in Nat
        BY <4>1, <4>2
      <4>4. (-x) * (-y) = x * y
        BY <2>2, <2>8
      <4> QED BY <4>3, <4>4
    <3>3. CASE x = 0
      BY <2>8, <3>3
    <3> QED BY <2>2, <3>1, <3>2, <3>3
  <2> QED BY <2>9, <2>10
<1>13. z \in [1 .. n -> Int] /\ z \in Seq(Nat) /\ \A k \in 1 .. n : z[k] = c[k] + 1 * w[k]
  <2> HIDE DEF c, w
  <2>1. z \in [1 .. n -> Nat] /\ \A k \in 1 .. n : z[k] = c[k] + 1 * w[k]
    BY <1>12
  <2> HIDE DEF z
  <2>2. z \in Seq(Nat)
    BY <1>4, <2>1
  <2>3. z \in [1 .. n -> Int]
    BY <2>1
  <2> QED BY <2>1, <2>2, <2>3
<1> HIDE DEF w, c, z
<1>14. SumOf(z) = SumOf(c) + 1 * SumOf(w)
  BY ONLY <1>4, <1>11, <1>13, SumLinear, ZenonT(60)
<1>15. SumOf(z) \in Nat
  BY <1>13, SumPositive
<1>16. Flow!CostOf(d) \in Nat
  BY <1>7, <1>11, <1>14, <1>15
<1>17. Flow!CostOf(f) = totalCost + Flow!CostOf(d)
  BY <1>1, <1>6, <1>7
<1> QED BY <1>1, <1>16, <1>17

\* When the sink is out of reach, the arcs out of what was reached are full and
\* those into it empty.
LEMMA Most ==
    ASSUME Flow!FlowAssumption, FlowInv, NEW price, SearchInv(price), visiting = Flow!Idle,
           queue = <<>>,
           ~Reached(Flow!sink), NEW f \in Flow!Flows
    PROVE  Flow!NetOut(f, Flow!source) <= totalFlow
<1> DEFINE n == Len(arcs)
           side == [u \in Flow!Node |-> IF Reached(u) THEN 1 ELSE 0]
           wf == [k \in 1 .. n |-> f[k] * (side[arcs[k].from] - side[arcs[k].to])]
           wp == [k \in 1 .. n |-> Flow!Pushed[k] * (side[arcs[k].from] - side[arcs[k].to])]
<1>1. /\ arcs \in Networks /\ totalFlow \in Nat /\ Flow!NetOut(Flow!Pushed, Flow!source) = totalFlow
      /\ \A u \in Flow!Node \ {Flow!source, Flow!sink} : Flow!NetOut(Flow!Pushed, u) = 0
  BY DEF FlowInv
<1>2. /\ f \in [1 .. n -> Int] /\ \A k \in 1 .. n : f[k] \in Nat /\ f[k] <= arcs[k].cap
      /\ \A u \in Flow!Node \ {Flow!source, Flow!sink} : Flow!NetOut(f, u) = 0
  BY <1>1, FlowIs
<1>3. /\ Flow!Pushed \in [1 .. n -> Int]
      /\ \A k \in 1 .. n : /\ Flow!Pushed[k] \in Nat /\ Flow!Residual(Up(k)) = arcs[k].cap - Flow!Pushed[k]
                           /\ Flow!Residual(Down(k)) = Flow!Pushed[k]
  BY PushedIs
<1>4. n \in Nat /\ Flow!source \in Flow!Node /\ Flow!sink \in Flow!Node /\ Flow!source # Flow!sink
  BY <1>1, Arcs
<1>5. side \in [Flow!Node -> Int] /\ side[Flow!source] = 1 /\ side[Flow!sink] = 0
  <2>1. Reached(Flow!source)
    <3>1. dist[Flow!source] = 0 /\ kInf \in Nat \ {0}
      BY <1>1, Infinite DEF SearchInv, DistanceInv
    <3> QED BY <3>1 DEF Reached
  <2> QED BY <1>4, <2>1
<1>6. \A u \in Flow!Node : side[u] = IF Reached(u) THEN 1 ELSE 0
  OBVIOUS
<1> HIDE DEF side
<1>7. /\ wf \in [1 .. n -> Int] /\ SumOf(wf) = Weigh(f, side) /\ wp \in [1 .. n -> Int]
      /\ SumOf(wp) = Weigh(Flow!Pushed, side)
  BY <1>1, <1>2, <1>3, <1>5, Weighed, ZenonT(60) DEF Weigh
<1>8. /\ Weigh(f, side) =
             side[Flow!source] * Flow!NetOut(f, Flow!source) + side[Flow!sink] * Flow!NetOut(f, Flow!sink)
      /\ Weigh(Flow!Pushed, side) =
             side[Flow!source] * Flow!NetOut(Flow!Pushed, Flow!source) + side[Flow!sink] * Flow!NetOut(Flow!Pushed, Flow!sink)
  BY <1>1, <1>2, <1>3, <1>5, Exchange
<1>9. (\A u : Flow!NetOut(f, u) \in Int) /\ (\A u : Flow!NetOut(Flow!Pushed, u) \in Int)
  BY <1>1, <1>2, <1>3, Terms
<1>10. Weigh(f, side) = Flow!NetOut(f, Flow!source) /\ Weigh(Flow!Pushed, side) = totalFlow
  <2>1. \A x, y \in Int : 1 * x + 0 * y = x
    OBVIOUS
  <2>2. Weigh(f, side) = 1 * Flow!NetOut(f, Flow!source) + 0 * Flow!NetOut(f, Flow!sink)
    BY <1>5, <1>8
  <2>3. Weigh(Flow!Pushed, side) =
            1 * Flow!NetOut(Flow!Pushed, Flow!source) + 0 * Flow!NetOut(Flow!Pushed, Flow!sink)
    BY <1>5, <1>8
  <2> QED BY <1>1, <1>9, <2>1, <2>2, <2>3
<1>11. ASSUME NEW k \in 1 .. n PROVE wf[k] <= wp[k]
  <2> DEFINE a == side[arcs[k].from]
             b == side[arcs[k].to]
  <2>1. /\ arcs[k].from \in Flow!Node /\ arcs[k].to \in Flow!Node /\ arcs[k].cap \in Nat
        /\ Up(k) \in Flow!Edge /\ Down(k) \in Flow!Edge
        /\ Flow!To(Up(k)) = arcs[k].to /\ Flow!To(Down(k)) = arcs[k].from
        /\ From(Up(k)) = arcs[k].from /\ From(Down(k)) = arcs[k].to
    BY <1>1, Arcs, Twins
  <2>2. a = (IF Reached(arcs[k].from) THEN 1 ELSE 0) /\ b = (IF Reached(arcs[k].to) THEN 1 ELSE 0)
    BY <1>6, <2>1
  <2>3. wf[k] = f[k] * (a - b) /\ wp[k] = Flow!Pushed[k] * (a - b)
    OBVIOUS
  <2>4. f[k] \in Nat /\ f[k] <= arcs[k].cap /\ Flow!Pushed[k] \in Nat
    BY <1>2, <1>3
  <2>5. Reached(arcs[k].from) /\ ~Reached(arcs[k].to) => ~(arcs[k].cap - Flow!Pushed[k] > 0)
    BY <1>3, <2>1, CutOff
  <2>6. Reached(arcs[k].to) /\ ~Reached(arcs[k].from) => ~(Flow!Pushed[k] > 0)
    BY <1>3, <2>1, CutOff
  <2> HIDE DEF a, b, wf, wp
  <2>7. CASE Reached(arcs[k].from) /\ ~Reached(arcs[k].to)
    <3>1. a - b = 1 /\ f[k] <= Flow!Pushed[k] /\ \A x \in Int : x * 1 = x
      BY <2>1, <2>2, <2>4, <2>5, <2>7
    <3> QED BY <2>3, <2>4, <3>1
  <2>8. CASE Reached(arcs[k].to) /\ ~Reached(arcs[k].from)
    <3>1. a - b = -1 /\ Flow!Pushed[k] <= f[k]
      BY <2>1, <2>2, <2>4, <2>6, <2>8
    <3>2. \A x, y \in Int : y = -1 => x * y = -x
      OBVIOUS
    <3>3. wf[k] = -f[k] /\ wp[k] = -Flow!Pushed[k]
      BY <2>3, <2>4, <3>1, <3>2
    <3> QED BY <2>4, <3>1, <3>3
  <2>9. CASE Reached(arcs[k].to) <=> Reached(arcs[k].from)
    <3>1. a - b = 0 /\ \A x \in Int : x * 0 = 0
      BY <2>2, <2>9
    <3> QED BY <2>3, <2>4, <3>1
  <2> QED BY <2>7, <2>8, <2>9
<1> HIDE DEF wf, wp, n
<1>12. SumOf(wf) <= SumOf(wp)
  BY ONLY <1>4, <1>7, <1>11, SumAtMost
<1> QED BY <1>7, <1>10, <1>12

LEMMA FlowSound == ASSUME Flow!FlowAssumption, SolverInv PROVE Flow!FlowOptimal
<1>1. PICK price : FairPrices(price) /\ SearchInv(price)
  BY DEF SolverInv
<1>2. FlowInv
  BY DEF SolverInv
<1>3. Flow!TypeOK
  BY <1>1, <1>2 DEF Flow!TypeOK, FlowInv, SearchInv, DistanceInv, TreeInv, OpenInv, SolvedInv
<1>4. Flow!CheapestSoFar
  <2>1. Flow!Pushed \in Flow!Flows
    BY <1>2, PushedIs
  <2>2. \A f \in Flow!Flows : Flow!NetOut(f, Flow!source) = totalFlow => Flow!CostOf(f) >= totalCost
    BY <1>1, <1>2, Cheapest
  <2> QED BY <1>2, <2>1, <2>2 DEF Flow!CheapestSoFar, FlowInv
<1>5. Flow!MostWhenSolved
  BY <1>1, <1>2, Most DEF Flow!MostWhenSolved, SearchInv, SolvedInv
<1>6. Flow!DistancesFinal
  BY <1>1, <1>2, SearchSettled DEF Flow!DistancesFinal, Flow!Searched, From, Reached
<1> QED BY <1>3, <1>4, <1>5, <1>6 DEF Flow!FlowOptimal

\* Whatever the network, what the solver has pushed is a flow of the amount and the
\* cost it says and the cheapest of that amount, and when it returns none is
\* larger.
THEOREM FlowsAreCheapest == ASSUME Flow!FlowAssumption PROVE Flow!Spec => []Flow!FlowOptimal
<1>1. Flow!Init => SolverInv
  BY InitFlow
<1>2. SolverInv /\ [Flow!Next]_(Flow!vars) => SolverInv'
  BY FlowStep
<1>3. SolverInv => Flow!FlowOptimal
  BY FlowSound
<1> QED BY <1>1, <1>2, <1>3, PTL DEF Flow!Spec

-----------------------------------------------------------------------------
(* The images: the invariant of a writer *)

\* The two instances of FlattenSeq() are one.
LEMMA SameFlat == ASSUME NEW q PROVE Image!FlattenSeq(q) = FlattenSeq(q)
BY Zenon DEF Image!FlattenSeq, FlattenSeq

\* A byte is the sample it encodes; a block of a PNG file.
ImageByte == {"filter"} \cup (Nat \X Nat \X Nat)
Stored == [stored : Seq(ImageByte), final : BOOLEAN]

\* The b-th block of kMaxBlock bytes of s, the first n of them, and what is after them.
ChunkOf(s, b) == SubSeq(s, (b - 1) * kMaxBlock + 1, b * kMaxBlock)
FullBlocks(s, n) == [b \in 1 .. n |-> Image!Block(ChunkOf(s, b), FALSE)]
RestOf(s, n) == SubSeq(s, n * kMaxBlock + 1, Len(s))

\* What open() wrote of a PNG file.
Announced == <<Image!Prologue(Image!zlibStoredSize(Image!RowBytes * picture.height))>>

\* n blocks are in the file, and of the bytes after them some are left.
Cut(n) ==
    /\ n \in Nat /\ n * kMaxBlock <= Len(adler) /\ (n > 0 => n * kMaxBlock < Len(adler))
    /\ crc = FullBlocks(adler, n) /\ pending = RestOf(adler, n)

\* The call a writer is in.
CallInv ==
    /\ writing \in [op : {"none", "writeRows", "lastBlock", "close"}, count : Nat, done : Nat]
    /\ writing.done <= writing.count
    /\ writing.op = "none" => writing = Image!NoCall
    /\ writing.op # "none" => writer = "open" /\ intact
    /\ writing.op = "writeRows" => ~ended /\ rowsWritten + writing.count <= picture.height
    /\ writing.op \in {"lastBlock", "close"} => ended /\ writing.count = 0 /\ writing.done = 0
    /\ writing.op = "lastBlock" => picture.format = "png"

\* What the writer remembers of the calls before.
WriterInv ==
    /\ picture \in Image!Images /\ writer \in {"none", "open", "refused"}
    /\ intact \in BOOLEAN /\ ended \in BOOLEAN /\ returned \in BOOLEAN
    /\ rowsWritten \in 0 .. picture.height
    /\ writer = "open" => Image!Usable /\ Image!Fits
    /\ writer = "none" => /\ ~ended /\ rowsWritten = 0 /\ writing = Image!NoCall
                         /\ pending = <<>> /\ adler = <<>> /\ crc = <<>>
    /\ writer # "open" => ~intact
    /\ writer = "none" \/ ~(Image!Usable /\ Image!Fits) => file = Image!NoFile
    /\ ended => rowsWritten = picture.height
    /\ writer = "open" /\ writing = Image!NoCall /\ returned => intact

\* The bytes of a PNG file: in the file, held back, and summed.
PngInv ==
    writer = "open" /\ intact /\ picture.format = "png" =>
        /\ adler = Image!Raw(rowsWritten + writing.done)
        /\ ~ended \/ writing.op = "lastBlock" =>
            /\ \E n : Cut(n)
            /\ file = Announced \o crc
            /\ Len(pending) <= kMaxBlock + Image!RowBytes
            /\ writing.op # "writeRows" => Len(pending) <= kMaxBlock
        /\ writing.op = "close" => crc = Image!zlibStored(adler) /\ file = Announced \o crc
        /\ ended /\ writing = Image!NoCall => file = Image!OneShotPng

\* The rows of an EXR file.
ExrInv ==
    writer = "open" /\ intact /\ picture.format = "exr" =>
        file = <<Image!ExrTable>> \o [y \in 1 .. rowsWritten + writing.done |-> Image!ExrRow(y - 1, y - 1)]

\* The inductive invariant of a writer.
ImageInv == WriterInv /\ CallInv /\ PngInv /\ ExrInv

-----------------------------------------------------------------------------
(* Rows and blocks *)

\* A filtered row is RowBytes bytes, the same as savePng() makes of it.
LEMMA RowIs ==
    ASSUME Image!StreamAssumption, picture \in Image!Images, Image!Usable
    PROVE  /\ picture.width \in Nat \ {0} /\ picture.height \in Nat \ {0}
           /\ Image!fileChannels \in {3, 4} /\ Image!RowBytes \in Nat \ {0}
           /\ Image!RowBytes = picture.width * Image!fileChannels + 1
           /\ \A y \in Nat :
                /\ Image!RawRow(y) \in Seq(ImageByte) /\ Len(Image!RawRow(y)) = Image!RowBytes
                /\ Image!RawRow(y) = <<"filter">> \o [k \in 1 .. picture.width * Image!fileChannels |->
                       Image!Saved(y, (k - 1) \div Image!fileChannels, (k - 1) % Image!fileChannels)]
<1>1. picture.width \in Nat \ {0} /\ picture.height \in Nat \ {0} /\ picture.channels \in {1, 3, 4}
  BY DEF Image!StreamAssumption, Image!Images, Image!Usable
<1>2. Image!fileChannels \in {3, 4}
  BY <1>1 DEF Image!fileChannels
<1>3. picture.width * Image!fileChannels \in Nat
  BY <1>1, <1>2
<1>4. Image!RowBytes = picture.width * Image!fileChannels + 1 /\ Image!RowBytes \in Nat \ {0}
  BY <1>3 DEF Image!RowBytes
<1>5. ASSUME NEW y \in Nat
      PROVE  /\ Image!RawRow(y) \in Seq(ImageByte) /\ Len(Image!RawRow(y)) = Image!RowBytes
             /\ Image!RawRow(y) = <<"filter">> \o [k \in 1 .. picture.width * Image!fileChannels |->
                    Image!Saved(y, (k - 1) \div Image!fileChannels, (k - 1) % Image!fileChannels)]
  <2> DEFINE n == picture.width * Image!fileChannels
             t(k) == Image!Saved(y, (k - 1) \div Image!fileChannels, (k - 1) % Image!fileChannels)
             filtered == [k \in 1 .. n |-> t(k)]
  <2>1. ASSUME NEW k \in 1 .. n
        PROVE  t(k) \in ImageByte /\ t(k) = <<y, (k - 1) \div Image!fileChannels,
                   IF picture.channels = 1 THEN 0 ELSE (k - 1) % Image!fileChannels>>
    <3>1. (k - 1) \div Image!fileChannels \in Nat /\ (k - 1) % Image!fileChannels \in Nat
      <4>1. k - 1 \in Nat
        BY <1>3
      <4>2. CASE Image!fileChannels = 3
        BY <4>1, <4>2
      <4>3. CASE Image!fileChannels = 4
        BY <4>1, <4>3
      <4> QED BY <1>2, <4>2, <4>3
    <3> DEFINE c == IF picture.channels = 1 THEN 0 ELSE (k - 1) % Image!fileChannels
               x == (k - 1) \div Image!fileChannels
    <3>2. t(k) = <<y, x, c>>
      BY DEF Image!Saved
    <3>3. c \in Nat /\ x \in Nat
      BY <3>1
    <3> HIDE DEF c, x, t
    <3>4. <<y, x, c>> \in Nat \X Nat \X Nat
      BY <3>3
    <3>5. t(k) \in ImageByte
      BY <3>2, <3>4 DEF ImageByte
    <3> QED BY <3>2, <3>5 DEF c, x
  <2>2. n \in Nat /\ Image!RowBytes = n + 1 /\ Image!RowBytes - 1 = n
    BY <1>3, <1>4
  <2>3. Image!RawRow(y) = <<"filter">> \o filtered
    <3>1. filtered = [k \in 1 .. n |-> <<y, (k - 1) \div Image!fileChannels,
                   IF picture.channels = 1 THEN 0 ELSE (k - 1) % Image!fileChannels>>]
      <4> HIDE DEF t, n
      <4> QED BY <2>1
    <3> HIDE DEF filtered, n
    <3> QED BY <2>2, <3>1 DEF Image!RawRow
  <2> HIDE DEF n, t
  <2>4. filtered \in Seq(ImageByte) /\ Len(filtered) = n
    <3>1. filtered \in [1 .. n -> ImageByte]
      BY <2>1
    <3> HIDE DEF filtered
    <3>2. filtered \in Seq(ImageByte)
      BY <2>2, <3>1 DEF Seq
    <3>3. 1 .. Len(filtered) = 1 .. n /\ Len(filtered) \in Nat
      BY <3>1, <3>2, LenProperties
    <3> QED BY <2>2, <3>2, <3>3
  <2>5. <<"filter">> \in Seq(ImageByte) /\ Len(<<"filter">>) = 1
    BY DEF ImageByte
  <2>6. <<"filter">> \o filtered \in Seq(ImageByte) /\ Len(<<"filter">> \o filtered) = 1 + n
    <3> HIDE DEF filtered
    <3> QED BY <2>4, <2>5, ConcatProperties
  <2> QED BY <2>2, <2>3, <2>6 DEF n, t
<1> QED BY <1>1, <1>2, <1>4, <1>5

\* The filtered rows of an image.
Row0(rowCount) == [y \in 1 .. rowCount |-> Image!RawRow(y - 1)]

LEMMA ImageRowsAre ==
    ASSUME Image!StreamAssumption, picture \in Image!Images, Image!Usable, NEW rowCount \in Nat
    PROVE  Row0(rowCount) \in Seq(Seq(ImageByte)) /\ Len(Row0(rowCount)) = rowCount
<1> DEFINE T == Seq(ImageByte)
<1>1. \A y \in 1 .. rowCount : Image!RawRow(y - 1) \in T
  BY RowIs
<1>2. Row0(rowCount) \in [1 .. rowCount -> T]
  BY <1>1 DEF Row0
<1> HIDE DEF T
<1>3. Row0(rowCount) \in Seq(T)
  BY <1>2 DEF Seq
<1>4. 1 .. Len(Row0(rowCount)) = 1 .. rowCount /\ Len(Row0(rowCount)) \in Nat
  BY <1>2, <1>3, LenProperties
<1> QED BY <1>3, <1>4 DEF T

\* One row more.
LEMMA RawNext ==
    ASSUME Image!StreamAssumption, picture \in Image!Images, Image!Usable, NEW rowCount \in Nat
    PROVE  /\ Image!Raw(rowCount) \in Seq(ImageByte) /\ Image!Raw(rowCount + 1)
                = Image!Raw(rowCount) \o Image!RawRow(rowCount)
           /\ Image!Raw(0) = <<>>
<1> DEFINE q == Row0(rowCount + 1)
<1>1. q \in Seq(Seq(ImageByte)) /\ Len(q) = rowCount + 1 /\ q[rowCount + 1] = Image!RawRow(rowCount)
      /\ Row0(rowCount) = [i \in 1 .. rowCount |-> q[i]]
  <2>1. q \in Seq(Seq(ImageByte)) /\ Len(q) = rowCount + 1
    BY ImageRowsAre
  <2>2. rowCount + 1 - 1 = rowCount /\ rowCount + 1 \in 1 .. rowCount + 1
    OBVIOUS
  <2> QED BY <2>1, <2>2 DEF Row0
<1> HIDE DEF q
<1>2. q = Append(Row0(rowCount), Image!RawRow(rowCount)) /\ Row0(rowCount) \in Seq(Seq(ImageByte))
  BY <1>1, FlatSame
<1>3. Image!RawRow(rowCount) \in Seq(ImageByte)
  BY RowIs
<1>4. Image!FlattenSeq(q) = Image!FlattenSeq(Row0(rowCount)) \o Image!RawRow(rowCount)
        /\ Image!FlattenSeq(Row0(rowCount)) \in Seq(ImageByte)
  BY <1>2, <1>3, FlatAppend, FlatSeq, SameFlat
<1>5. \A n : Image!Raw(n) = Image!FlattenSeq(Row0(n))
  BY DEF Image!Raw, Row0
<1>6. Image!Raw(0) = <<>>
  <2>1. Row0(0) = <<>>
    BY ImageRowsAre, EmptySeq
  <2> QED BY <1>5, <2>1, FlatEmpty, SameFlat
<1> QED BY <1>4, <1>5, <1>6 DEF q

\* How many bytes the rows are.
LEMMA RawLen ==
    ASSUME Image!StreamAssumption, picture \in Image!Images, Image!Usable
    PROVE  \A rowCount \in Nat : Image!Raw(rowCount) \in Seq(ImageByte) /\ Len(Image!Raw(rowCount))
                                   = rowCount * Image!RowBytes
<1> DEFINE S == {rowCount \in Nat : Len(Image!Raw(rowCount)) = rowCount * Image!RowBytes}
<1>1. Image!RowBytes \in Nat \ {0}
  BY RowIs
<1>2. 0 \in S
  <2>1. Len(Image!Raw(0)) = 0 /\ 0 * Image!RowBytes = 0
    BY <1>1, RawNext, EmptySeq
  <2> QED BY <2>1
<1>3. ASSUME NEW k \in Nat, k \in S PROVE k + 1 \in S
  <2>1. Image!Raw(k + 1) = Image!Raw(k) \o Image!RawRow(k) /\ Image!Raw(k) \in Seq(ImageByte)
        /\ Image!RawRow(k) \in Seq(ImageByte) /\ Len(Image!RawRow(k)) = Image!RowBytes
    BY RawNext, RowIs
  <2>2. Len(Image!Raw(k + 1)) = Len(Image!Raw(k)) + Image!RowBytes
    BY <2>1, ConcatProperties
  <2>3. (k + 1) * Image!RowBytes = k * Image!RowBytes + Image!RowBytes
    BY <1>1, TimesNext
  <2> QED BY <1>3, <2>2, <2>3
<1>4. \A k \in Nat : k \in S
  <2> HIDE DEF S
  <2> QED BY <1>2, <1>3, NatsFrom
<1> QED BY <1>4, RawNext

\* The image is the rows that savePng() makes of it.
LEMMA ScanlinesAreRows ==
    ASSUME Image!StreamAssumption, picture \in Image!Images, Image!Usable
    PROVE  Image!Scanlines = Image!Raw(picture.height)
<1>1. picture.height \in Nat
  BY RowIs
<1>2. \A y \in 1 .. picture.height :
          Image!RawRow(y - 1) = <<"filter">> \o [k \in 1 .. picture.width * Image!fileChannels |->
              Image!Saved(y - 1, (k - 1) \div Image!fileChannels, (k - 1) % Image!fileChannels)]
  <2>1. \A y \in 1 .. picture.height : y - 1 \in Nat
    BY <1>1
  <2> QED BY <2>1, RowIs
<1>3. Row0(picture.height) = [y \in 1 .. picture.height |->
          <<"filter">> \o [k \in 1 .. picture.width * Image!fileChannels |->
              Image!Saved(y - 1, (k - 1) \div Image!fileChannels, (k - 1) % Image!fileChannels)]]
  BY <1>2, Zenon DEF Row0
<1> QED BY <1>3, Zenon DEF Image!Scanlines, Image!Raw, Row0

-----------------------------------------------------------------------------
(* Blocks *)

\* The first n blocks of s, without the mark of the last one.
Chunks(s, n) == [b \in 1 .. n |-> ChunkOf(s, b)]

\* A block that is not the last is kMaxBlock bytes.
LEMMA ChunkIs ==
    ASSUME Image!StreamAssumption, NEW s \in Seq(ImageByte), NEW n \in Nat,
             (n + 1) * kMaxBlock <= Len(s)
    PROVE  /\ ChunkOf(s, n + 1) = SubSeq(s, n * kMaxBlock + 1, (n + 1) * kMaxBlock)
           /\ ChunkOf(s, n + 1) \in Seq(ImageByte) /\ Len(ChunkOf(s, n + 1)) = kMaxBlock
           /\ \A t \in Seq(ImageByte) : ChunkOf(s \o t, n + 1) = ChunkOf(s, n + 1)
<1>1. /\ n * kMaxBlock \in Nat /\ (n + 1) * kMaxBlock \in Nat
      /\ (n + 1) * kMaxBlock = n * kMaxBlock + kMaxBlock /\ kMaxBlock \in Nat \ {0}
      /\ n * kMaxBlock <= (n + 1) * kMaxBlock
  BY TimesNext DEF Image!StreamAssumption
<1>2. n + 1 - 1 = n
  OBVIOUS
<1>3. \A t : ChunkOf(t, n + 1) = SubSeq(t, n * kMaxBlock + 1, (n + 1) * kMaxBlock)
  <2> TAKE t
  <2> DEFINE from == ((n + 1) - 1) * kMaxBlock + 1
  <2>1. ChunkOf(t, n + 1) = SubSeq(t, from, (n + 1) * kMaxBlock)
    BY DEF ChunkOf
  <2>2. from = n * kMaxBlock + 1
    BY <1>2
  <2> HIDE DEF from
  <2> QED BY <2>1, <2>2
<1> DEFINE lo == n * kMaxBlock
           hi == (n + 1) * kMaxBlock
<1>4. lo \in Nat /\ hi \in Nat /\ lo <= hi /\ hi <= Len(s) /\ hi - lo = kMaxBlock
  BY <1>1
<1> HIDE DEF lo, hi
<1>5. SubSeq(s, lo + 1, hi) \in Seq(ImageByte) /\ Len(SubSeq(s, lo + 1, hi)) = hi - lo
      /\ \A t \in Seq(ImageByte) : SubSeq(s \o t, lo + 1, hi) = SubSeq(s, lo + 1, hi)
  BY <1>4, Slice, SliceOfConcat
<1> QED BY <1>3, <1>4, <1>5 DEF lo, hi

\* Blocks end to end are the bytes they were cut from.
LEMMA ChunksFlat ==
    ASSUME Image!StreamAssumption, NEW s \in Seq(ImageByte)
    PROVE  \A n \in Nat : n * kMaxBlock <= Len(s) =>
               /\ Chunks(s, n) \in Seq(Seq(ImageByte)) /\ Len(Chunks(s, n)) = n
               /\ Image!FlattenSeq(Chunks(s, n)) = SubSeq(s, 1, n * kMaxBlock)
<1> DEFINE Good(n) == /\ Chunks(s, n) \in Seq(Seq(ImageByte)) /\ Len(Chunks(s, n)) = n
                      /\ Image!FlattenSeq(Chunks(s, n)) = SubSeq(s, 1, n * kMaxBlock)
           S == {n \in Nat : n * kMaxBlock <= Len(s) => Good(n)}
           T == Seq(ImageByte)
<1>1. kMaxBlock \in Nat \ {0} /\ Len(s) \in Nat
  BY LenProperties DEF Image!StreamAssumption
<1>2. 0 \in S
  <2>1. Chunks(s, 0) = <<>>
    <3>1. Chunks(s, 0) \in [1 .. 0 -> T]
      BY DEF Chunks
    <3> HIDE DEF T
    <3>2. Chunks(s, 0) \in Seq(T)
      BY <3>1 DEF Seq
    <3>3. 1 .. Len(Chunks(s, 0)) = 1 .. 0 /\ Len(Chunks(s, 0)) \in Nat
      BY <3>1, <3>2, LenProperties
    <3>4. Len(Chunks(s, 0)) = 0
      <4>1. 1 \notin 1 .. Len(Chunks(s, 0))
        BY <3>3
      <4> QED BY <3>3, <4>1
    <3> QED BY <3>2, <3>4, EmptySeq
  <2>2. <<>> \in Seq(Seq(ImageByte)) /\ Len(<<>>) = 0
    BY EmptySeq
  <2>3. SubSeq(s, 1, 0) = <<>> /\ 0 * kMaxBlock = 0
    BY <1>1, SubSeqEmpty
  <2>4. Good(0)
    BY <2>1, <2>2, <2>3, FlatEmpty, SameFlat
  <2> HIDE DEF Good
  <2> QED BY <2>4
<1>3. ASSUME NEW n \in Nat, n \in S PROVE n + 1 \in S
  <2> HIDE DEF Good
  <2>1. SUFFICES ASSUME (n + 1) * kMaxBlock <= Len(s) PROVE Good(n + 1)
    OBVIOUS
  <2> USE DEF Good
  <2>2. /\ n * kMaxBlock \in Nat /\ (n + 1) * kMaxBlock \in Nat
        /\ n * kMaxBlock <= (n + 1) * kMaxBlock
    BY <1>1, TimesNext
  <2>3. Good(n)
    <3>1. n * kMaxBlock <= Len(s)
      BY <1>1, <2>1, <2>2
    <3> HIDE DEF Good
    <3> QED BY <1>3, <3>1
  <2>4. ChunkOf(s, n + 1) \in Seq(ImageByte)
        /\ ChunkOf(s, n + 1) = SubSeq(s, n * kMaxBlock + 1, (n + 1) * kMaxBlock)
    BY <2>1, ChunkIs
  <2> DEFINE q == Append(Chunks(s, n), ChunkOf(s, n + 1))
  <2>5. /\ q \in Seq(Seq(ImageByte)) /\ Len(q) = n + 1 /\ (\A i \in 1 .. n : q[i] = ChunkOf(s, i))
        /\ q[n + 1] = ChunkOf(s, n + 1)
    <3>1. \A i \in 1 .. n : Chunks(s, n)[i] = ChunkOf(s, i)
      BY DEF Chunks
    <3> QED BY <2>3, <2>4, <3>1, AppendProperties
  <2>6. Image!FlattenSeq(q) = SubSeq(s, 1, n * kMaxBlock)
          \o SubSeq(s, n * kMaxBlock + 1, (n + 1) * kMaxBlock)
    BY <2>3, <2>4, FlatAppend, SameFlat
  <2> HIDE DEF q
  <2>7. q = Chunks(s, n + 1)
    <3>1. DOMAIN q = 1 .. n + 1 /\ q = [i \in DOMAIN q |-> q[i]]
      BY <2>5, LenProperties
    <3>2. \A i \in 1 .. n + 1 : q[i] = ChunkOf(s, i)
      BY <2>5
    <3> QED BY <3>1, <3>2, Zenon DEF Chunks
  <2>8. SubSeq(s, 1, n * kMaxBlock) \o SubSeq(s, n * kMaxBlock + 1, (n + 1) * kMaxBlock)
            = SubSeq(s, 1, (n + 1) * kMaxBlock)
    <3> DEFINE lo == n * kMaxBlock
               hi == (n + 1) * kMaxBlock
    <3>1. lo \in Nat /\ hi \in Nat /\ lo <= hi /\ hi <= Len(s)
      BY <2>1, <2>2
    <3> HIDE DEF lo, hi
    <3>2. SubSeq(s, 1, lo) \o SubSeq(s, lo + 1, hi) = SubSeq(s, 1, hi)
      BY <3>1, SliceJoins
    <3> QED BY <3>2 DEF lo, hi
  <2> QED BY <2>5, <2>6, <2>7, <2>8
<1>4. \A n \in Nat : n \in S
  <2> HIDE DEF S
  <2> QED BY <1>2, <1>3, NatsFrom
<1> QED BY <1>4

\* The blocks of a file so far, and their bytes.
LEMMA BlocksAre ==
    ASSUME Image!StreamAssumption, NEW s \in Seq(ImageByte), NEW n \in Nat, n * kMaxBlock <= Len(s)
    PROVE  /\ FullBlocks(s, n) \in Seq(Stored) /\ Len(FullBlocks(s, n)) = n
           /\ [b \in DOMAIN FullBlocks(s, n) |-> FullBlocks(s, n)[b].stored] = Chunks(s, n)
<1> DEFINE f == FullBlocks(s, n)
<1>1. Chunks(s, n) \in Seq(Seq(ImageByte)) /\ Len(Chunks(s, n)) = n
  BY ChunksFlat
<1>2. \A b \in 1 .. n : ChunkOf(s, b) \in Seq(ImageByte)
  <2>1. \A b \in 1 .. n : Chunks(s, n)[b] \in Seq(ImageByte) /\ Chunks(s, n)[b] = ChunkOf(s, b)
    <3>1. \A b \in 1 .. n : Chunks(s, n)[b] \in Seq(ImageByte)
      BY <1>1, ElementOfSeq
    <3> QED BY <3>1 DEF Chunks
  <2> QED BY <2>1
<1>3. \A b \in 1 .. n : Image!Block(ChunkOf(s, b), FALSE) \in Stored
  <2>1. \A t \in Seq(ImageByte) : Image!Block(t, FALSE) \in Stored
    BY DEF Image!Block, Stored
  <2> QED BY <1>2, <2>1
<1>4. f \in [1 .. n -> Stored]
  BY <1>3, Zenon DEF FullBlocks
<1>5. f \in Seq(Stored)
  BY <1>4 DEF Seq
<1>6. Len(f) = n /\ DOMAIN f = 1 .. n
  <2>1. 1 .. Len(f) = 1 .. n /\ Len(f) \in Nat /\ DOMAIN f = 1 .. Len(f)
    BY <1>4, <1>5, LenProperties, SMTT(40)
  <2> HIDE DEF f
  <2>2. Len(f) = n
    BY <2>1, SameRange
  <2> QED BY <2>1, <2>2, Zenon
<1>7. \A b \in 1 .. n : f[b].stored = ChunkOf(s, b)
  <2>1. \A b \in 1 .. n : f[b] = Image!Block(ChunkOf(s, b), FALSE)
    BY DEF FullBlocks
  <2>2. \A t : Image!Block(t, FALSE).stored = t
    BY DEF Image!Block
  <2> HIDE DEF f
  <2> QED BY <2>1, <2>2
<1>8. [b \in DOMAIN f |-> f[b].stored] = Chunks(s, n)
  <2> HIDE DEF f
  <2> QED BY <1>6, <1>7 DEF Chunks
<1> QED BY <1>5, <1>6, <1>8

\* A list one longer is the shorter one with an element appended.
LEMMA AppendIs ==
    ASSUME NEW S, NEW q \in Seq(S), NEW e \in S, NEW n \in Nat, n = Len(q),
           NEW f \in [1 .. n + 1 -> S], \A i \in 1 .. n : f[i] = q[i], f[n + 1] = e
    PROVE  f = Append(q, e)
<1> DEFINE a == Append(q, e)
<1>1. a \in Seq(S) /\ Len(a) = n + 1 /\ (\A i \in 1 .. n : a[i] = q[i]) /\ a[n + 1] = e
  BY AppendProperties
<1> HIDE DEF a
<1>2. f \in Seq(S)
  BY DEF Seq
<1>3. Len(f) = n + 1
  <2>1. 1 .. Len(f) = 1 .. n + 1 /\ Len(f) \in Nat
    BY <1>2, LenProperties
  <2> QED BY <2>1
<1>4. \A i \in 1 .. Len(f) : f[i] = a[i]
  <2>1. \A i \in 1 .. n + 1 : i \in 1 .. n \/ i = n + 1
    OBVIOUS
  <2> QED BY <1>1, <1>3, <2>1, Zenon
<1>5. f = a
  BY <1>1, <1>2, <1>3, <1>4, SeqEqual
<1> QED BY <1>5 DEF a

\* A function on 1 .. n + 1, by its values.
LEMMA IsOnNext ==
    ASSUME NEW S, NEW n \in Nat, NEW f, f = [i \in 1 .. n + 1 |-> f[i]],
           \A i \in 1 .. n : f[i] \in S, f[n + 1] \in S
    PROVE  f \in [1 .. n + 1 -> S]
<1>1. \A i \in 1 .. n + 1 : i \in 1 .. n \/ i = n + 1
  OBVIOUS
<1>2. \A i \in 1 .. n + 1 : f[i] \in S
  BY <1>1, Zenon
<1>3. [i \in 1 .. n + 1 |-> f[i]] \in [1 .. n + 1 -> S]
  BY <1>2
<1> QED BY <1>3, Zenon

\* One block more.
LEMMA BlocksNext ==
    ASSUME Image!StreamAssumption, NEW s \in Seq(ImageByte), NEW n \in Nat,
             (n + 1) * kMaxBlock <= Len(s)
    PROVE  FullBlocks(s, n + 1) = Append(FullBlocks(s, n), Image!Block(ChunkOf(s, n + 1), FALSE))
<1>1. n * kMaxBlock <= Len(s)
  <2>1. kMaxBlock \in Nat \ {0} /\ Len(s) \in Nat
    BY LenProperties DEF Image!StreamAssumption
  <2>2. n * kMaxBlock \in Nat /\ (n + 1) * kMaxBlock = n * kMaxBlock + kMaxBlock
    BY <2>1, TimesNext
  <2> QED BY <2>1, <2>2
<1>2. FullBlocks(s, n) \in Seq(Stored) /\ Len(FullBlocks(s, n)) = n
  BY <1>1, BlocksAre
<1>3. Image!Block(ChunkOf(s, n + 1), FALSE) \in Stored
  <2>1. ChunkOf(s, n + 1) \in Seq(ImageByte)
    BY ChunkIs
  <2> QED BY <2>1 DEF Image!Block, Stored
<1> DEFINE f == FullBlocks(s, n + 1)
<1>4. f = [i \in 1 .. n + 1 |-> f[i]]
  BY Zenon DEF FullBlocks
<1>5. (\A i \in 1 .. n : f[i] = FullBlocks(s, n)[i])
        /\ f[n + 1] = Image!Block(ChunkOf(s, n + 1), FALSE)
  <2>1. (\A i \in 1 .. n : i \in 1 .. n + 1) /\ n + 1 \in 1 .. n + 1
    OBVIOUS
  <2> QED BY <2>1, Zenon DEF FullBlocks
<1> DEFINE q == FullBlocks(s, n)
           e == Image!Block(ChunkOf(s, n + 1), FALSE)
<1>6. q \in Seq(Stored) /\ n = Len(q) /\ e \in Stored /\ \A i \in 1 .. n : f[i] = q[i]
  BY <1>2, <1>3, <1>5
<1>10. f[n + 1] = e
  BY <1>5
<1> HIDE DEF f, q, e
<1>7. \A i \in 1 .. n : q[i] \in Stored
  BY <1>6, ElementOfSeq
<1>8. f \in [1 .. n + 1 -> Stored]
  <2>1. \A i \in 1 .. n : f[i] \in Stored
    BY <1>6, <1>7
  <2>2. f[n + 1] \in Stored
    BY <1>6, <1>10
  <2> QED BY <1>4, <2>1, <2>2, IsOnNext
<1>9. f = Append(q, e)
  BY <1>6, <1>8, <1>10, AppendIs
<1> QED BY <1>9 DEF f, q, e

\* More bytes do not change the blocks before them.
LEMMA BlocksStay ==
    ASSUME Image!StreamAssumption, NEW s \in Seq(ImageByte), NEW t \in Seq(ImageByte),
             NEW n \in Nat,
           n * kMaxBlock <= Len(s)
    PROVE  FullBlocks(s \o t, n) = FullBlocks(s, n)
<1>1. kMaxBlock \in Nat \ {0} /\ Len(s) \in Nat /\ n * kMaxBlock \in Nat
  BY LenProperties DEF Image!StreamAssumption
<1>2. ASSUME NEW b \in 1 .. n PROVE ChunkOf(s \o t, b) = ChunkOf(s, b)
  <2>1. b - 1 \in Nat /\ (b - 1) + 1 = b
    OBVIOUS
  <2>2. b * kMaxBlock <= n * kMaxBlock /\ b * kMaxBlock \in Nat
    BY <1>1, TimesNext
  <2>3. b * kMaxBlock <= Len(s)
    BY <1>1, <2>2
  <2> DEFINE i == b - 1
  <2>4. i \in Nat /\ i + 1 = b /\ (i + 1) * kMaxBlock <= Len(s)
    BY <2>1, <2>3
  <2> HIDE DEF i
  <2>5. ChunkOf(s \o t, i + 1) = ChunkOf(s, i + 1)
    BY <2>4, ChunkIs
  <2> QED BY <2>4, <2>5
<1> QED BY <1>2, Zenon DEF FullBlocks

\* A text of n blocks and up to one more, as zlibStored() cuts it.
LEMMA ZlibIs ==
    ASSUME Image!StreamAssumption, NEW s \in Seq(ImageByte), NEW n \in Nat, n * kMaxBlock < Len(s),
           Len(s) <= (n + 1) * kMaxBlock
    PROVE  /\ Image!zlibStored(s) = Append(FullBlocks(s, n), Image!Block(RestOf(s, n), TRUE))
           /\ Image!zlibStored(s) \in Seq(Stored) /\ Len(Image!zlibStored(s)) = n + 1
           /\ Image!FlattenSeq([b \in DOMAIN Image!zlibStored(s) |-> Image!zlibStored(s)[b].stored]) = s
<1> DEFINE K == kMaxBlock
           Is(m) == m * K >= Len(s) /\ (m > 1 => (m - 1) * K < Len(s))
           blocks == CHOOSE m \in 1 .. Len(s) + 1 : Is(m)
<1>1. K \in Nat \ {0} /\ Len(s) \in Nat /\ n * K \in Nat /\ (n + 1) * K \in Nat /\ n <= n * K
      /\ (n + 1) * K = n * K + K
  BY TimesNext, LenProperties DEF Image!StreamAssumption
<1>2. n + 1 \in 1 .. Len(s) + 1 /\ Is(n + 1)
  <2>1. (n + 1) - 1 = n
    OBVIOUS
  <2> QED BY <1>1, <2>1
<1>3. ASSUME NEW m \in 1 .. Len(s) + 1, Is(m) PROVE m = n + 1
  <2>1. m * K \in Nat /\ m \in Nat /\ (m - 1) \in Nat /\ (m - 1) * K \in Nat
    BY <1>1
  <2>2. ~(m <= n)
    <3>1. m <= n => m * K <= n * K
      BY <1>1, <2>1, TimesNext
    <3> QED BY <1>1, <1>3, <2>1, <3>1
  <2>3. ~(n + 1 <= m - 1)
    <3>1. n + 1 <= m - 1 => (n + 1) * K <= (m - 1) * K
      BY <1>1, <2>1, TimesNext
    <3> QED BY <1>1, <1>3, <2>1, <3>1
  <2> QED BY <2>1, <2>2, <2>3
<1>4. blocks = n + 1
  <2> HIDE DEF Is
  <2> QED BY <1>2, <1>3
<1> DEFINE upto(b) == IF b < blocks THEN b * K ELSE Len(s)
           f == [b \in 1 .. blocks |-> Image!Block(SubSeq(s, (b - 1) * K + 1, upto(b)), b = blocks)]
<1>5. Image!zlibStored(s) = f
  BY DEF Image!zlibStored
<1> HIDE DEF blocks
<1>6. DOMAIN f = 1 .. n + 1 /\ f = [b \in 1 .. n + 1 |-> f[b]]
  BY <1>4
<1>7. ASSUME NEW b \in 1 .. n PROVE f[b] = FullBlocks(s, n)[b]
  <2>1. b \in 1 .. blocks /\ upto(b) = b * K /\ (b = blocks) = FALSE
    BY <1>4
  <2>2. f[b] = Image!Block(SubSeq(s, (b - 1) * K + 1, upto(b)), b = blocks)
    BY <2>1, Zenon
  <2>3. f[b] = Image!Block(SubSeq(s, (b - 1) * K + 1, b * K), FALSE)
    <3> HIDE DEF upto, f
    <3> QED BY <2>1, <2>2, Zenon
  <2> QED BY <2>3, Zenon DEF FullBlocks, ChunkOf
<1>8. f[n + 1] = Image!Block(RestOf(s, n), TRUE)
  <2>1. n + 1 \in 1 .. blocks /\ upto(n + 1) = Len(s) /\ (n + 1 = blocks) = TRUE
    BY <1>4
  <2>2. f[n + 1] = Image!Block(SubSeq(s, ((n + 1) - 1) * K + 1, upto(n + 1)), n + 1 = blocks)
    BY <2>1, Zenon
  <2> DEFINE from == ((n + 1) - 1) * K + 1
  <2>3. from = n * K + 1
    <3>1. (n + 1) - 1 = n
      OBVIOUS
    <3> QED BY <3>1
  <2>4. f[n + 1] = Image!Block(SubSeq(s, from, upto(n + 1)), n + 1 = blocks)
    BY <2>2, Zenon
  <2>5. f[n + 1] = Image!Block(SubSeq(s, n * K + 1, Len(s)), TRUE)
    <3> HIDE DEF upto, f, from
    <3> QED BY <2>1, <2>3, <2>4, Zenon
  <2> QED BY <2>5, Zenon DEF RestOf
<1>9. n * K <= Len(s) /\ Len(s) <= Len(s)
  BY <1>1
<1>10. RestOf(s, n) \in Seq(ImageByte)
  <2> DEFINE lo == n * K
  <2>1. lo \in Nat /\ lo <= Len(s) /\ Len(s) \in Nat
    BY <1>1, <1>9
  <2> HIDE DEF lo
  <2>2. SubSeq(s, lo + 1, Len(s)) \in Seq(ImageByte)
    BY <1>9, <2>1, Slice
  <2> QED BY <2>2 DEF lo, RestOf
<1> DEFINE q == FullBlocks(s, n)
           e == Image!Block(RestOf(s, n), TRUE)
<1>11. q \in Seq(Stored) /\ Len(q) = n /\ [b \in DOMAIN q |-> q[b].stored] = Chunks(s, n)
  BY <1>9, BlocksAre
<1>12. e \in Stored /\ e.stored = RestOf(s, n)
  BY <1>10 DEF Stored, Image!Block
<1>22. (\A i \in 1 .. n : f[i] = q[i]) /\ f[n + 1] = e
  BY <1>7, <1>8
<1> HIDE DEF f, q, e
<1>20. \A i \in 1 .. n : q[i] \in Stored
  BY <1>11, ElementOfSeq
<1>21. f \in [1 .. n + 1 -> Stored]
  <2>1. (\A i \in 1 .. n : f[i] \in Stored) /\ f[n + 1] \in Stored
    BY <1>12, <1>20, <1>22
  <2> QED BY <1>6, <2>1, IsOnNext
<1>13. f = Append(q, e)
  BY <1>11, <1>12, <1>21, <1>22, AppendIs
<1>14. f \in Seq(Stored) /\ Len(f) = n + 1 /\ (\A i \in 1 .. n : f[i] = q[i]) /\ f[n + 1] = e
  BY <1>11, <1>12, <1>13, AppendProperties
<1> DEFINE g == [b \in DOMAIN f |-> f[b].stored]
           c == Chunks(s, n)
<1>15. c \in Seq(Seq(ImageByte)) /\ Len(c) = n /\ Image!FlattenSeq(c) = SubSeq(s, 1, n * K)
  BY <1>9, ChunksFlat
<1>16. g = Append(c, RestOf(s, n))
  <2>1. DOMAIN g = 1 .. n + 1 /\ g = [i \in 1 .. n + 1 |-> g[i]]
    BY <1>6, Zenon
  <2>2. \A i \in 1 .. n : g[i] = c[i]
    <3>1. DOMAIN q = 1 .. n
      BY <1>11, LenProperties
    <3>2. \A i \in 1 .. n : i \in DOMAIN f /\ i \in DOMAIN q
      BY <1>6, <3>1
    <3> HIDE DEF c
    <3>3. \A i \in 1 .. n : q[i].stored = c[i]
      BY <1>11, <3>2, Zenon DEF c
    <3> QED BY <1>14, <3>2, <3>3, Zenon
  <2>3. g[n + 1] = RestOf(s, n)
    <3>1. n + 1 \in DOMAIN f
      BY <1>6
    <3> QED BY <1>12, <1>14, <3>1, Zenon
  <2> DEFINE r == RestOf(s, n)
             T == Seq(ImageByte)
  <2>4. c \in Seq(T) /\ r \in T
    BY <1>10, <1>15
  <2> HIDE DEF g, c, r, T
  <2>6. \A i \in 1 .. n : c[i] \in T
    BY <1>15, <2>4, ElementOfSeq
  <2>7. g[n + 1] = r
    BY <2>3 DEF r
  <2>8. g \in [1 .. n + 1 -> T]
    <3>1. (\A i \in 1 .. n : g[i] \in T) /\ g[n + 1] \in T
      BY <2>2, <2>4, <2>6, <2>7
    <3> QED BY <2>1, <3>1, IsOnNext
  <2>9. n = Len(c)
    BY <1>15
  <2>5. g = Append(c, r)
    BY <2>2, <2>4, <2>7, <2>8, <2>9, AppendIs
  <2> QED BY <2>5 DEF r
<1>17. Image!FlattenSeq(Append(c, RestOf(s, n))) = SubSeq(s, 1, n * K) \o RestOf(s, n)
  BY <1>10, <1>15, FlatAppend, SameFlat
<1>18. SubSeq(s, 1, n * K) \o RestOf(s, n) = s
  <2> DEFINE lo == n * K
  <2>1. lo \in Nat /\ lo <= Len(s) /\ Len(s) \in Nat /\ RestOf(s, n) = SubSeq(s, lo + 1, Len(s))
    BY <1>1, <1>9 DEF RestOf
  <2> HIDE DEF lo
  <2>2. SubSeq(s, 1, lo) \o SubSeq(s, lo + 1, Len(s)) = SubSeq(s, 1, Len(s))
    BY <1>9, <2>1, SliceJoins
  <2>3. SubSeq(s, 1, Len(s)) = s
    BY SubSeqFull
  <2> QED BY <2>1, <2>2, <2>3 DEF lo
<1>19. Image!FlattenSeq(g) = s
  BY <1>16, <1>17, <1>18, Zenon
<1> QED BY <1>5, <1>13, <1>14, <1>19, Zenon DEF q, e

-----------------------------------------------------------------------------
(* The picture stays what it is *)

\* What depends on nothing but the image stays as it is.
LEMMA ImageSame ==
    ASSUME picture' = picture
    PROVE  /\ Image!Usable' = Image!Usable /\ Image!Fits' = Image!Fits /\ Announced' = Announced
           /\ Image!OneShotPng' = Image!OneShotPng /\ Image!ExrTable' = Image!ExrTable
           /\ Image!OneShotExr' = Image!OneShotExr
           /\ Image!RowBytes' = Image!RowBytes
           /\ \A n : Image!Raw(n)' = Image!Raw(n) /\ Image!RawRow(n)' = Image!RawRow(n)
                       /\ Image!ExrRow(n, n)' = Image!ExrRow(n, n)
<1>1. Image!Usable' = Image!Usable
  BY DEF Image!Usable
<1>2. Image!fileChannels' = Image!fileChannels
  BY DEF Image!fileChannels
<1>3. Image!RowBytes' = Image!RowBytes
  BY <1>2 DEF Image!RowBytes
<1>4. \A n : Image!zlibStoredSize(n)' = Image!zlibStoredSize(n)
  BY DEF Image!zlibStoredSize
<1>5. Image!Fits' = Image!Fits
  BY <1>3 DEF Image!Fits, Image!zlibStoredSize
<1>6. Announced' = Announced
  BY <1>3, Zenon DEF Announced, Image!zlibStoredSize, Image!Prologue
<1>7. ASSUME NEW n PROVE Image!RawRow(n)' = Image!RawRow(n)
  BY <1>2, <1>3 DEF Image!RawRow
<1>8. ASSUME NEW n PROVE Image!Raw(n)' = Image!Raw(n)
  BY <1>2, <1>3, <1>7 DEF Image!Raw
<1>9. Image!ExrTable' = Image!ExrTable
  BY DEF Image!ExrTable, Image!BlockStride
<1>10. Image!Layout' = Image!Layout
  BY DEF Image!Layout
<1>11. ASSUME NEW n PROVE Image!ExrRow(n, n)' = Image!ExrRow(n, n)
  BY <1>10 DEF Image!ExrRow
<1>12. Image!OneShotExr' = Image!OneShotExr
  BY <1>9, <1>10, <1>11 DEF Image!OneShotExr
<1>13. Image!Scanlines' = Image!Scanlines
  BY <1>2 DEF Image!Scanlines, Image!Saved
<1>14. Image!OneShotPng' = Image!OneShotPng
  BY <1>13 DEF Image!OneShotPng, Image!zlibStored, Image!Block
<1> QED BY <1>1, <1>3, <1>5, <1>6, <1>7, <1>8, <1>9, <1>11, <1>12, <1>14

-----------------------------------------------------------------------------
(* Every step keeps the invariant *)

\* A writer begins in its invariant, and each of its steps keeps it.
LEMMA InitImage == ASSUME Image!StreamAssumption, Image!Init PROVE ImageInv
<1>1. picture \in Image!Images /\ picture.height \in Nat
  BY DEF Image!Init, Image!Images, Image!StreamAssumption
<1>2. WriterInv
  <2>1. rowsWritten = 0 /\ rowsWritten \in 0 .. picture.height /\ writer = "none" /\ writer # "open"
    BY <1>1 DEF Image!Init
  <2> QED BY <1>1, <2>1, Zenon DEF Image!Init, WriterInv
<1>3. CallInv
  BY DEF Image!Init, CallInv, Image!NoCall
<1>4. PngInv /\ ExrInv
  BY DEF Image!Init, PngInv, ExrInv
<1> QED BY <1>2, <1>3, <1>4 DEF ImageInv

LEMMA OpenImage == ASSUME Image!StreamAssumption, ImageInv, Image!Refuse \/ Image!OpenFails
  \/ Image!Open PROVE ImageInv'
<1>1. /\ WriterInv /\ CallInv /\ picture' = picture /\ writing' = writing /\ writer = "none" /\ writing = Image!NoCall
      /\ rowsWritten' = rowsWritten /\ pending' = pending /\ adler' = adler /\ crc' = crc
      /\ rowsWritten = 0 /\ ~ended /\ ended' = ended
      /\ pending = <<>> /\ adler = <<>> /\ crc = <<>>
  BY DEF Image!Refuse, Image!OpenFails, Image!Open, ImageInv, WriterInv, Image!writerVars
<1>2. Image!Usable' = Image!Usable /\ Image!Fits' = Image!Fits
  BY <1>1, ImageSame
<1>3. CASE Image!Refuse \/ Image!OpenFails
  <2>1. writer' = "refused" /\ returned' = FALSE /\ intact' = intact /\ ~intact
        /\ (~(Image!Usable /\ Image!Fits) => file' = file /\ file = Image!NoFile)
    BY <1>1, <1>3 DEF Image!Refuse, Image!OpenFails, Image!writerVars, WriterInv
  <2>2. WriterInv'
    BY <1>1, <1>2, <2>1 DEF WriterInv
  <2>3. CallInv'
    BY <1>1 DEF CallInv, Image!NoCall
  <2> QED BY <2>1, <2>2, <2>3 DEF ImageInv, PngInv, ExrInv
<1>4. CASE Image!Open
  <2>1. writer' = "open" /\ returned' = TRUE /\ intact' = TRUE /\ Image!Usable /\ Image!Fits
    BY <1>4 DEF Image!Open
  <2>2. WriterInv'
    BY <1>1, <1>2, <2>1 DEF WriterInv
  <2>3. CallInv'
    BY <1>1 DEF CallInv, Image!NoCall
  <2>4. rowsWritten' + writing'.done = 0 /\ picture \in Image!Images
    BY <1>1 DEF Image!NoCall, WriterInv
  <2>5. PngInv'
    <3>1. SUFFICES ASSUME picture.format = "png" PROVE PngInv'
      BY <1>1 DEF PngInv
    <3>2. Image!Raw(0)' = <<>>
      BY <1>1, <2>1, <2>4, RawNext, ImageSame
    <3>3. Cut(0)'
      <4>1. 0 * kMaxBlock = 0 /\ kMaxBlock \in Nat
        BY DEF Image!StreamAssumption
      <4>2. FullBlocks(<<>>, 0) = <<>>
        <5>1. <<>> \in Seq(ImageByte) /\ Len(<<>>) = 0
          BY EmptySeq
        <5>2. FullBlocks(<<>>, 0) \in Seq(Stored) /\ Len(FullBlocks(<<>>, 0)) = 0
          <6>1. 0 * kMaxBlock <= Len(<<>>) /\ 0 \in Nat
            BY <4>1, <5>1
          <6> QED BY <5>1, <6>1, BlocksAre
        <5> QED BY <5>2, EmptySeq
      <4>3. RestOf(<<>>, 0) = <<>>
        <5>1. Len(<<>>) < 0 * kMaxBlock + 1 /\ 0 * kMaxBlock + 1 \in Int /\ Len(<<>>) \in Int
          BY <4>1, EmptySeq
        <5> QED BY <5>1, SubSeqEmpty DEF RestOf
      <4>4. adler' = <<>> /\ crc' = <<>> /\ pending' = <<>> /\ Len(<<>>) = 0
        BY <1>1, EmptySeq
      <4> QED BY <4>1, <4>2, <4>3, <4>4 DEF Cut
    <3>4. file' = Announced' \o crc'
      <4>1. file' = Announced
        BY <1>4, <3>1 DEF Image!Open, Announced
      <4>2. Announced \o <<>> = Announced
        <5> DEFINE x == Image!Prologue(Image!zlibStoredSize(Image!RowBytes * picture.height))
        <5>1. <<x>> \in Seq({x})
          OBVIOUS
        <5> HIDE DEF x
        <5>2. <<x>> \o <<>> = <<x>>
          BY <5>1, ConcatEmptySeq
        <5> QED BY <5>2, SMTT(40) DEF x, Announced
      <4> QED BY <1>1, <4>1, <4>2, ImageSame
    <3>5. Len(pending') = 0 /\ Image!RowBytes \in Nat /\ Image!RowBytes' = Image!RowBytes
            /\ kMaxBlock \in Nat
      BY <1>1, <2>1, <2>4, EmptySeq, RowIs, ImageSame DEF Image!StreamAssumption
    <3>6. ~ended' /\ writing'.op = "none" /\ writing'.done = 0 /\ rowsWritten' = 0 /\ 0 + 0 = 0
      BY <1>1 DEF Image!NoCall
    <3> HIDE DEF Image!Raw
    <3>7. adler' = Image!Raw(rowsWritten + writing.done)'
      BY <1>1, <3>2, <3>6
    <3> QED BY <3>3, <3>4, <3>5, <3>6, <3>7 DEF PngInv
  <2>6. ExrInv'
    <3>1. SUFFICES ASSUME picture.format = "exr" PROVE file' = <<Image!ExrTable>>' \o [y \in 1 .. 0 |-> Image!ExrRow(y - 1, y - 1)']
      <4>1. rowsWritten' + writing'.done = 0
        BY <2>4
      <4> QED BY <4>1, <1>1 DEF ExrInv
    <3>2. file' = <<Image!ExrTable>>
      BY <1>4, <3>1 DEF Image!Open
    <3>3. [y \in 1 .. 0 |-> Image!ExrRow(y - 1, y - 1)'] = <<>>
      OBVIOUS
    <3>4. <<Image!ExrTable>> \o <<>> = <<Image!ExrTable>>
      <4>1. <<Image!ExrTable>> \in Seq({Image!ExrTable})
        OBVIOUS
      <4> QED BY <4>1, ConcatEmptySeq
    <3> QED BY <1>1, <3>2, <3>3, <3>4, ImageSame
  <2> QED BY <2>2, <2>3, <2>5, <2>6 DEF ImageInv
<1> QED BY <1>3, <1>4

\* A call that failed: nothing is said of the file any more.
LEMMA FailedKeepsImage ==
    ASSUME Image!StreamAssumption, ImageInv, writer = "open", Image!Return(FALSE), intact' = FALSE,
           UNCHANGED <<picture, writer, ended, rowsWritten, pending, adler, crc>>
    PROVE  ImageInv'
<1>1. WriterInv /\ picture' = picture /\ writing' = Image!NoCall
  BY DEF ImageInv, Image!Return
<1>2. Image!Usable' = Image!Usable /\ Image!Fits' = Image!Fits
  BY <1>1, ImageSame
<1>3. WriterInv'
  BY <1>1, <1>2 DEF WriterInv, Image!Return
<1>4. CallInv'
  BY <1>1 DEF CallInv, Image!NoCall
<1> QED BY <1>3, <1>4 DEF ImageInv, PngInv, ExrInv

\* The rows of a call.
LEMMA WriteRowsImage ==
    ASSUME Image!StreamAssumption, ImageInv, NEW n \in Int, Image!writeRows(n) PROVE ImageInv'
<1>1. WriterInv /\ CallInv /\ writer = "open" /\ writing = Image!NoCall
  BY DEF ImageInv, Image!writeRows
<1>2. CASE Image!RowsRefused(n)
  BY <1>1, <1>2, FailedKeepsImage DEF Image!writeRows, Image!fail
<1>3. CASE ~Image!RowsRefused(n)
  <2>1. /\ writing' = [op |-> "writeRows", count |-> n, done |-> 0] /\ intact /\ ~ended /\ n >= 0
        /\ n <= picture.height - rowsWritten
        /\ UNCHANGED <<picture, file, writer, intact, ended, rowsWritten, pending, adler, crc, returned>>
    <3>1. /\ writing' = [op |-> "writeRows", count |-> n, done |-> 0]
          /\ UNCHANGED <<picture, file, writer, Image!writerVars, returned>>
      BY <1>3, Zenon DEF Image!writeRows
    <3>2. picture.height \in Nat /\ rowsWritten \in Nat
      BY <1>1 DEF WriterInv, Image!Images, Image!StreamAssumption
    <3>3. intact /\ ~ended /\ ~(n < 0) /\ ~(n > picture.height - rowsWritten)
      BY <1>3, Zenon DEF Image!RowsRefused
    <3>4. n >= 0 /\ n <= picture.height - rowsWritten
      BY <3>2, <3>3
    <3> QED BY <3>1, <3>3, <3>4 DEF Image!writerVars
  <2>2. Image!Usable' = Image!Usable /\ Image!Fits' = Image!Fits
    BY <2>1, ImageSame
  <2>3. picture.height \in Nat /\ rowsWritten \in Nat
    BY <1>1 DEF WriterInv, Image!Images, Image!StreamAssumption
  <2>4. WriterInv'
    BY <1>1, <2>1, <2>2 DEF WriterInv
  <2>5. CallInv'
    BY <1>1, <2>1, <2>3 DEF CallInv, Image!NoCall
  <2>6. rowsWritten + writing.done = rowsWritten' + writing'.done
    BY <1>1, <2>1 DEF Image!NoCall
  <2>7. PngInv'
    <3>1. SUFFICES ASSUME picture.format = "png" PROVE PngInv'
      BY <2>1 DEF PngInv
    <3>2. /\ adler = Image!Raw(rowsWritten + writing.done) /\ (\E k : Cut(k))
               /\ file = Announced \o crc
          /\ Len(pending) <= kMaxBlock + Image!RowBytes /\ Len(pending) <= kMaxBlock
      BY <1>1, <2>1, <3>1 DEF ImageInv, PngInv, Image!NoCall
    <3>3. adler' = Image!Raw(rowsWritten + writing.done)'
      <4>1. Image!Raw(rowsWritten + writing.done)' = Image!Raw(rowsWritten' + writing'.done)
        BY <2>1, ImageSame
      <4> QED BY <2>1, <2>6, <3>2, <4>1
    <3>4. (\E k : Cut(k))'
      BY <2>1, <3>2 DEF Cut, FullBlocks, RestOf, ChunkOf, Image!Block
    <3>5. Announced' = Announced /\ Image!RowBytes' = Image!RowBytes
      BY <2>1, ImageSame
    <3> QED BY <2>1, <3>2, <3>3, <3>4, <3>5 DEF PngInv
  <2>8. ExrInv'
    <3>1. SUFFICES ASSUME picture.format = "exr" PROVE ExrInv'
      BY <2>1 DEF ExrInv
    <3>2. file = <<Image!ExrTable>> \o [y \in 1 .. rowsWritten + writing.done |-> Image!ExrRow(y - 1, y - 1)]
      BY <1>1, <2>1, <3>1 DEF ImageInv, ExrInv
    <3>3. Image!ExrTable' = Image!ExrTable /\ \A y : Image!ExrRow(y - 1, y - 1)'
            = Image!ExrRow(y - 1, y - 1)
      BY <2>1, ImageSame
    <3> QED BY <2>1, <2>6, <3>2, <3>3 DEF ExrInv
  <2> QED BY <2>4, <2>5, <2>7, <2>8 DEF ImageInv
<1> QED BY <1>2, <1>3

\* What a PNG stream holds between two blocks.
LEMMA Holding ==
    ASSUME Image!StreamAssumption, ImageInv, NEW n, Cut(n), writer = "open", intact, picture.format = "png"
    PROVE  /\ adler \in Seq(ImageByte) /\ adler = Image!Raw(rowsWritten + writing.done)
           /\ Len(adler) \in Nat /\ n \in Nat /\ n * kMaxBlock \in Nat /\ kMaxBlock \in Nat \ {0}
           /\ n * kMaxBlock <= Len(adler) /\ (n + 1) * kMaxBlock = n * kMaxBlock + kMaxBlock
           /\ pending \in Seq(ImageByte) /\ Len(pending) = Len(adler) - n * kMaxBlock
           /\ crc \in Seq(Stored) /\ Len(crc) = n
           /\ rowsWritten + writing.done \in Nat /\ picture \in Image!Images /\ Image!Usable
<1>1. /\ adler = Image!Raw(rowsWritten + writing.done) /\ picture \in Image!Images /\ Image!Usable
      /\ rowsWritten + writing.done \in Nat
  <2>1. rowsWritten \in 0 .. picture.height /\ picture \in Image!Images /\ Image!Usable
          /\ writing.done \in Nat
    BY DEF ImageInv, WriterInv, CallInv
  <2>2. picture.height \in Nat
    BY <2>1 DEF Image!Images, Image!StreamAssumption
  <2>3. adler = Image!Raw(rowsWritten + writing.done)
    BY DEF ImageInv, PngInv
  <2> QED BY <2>1, <2>2, <2>3
<1>2. adler \in Seq(ImageByte)
  BY <1>1, RawLen
<1>3. Len(adler) \in Nat /\ n \in Nat /\ kMaxBlock \in Nat \ {0} /\ n * kMaxBlock <= Len(adler)
  BY <1>2, LenProperties DEF Cut, Image!StreamAssumption
<1>4. n * kMaxBlock \in Nat /\ (n + 1) * kMaxBlock = n * kMaxBlock + kMaxBlock
  BY <1>3, TimesNext
<1>5. pending \in Seq(ImageByte) /\ Len(pending) = Len(adler) - n * kMaxBlock
  <2> DEFINE lo == n * kMaxBlock
  <2>1. lo \in Nat /\ lo <= Len(adler) /\ pending = SubSeq(adler, lo + 1, Len(adler))
        /\ Len(adler) <= Len(adler)
    BY <1>3, <1>4 DEF Cut, RestOf
  <2> HIDE DEF lo
  <2>2. pending \in Seq(ImageByte) /\ Len(pending) = Len(adler) - lo
    BY <1>2, <1>3, <2>1, Slice
  <2> QED BY <2>2 DEF lo
<1>6. crc \in Seq(Stored) /\ Len(crc) = n
  BY <1>2, <1>3, BlocksAre DEF Cut
<1> QED BY <1>1, <1>2, <1>3, <1>4, <1>5, <1>6

\* A row of a PNG file.
LEMMA AppendRowImage == ASSUME Image!StreamAssumption, ImageInv, Image!appendRow PROVE ImageInv'
<1> DEFINE k == rowsWritten + writing.done
           filtered == Image!RawRow(k)
<1>1. /\ WriterInv /\ CallInv /\ writer = "open" /\ intact /\ ~ended /\ picture.format = "png"
      /\ writing.op = "writeRows" /\ writing.done < writing.count /\ writing' = [writing EXCEPT !.done = @ + 1]
      /\ UNCHANGED <<picture, file, writer, intact, ended, rowsWritten, crc, returned>>
      /\ Len(pending) <= kMaxBlock \/ ~(Len(pending) > kMaxBlock)
      /\ pending' = pending \o filtered /\ adler' = adler \o filtered
  BY DEF ImageInv, CallInv, Image!appendRow, Image!Writing, Image!BlockDue
<1>2. Image!Usable' = Image!Usable /\ Image!Fits' = Image!Fits
  BY <1>1, ImageSame
<1>3. WriterInv'
  BY <1>1, <1>2 DEF WriterInv, Image!NoCall
<1>4. CallInv'
  BY <1>1, SMTT(40) DEF CallInv
<1>5. PICK n : Cut(n)
  BY <1>1 DEF ImageInv, PngInv
<1>6. /\ adler \in Seq(ImageByte) /\ adler = Image!Raw(k) /\ Len(adler) \in Nat /\ n \in Nat
      /\ n * kMaxBlock \in Nat /\ kMaxBlock \in Nat \ {0} /\ n * kMaxBlock <= Len(adler)
      /\ pending \in Seq(ImageByte) /\ Len(pending) = Len(adler) - n * kMaxBlock
      /\ k \in Nat /\ picture \in Image!Images /\ Image!Usable
  BY <1>1, <1>5, Holding
<1>7. filtered \in Seq(ImageByte) /\ Len(filtered) = Image!RowBytes /\ Image!RowBytes \in Nat \ {0}
        /\ Image!Raw(k + 1) = Image!Raw(k) \o filtered
  BY <1>6, RowIs, RawNext
<1>8. rowsWritten' + writing'.done = k + 1
  <2>1. writing'.done = writing.done + 1 /\ writing.done \in Nat /\ rowsWritten' = rowsWritten
    BY <1>1 DEF CallInv
  <2>2. rowsWritten \in Nat
    BY <1>1 DEF WriterInv, Image!Images, Image!StreamAssumption
  <2> QED BY <2>1, <2>2
<1>9. Image!Raw(rowsWritten + writing.done)' = Image!Raw(k + 1)
  <2>1. Image!Raw(rowsWritten + writing.done)' = Image!Raw(rowsWritten' + writing'.done)
    BY <1>1, ImageSame
  <2> QED BY <1>8, <2>1
<1> HIDE DEF k, filtered
<1>10. Len(adler') = Len(adler) + Image!RowBytes /\ Len(pending') = Len(pending) + Image!RowBytes
  <2>1. Len(adler \o filtered) = Len(adler) + Len(filtered)
    BY <1>6, <1>7, ConcatProperties
  <2>2. Len(pending \o filtered) = Len(pending) + Len(filtered)
    BY <1>6, <1>7, ConcatProperties
  <2> QED BY <1>1, <1>7, <2>1, <2>2, Zenon
<1>11. Cut(n)'
  <2>1. FullBlocks(adler', n) = FullBlocks(adler, n)
    BY <1>1, <1>6, <1>7, BlocksStay
  <2>2. RestOf(adler', n) = pending'
    <3> DEFINE lo == n * kMaxBlock
    <3>1. lo \in Nat /\ lo <= Len(adler) /\ pending = SubSeq(adler, lo + 1, Len(adler))
      BY <1>5, <1>6 DEF Cut, RestOf
    <3> HIDE DEF lo
    <3>2. SubSeq(adler \o filtered, lo + 1, Len(adler \o filtered))
            = SubSeq(adler, lo + 1, Len(adler)) \o filtered
      BY <1>6, <1>7, <3>1, RestOfConcat, ZenonT(60)
    <3> QED BY <1>1, <3>1, <3>2 DEF lo, RestOf
  <2>3. n * kMaxBlock <= Len(adler') /\ (n > 0 => n * kMaxBlock < Len(adler'))
    BY <1>6, <1>7, <1>10
  <2> QED BY <1>1, <1>5, <1>6, <2>1, <2>2, <2>3 DEF Cut
<1>12. PngInv'
  <2>1. file' = Announced' \o crc'
    <3>1. file = Announced \o crc
      BY <1>1 DEF ImageInv, PngInv
    <3> QED BY <1>1, <3>1, ImageSame
  <2>2. Len(pending) \in Nat /\ Len(pending) <= kMaxBlock /\ Image!RowBytes' = Image!RowBytes
    BY <1>1, <1>6, LenProperties, ImageSame
  <2>3. Len(pending') <= kMaxBlock + Image!RowBytes'
    BY <1>6, <1>7, <1>10, <2>2
  <2>4. writing'.op = "writeRows" /\ ~ended'
    BY <1>1 DEF CallInv
  <2>5. adler' = Image!Raw(rowsWritten + writing.done)'
    BY <1>1, <1>6, <1>7, <1>9
  <2> HIDE DEF Image!Raw
  <2> QED BY <1>11, <2>1, <2>3, <2>4, <2>5 DEF PngInv
<1> QED BY <1>1, <1>3, <1>4, <1>12 DEF ImageInv, ExrInv

\* A block of it.
LEMMA EmitBlockImage == ASSUME Image!StreamAssumption, ImageInv, Image!emitBlock PROVE ImageInv'
<1>1. /\ WriterInv /\ CallInv /\ writer = "open" /\ intact /\ ~ended /\ picture.format = "png"
      /\ writing.op = "writeRows" /\ Len(pending) > kMaxBlock
      /\ UNCHANGED <<picture, writer, intact, ended, rowsWritten, adler, writing, returned>>
      /\ file' = Append(file, Image!Block(SubSeq(pending, 1, kMaxBlock), FALSE))
      /\ crc' = Append(crc, Image!Block(SubSeq(pending, 1, kMaxBlock), FALSE))
      /\ pending' = SubSeq(pending, kMaxBlock + 1, Len(pending))
  BY DEF ImageInv, CallInv, Image!emitBlock, Image!Writing, Image!BlockDue, Image!Emit
<1>2. Image!Usable' = Image!Usable /\ Image!Fits' = Image!Fits /\ Announced' = Announced
        /\ Image!RowBytes' = Image!RowBytes
  BY <1>1, ImageSame
<1>3. WriterInv'
  BY <1>1, <1>2 DEF WriterInv, Image!NoCall
<1>4. CallInv'
  BY <1>1 DEF CallInv, Image!NoCall
<1>5. PICK n : Cut(n)
  BY <1>1 DEF ImageInv, PngInv
<1>6. /\ adler \in Seq(ImageByte) /\ adler = Image!Raw(rowsWritten + writing.done)
      /\ Len(adler) \in Nat
      /\ n \in Nat /\ n * kMaxBlock \in Nat /\ kMaxBlock \in Nat \ {0}
      /\ n * kMaxBlock <= Len(adler)
      /\ (n + 1) * kMaxBlock = n * kMaxBlock + kMaxBlock
      /\ pending \in Seq(ImageByte) /\ Len(pending) = Len(adler) - n * kMaxBlock
      /\ crc \in Seq(Stored) /\ Len(crc) = n /\ picture \in Image!Images /\ Image!Usable
  BY <1>1, <1>5, Holding
<1> DEFINE lo == n * kMaxBlock
           hi == (n + 1) * kMaxBlock
<1>7. /\ lo \in Nat /\ hi \in Nat /\ hi = lo + kMaxBlock /\ hi - lo = kMaxBlock /\ hi < Len(adler)
      /\ lo <= hi /\ hi <= Len(adler) /\ pending = SubSeq(adler, lo + 1, Len(adler))
  BY <1>1, <1>5, <1>6, SMTT(40) DEF Cut, RestOf
<1>8. ChunkOf(adler, n + 1) = SubSeq(adler, lo + 1, hi) /\ ChunkOf(adler, n + 1) \in Seq(ImageByte)
  BY <1>6, <1>7, ChunkIs
<1>9. FullBlocks(adler, n + 1)
        = Append(FullBlocks(adler, n), Image!Block(ChunkOf(adler, n + 1), FALSE))
  BY <1>6, <1>7, BlocksNext
<1> HIDE DEF lo, hi
<1>10. /\ SubSeq(pending, 1, kMaxBlock) = SubSeq(adler, lo + 1, hi)
       /\ SubSeq(pending, kMaxBlock + 1, Len(pending)) = SubSeq(adler, hi + 1, Len(adler))
  <2>1. /\ SubSeq(pending, 1, hi - lo) = SubSeq(adler, lo + 1, hi)
        /\ SubSeq(pending, (hi - lo) + 1, Len(pending)) = SubSeq(adler, hi + 1, Len(adler))
    <3> DEFINE T == ImageByte
    <3>1. /\ adler \in Seq(T) /\ lo \in Nat /\ hi \in Nat /\ lo <= hi /\ hi <= Len(adler)
          /\ pending = SubSeq(adler, lo + 1, Len(adler))
      BY <1>6, <1>7
    <3> HIDE DEF T
    <3> QED BY ONLY <3>1, SliceOfRest
  <2> QED BY <1>7, <2>1, Zenon
<1>11. crc' = FullBlocks(adler, n + 1)
  BY <1>1, <1>5, <1>8, <1>9, <1>10 DEF Cut
<1>12. pending' = RestOf(adler, n + 1)
  BY <1>1, <1>10 DEF RestOf, hi
<1>13. Cut(n + 1)'
  <2>1. n + 1 \in Nat /\ (n + 1) * kMaxBlock < Len(adler) /\ (n + 1) * kMaxBlock <= Len(adler)
    BY <1>6, <1>7 DEF hi
  <2>2. adler' = adler
    BY <1>1
  <2> QED BY <1>11, <1>12, <2>1, <2>2 DEF Cut
<1>14. file' = Announced' \o crc'
  <2>1. file = Announced \o crc
    BY <1>1 DEF ImageInv, PngInv
  <2> DEFINE x == Image!Prologue(Image!zlibStoredSize(Image!RowBytes * picture.height))
             b == Image!Block(SubSeq(pending, 1, kMaxBlock), FALSE)
             P == {x} \cup Stored
  <2>2. Announced = <<x>>
    BY DEF Announced
  <2>3. <<x>> \in Seq(P) /\ crc \in Seq(P) /\ b \in P
    <3>1. b \in Stored
      BY <1>8, <1>10 DEF Stored, Image!Block
    <3> HIDE DEF x, b
    <3>2. Stored \subseteq P
      OBVIOUS
    <3> HIDE DEF P
    <3>3. crc \in Seq(P)
      BY <1>6, <3>2, SeqMonotonic
    <3>4. x \in P
      BY DEF P
    <3> QED BY <3>1, <3>2, <3>3, <3>4
  <2> HIDE DEF x, b, P
  <2>4. Append(<<x>> \o crc, b) = <<x>> \o Append(crc, b)
    <3>1. <<x>> \o crc \in Seq(P)
      BY <2>3, ConcatProperties
    <3>2. Append(<<x>> \o crc, b) = (<<x>> \o crc) \o <<b>> /\ Append(crc, b) = crc \o <<b>>
      BY <2>3, <3>1, AppendIsConcat
    <3>3. <<b>> \in Seq(P)
      BY <2>3
    <3>4. (<<x>> \o crc) \o <<b>> = <<x>> \o (crc \o <<b>>)
      BY <2>3, <3>3, ConcatAssociative
    <3> QED BY <3>2, <3>4, Zenon
  <2> QED BY <1>1, <1>2, <2>1, <2>2, <2>4, Zenon DEF b
<1>15. PngInv'
  <2>1. Len(pending') <= kMaxBlock + Image!RowBytes'
    <3>1. Len(pending) <= kMaxBlock + Image!RowBytes
      BY <1>1 DEF ImageInv, PngInv
    <3>2. Image!RowBytes \in Nat
      BY <1>6, RowIs
    <3>3. Len(pending') = Len(adler) - hi
      <4>1. adler \in Seq(ImageByte) /\ hi \in Nat /\ Len(adler) \in Nat /\ hi <= Len(adler)
        BY <1>6, <1>7
      <4>2. Len(adler) <= Len(adler)
        BY <4>1
      <4>3. Len(SubSeq(adler, hi + 1, Len(adler))) = Len(adler) - hi
        BY ONLY <4>1, <4>2, Slice
      <4> QED BY <1>1, <1>10, <4>3
    <3> QED BY <1>2, <1>6, <1>7, <3>1, <3>2, <3>3 DEF lo
  <2>2. writing'.op = "writeRows" /\ ~ended'
    BY <1>1
  <2>3. adler' = Image!Raw(rowsWritten + writing.done)'
    <3>1. Image!Raw(rowsWritten + writing.done)' = Image!Raw(rowsWritten' + writing'.done)
      BY <1>1, ImageSame
    <3> QED BY <1>1, <1>6, <3>1
  <2> HIDE DEF Image!Raw
  <2> QED BY <1>13, <1>14, <2>1, <2>2, <2>3 DEF PngInv
<1> QED BY <1>1, <1>3, <1>4, <1>15 DEF ImageInv, ExrInv

\* A piece added behind what follows the head.
LEMMA HeadAppend ==
    ASSUME NEW P, NEW q \in Seq(P), NEW x, NEW e \in P
    PROVE  /\ Append(<<x>> \o q, e) = <<x>> \o Append(q, e)
           /\ SubSeq(<<x>> \o q, 2, Len(<<x>> \o q)) = q
<1> DEFINE R == {x} \cup P
           h == <<x>>
<1>1. q \in Seq(R) /\ x \in R /\ e \in R
  <2>1. P \subseteq R
    OBVIOUS
  <2>2. x \in R
    OBVIOUS
  <2> HIDE DEF R
  <2> QED BY <2>1, <2>2, SeqMonotonic
<1> HIDE DEF R
<1>2. h \in Seq(R) /\ Len(h) = 1 /\ <<e>> \in Seq(R)
  BY <1>1
<1> HIDE DEF h
<1>3. Append(h \o q, e) = h \o Append(q, e)
  <2>1. h \o q \in Seq(R)
    BY <1>1, <1>2, ConcatProperties
  <2>2. Append(h \o q, e) = (h \o q) \o <<e>> /\ Append(q, e) = q \o <<e>>
    BY <1>1, <2>1, AppendIsConcat
  <2>3. (h \o q) \o <<e>> = h \o (q \o <<e>>)
    BY <1>1, <1>2, ConcatAssociative
  <2> QED BY <2>2, <2>3, Zenon
<1>4. SubSeq(h \o q, 2, Len(h \o q)) = q
  <2>1. SubSeq(h \o q, 1 + 1, Len(h \o q)) = SubSeq(h, 1 + 1, Len(h)) \o q
    <3>1. q \in Seq(R) /\ h \in Seq(R) /\ 1 \in Nat /\ 1 <= Len(h)
      BY <1>1, <1>2
    <3> QED BY ONLY <3>1, RestOfConcat
  <2>2. SubSeq(h, 1 + 1, Len(h)) = <<>>
    BY <1>2, SubSeqEmpty
  <2>3. <<>> \o q = q
    BY <1>1, ConcatEmptySeq
  <2>4. 1 + 1 = 2
    OBVIOUS
  <2> QED BY <2>1, <2>2, <2>3, <2>4
<1> QED BY <1>3, <1>4 DEF h

\* A row of an EXR file.
LEMMA WriteScanlineImage == ASSUME Image!StreamAssumption, ImageInv, Image!writeScanline
  PROVE ImageInv'
<1> DEFINE k == rowsWritten + writing.done
           S == {Image!ExrRow(y, y) : y \in Nat}
           rowCount(n) == [y \in 1 .. n |-> Image!ExrRow(y - 1, y - 1)]
<1>1. /\ WriterInv /\ CallInv /\ writer = "open" /\ intact /\ ~ended /\ picture.format = "exr"
      /\ writing.op = "writeRows" /\ writing.done < writing.count /\ writing' = [writing EXCEPT !.done = @ + 1]
      /\ UNCHANGED <<picture, writer, intact, ended, rowsWritten, pending, adler, crc, returned>>
      /\ file' = Append(file, Image!ExrRow(k, k))
  BY DEF ImageInv, CallInv, Image!writeScanline, Image!Writing, Image!writerVars, Image!Label
<1>2. Image!Usable' = Image!Usable /\ Image!Fits' = Image!Fits
  BY <1>1, ImageSame
<1>3. WriterInv'
  BY <1>1, <1>2 DEF WriterInv, Image!NoCall
<1>4. CallInv'
  BY <1>1 DEF CallInv
<1>5. rowsWritten' + writing'.done = k + 1 /\ k \in Nat
  <2>1. writing'.done = writing.done + 1 /\ writing.done \in Nat /\ rowsWritten' = rowsWritten
    BY <1>1 DEF CallInv
  <2>2. rowsWritten \in Nat
    BY <1>1 DEF WriterInv, Image!Images, Image!StreamAssumption
  <2> QED BY <2>1, <2>2
<1>6. file = <<Image!ExrTable>> \o rowCount(k)
  BY <1>1 DEF ImageInv, ExrInv
<1> HIDE DEF k
<1>7. rowCount(k) \in Seq(S) /\ Len(rowCount(k)) = k /\ Image!ExrRow(k, k) \in S
  <2>1. \A y \in 1 .. k : y - 1 \in Nat
    BY <1>5
  <2>2. rowCount(k) \in [1 .. k -> S]
    BY <2>1, Zenon
  <2>3. Image!ExrRow(k, k) \in S
    BY <1>5
  <2> DEFINE r == rowCount(k)
  <2> HIDE DEF r, S
  <2>4. r \in Seq(S)
    BY <1>5, <2>2 DEF Seq, r
  <2>5. 1 .. Len(r) = 1 .. k /\ Len(r) \in Nat
    BY <2>2, <2>4, LenProperties DEF r
  <2> QED BY <1>5, <2>3, <2>4, <2>5, SameRange DEF r
<1>8. rowCount(k + 1) = Append(rowCount(k), Image!ExrRow(k, k))
  <2> DEFINE f == rowCount(k + 1)
             q == rowCount(k)
             e == Image!ExrRow(k, k)
  <2>1. f = [i \in 1 .. k + 1 |-> f[i]]
    BY Zenon
  <2>2. \A i \in 1 .. k : f[i] = q[i]
    <3>1. \A i \in 1 .. k : i \in 1 .. k + 1
      BY <1>5
    <3> QED BY <3>1, Zenon
  <2>3. f[k + 1] = e
    <3>1. k + 1 \in 1 .. k + 1 /\ (k + 1) - 1 = k
      BY <1>5
    <3>2. f[k + 1] = Image!ExrRow((k + 1) - 1, (k + 1) - 1)
      BY <3>1, Zenon
    <3> QED BY <3>1, <3>2, Zenon
  <2>4. q \in Seq(S) /\ Len(q) = k /\ e \in S
    BY <1>7
  <2> HIDE DEF f, q, e, S
  <2>5. \A i \in 1 .. k : q[i] \in S
    BY <2>4, ElementOfSeq
  <2>6. f \in [1 .. k + 1 -> S]
    <3>1. (\A i \in 1 .. k : f[i] \in S) /\ f[k + 1] \in S
      BY <2>2, <2>3, <2>4, <2>5
    <3> QED BY <1>5, <2>1, <3>1, IsOnNext
  <2>7. f = Append(q, e)
    BY <1>5, <2>2, <2>3, <2>4, <2>6, AppendIs
  <2> QED BY <2>7 DEF f, q, e
<1>9. file' = <<Image!ExrTable>> \o rowCount(k + 1)
  <2> DEFINE q == rowCount(k)
             e == Image!ExrRow(k, k)
  <2>1. q \in Seq(S) /\ e \in S
    BY <1>7
  <2>2. file' = Append(<<Image!ExrTable>> \o q, e)
    BY <1>1, <1>6 DEF k
  <2>3. rowCount(k + 1) = Append(q, e)
    BY <1>8
  <2> DEFINE x == Image!ExrTable
  <2> HIDE DEF q, e, S, rowCount, x
  <2>4. Append(<<x>> \o q, e) = <<x>> \o Append(q, e)
    BY ONLY <2>1, HeadAppend
  <2> QED BY <2>2, <2>3, <2>4, Zenon DEF x
<1>10. ExrInv'
  <2>1. Image!ExrTable' = Image!ExrTable /\ \A y : Image!ExrRow(y - 1, y - 1)'
          = Image!ExrRow(y - 1, y - 1)
    BY <1>1, ImageSame
  <2> QED BY <1>5, <1>9, <2>1 DEF ExrInv
<1> QED BY <1>1, <1>3, <1>4, <1>10 DEF ImageInv, PngInv

\* The end of a call, and of the image.
LEMMA RowsDoneImage == ASSUME Image!StreamAssumption, ImageInv, Image!rowsDone PROVE ImageInv'
<1>1. /\ WriterInv /\ CallInv /\ writer = "open" /\ intact /\ ~ended
      /\ writing.op = "writeRows" /\ writing.done = writing.count /\ ~Image!BlockDue
      /\ rowsWritten' = rowsWritten + writing.count /\ writing' = Image!NoCall /\ returned' = TRUE
      /\ UNCHANGED <<picture, file, writer, intact, ended, pending, adler, crc>>
  BY DEF ImageInv, CallInv, Image!rowsDone, Image!Return
<1>2. Image!Usable' = Image!Usable /\ Image!Fits' = Image!Fits
  BY <1>1, ImageSame
<1>3. /\ rowsWritten \in Nat /\ writing.count \in Nat /\ picture.height \in Nat
      /\ rowsWritten + writing.count <= picture.height
  BY <1>1 DEF WriterInv, CallInv, Image!Images, Image!StreamAssumption
<1>4. rowsWritten' \in 0 .. picture.height
  BY <1>1, <1>3
<1>5. WriterInv'
  BY <1>1, <1>2, <1>4 DEF WriterInv
<1>6. CallInv'
  BY <1>1 DEF CallInv, Image!NoCall
<1>7. rowsWritten + writing.done = rowsWritten' + writing'.done
  BY <1>1, <1>3 DEF Image!NoCall
<1>8. PngInv'
  <2>1. SUFFICES ASSUME picture.format = "png" PROVE PngInv'
    BY <1>1 DEF PngInv
  <2>2. /\ adler = Image!Raw(rowsWritten + writing.done) /\ (\E n : Cut(n))
             /\ file = Announced \o crc
        /\ Len(pending) <= kMaxBlock + Image!RowBytes
    BY <1>1, <2>1 DEF ImageInv, PngInv
  <2>3. Len(pending) <= kMaxBlock
    <3>1. PICK n : Cut(n)
      BY <2>2
    <3>2. pending \in Seq(ImageByte) /\ kMaxBlock \in Nat
      BY <1>1, <2>1, <3>1, Holding
    <3>3. Len(pending) \in Nat /\ ~(Len(pending) > kMaxBlock)
      BY <1>1, <3>2, LenProperties DEF Image!BlockDue
    <3> QED BY <3>2, <3>3
  <2>4. adler' = Image!Raw(rowsWritten + writing.done)'
    <3>1. Image!Raw(rowsWritten + writing.done)' = Image!Raw(rowsWritten' + writing'.done)
      BY <1>1, ImageSame
    <3> QED BY <1>1, <1>7, <2>2, <3>1
  <2>5. (\E n : Cut(n))'
    BY <1>1, <2>2 DEF Cut, FullBlocks, RestOf, ChunkOf, Image!Block
  <2>6. Announced' = Announced /\ Image!RowBytes' = Image!RowBytes /\ ~ended' /\ writing'.op = "none"
    BY <1>1, ImageSame DEF Image!NoCall
  <2> QED BY <1>1, <2>2, <2>3, <2>4, <2>5, <2>6 DEF PngInv
<1>9. ExrInv'
  <2>1. SUFFICES ASSUME picture.format = "exr" PROVE ExrInv'
    BY <1>1 DEF ExrInv
  <2>2. file = <<Image!ExrTable>> \o [y \in 1 .. rowsWritten + writing.done |-> Image!ExrRow(y - 1, y - 1)]
    BY <1>1, <2>1 DEF ImageInv, ExrInv
  <2>3. Image!ExrTable' = Image!ExrTable /\ \A y : Image!ExrRow(y - 1, y - 1)'
          = Image!ExrRow(y - 1, y - 1)
    BY <1>1, ImageSame
  <2> QED BY <1>1, <1>7, <2>2, <2>3 DEF ExrInv
<1> QED BY <1>5, <1>6, <1>8, <1>9 DEF ImageInv

LEMMA FinishImage == ASSUME Image!StreamAssumption, ImageInv, Image!finish PROVE ImageInv'
<1>1. WriterInv /\ CallInv /\ writer = "open" /\ writing = Image!NoCall
  BY DEF ImageInv, Image!finish
<1>2. CASE Image!FinishRefused
  BY <1>1, <1>2, FailedKeepsImage DEF Image!finish, Image!fail
<1>3. CASE ~Image!FinishRefused
  <2>1. /\ intact /\ ~ended /\ rowsWritten = picture.height /\ ended' = TRUE
        /\ writing' = [op |-> IF picture.format = "png" THEN "lastBlock" ELSE "close",
                    count |-> 0, done |-> 0]
        /\ UNCHANGED <<picture, file, writer, intact, rowsWritten, pending, adler, crc, returned>>
    <3>1. intact /\ ~ended /\ rowsWritten = picture.height
      BY <1>3, Zenon DEF Image!FinishRefused
    <3> QED BY <1>3, <3>1, Zenon DEF Image!finish
  <2>2. Image!Usable' = Image!Usable /\ Image!Fits' = Image!Fits
    BY <2>1, ImageSame
  <2>3. picture.height \in Nat /\ picture.format \in {"png", "exr"}
    BY <1>1 DEF WriterInv, Image!Images, Image!StreamAssumption
  <2>4. WriterInv'
    BY <1>1, <2>1, <2>2 DEF WriterInv, Image!NoCall
  <2>5. CallInv'
    <3>1. CASE picture.format = "png"
      <4>1. writing' = [op |-> "lastBlock", count |-> 0, done |-> 0]
        BY <2>1, <3>1
      <4> QED BY <1>1, <2>1, <3>1, <4>1 DEF CallInv
    <3>2. CASE picture.format = "exr"
      <4>1. writing' = [op |-> "close", count |-> 0, done |-> 0]
        BY <2>1, <3>2
      <4> QED BY <1>1, <2>1, <3>2, <4>1 DEF CallInv
    <3> QED BY <2>3, <3>1, <3>2
  <2>6. rowsWritten + writing.done = rowsWritten' + writing'.done
    BY <1>1, <2>1 DEF Image!NoCall
  <2>7. PngInv'
    <3>1. SUFFICES ASSUME picture.format = "png" PROVE PngInv'
      BY <2>1 DEF PngInv
    <3>2. /\ adler = Image!Raw(rowsWritten + writing.done) /\ (\E n : Cut(n))
               /\ file = Announced \o crc
          /\ Len(pending) <= kMaxBlock + Image!RowBytes /\ Len(pending) <= kMaxBlock
      BY <1>1, <2>1, <3>1 DEF ImageInv, PngInv, Image!NoCall
    <3>3. adler' = Image!Raw(rowsWritten + writing.done)'
      <4>1. Image!Raw(rowsWritten + writing.done)' = Image!Raw(rowsWritten' + writing'.done)
        BY <2>1, ImageSame
      <4> QED BY <2>1, <2>6, <3>2, <4>1
    <3>4. (\E n : Cut(n))'
      BY <2>1, <3>2 DEF Cut, FullBlocks, RestOf, ChunkOf, Image!Block
    <3>5. Announced' = Announced /\ Image!RowBytes' = Image!RowBytes /\ writing'.op = "lastBlock"
      BY <2>1, <3>1, ImageSame
    <3> QED BY <2>1, <3>2, <3>3, <3>4, <3>5 DEF PngInv, Image!NoCall
  <2>8. ExrInv'
    <3>1. SUFFICES ASSUME picture.format = "exr" PROVE ExrInv'
      BY <2>1 DEF ExrInv
    <3>2. file = <<Image!ExrTable>> \o [y \in 1 .. rowsWritten + writing.done |-> Image!ExrRow(y - 1, y - 1)]
      BY <1>1, <2>1, <3>1 DEF ImageInv, ExrInv
    <3>3. Image!ExrTable' = Image!ExrTable /\ \A y : Image!ExrRow(y - 1, y - 1)'
            = Image!ExrRow(y - 1, y - 1)
      BY <2>1, ImageSame
    <3> QED BY <2>1, <2>6, <3>2, <3>3 DEF ExrInv
  <2> QED BY <2>4, <2>5, <2>7, <2>8 DEF ImageInv
<1> QED BY <1>2, <1>3

LEMMA EmitLastBlockImage == ASSUME Image!StreamAssumption, ImageInv, Image!emitLastBlock
  PROVE ImageInv'
<1> DEFINE b == Image!Block(SubSeq(pending, 1, Len(pending)), TRUE)
<1>1. /\ WriterInv /\ CallInv /\ writer = "open" /\ intact /\ ended /\ picture.format = "png"
      /\ writing.op = "lastBlock" /\ writing.count = 0 /\ writing.done = 0
      /\ UNCHANGED <<picture, writer, intact, ended, rowsWritten, adler, returned>>
      /\ writing' = [writing EXCEPT !.op = "close"]
      /\ file' = Append(file, b) /\ crc' = Append(crc, b)
  BY DEF ImageInv, CallInv, Image!emitLastBlock, Image!Emit
<1>2. Image!Usable' = Image!Usable /\ Image!Fits' = Image!Fits /\ Announced' = Announced
  BY <1>1, ImageSame
<1>3. writing'.op = "close" /\ writing'.count = 0 /\ writing'.done = 0
      /\ writing' \in [op : {"none", "writeRows", "lastBlock", "close"}, count : Nat, done : Nat]
  BY <1>1 DEF CallInv
<1>4. WriterInv'
  BY <1>1, <1>2, <1>3 DEF WriterInv, Image!NoCall
<1>5. CallInv'
  BY <1>1, <1>3 DEF CallInv, Image!NoCall
<1>6. /\ \E n : Cut(n)
      /\ file = Announced \o crc /\ Len(pending) <= kMaxBlock
      /\ adler = Image!Raw(rowsWritten + writing.done)
  BY <1>1 DEF ImageInv, PngInv
<1>7. PICK n : Cut(n)
  BY <1>6
<1>8. /\ adler \in Seq(ImageByte) /\ Len(adler) \in Nat
      /\ n \in Nat /\ n * kMaxBlock \in Nat /\ kMaxBlock \in Nat \ {0}
      /\ n * kMaxBlock <= Len(adler)
      /\ (n + 1) * kMaxBlock = n * kMaxBlock + kMaxBlock
      /\ pending \in Seq(ImageByte) /\ Len(pending) = Len(adler) - n * kMaxBlock
      /\ crc \in Seq(Stored) /\ picture \in Image!Images /\ Image!Usable
  BY <1>1, <1>7, Holding
<1>9. n * kMaxBlock < Len(adler)
  <2>1. n > 0 => n * kMaxBlock < Len(adler)
    BY <1>7 DEF Cut
  <2>2. Len(adler) > 0
    <3>1. rowsWritten = picture.height /\ picture.height \in Nat \ {0}
            /\ Image!RowBytes \in Nat \ {0}
      BY <1>1, <1>8, RowIs DEF WriterInv
    <3>2. rowsWritten + writing.done = picture.height
      BY <1>1, <3>1
    <3>3. Len(adler) = picture.height * Image!RowBytes
      BY <1>6, <1>8, <3>1, <3>2, RawLen
    <3>4. picture.height <= picture.height * Image!RowBytes
      BY <3>1, TimesNext
    <3> QED BY <1>8, <3>1, <3>3, <3>4
  <2>3. n = 0 => n * kMaxBlock = 0
    BY <1>8
  <2> QED BY <1>8, <2>1, <2>2, <2>3
<1>10. Len(adler) <= (n + 1) * kMaxBlock
  BY <1>6, <1>8
<1>11. Image!zlibStored(adler) = Append(FullBlocks(adler, n), Image!Block(RestOf(adler, n), TRUE))
       /\ Image!zlibStored(adler) \in Seq(Stored)
  BY <1>8, <1>9, <1>10, ZlibIs
<1>12. crc = FullBlocks(adler, n) /\ b = Image!Block(RestOf(adler, n), TRUE)
  <2>1. SubSeq(pending, 1, Len(pending)) = pending
    BY <1>8, SubSeqFull
  <2> QED BY <1>7, <2>1 DEF Cut
<1>13. crc' = Image!zlibStored(adler)
  BY <1>1, <1>11, <1>12
<1>14. file' = Announced \o crc'
  <2> DEFINE x == Image!Prologue(Image!zlibStoredSize(Image!RowBytes * picture.height))
  <2>1. Announced = <<x>>
    BY DEF Announced
  <2>2. b \in Stored
    <3>1. SubSeq(pending, 1, Len(pending)) = pending
      BY <1>8, SubSeqFull
    <3> QED BY <1>8, <3>1 DEF Image!Block, Stored
  <2> HIDE DEF x, b
  <2>3. Append(<<x>> \o crc, b) = <<x>> \o Append(crc, b)
    BY <1>8, <2>2, HeadAppend, SMTT(40)
  <2> QED BY <1>1, <1>6, <2>1, <2>3
<1>15. Image!zlibStored(adler)' = Image!zlibStored(adler)
  BY <1>1 DEF Image!zlibStored, Image!Block
<1>16. adler' = Image!Raw(rowsWritten + writing.done)'
  <2>1. Image!Raw(rowsWritten + writing.done)' = Image!Raw(rowsWritten' + writing'.done)
    BY <1>1, ImageSame
  <2> QED BY <1>1, <1>3, <1>6, <2>1
<1>17. PngInv'
  <2> HIDE DEF b
  <2>1. ended' /\ writing'.op # "lastBlock" /\ writing' # Image!NoCall
    BY <1>1, <1>3 DEF Image!NoCall
  <2>2. crc' = Image!zlibStored(adler)' /\ file' = Announced' \o crc'
    BY <1>2, <1>13, <1>14, <1>15
  <2> QED BY <1>16, <2>1, <2>2 DEF PngInv
<1> QED BY <1>1, <1>4, <1>5, <1>17 DEF ImageInv, ExrInv

\* A list of blocks with a last one.
LEMMA SomeBlocks ==
    ASSUME NEW len \in Nat \ {0}, NEW k \in Nat \ {0}
    PROVE  \E n \in Nat : n * k < len /\ len <= (n + 1) * k
<1> DEFINE q == (len - 1) \div k
           r == (len - 1) % k
<1>1. q \in Nat /\ r \in 0 .. k - 1 /\ len - 1 = q * k + r
  OBVIOUS
<1> HIDE DEF q, r
<1>2. q * k \in Nat /\ (q + 1) * k = q * k + k
  BY <1>1, TimesNext
<1>3. q * k < len /\ len <= (q + 1) * k
  BY <1>1, <1>2
<1> QED BY <1>1, <1>3

\* What was announced, the blocks and the tail are the file that savePng() writes.
LEMMA PngIsOneShot ==
    ASSUME Image!StreamAssumption, picture \in Image!Images, Image!Usable, NEW s,
             s = Image!Raw(picture.height)
    PROVE  Image!OneShotPng = (Announced \o Image!zlibStored(s))
             \o <<Image!Checks(s, Image!zlibStored(s))>>
<1> DEFINE K == kMaxBlock
           z == Image!zlibStored(s)
<1>1. /\ s \in Seq(ImageByte) /\ Len(s) = picture.height * Image!RowBytes
      /\ Image!RowBytes \in Nat \ {0}
      /\ picture.height \in Nat \ {0} /\ Image!Scanlines = s
  BY RowIs, RawLen, ScanlinesAreRows
<1>2. K \in Nat \ {0}
  BY DEF Image!StreamAssumption
<1>3. Len(s) \in Nat \ {0} /\ Image!RowBytes * picture.height = Len(s)
  BY <1>1
<1>4. PICK n \in Nat : n * K < Len(s) /\ Len(s) <= (n + 1) * K
  BY <1>2, <1>3, SomeBlocks
<1>5. /\ z \in Seq(Stored) /\ Len(z) = n + 1
      /\ Image!FlattenSeq([i \in DOMAIN z |-> z[i].stored]) = s
  BY <1>1, <1>2, <1>4, ZlibIs
<1>6. Image!zlibStoredSize(Image!RowBytes * picture.height) = 2 + (n + 1) * 5 + Len(s) + 4
  <2>1. (Len(s) + K - 1) \div K = n + 1
    BY <1>2, <1>3, <1>4, BlocksOf
  <2> QED BY <1>3, <2>1 DEF Image!zlibStoredSize
<1>7. 2 + (n + 1) * 5 + Len(s) + 4 = 2 + 5 * Len(z) + Len(s) + 4
  BY <1>5
<1>8. Image!OneShotPng = <<Image!Prologue(2 + 5 * Len(z) + Len(s) + 4)>> \o z
        \o <<Image!Checks(s, z)>>
  <2> HIDE DEF z
  <2>1. Image!OneShotPng
          = <<Image!Prologue(2 + 5 * Len(z) + Len(Image!FlattenSeq([i \in DOMAIN z |-> z[i].stored])) + 4)>>
                     \o z \o <<Image!Checks(s, z)>>
    BY <1>1, Zenon DEF Image!OneShotPng, z
  <2> QED BY <1>5, <2>1, Zenon
<1>9. Announced = <<Image!Prologue(2 + 5 * Len(z) + Len(s) + 4)>>
  BY <1>6, <1>7, Zenon DEF Announced
<1> QED BY <1>8, <1>9, Zenon

\* close(), and a write that fails.
LEMMA CloseImage == ASSUME Image!StreamAssumption, ImageInv, Image!close PROVE ImageInv'
<1>1. /\ WriterInv /\ CallInv /\ writer = "open" /\ intact /\ ended
      /\ writing.op = "close" /\ writing.count = 0 /\ writing.done = 0 /\ rowsWritten = picture.height
      /\ UNCHANGED <<picture, writer, intact, ended, rowsWritten, pending, adler, crc>>
      /\ writing' = Image!NoCall /\ returned' = TRUE
      /\ file' = IF picture.format = "png" THEN Append(file, Image!Checks(adler, crc)) ELSE file
  BY DEF ImageInv, CallInv, WriterInv, Image!close, Image!Return, Image!writerVars
<1>2. Image!Usable' = Image!Usable /\ Image!Fits' = Image!Fits
        /\ Image!OneShotPng' = Image!OneShotPng
  BY <1>1, ImageSame
<1>3. WriterInv'
  BY <1>1, <1>2 DEF WriterInv
<1>4. CallInv'
  BY <1>1 DEF CallInv, Image!NoCall
<1>5. rowsWritten \in Nat /\ rowsWritten + writing.done = picture.height
        /\ picture \in Image!Images /\ Image!Usable
      /\ rowsWritten + writing.done = rowsWritten' + writing'.done
  <2>1. picture \in Image!Images /\ Image!Usable /\ picture.height \in Nat
    BY <1>1 DEF WriterInv, Image!Images, Image!StreamAssumption
  <2> QED BY <1>1, <2>1 DEF Image!NoCall
<1>6. PngInv'
  <2>1. SUFFICES ASSUME picture.format = "png" PROVE PngInv'
    BY <1>1 DEF PngInv
  <2>2. /\ adler = Image!Raw(picture.height) /\ crc = Image!zlibStored(adler)
        /\ file = Announced \o crc
    BY <1>1, <1>5, <2>1 DEF ImageInv, PngInv
  <2>3. file' = Image!OneShotPng
    <3> DEFINE c == Image!Checks(adler, crc)
               R == {file[i] : i \in DOMAIN file} \cup {c}
    <3>1. file' = Append(file, c)
      BY <1>1, <2>1
    <3>2. Append(file, c) = file \o <<c>>
      <4>1. file \in Seq(R)
        <5> DEFINE x == Image!Prologue(Image!zlibStoredSize(Image!RowBytes * picture.height))
                   P == {x} \cup Stored
        <5>1. crc \in Seq(Stored)
          <6>1. \E n \in Nat : n * kMaxBlock < Len(adler) /\ Len(adler) <= (n + 1) * kMaxBlock
            <7>1. Len(Image!Raw(picture.height)) = picture.height * Image!RowBytes
                    /\ Image!RowBytes \in Nat \ {0}
                  /\ picture.height \in Nat \ {0}
              BY <1>5, RowIs, RawLen
            <7>2. Len(adler) \in Nat \ {0} /\ kMaxBlock \in Nat \ {0}
              BY <2>2, <7>1 DEF Image!StreamAssumption
            <7> QED BY <7>2, SomeBlocks
          <6>2. adler \in Seq(ImageByte)
            BY <1>5, <2>2, RowIs, RawLen
          <6> QED BY <2>2, <6>1, <6>2, ZlibIs
        <5> HIDE DEF x
        <5>2. crc \in Seq(P) /\ <<x>> \in Seq(P)
          <6>1. Stored \subseteq P /\ x \in P
            OBVIOUS
          <6> HIDE DEF P
          <6> QED BY <5>1, <6>1, SeqMonotonic
        <5>3. Announced = <<x>>
          BY DEF Announced, x
        <5>4. file \in Seq(P)
          <6> HIDE DEF P
          <6> QED BY <2>2, <5>2, <5>3, ConcatProperties
        <5> QED BY <5>4
      <4>2. c \in R
        OBVIOUS
      <4> HIDE DEF R, c
      <4> QED BY <4>1, <4>2, AppendIsConcat
    <3>3. Image!OneShotPng = (Announced \o Image!zlibStored(adler))
            \o <<Image!Checks(adler, Image!zlibStored(adler))>>
      BY <1>5, <2>2, PngIsOneShot
    <3> QED BY <2>2, <3>1, <3>2, <3>3
  <2>4. adler' = Image!Raw(rowsWritten + writing.done)'
    <3>1. Image!Raw(rowsWritten + writing.done)' = Image!Raw(rowsWritten' + writing'.done)
      BY <1>1, ImageSame
    <3> QED BY <1>1, <1>5, <2>2, <3>1
  <2>5. ended' /\ writing'.op = "none"
    BY <1>1 DEF Image!NoCall
  <2> QED BY <1>2, <2>3, <2>4, <2>5 DEF PngInv
<1>7. ExrInv'
  <2>1. SUFFICES ASSUME picture.format = "exr" PROVE ExrInv'
    BY <1>1 DEF ExrInv
  <2>2. file = <<Image!ExrTable>> \o [y \in 1 .. rowsWritten + writing.done |-> Image!ExrRow(y - 1, y - 1)]
    BY <1>1, <2>1 DEF ImageInv, ExrInv
  <2>3. Image!ExrTable' = Image!ExrTable /\ \A y : Image!ExrRow(y - 1, y - 1)'
          = Image!ExrRow(y - 1, y - 1)
    BY <1>1, ImageSame
  <2> QED BY <1>1, <1>5, <2>1, <2>2, <2>3 DEF ExrInv
<1> QED BY <1>3, <1>4, <1>6, <1>7 DEF ImageInv

LEMMA WriteFailsImage == ASSUME Image!StreamAssumption, ImageInv, Image!writeFails PROVE ImageInv'
<1>1. CallInv
  BY DEF ImageInv
<1>2. writing.op # "none"
  BY DEF Image!writeFails, Image!Writing
<1>3. writer = "open"
  BY <1>1, <1>2 DEF CallInv
<1>4. /\ Image!Return(FALSE) /\ intact' = FALSE
      /\ UNCHANGED <<picture, writer, ended, rowsWritten, pending, adler, crc>>
  BY DEF Image!writeFails
<1> QED BY <1>3, <1>4, FailedKeepsImage

LEMMA StepImage == ASSUME Image!StreamAssumption, ImageInv, [Image!Next]_(Image!vars)
  PROVE ImageInv'
<1>1. CASE \E h \in Heights : \E n \in {-1, 0, h, h + 1} : Image!writeRows(n)
  <2>1. PICK h \in Heights : \E n \in {-1, 0, h, h + 1} : Image!writeRows(n)
    BY <1>1
  <2>2. PICK n \in {-1, 0, h, h + 1} : Image!writeRows(n)
    BY <2>1
  <2>3. n \in Int
    BY DEF Image!StreamAssumption
  <2> QED BY <2>2, <2>3, WriteRowsImage
<1>2. CASE UNCHANGED Image!vars
  <2>1. UNCHANGED <<picture, file, writer, intact, ended, rowsWritten, pending, adler, crc, writing, returned>>
    BY <1>2 DEF Image!vars, Image!writerVars
  <2>2. Image!Usable' = Image!Usable /\ Image!Fits' = Image!Fits /\ Announced' = Announced
          /\ Image!OneShotPng' = Image!OneShotPng
        /\ Image!RowBytes' = Image!RowBytes /\ Image!ExrTable' = Image!ExrTable
        /\ \A y : Image!ExrRow(y - 1, y - 1)' = Image!ExrRow(y - 1, y - 1)
    BY <2>1, ImageSame
  <2>3. WriterInv' /\ CallInv'
    BY <2>1, <2>2 DEF ImageInv, WriterInv, CallInv, Image!NoCall
  <2>4. PngInv'
    <3>1. Image!Raw(rowsWritten + writing.done)' = Image!Raw(rowsWritten + writing.done)
      <4>1. Image!Raw(rowsWritten + writing.done)' = Image!Raw(rowsWritten' + writing'.done)
        BY <2>1, ImageSame
      <4> QED BY <2>1, <4>1
    <3>2. (\E n : Cut(n))' <=> (\E n : Cut(n))
      BY <2>1 DEF Cut, FullBlocks, RestOf, ChunkOf, Image!Block
    <3>3. Image!zlibStored(adler)' = Image!zlibStored(adler)
      BY <2>1 DEF Image!zlibStored, Image!Block
    <3> QED BY <2>1, <2>2, <3>1, <3>2, <3>3 DEF ImageInv, PngInv, Image!NoCall
  <2>5. ExrInv'
    BY <2>1, <2>2 DEF ImageInv, ExrInv
  <2> QED BY <2>3, <2>4, <2>5 DEF ImageInv
<1> QED BY <1>1, <1>2, OpenImage, AppendRowImage, EmitBlockImage, WriteScanlineImage, RowsDoneImage,
            FinishImage, EmitLastBlockImage, CloseImage, WriteFailsImage DEF Image!Next

\* What the invariant says of the file.
LEMMA ImageIsWhole == ASSUME Image!StreamAssumption, ImageInv PROVE Image!BandsAsWhole
<1>1. WriterInv /\ CallInv /\ PngInv /\ ExrInv
  BY DEF ImageInv
<1>2. Image!TypeOK
  BY <1>1 DEF WriterInv, CallInv, Image!TypeOK
<1>3. Image!CompleteIsOneShot
  <2>1. SUFFICES ASSUME Image!Complete PROVE file = Image!OneShot
    BY DEF Image!CompleteIsOneShot
  <2>2. writer = "open" /\ intact /\ ended /\ writing = Image!NoCall /\ rowsWritten = picture.height
        /\ picture \in Image!Images
    BY <1>1, <2>1 DEF Image!Complete, WriterInv
  <2>3. CASE picture.format = "png"
    BY <1>1, <2>2, <2>3 DEF PngInv, Image!OneShot
  <2>4. CASE picture.format = "exr"
    <3>1. rowsWritten + writing.done = picture.height
      BY <2>2 DEF Image!NoCall, Image!Images, Image!StreamAssumption
    <3>2. file = <<Image!ExrTable>> \o [y \in 1 .. picture.height |-> Image!ExrRow(y - 1, y - 1)]
      BY <1>1, <2>2, <2>4, <3>1 DEF ExrInv
    <3> QED BY <2>4, <3>2 DEF Image!OneShot, Image!OneShotExr
  <2> QED BY <2>2, <2>3, <2>4 DEF Image!Images
<1>4. Image!NothingLost
  <2> DEFINE stored == Image!FlattenSeq([b \in DOMAIN crc |-> crc[b].stored])
  <2>1. SUFFICES ASSUME writer = "open", intact, ~ended, picture.format = "png"
                 PROVE  /\ stored \o pending = Image!Raw(rowsWritten + writing.done)
                        /\ adler = Image!Raw(rowsWritten + writing.done)
                        /\ SubSeq(file, 2, Len(file)) = crc
                        /\ Len(pending) <= kMaxBlock + Image!RowBytes
                        /\ writing = Image!NoCall => Len(pending) <= kMaxBlock
    <3> HIDE DEF stored
    <3> QED BY DEF Image!NothingLost, stored
  <2>2. PICK n : Cut(n)
    BY <1>1, <2>1 DEF PngInv
  <2>3. /\ adler \in Seq(ImageByte) /\ adler = Image!Raw(rowsWritten + writing.done)
        /\ Len(adler) \in Nat
        /\ n \in Nat /\ n * kMaxBlock \in Nat /\ n * kMaxBlock <= Len(adler)
        /\ crc \in Seq(Stored)
    BY <2>1, <2>2, Holding
  <2>4. stored \o pending = adler
    <3>1. crc = FullBlocks(adler, n) /\ pending = RestOf(adler, n)
      BY <2>2 DEF Cut
    <3>2. [b \in DOMAIN crc |-> crc[b].stored] = Chunks(adler, n)
      BY <2>3, <3>1, BlocksAre
    <3>3. stored = SubSeq(adler, 1, n * kMaxBlock)
      BY <2>3, <3>2, ChunksFlat
    <3> DEFINE lo == n * kMaxBlock
    <3>4. lo \in Nat /\ lo <= Len(adler) /\ pending = SubSeq(adler, lo + 1, Len(adler))
          /\ stored = SubSeq(adler, 1, lo)
      BY <2>3, <3>1, <3>3 DEF RestOf
    <3> HIDE DEF lo, stored
    <3>5. SubSeq(adler, 1, lo) \o SubSeq(adler, lo + 1, Len(adler)) = SubSeq(adler, 1, Len(adler))
      <4>1. adler \in Seq(ImageByte) /\ Len(adler) \in Nat /\ lo \in Nat /\ lo <= Len(adler)
        BY <2>3, <3>4
      <4>2. Len(adler) <= Len(adler)
        BY <4>1
      <4> QED BY ONLY <4>1, <4>2, SliceJoins
    <3>6. SubSeq(adler, 1, Len(adler)) = adler
      BY <2>3, SubSeqFull
    <3> QED BY <3>4, <3>5, <3>6
  <2>5. SubSeq(file, 2, Len(file)) = crc
    <3> DEFINE x == Image!Prologue(Image!zlibStoredSize(Image!RowBytes * picture.height))
    <3>1. file = <<x>> \o crc
      BY <1>1, <2>1 DEF PngInv, Announced
    <3> HIDE DEF x
    <3>2. Image!Block(<<>>, FALSE) \in Stored
      <4>1. <<>> \in Seq(ImageByte)
        BY EmptySeq
      <4> QED BY <4>1 DEF Image!Block, Stored
    <3> DEFINE e == Image!Block(<<>>, FALSE)
    <3> HIDE DEF e
    <3>3. SubSeq(<<x>> \o crc, 2, Len(<<x>> \o crc)) = crc
      BY <2>3, <3>2, HeadAppend DEF e
    <3> QED BY <3>1, <3>3
  <2>6. Len(pending) <= kMaxBlock + Image!RowBytes
          /\ (writing = Image!NoCall => Len(pending) <= kMaxBlock)
    BY <1>1, <2>1 DEF PngInv, Image!NoCall
  <2> HIDE DEF stored
  <2> QED BY <2>3, <2>4, <2>5, <2>6
<1>5. Image!FailureIsTold
  BY <1>1 DEF WriterInv, Image!FailureIsTold
<1> QED BY <1>2, <1>3, <1>4, <1>5 DEF Image!BandsAsWhole

\* A file written in bands is that of the one-shot writer, byte for byte, whatever the
\* image, the bands and the length of a block; no byte is lost or written twice between
\* two bands; and a writer that failed says so ever after (stream.cpp against png.cpp and
\* exr.cpp).
THEOREM BandsWhole == ASSUME Image!StreamAssumption PROVE Image!Spec => []Image!BandsAsWhole
<1>1. Image!Init => ImageInv
  BY InitImage
<1>2. ImageInv /\ [Image!Next]_(Image!vars) => ImageInv'
  BY StepImage
<1>3. ImageInv => Image!BandsAsWhole
  BY ImageIsWhole
<1> QED BY <1>1, <1>2, <1>3, PTL DEF Image!Spec
=============================================================================
