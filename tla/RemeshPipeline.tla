----------------------------- MODULE RemeshPipeline -----------------------------
(***************************************************************************)
(* remesh() (src/src/core/src/pipeline.cpp): the islands of a mesh, one    *)
(* after another through the isotropic stage and a quadrangulator, or      *)
(* through the fallback where quad-cover declines; then their merge, the   *)
(* cleanup and the subdivision to pure quads, under ceilings on topology   *)
(* and with a host that watches the progress and may cancel.               *)
(*                                                                         *)
(* Abstracted: a mesh is the number of its faces (the ceilings on vertices *)
(* are of the same form); what a stage makes of an island is any outcome   *)
(* it can have.  Progress is in steps of a 20th of a face, the weights     *)
(* being face counts; a report inside a stage is at its beginning, middle  *)
(* or end.  Everything that is refused before the islands is one refusal.  *)
(***************************************************************************)
EXTENDS Sums

CONSTANTS
    Runs,       \* the calls: see RunType
    Made,       \* how many faces a stage may leave
    Arity       \* how many faces the subdivision makes of one

Guidance == {"guides", "density"}
RunType ==
    [sizes : Seq(Nat \ {0}) \ {<<>>},   \* the faces of each island
     refused : BOOLEAN,                 \* parameters, input or preprocessing
     method : {"greedy", "field-aligned", "quad-cover"},
     fallback : BOOLEAN, counted : BOOLEAN,     \* whether there is a fallback, a count policy
     guided : SUBSET Guidance, pure : BOOLEAN,
     ceiling : Nat, outputCeiling : Nat]        \* 0: none

PipelineAssumption == Runs \subseteq RunType /\ Made \subseteq Nat \ {0} /\ Arity \subseteq Nat \ {0}

VARIABLES
    run, pc,
    outcomes,   \* per island that was left: [ok, faces, stage]
    rows,       \* the guidance audit
    island,     \* the one that is worked on: [faces, stage, row, tried]
    base,       \* progressBase
    best, inner,    \* what the host was told, and the sink of the stage
    cancelled,  \* the token
    merged, faces,  \* the result: which islands are in it, and its size
    failed,     \* the diagnosed islands
    status

progressVars == <<base, best, inner>>
resultVars == <<merged, faces, failed>>
vars == <<run, pc, outcomes, rows, island, progressVars, cancelled, resultVars, status>>

\* row: what the audit claims was honored, whether it gives a reason, and what
\* was really lost.
NoRow == [guides |-> FALSE, density |-> FALSE, reason |-> FALSE, lost |-> {}]
NoIsland == [faces |-> 0, stage |-> "", row |-> NoRow, tried |-> {}]

Init ==
    /\ run \in Runs /\ pc = "begin"
    /\ outcomes = <<>> /\ rows = <<>> /\ island = NoIsland
    /\ base = 0 /\ best = 0 /\ inner = 0 /\ cancelled = FALSE
    /\ merged = <<>> /\ faces = 0 /\ failed = <<>> /\ status = "running"

-----------------------------------------------------------------------------
(* The call *)

exceeds(value, limit) == limit > 0 /\ value > limit

Ended(s) == status' = s /\ pc' = "done"

Cancel ==
    /\ ~cancelled /\ cancelled' = TRUE
    /\ UNCHANGED <<run, pc, outcomes, rows, island, progressVars, resultVars, status>>

Begin ==
    /\ pc = "begin"
    /\ IF run.refused THEN Ended("error") ELSE pc' = "islands" /\ UNCHANGED status
    /\ UNCHANGED <<run, outcomes, rows, island, progressVars, cancelled, resultVars>>

Index == Len(outcomes) + 1
Weight == run.sizes[Index]
QuadCover == run.method = "quad-cover"

TakeIsland ==
    /\ pc = "islands" /\ Index <= Len(run.sizes)
    /\ IF cancelled THEN Ended("cancelled") /\ UNCHANGED island
       ELSE /\ island' = [NoIsland EXCEPT !.faces = Weight]
            /\ pc' = IF QuadCover THEN "quadrangulate" ELSE "isotropic"
            /\ UNCHANGED status
    /\ inner' = 0
    /\ UNCHANGED <<run, outcomes, rows, base, best, cancelled, resultVars>>

\* The island is left, merged later if it is ok, diagnosed if not.
Leave(ok, left) ==
    /\ outcomes' = Append(outcomes, [ok |-> ok, faces |-> left.faces, stage |-> left.stage,
                                    tried |-> left.tried])
    /\ rows' = IF run.guided = {} THEN rows ELSE Append(rows, left.row)
    /\ base' = base + 20 * Weight
    /\ pc' = "islands"
    /\ UNCHANGED <<run, island, best, inner, cancelled, resultVars, status>>

-----------------------------------------------------------------------------
(* Progress: a report of a stage goes through its sink and that of the run *)

Isotropic == pc \in {"isotropic", "recover"}
Refused == run.counted /\ ~QuadCover
Quadrangulating == pc = "fallback" \/ (pc = "quadrangulate" /\ ~Refused)

Tell(value) == best' = IF value > best THEN value ELSE best

\* The fallback reports to the sink of the first quadrangulator, and the isotropic
\* stage of the fallback begins at the beginning again.
Report(p) ==
    /\ Isotropic \/ Quadrangulating
    /\ IF Isotropic THEN Tell(base + 3 * p * Weight) /\ UNCHANGED inner
       ELSE /\ p >= inner /\ inner' = p
            /\ Tell(base + 6 * Weight + 6 * p * Weight)
    /\ UNCHANGED <<run, pc, outcomes, rows, island, base, cancelled, resultVars, status>>

-----------------------------------------------------------------------------
(* The stages of an island *)

\* A stage that polled the token, or reached the ceiling: the whole run stops.
StageStops ==
    /\ Isotropic \/ Quadrangulating
    /\ \/ cancelled /\ Ended("cancelled")
       \/ run.ceiling > 0 /\ pc # "fallback" /\ Ended("error")
    /\ UNCHANGED <<run, outcomes, rows, island, progressVars, cancelled, resultVars>>

IsotropicRemesh(made) ==
    /\ Isotropic /\ ~exceeds(made, run.ceiling)
    /\ island' = [island EXCEPT !.faces = made]
    /\ pc' = IF pc = "recover" THEN "fallback" ELSE "quadrangulate"
    /\ UNCHANGED <<run, outcomes, rows, progressVars, cancelled, resultVars, status>>

Lost(row) == [row EXCEPT !.lost = run.guided]

IsotropicFails ==
    /\ pc = "isotropic"
    /\ Leave(FALSE, [island EXCEPT !.stage = "isotropic", !.row = [Lost(@) EXCEPT !.reason = TRUE]])

\* Mutant: what the failed attempt took of the guidance stays claimed.
DiagnosedWithClaims(left) ==
    Leave(FALSE, [left EXCEPT !.stage = IF @ = "" THEN "quadrangulate" ELSE @,
                              !.row = [Lost(@) EXCEPT !.reason = TRUE]])

\* The island is diagnosed after the attempts at it, under the stage that failed last.
Diagnosed(left) ==
    Leave(FALSE, [left EXCEPT !.stage = IF @ = "" THEN "quadrangulate" ELSE @,
                              !.row = [Lost(@) EXCEPT !.guides = FALSE, !.reason = TRUE]])

RecoveryFails ==
    /\ pc = "recover"
    /\ Diagnosed([island EXCEPT !.stage = "isotropic"])

\* What the quadrangulator takes of the guidance, and what it leaves of what it took.
Offered(accepted, left) ==
    LET sized == IF pc = "quadrangulate" /\ QuadCover THEN {} ELSE {"density"}
    IN  [guides |-> accepted /\ "guides" \in run.guided /\ left = {},
         density |-> "density" \in run.guided /\ (accepted \/ sized # {}),
         reason |-> ~accepted \/ left # {},
         lost |-> IF accepted THEN left ELSE run.guided \ sized]

\* What quadrangulate() may say of the guidance: a method that declines it takes
\* nothing, and only then, or when it took some, can it be lost.
Offers ==
    IF run.guided = {} THEN {NoRow}
    ELSE {Offered(FALSE, {})} \cup
         (IF pc = "quadrangulate" /\ run.method = "greedy" THEN {}
          ELSE {Offered(TRUE, left) : left \in SUBSET run.guided})

Recovers == QuadCover /\ run.fallback

MethodRefused ==
    /\ pc = "quadrangulate" /\ Refused /\ Ended("error")
    /\ UNCHANGED <<run, outcomes, rows, island, progressVars, cancelled, resultVars>>

Quadrangulate(made, row) ==
    /\ Quadrangulating
    /\ IF exceeds(made, run.ceiling) THEN Ended("error") /\ UNCHANGED island
       ELSE /\ island' = [island EXCEPT !.faces = made, !.row = row,
                                        !.tried = @ \cup {pc}]
            /\ pc' = "policy" /\ UNCHANGED status
    /\ UNCHANGED <<run, outcomes, rows, progressVars, cancelled, resultVars>>

QuadrangulateFails(row) ==
    /\ Quadrangulating
    /\ LET left == [island EXCEPT !.row = row, !.tried = @ \cup {pc}]
       IN  IF pc = "quadrangulate" /\ Recovers
           THEN /\ island' = left /\ pc' = "recover"
                /\ UNCHANGED <<run, outcomes, rows, progressVars, cancelled, resultVars, status>>
           ELSE Diagnosed(left)

\* applySmallPatchPolicy: it may remove patches, or all of them.
SmallPatches(kept) ==
    /\ pc = "policy" /\ kept <= island.faces
    /\ Leave(kept > 0, [island EXCEPT !.faces = kept,
                                      !.stage = IF kept = 0 THEN "cleanup" ELSE @])

-----------------------------------------------------------------------------
(* The merge, and what follows *)

Ok(i) == outcomes[i].ok
\* The islands of a set, in their order.
Of(S) == Ascending(S, Len(outcomes))

Total == SumOf([i \in 1 .. Len(outcomes) |-> IF Ok(i) THEN outcomes[i].faces ELSE 0])

MergeRefused ==
    exceeds(Total, run.ceiling) \/ (~run.pure /\ exceeds(Total, run.outputCeiling))

\* Mutant: a failed island leaves what is in its mesh.
KeptOfAll(i) == TRUE

Kept(i) == Ok(i)

Merge ==
    /\ pc = "islands" /\ Index > Len(run.sizes)
    /\ IF MergeRefused THEN Ended("error") /\ UNCHANGED <<resultVars, best>>
       ELSE /\ merged' = Of({i \in 1 .. Len(outcomes) : Kept(i)}) /\ faces' = Total
            /\ failed' = Of({i \in 1 .. Len(outcomes) : ~Ok(i)})
            /\ Tell(19 * (base \div 20))
            /\ pc' = "fill" /\ UNCHANGED status
    /\ UNCHANGED <<run, outcomes, rows, island, base, inner, cancelled>>

FillHoles(filled) ==
    /\ pc = "fill" /\ (faces = 0 => filled = 0)
    /\ faces' = faces + filled
    /\ pc' = IF run.pure /\ faces > 0 THEN "subdivide" ELSE "count"
    /\ UNCHANGED <<run, outcomes, rows, island, progressVars, cancelled, merged, failed, status>>

SubdivisionRefused == run.outputCeiling > 0 /\ faces > run.outputCeiling \div 4

Subdivide(arity) ==
    /\ pc = "subdivide"
    /\ IF SubdivisionRefused THEN Ended("error") /\ UNCHANGED faces
       ELSE faces' = arity * faces /\ pc' = "count" /\ UNCHANGED status
    /\ UNCHANGED <<run, outcomes, rows, island, progressVars, cancelled, merged, failed>>

\* Mutant: what the merge has let through is not counted again.
OutputRefusedNever == FALSE

OutputRefused == exceeds(faces, run.outputCeiling)

Count ==
    /\ pc = "count"
    /\ IF OutputRefused \/ faces = 0 THEN Ended("error") /\ UNCHANGED best
       ELSE Ended(IF failed = <<>> THEN "success" ELSE "partial") /\ Tell(base)
    /\ UNCHANGED <<run, outcomes, rows, island, base, inner, cancelled, resultVars>>

Working ==
    \/ Begin \/ TakeIsland \/ StageStops \/ IsotropicFails \/ RecoveryFails \/ MethodRefused
    \/ \E made \in Made : IsotropicRemesh(made)
    \/ \E row \in Offers : QuadrangulateFails(row) \/ \E made \in Made : Quadrangulate(made, row)
    \/ \E kept \in Made \cup {0} : SmallPatches(kept)
    \/ Merge \/ (\E filled \in {0, 1} : FillHoles(filled)) \/ Count
    \/ \E arity \in Arity : Subdivide(arity)

Next == Working \/ Cancel \/ \E p \in 0 .. 2 : Report(p)

Spec == Init /\ [][Next]_vars /\ WF_vars(Working)

-----------------------------------------------------------------------------
(* Properties *)

Over == status # "running"
Delivered == status \in {"success", "partial"}

TypeOK ==
    /\ run \in Runs /\ status \in {"running", "success", "partial", "cancelled", "error"}
    /\ Len(outcomes) <= Len(run.sizes) /\ base \in Nat /\ best \in Nat /\ inner \in 0 .. 2
    /\ faces \in Nat /\ cancelled \in BOOLEAN /\ (status = "running" <=> pc # "done")

\* "The result SHALL contain the successful islands, the report SHALL identify the
\* failed island, and the run status SHALL be partial" (remeshing-pipeline spec):
\* of every island either what it became or its diagnosis is in the result, in
\* their order.
EveryIslandAccounted ==
    Delivered =>
        /\ Len(outcomes) = Len(run.sizes)
        /\ \A i \in 1 .. Len(outcomes) :
            /\ (\E k \in DOMAIN merged : merged[k] = i) <=> outcomes[i].faces > 0 /\ outcomes[i].stage = ""
            /\ (\E k \in DOMAIN failed : failed[k] = i) <=> outcomes[i].stage # ""
        /\ \A j, k \in DOMAIN merged : j < k => merged[j] < merged[k]
        /\ status = "partial" <=> \E i \in 1 .. Len(outcomes) : outcomes[i].stage # ""

\* "Results commit atomically at completion only", and nobody is told "cancelled"
\* who did not cancel.
CancelledHasNothing == status = "cancelled" => cancelled /\ merged = <<>> /\ faces = 0

\* What is delivered is there, and within its ceiling; the islands were within
\* that on what is made on the way.
WithinCeilings ==
    /\ Delivered => faces # 0 /\ ~exceeds(faces, run.outputCeiling)
    /\ \A i \in 1 .. Len(outcomes) : Ok(i) => ~exceeds(outcomes[i].faces, run.ceiling)

\* "The pipeline SHALL NOT silently ignore supplied guidance": a row for each island,
\* which gives a reason where some of it was lost, and claims no guides that were.
GuidanceAudited ==
    /\ Delivered => Len(rows) = IF run.guided = {} THEN 0 ELSE Len(run.sizes)
    /\ \A i \in DOMAIN rows :
        /\ rows[i].lost # {} => rows[i].reason
        /\ rows[i].guides => rows[i].lost = {}

\* "Making quad-cover the default never sacrifices the always-produces-output
\* robustness of the field-aligned path" (pipeline.hpp).
FallbackTried ==
    \A i \in 1 .. Len(outcomes) :
        QuadCover /\ run.fallback /\ "quadrangulate" \in outcomes[i].tried /\ ~Ok(i)
            /\ outcomes[i].stage = "quadrangulate" => "fallback" \in outcomes[i].tried

\* The host is told that all is done when it is delivered, and only then.
Whole == 20 * SumOf(run.sizes)
FullMeansDelivered == best <= Whole /\ (best = Whole <=> Delivered)

PipelineSound ==
    /\ TypeOK /\ EveryIslandAccounted /\ CancelledHasNothing /\ WithinCeilings
    /\ GuidanceAudited /\ FallbackTried /\ FullMeansDelivered
=============================================================================
