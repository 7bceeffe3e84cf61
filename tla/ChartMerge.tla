------------------------------- MODULE ChartMerge -------------------------------
(***************************************************************************)
(* greedyMergeCharts() of src/src/uv/src/atlas.cpp with its RejectionMemo  *)
(* (rejection_memo.hpp): adjacent charts are merged as long as `accept`,   *)
(* asked about the two charts' face lists in order, lets one be.           *)
(*                                                                         *)
(* Abstracted: the union-find is its answer, and `accept` an arbitrary     *)
(* function, chosen where it is asked first.                               *)
(***************************************************************************)
EXTENDS Sums, SequencesExt

CONSTANTS
    Charts,      \* the charts are 0 .. Charts - 1
    Labellings,  \* the chartOf considered: a sequence, per face its chart or -1
    Borders      \* the adjacencies considered: sequences of pairs <<a, b>>, a < b

Chart == 0 .. Charts - 1

Before(p, q) == p[1] < q[1] \/ (p[1] = q[1] /\ p[2] < q[2])

MergeAssumption ==
    /\ Charts \in Nat \ {0, 1}
    /\ \A chartOf \in Labellings : chartOf \in Seq(Chart \cup {-1}) /\ Chart \subseteq Range(chartOf)
    /\ \A border \in Borders :
          /\ border \in Seq(Chart \X Chart)
          /\ \A i \in DOMAIN border : border[i][1] < border[i][2]
          /\ \A i, j \in DOMAIN border : i < j => Before(border[i], border[j])

VARIABLES
    chartOf, pairs,     \* the labelling, and the adjacent pairs in order
    given,              \* history: the labelling that was passed in
    root, chartFaces,   \* per chart: findRoot(), and the faces of a root
    version, entries,   \* the memo
    at, changed,        \* the pair the round is at, and whether it has merged
    merges, status,
    accept, repeated    \* what accept answers, and whether it was asked twice

memoVars == <<version, entries>>
vars == <<chartOf, pairs, given, root, chartFaces, memoVars, at, changed, merges, status,
          accept, repeated>>

Lesser(a, b) == IF a < b THEN a ELSE b
Greater(a, b) == IF a < b THEN b ELSE a

\* collectChartFaces(): faces in order of their index.
FacesOf(labels, c) == Ascending({f \in DOMAIN labels : labels[f] = c}, Len(labels))

Init ==
    /\ chartOf \in Labellings /\ given = chartOf /\ pairs \in Borders
    /\ root = [c \in Chart |-> c] /\ chartFaces = [c \in Chart |-> FacesOf(chartOf, c)]
    /\ version = [c \in Chart |-> 0] /\ entries = [k \in {} |-> <<0, 0>>]
    /\ at = 1 /\ changed = FALSE /\ merges = 0 /\ status = "merging"
    /\ accept = [k \in {} |-> FALSE] /\ repeated = FALSE

-----------------------------------------------------------------------------
(* RejectionMemo *)

\* Mutant: one order of a pair answers for the other.
KeyFolded(a, b) == <<Lesser(a, b), Greater(a, b)>>

Key(a, b) == <<a, b>>

Stamp(a, b) == <<version[Lesser(a, b)], version[Greater(a, b)]>>

isKnownRejected(a, b) == Key(a, b) \in DOMAIN entries /\ entries[Key(a, b)] = Stamp(a, b)

\* m_entries[key] = value
Put(f, k, value) == [x \in DOMAIN f \cup {k} |-> IF x = k THEN value ELSE f[x]]

reject(a, b) == Put(entries, Key(a, b), Stamp(a, b))

-----------------------------------------------------------------------------
(* A round *)

A == root[pairs[at][1]]
B == root[pairs[at][2]]
Question == <<chartFaces[A], chartFaces[B]>>

Visiting == status = "merging" /\ at <= Len(pairs)
Onwards == at' = at + 1 /\ UNCHANGED <<chartOf, pairs, given, status>>

\* The charts are one already, or known not to merge: accept is not asked.
Skip ==
    /\ Visiting /\ (A = B \/ isKnownRejected(A, B))
    /\ Onwards
    /\ UNCHANGED <<root, chartFaces, memoVars, changed, merges, accept, repeated>>

\* accept is asked, and answers as before if it was asked the same before.
Asked(answer) ==
    /\ Visiting /\ A # B /\ ~isKnownRejected(A, B)
    /\ repeated' = (repeated \/ Question \in DOMAIN accept)
    /\ Question \in DOMAIN accept => answer = accept[Question]
    /\ accept' = Put(accept, Question, answer)

Rejected ==
    /\ Asked(FALSE)
    /\ entries' = reject(A, B)
    /\ Onwards
    /\ UNCHANGED <<root, chartFaces, version, changed, merges>>

Merged ==
    /\ Asked(TRUE)
    /\ LET keep == Lesser(A, B)
           drop == Greater(A, B)
       IN  /\ root' = [c \in Chart |-> IF root[c] = drop THEN keep ELSE root[c]]
           /\ chartFaces' = [chartFaces EXCEPT ![keep] = @ \o chartFaces[drop], ![drop] = <<>>]
           /\ version' = [version EXCEPT ![keep] = @ + 1]
    /\ changed' = TRUE /\ merges' = merges + 1
    /\ Onwards /\ UNCHANGED entries

\* The token is polled only where accept would be asked.
Cancelled ==
    /\ Visiting /\ A # B /\ ~isKnownRejected(A, B)
    /\ status' = "cancelled"
    /\ UNCHANGED <<chartOf, pairs, given, root, chartFaces, memoVars, at, changed, merges,
                   accept, repeated>>

AnotherRound ==
    /\ status = "merging" /\ at > Len(pairs) /\ changed
    /\ at' = 1 /\ changed' = FALSE
    /\ UNCHANGED <<chartOf, pairs, given, root, chartFaces, memoVars, merges, status,
                   accept, repeated>>

-----------------------------------------------------------------------------
(* At the fixpoint *)

\* The roots in the order their first faces come.
Labelled(f) == chartOf[f] >= 0
FirstFaces == {f \in DOMAIN chartOf : Labelled(f) /\ \A g \in 1 .. f - 1 :
                   Labelled(g) => root[chartOf[g]] # root[chartOf[f]]}

NewLabel(f) == Cardinality({g \in FirstFaces :
                   \E h \in FirstFaces : root[chartOf[h]] = root[chartOf[f]] /\ g < h})

Relabel ==
    /\ status = "merging" /\ at > Len(pairs) /\ ~changed
    /\ chartOf' = [f \in DOMAIN chartOf |-> IF Labelled(f) THEN NewLabel(f) ELSE chartOf[f]]
    /\ status' = "done"
    /\ UNCHANGED <<pairs, given, root, chartFaces, memoVars, at, changed, merges, accept, repeated>>

Pass == Skip \/ Rejected \/ Merged \/ AnotherRound \/ Relabel
Next == Pass \/ Cancelled

Spec == Init /\ [][Next]_vars

-----------------------------------------------------------------------------
(* Properties *)

TypeOK ==
    /\ chartOf \in Seq(Chart \cup {-1}) /\ root \in [Chart -> Chart]
    /\ version \in [Chart -> 0 .. Charts - 1] /\ merges \in 0 .. Charts - 1
    /\ DOMAIN entries \subseteq Chart \X Chart /\ at \in 1 .. Len(pairs) + 1
    /\ status \in {"merging", "cancelled", "done"}

Faces == DOMAIN given
RootOf(f) == root[given[f]]

\* What the memo skips is a question that accept has answered with no, about the
\* very same face lists in the very same order.
MemoIsAccept ==
    \A a, b \in Chart : root[a] = a /\ root[b] = b /\ a # b /\ isKnownRejected(a, b) =>
        LET question == <<chartFaces[a], chartFaces[b]>>
        IN  question \in DOMAIN accept /\ ~accept[question]

\* No trial unwrap is run a second time for the answer it gave.
NeverAskedTwice == ~repeated

\* A pass that ends has reached its fixpoint: of no two charts that touch would
\* accept let a merge, asked as the pass asks.
FixpointReached ==
    status = "done" => \A i \in DOMAIN pairs :
        LET a == root[pairs[i][1]]
            b == root[pairs[i][2]]
            question == <<chartFaces[a], chartFaces[b]>>
        IN  a # b => question \in DOMAIN accept /\ ~accept[question]

\* The face lists accept is asked about are the charts: every face is in the list
\* of its root, once, and a root is the least of its charts.
ListsAreCharts ==
    \A c \in Chart : /\ root[c] <= c /\ root[root[c]] = root[c]
                     /\ IsInjective(chartFaces[c])
                     /\ ToSet(chartFaces[c]) = {f \in Faces : given[f] >= 0 /\ RootOf(f) = c}

\* The labelling that comes out is that partition, in labels without gaps; a
\* cancelled pass leaves the one it was given.
LabellingRight ==
    IF status # "done" THEN chartOf = given
    ELSE /\ \A f, g \in Faces : given[f] >= 0 /\ given[g] >= 0 =>
                (chartOf[f] = chartOf[g] <=> RootOf(f) = RootOf(g))
         /\ {chartOf[f] : f \in {g \in Faces : given[g] >= 0}} = 0 .. Charts - merges - 1

\* The pass is over.
Ended == status # "merging"
=============================================================================
