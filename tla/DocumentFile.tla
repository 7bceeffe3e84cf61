------------------------------ MODULE DocumentFile ------------------------------
(***************************************************************************)
(* The container a document is saved to and loaded from                    *)
(* (src/src/app/src/document.cpp): sections of known length, in which      *)
(* meshes are written without their dead elements and everything that is   *)
(* kept per element (attributes, feature tags, selection weights) must be  *)
(* rebased onto the numbers the elements have after loading.               *)
(*                                                                         *)
(* Abstracted: a file is a sequence of cells, a field of any width being   *)
(* one cell.  A position, and a row of attributes, is the id of the vertex *)
(* or the element it belonged to, so that what was loaded says where it    *)
(* comes from; there is one column for each kind of element, or none.      *)
(* Ids begin at 1.  Parameters and bake state are a cell each.             *)
(***************************************************************************)
EXTENDS MeshParts

Magic == 77
Version == 1
ColumnType == 7

-----------------------------------------------------------------------------
(* The order of the elements in a file *)

\* Mutant: corners in the order of their ids.
OrderByIds(m) ==
    [vertices |-> Ordered(m.vertex), faces |-> Ordered(m.face),
     corners |-> Ordered(m.loop)]

compactOrder(m) ==
    LET faces == Ordered(m.face)
    IN  [vertices |-> Ordered(m.vertex), faces |-> faces,
         corners |-> FlattenSeq([i \in DOMAIN faces |-> FaceLoops(m, faces[i])])]

remap(m, v) == Cardinality({u \in AliveIds(m.vertex) : u <= v})

persistedEdges(m, columns) ==
    SelectSeq(Ordered(m.edge), LAMBDA e : columns \/ m.edge.at[e].feature)

\* Mutant: the weights are written by the ids of this session.
SelectionsAsTheyAre(m, slots) == slots

compactSelections(m, slots) ==
    IF m.vertex.live = Len(m.vertex.at) THEN slots
    ELSE LET alive == Ordered(m.vertex)
         IN  [s \in DOMAIN slots |-> [k \in DOMAIN alive |->
                 IF alive[k] <= Len(slots[s]) THEN slots[s][alive[k]] ELSE 0]]

-----------------------------------------------------------------------------
(* save *)

Counted(cells) == <<Len(cells)>> \o cells

serializeMesh(m) ==
    LET order == compactOrder(m)
        Corners(f) == [i \in DOMAIN FaceVertices(m, f) |-> remap(m, FaceVertices(m, f)[i])]
    IN  Counted(order.vertices) \o <<Len(order.faces)>>
            \o FlattenSeq([i \in DOMAIN order.faces |-> Counted(Corners(order.faces[i]))])

serializeSelections(slots) ==
    <<Len(slots)>> \o FlattenSeq([s \in DOMAIN slots |-> Counted(slots[s])])

Column(rows, columns) == IF columns THEN <<1, ColumnType>> \o Counted(rows) ELSE <<0>>

serializeMeshExtras(m, columns) ==
    LET order == compactOrder(m)
        edges == persistedEdges(m, columns)
        Record(e) == <<remap(m, m.edge.at[e].v0), remap(m, m.edge.at[e].v1),
                       IF m.edge.at[e].feature THEN 1 ELSE 0>>
    IN  Column(order.vertices, columns) \o Column(order.faces, columns)
            \o Column(order.corners, columns)
            \o <<Len(edges)>> \o FlattenSeq([i \in DOMAIN edges |-> Record(edges[i])])
            \o Column(edges, columns)

hasMeshExtras(m, columns) == columns \/ persistedEdges(m, columns) # <<>>

Section(id, payload) == <<id>> \o Counted(payload)
Sections(doc) ==
    <<Section(1, serializeMesh(doc.target)), Section(2, serializeMesh(doc.editMesh)),
      Section(3, <<doc.params>>), Section(4, <<doc.bake>>)>>
    \o (IF doc.slots = <<>> THEN <<>>
        ELSE <<Section(5, serializeSelections(compactSelections(doc.editMesh, doc.slots)))>>)
    \o (IF hasMeshExtras(doc.target, doc.columns)
        THEN <<Section(6, serializeMeshExtras(doc.target, doc.columns))>> ELSE <<>>)
    \o (IF hasMeshExtras(doc.editMesh, doc.columns)
        THEN <<Section(7, serializeMeshExtras(doc.editMesh, doc.columns))>> ELSE <<>>)

File(sections) == <<Magic, Version, Len(sections)>> \o FlattenSeq(sections)
save(doc) == File(Sections(doc))

-----------------------------------------------------------------------------
(* load: a reader is at a cell of a section; past the end it reads zeros.    *)

u32(s, at) == IF at <= Len(s) THEN s[at] ELSE 0
remaining(s, at) == Len(s) + 1 - at
Times(n) == [i \in 1 .. n |-> i]

Unread == [m |-> EmptyMesh, position |-> <<>>,
           rows |-> [vertex |-> <<>>, face |-> <<>>, corner |-> <<>>, edge |-> <<>>]]
Refusal == [ok |-> FALSE]

readMesh(s) ==
    LET points == u32(s, 1)
        count == u32(s, points + 2)
        ReadFace(r, i) ==
            IF ~r.ok \/ u32(s, r.at) > remaining(s, r.at + 1) THEN [r EXCEPT !.ok = FALSE]
            ELSE [ok |-> TRUE, at |-> r.at + 1 + s[r.at],
                  faces |-> Append(r.faces, SubSeq(s, r.at + 1, r.at + s[r.at]))]
        read == FoldLeft(ReadFace, [ok |-> TRUE, at |-> points + 3, faces |-> <<>>], Times(count))
    IN  IF points > remaining(s, 2) \/ count > remaining(s, points + 3) \/ ~read.ok THEN Refusal
        ELSE [ok |-> TRUE,
              mesh |-> [Unread EXCEPT !.m = FromIndexed(points, read.faces),
                                      !.position = SubSeq(s, 2, points + 1)]]

readSelections(s) ==
    LET ReadSlot(r, i) ==
            IF ~r.ok \/ u32(s, r.at) > remaining(s, r.at + 1) THEN [r EXCEPT !.ok = FALSE]
            ELSE [ok |-> TRUE, at |-> r.at + 1 + s[r.at],
                  slots |-> Append(r.slots, SubSeq(s, r.at + 1, r.at + s[r.at]))]
    IN  IF s = <<>> THEN Refusal
        ELSE FoldLeft(ReadSlot, [ok |-> TRUE, at |-> 2, slots |-> <<>>], Times(s[1]))

\* The rows of a column go to the elements in "order"; a column has a row for each.
readAttributeSet(s, r, order) ==
    LET rows == u32(s, r.at + 2)
    IN  IF ~r.ok \/ r.at > Len(s) THEN Refusal
        ELSE IF s[r.at] = 0 THEN [ok |-> TRUE, at |-> r.at + 1, column |-> <<>>]
        ELSE IF rows # Len(order) \/ rows > remaining(s, r.at + 3) THEN Refusal
        ELSE [ok |-> TRUE, at |-> r.at + 3 + rows,
              column |-> [e \in ToSet(order) \ {None} |->
                  s[r.at + 2 + CHOOSE k \in DOMAIN order : order[k] = e]]]

readEdgeRecords(s, r, m) ==
    LET ReadRecord(acc, i) ==
            LET a == s[acc.at]
                b == s[acc.at + 1]
                e == IF IsAlive(acc.m.vertex, a) /\ IsAlive(acc.m.vertex, b)
                     THEN EdgeBetween(acc.m, a, b) ELSE None
            IN  [acc EXCEPT !.at = @ + 3, !.ids = Append(@, e),
                            !.m = IF e = None THEN @
                                  ELSE [@ EXCEPT !.edge.at[e].feature = s[acc.at + 2] # 0]]
        count == u32(s, r.at)
    IN  IF ~r.ok \/ 3 * count > remaining(s, r.at + 1) THEN Refusal
        ELSE FoldLeft(ReadRecord, [ok |-> TRUE, at |-> r.at + 1, m |-> m, ids |-> <<>>],
                      Times(count))

readMeshExtras(s, mesh0) ==
    LET order == compactOrder(mesh0.m)
        vertices == readAttributeSet(s, [ok |-> TRUE, at |-> 1], order.vertices)
        faces == readAttributeSet(s, vertices, order.faces)
        corners == readAttributeSet(s, faces, order.corners)
        edges == readEdgeRecords(s, corners, mesh0.m)
        rows == readAttributeSet(s, edges, edges.ids)
    IN  IF ~vertices.ok \/ ~faces.ok \/ ~corners.ok \/ ~edges.ok \/ ~rows.ok THEN Refusal
        ELSE [ok |-> TRUE,
              mesh |-> [mesh0 EXCEPT !.m = edges.m,
                            !.rows = [vertex |-> vertices.column, face |-> faces.column,
                                      corner |-> corners.column, edge |-> rows.column]]]

Blank == [target |-> Unread, editMesh |-> Unread, params |-> 0, bake |-> 0, slots |-> <<>>]

\* What a section does to the document that is read.
Reads(doc, id, s) ==
    LET MeshOf(r, which) ==
            IF r.ok THEN [ok |-> TRUE, doc |-> [doc EXCEPT ![which] = r.mesh]] ELSE Refusal
        Register(which) ==
            IF s = <<>> THEN Refusal ELSE [ok |-> TRUE, doc |-> [doc EXCEPT ![which] = s[1]]]
        Slots(r) == IF r.ok THEN [ok |-> TRUE, doc |-> [doc EXCEPT !.slots = r.slots]] ELSE Refusal
        field == IF id \in {1, 6} THEN "target" ELSE "editMesh"
    IN  CASE id \in {1, 2} -> MeshOf(readMesh(s), field)
          [] id = 3 -> Register("params")
          [] id = 4 -> Register("bake")
          [] id = 5 -> Slots(readSelections(s))
          [] id \in {6, 7} -> MeshOf(readMeshExtras(s, doc[field]), field)
          [] OTHER -> [ok |-> TRUE, doc |-> doc]

SectionFits(file, at) == at + 1 <= Len(file) /\ file[at + 1] <= remaining(file, at + 2)

\* Mutant: what was read before the cut is taken for the document.
KeepsWhatIsThere(r) == r

Cut(r) == [r EXCEPT !.ok = FALSE]

load(file) ==
    LET Past(r, at, read) ==
            IF read.ok THEN [ok |-> TRUE, at |-> at, doc |-> read.doc] ELSE [r EXCEPT !.ok = FALSE]
        ReadSection(r, i) ==
            LET end == r.at + 1 + file[r.at + 1]
            IN  IF ~r.ok \/ ~SectionFits(file, r.at) THEN Cut(r)
                ELSE Past(r, end + 1, Reads(r.doc, file[r.at], SubSeq(file, r.at + 2, end)))
    IN  IF Len(file) < 3 \/ file[1] # Magic \/ file[2] > Version THEN Refusal
        ELSE FoldLeft(ReadSection, [ok |-> TRUE, at |-> 4, doc |-> Blank], Times(file[3]))

-----------------------------------------------------------------------------
(* Properties                                                               *)

\* Weights painted when the mesh had n vertices in its store.
Painted(n) == [v \in 1 .. n |-> v]

\* The other mesh of the document: a quad is left of it, and of its first vertices one
\* is gone and one without a face.
Target ==
    LET left == RemoveFace(FromIndexed(6, <<<<1, 2, 3>>, <<3, 4, 5, 6>>>>), 1)
    IN  [left EXCEPT !.vertex = Free(@, 2)]

\* The documents that may be saved over the mesh of the kernel.
Documents ==
    LET all == Painted(Len(mesh.vertex.at))
    IN  {[target |-> Target, editMesh |-> mesh, params |-> 5, bake |-> 6,
          slots |-> slots, columns |-> columns] :
            slots \in {<<>>, <<all, Front(all)>>}, columns \in BOOLEAN}

Was(l, corners) == [i \in DOMAIN corners |-> l.position[corners[i]]]
WasEnds(l, e) == {l.position[v] : v \in Ends(l.m, e)}

\* The loaded mesh has the vertices and the faces of the saved one, in their order,
\* and on each element what was on the one it comes from.
Restored(l, m, columns) ==
    LET faces == Ordered(m.face)
        FaceRow(f) == l.rows.face[f]
    IN  /\ AliveIds(l.m.vertex) = DOMAIN l.position /\ ToSet(l.position) = AliveIds(m.vertex)
        /\ IsInjective(l.position)
        /\ AliveIds(l.m.face) = DOMAIN faces
        /\ \A f \in DOMAIN faces : Was(l, FaceVertices(l.m, f)) = FaceVertices(m, faces[f])
        /\ {WasEnds(l, e) : e \in {d \in AliveIds(l.m.edge) : l.m.edge.at[d].feature}}
             = {Ends(m, e) : e \in {d \in AliveIds(m.edge) : m.edge.at[d].feature}}
        /\ columns =>
            /\ \A v \in DOMAIN l.position : l.rows.vertex[v] = l.position[v]
            /\ \A f \in DOMAIN faces : FaceRow(f) = faces[f]
            /\ \A c \in AliveIds(l.m.loop) :
                LET from == l.rows.corner[c]
                IN  /\ m.loop.at[from].vertex = l.position[l.m.loop.at[c].vertex]
                    /\ m.loop.at[from].face = FaceRow(l.m.loop.at[c].face)
            /\ \A e \in AliveIds(l.m.edge) : Ends(m, l.rows.edge[e]) = WasEnds(l, e)

Weight(slot, v) == IF v <= Len(slot) THEN slot[v] ELSE 0

\* "So a weight lands on the vertex it was painted on" (document.cpp): what load()
\* makes of a saved document is that document, whatever was deleted from its mesh
\* and recycled before.
LoadsWhatWasSaved ==
    \A doc \in Documents : \E l \in {load(save(doc))} :
        /\ l.ok /\ l.doc.params = doc.params /\ l.doc.bake = doc.bake
        /\ Restored(l.doc.target, doc.target, doc.columns)
        /\ Restored(l.doc.editMesh, doc.editMesh, doc.columns)
        /\ Len(l.doc.slots) = Len(doc.slots)
        /\ \A s \in DOMAIN doc.slots : \A v \in DOMAIN l.doc.editMesh.position :
            Weight(l.doc.slots[s], v) = Weight(doc.slots[s], l.doc.editMesh.position[v])

\* A file that was cut short, as by a crash while it is written, is refused wherever
\* it was cut, and never taken for a smaller document; and a section of a later
\* build, wherever it stands, changes nothing of what is read.  (For a document
\* with every section.)
FilesAreRead ==
    \E doc \in {d \in Documents : d.columns /\ d.slots # <<>>} :
        \E file \in {save(doc)}, sections \in {Sections(doc)} :
            LET cut == {SubSeq(file, 1, n) : n \in 0 .. Len(file) - 1}
                later == {File(InsertAt(sections, i, Section(99, <<1, 2>>))) :
                             i \in 1 .. Len(sections) + 1}
            IN  \E reading \in {[f \in {file} \cup cut \cup later |-> load(f)]} :
                    /\ \A f \in cut : ~reading[f].ok
                    /\ \A f \in later : reading[f].doc = reading[file].doc

\* Saving is a call like others, and counts in their bound.  Files are cut for the
\* meshes as they were imported: where a section ends does not depend on their history.
SavedDocumentLoads ==
    call.left > 0 => LoadsWhatWasSaved /\ (call.op = "import" => FilesAreRead)
=============================================================================
