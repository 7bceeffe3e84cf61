------------------------------- MODULE Journal -------------------------------
(***************************************************************************)
(* The undo journal (src/src/app/src/undo.cpp), the one command the        *)
(* library records in it (partial_retopology.cpp) and the document that    *)
(* command edits (document.cpp: the dirty flag, autosaveIfDirty(), load()). *)
(*                                                                         *)
(* A command holds the whole EditMesh before and after itself; undo        *)
(* restores the one, redo the other.  The journal evicts its oldest        *)
(* commands beyond a budget of bytes, which it tracks in m_used.           *)
(*                                                                         *)
(* Abstracted: a mesh is a value, equal to what save() and load() make of   *)
(* it as Document's operator== has it; its bytes are Size.  Labels, the    *)
(* other fields of the document and its encoding are left out.  An autosave *)
(* takes a step for the encoding, one for the host's sink and one for its   *)
(* return; the sink does not edit the document it is given the bytes of.    *)
(***************************************************************************)
EXTENDS Integers, Sequences, SequencesExt, Sums

CONSTANTS
    Mesh,          \* the EditMeshes
    Torn,          \* an EditMesh whose assignment threw half-way
    Size,          \* the bytes a mesh owns
    Budgets,       \* the budgets the host sets
    MaxCommands,   \* bound on commands in the journal and evicted from it
    MaxFailures    \* bound on operations that throw

ASSUME JournalAssumption ==
    /\ Torn \notin Mesh
    /\ Size \in [Mesh \cup {Torn} -> Nat]
    /\ Budgets \subseteq Nat
    /\ MaxCommands \in Nat /\ MaxFailures \in Nat

VARIABLES
    editMesh, dirty,               \* the document
    undo, redo,                    \* commands: newest last, and last undone last
    budget, used, evicted,
    saving,                        \* how far autosaveIfDirty() is
    saved,                         \* what the sink wrote last
    failures                       \* operations that have thrown so far

documentVars == <<editMesh, dirty>>
stackVars == <<undo, redo, used, evicted>>
vars == <<documentVars, stackVars, budget, saving, saved, failures>>

Snapshot == Mesh \cup {Torn}
Command == [before : Snapshot, after : Snapshot]
Phase == {"no", "encoded", "written"}

Init ==
    /\ editMesh \in Mesh /\ dirty = FALSE
    /\ undo = <<>> /\ redo = <<>>
    /\ budget \in Budgets /\ used = 0 /\ evicted = 0
    /\ saving = "no" /\ saved = editMesh
    /\ failures = 0

-----------------------------------------------------------------------------
Bytes(cmd) == Size[cmd.before] + Size[cmd.after]
Cost(cmds) == SumOf([i \in DOMAIN cmds |-> Bytes(cmds[i])])

Pop(cmds) == SubSeq(cmds, 1, Len(cmds) - 1)

\* Mutant: the document is not marked dirty.
ReplaceUnmarked(mesh) == editMesh' = mesh /\ UNCHANGED dirty

\* The command's replace(): the EditMesh is assigned and the document marked.
Replace(mesh) == editMesh' = mesh /\ dirty' = TRUE

\* Mutant: one command is evicted too many when what is left fits exactly.
EnforceBudgetEager(cmds, bytes, limit) ==
    \E k \in 0 .. Len(cmds) :
        LET left(j) == bytes - Cost(SubSeq(cmds, 1, j))
            over(j) == left(j) >= limit /\ Len(cmds) - j > 1
        IN  /\ ~over(k) /\ \A j \in 0 .. k - 1 : over(j)
            /\ k < Len(cmds) \/ cmds = <<>>
            /\ undo' = SubSeq(cmds, k + 1, Len(cmds))
            /\ used' = left(k)
            /\ evicted' = evicted + k

\* The loop of enforceBudget() on commands cmds that are accounted as bytes:
\* k, the number evicted, is where its condition first fails.
EnforceBudget(cmds, bytes, limit) ==
    \E k \in 0 .. Len(cmds) :
        LET left(j) == bytes - Cost(SubSeq(cmds, 1, j))
            over(j) == left(j) > limit /\ Len(cmds) - j > 1
        IN  /\ ~over(k) /\ \A j \in 0 .. k - 1 : over(j)
            /\ k < Len(cmds) \/ cmds = <<>>
            /\ undo' = SubSeq(cmds, k + 1, Len(cmds))
            /\ used' = left(k)
            /\ evicted' = evicted + k

\* Mutant: a fresh command leaves the redo branch.
PartialRetopologyKeepsRedo(mesh) ==
    /\ evicted + Len(undo) < MaxCommands
    /\ LET cmd == [before |-> editMesh, after |-> mesh]
       IN  EnforceBudget(Append(undo, cmd), used + Bytes(cmd), budget)
    /\ Replace(mesh)
    /\ UNCHANGED <<redo, budget, saved, failures>>

\* applyPartialRetopology() whose request is applied: push() of the command.
PartialRetopology(mesh) ==
    /\ evicted + Len(undo) < MaxCommands
    /\ LET cmd == [before |-> editMesh, after |-> mesh]
       IN  EnforceBudget(Append(undo, cmd), used + Bytes(cmd), budget)
    /\ Replace(mesh)
    /\ redo' = <<>>
    /\ UNCHANGED <<budget, saved, failures>>

\* Mutant: the undone command goes to the wrong end of the redo stack.
UndoReordered ==
    /\ undo # <<>>
    /\ Replace(Last(undo).before)
    /\ undo' = Pop(undo) /\ redo' = <<Last(undo)>> \o redo
    /\ used' = used - Bytes(Last(undo))
    /\ UNCHANGED <<budget, evicted, saved, failures>>

Undo ==
    /\ undo # <<>>
    /\ Replace(Last(undo).before)
    /\ undo' = Pop(undo) /\ redo' = Append(redo, Last(undo))
    /\ used' = used - Bytes(Last(undo))
    /\ UNCHANGED <<budget, evicted, saved, failures>>

\* Mutant: redo() does not count what it puts back.
RedoUncounted ==
    /\ redo # <<>>
    /\ Replace(Last(redo).after)
    /\ redo' = Pop(redo) /\ EnforceBudget(Append(undo, Last(redo)), used, budget)
    /\ UNCHANGED <<budget, saved, failures>>

Redo ==
    /\ redo # <<>>
    /\ Replace(Last(redo).after)
    /\ redo' = Pop(redo)
    /\ EnforceBudget(Append(undo, Last(redo)), used + Bytes(Last(redo)), budget)
    /\ UNCHANGED <<budget, saved, failures>>

SetBudget(bytes) ==
    /\ budget' = bytes
    /\ EnforceBudget(undo, used, bytes)
    /\ UNCHANGED <<documentVars, redo, saved, failures>>

Clear ==
    /\ undo' = <<>> /\ redo' = <<>> /\ used' = 0 /\ evicted' = 0
    /\ UNCHANGED <<documentVars, budget, saved, failures>>

\* autosaveIfDirty() has the bytes for its sink.  The journal's metadata is
\* written beside them: one label and size per command, no snapshot.
Autosave ==
    /\ dirty /\ saving = "no"
    /\ saving' = "encoded"
    /\ UNCHANGED <<documentVars, stackVars, budget, saved, failures>>

\* The sink has written them, and has not returned.
SinkWrites ==
    /\ saving = "encoded" /\ saving' = "written"
    /\ saved' = editMesh
    /\ UNCHANGED <<documentVars, stackVars, budget, failures>>

\* It returns, and only now the document counts as saved.
AutosaveReturns ==
    /\ saving = "written" /\ saving' = "no"
    /\ dirty' = FALSE
    /\ UNCHANGED <<editMesh, stackVars, budget, saved, failures>>

\* Mutant: what the sink throws is caught, and the flag cleared all the same.
SinkThrowsUnheard ==
    /\ saving # "no" /\ saving' = "no"
    /\ dirty' = FALSE
    /\ UNCHANGED <<editMesh, stackVars, budget, saved, failures>>

\* It throws, before it has written or after: the exception leaves through
\* autosaveIfDirty().
SinkThrows ==
    /\ saving # "no" /\ saving' = "no"
    /\ UNCHANGED <<documentVars, stackVars, budget, saved, failures>>

\* The process ends, also between two of these steps, and starts again: load()
\* restores the document, and the new UndoStack is empty -- nothing makes
\* commands of the metadata.
Restart ==
    /\ editMesh' = saved /\ dirty' = FALSE /\ saving' = "no"
    /\ undo' = <<>> /\ redo' = <<>> /\ used' = 0 /\ evicted' = 0
    /\ UNCHANGED <<budget, saved, failures>>

-----------------------------------------------------------------------------
(* Operations that throw: copying a mesh allocates, and so does push_back *)

Throws == failures < MaxFailures /\ failures' = failures + 1
          /\ UNCHANGED <<budget, evicted, saved>>

\* The assignment threw before it changed anything, or between two members of
\* the mesh; markDirty() is not reached.
HalfReplaced == editMesh' \in {editMesh, Torn} /\ UNCHANGED dirty

PushThrows(mesh) ==
    /\ Throws
    /\ \/ HalfReplaced /\ UNCHANGED used
       \/ /\ Replace(mesh)
          /\ used' = used + Bytes([before |-> editMesh, after |-> mesh])
    /\ UNCHANGED <<undo, redo>>

\* Mutant: the bytes are taken off before the command is.
UndoThrowsEarly ==
    /\ Throws /\ undo # <<>>
    /\ HalfReplaced /\ used' = used - Bytes(Last(undo))
    /\ UNCHANGED <<undo, redo>>

\* The command is off the one stack and not yet on the other: it is lost.
UndoThrows ==
    /\ Throws /\ undo # <<>>
    /\ undo' = Pop(undo)
    /\ \/ HalfReplaced /\ UNCHANGED used
       \/ Replace(Last(undo).before) /\ used' = used - Bytes(Last(undo))
    /\ UNCHANGED redo

RedoThrows ==
    /\ Throws /\ redo # <<>>
    /\ redo' = Pop(redo)
    /\ \/ HalfReplaced /\ UNCHANGED used
       \/ Replace(Last(redo).after) /\ used' = used + Bytes(Last(redo))
    /\ UNCHANGED undo

-----------------------------------------------------------------------------
\* autosaveIfDirty() runs on the thread that edits.
Edits ==
    /\ saving = "no" /\ UNCHANGED saving
    /\ \/ \E mesh \in Mesh : PartialRetopology(mesh)
       \/ \E bytes \in Budgets : SetBudget(bytes)
       \/ Undo \/ Redo \/ Clear

Saves == Autosave \/ SinkWrites \/ AutosaveReturns \/ SinkThrows

ReliableNext == Edits \/ Saves \/ Restart

FailingNext ==
    /\ saving = "no" /\ UNCHANGED saving
    /\ (\E mesh \in Mesh : PushThrows(mesh)) \/ UndoThrows \/ RedoThrows

Next == ReliableNext \/ FailingNext

\* The journal when no allocation fails, and when some may.
ReliableSpec == Init /\ [][ReliableNext]_vars
Spec == Init /\ [][Next]_vars

-----------------------------------------------------------------------------
(* Properties *)

TypeOK ==
    /\ editMesh \in Snapshot /\ saved \in Snapshot /\ dirty \in BOOLEAN
    /\ saving \in Phase
    /\ undo \in Seq(Command) /\ redo \in Seq(Command)
    /\ budget \in Budgets
    /\ used \in Int /\ evicted \in 0 .. MaxCommands
    /\ failures \in 0 .. MaxFailures

\* The commands of the two stacks, end to end, are one line of meshes through
\* the document: undo and redo restore exactly the mesh a command found or made,
\* through any mix of edits, undos, redos and evictions.
HistoryChains ==
    /\ \A i \in 1 .. Len(undo) - 1 : undo[i].after = undo[i + 1].before
    /\ \A i \in 1 .. Len(redo) - 1 : redo[i].before = redo[i + 1].after
    /\ undo # <<>> => undo[Len(undo)].after = editMesh
    /\ redo # <<>> => redo[Len(redo)].before = editMesh

\* usedBytes() is the cost of the undoable commands, neither more nor less.
UsedExact == used = Cost(undo)

\* At every return the journal is within its budget, or holds one command.
BudgetKept == used <= budget \/ Len(undo) <= 1

\* "once the undo stack exceeds the budget the oldest commands are evicted"
\* (undo.hpp), and not before: what is kept, with the newest command that was
\* evicted, would not fit.
DropsOnlyOverBudget ==
    [][LET k == evicted' - evicted
       IN  k > 0 => Bytes(undo[k]) + Cost(undo') > budget']_vars

\* A document that is not dirty is what the sink wrote last: a crash then loses
\* nothing, wherever it comes in an autosave, and after a save that failed "the
\* unsaved indicator SHALL remain" (openspec/specs/application-shell/spec.md:63).
CleanMeansSaved == ~dirty => editMesh = saved

\* The unsigned m_used never wraps: it covers the commands it will be reduced
\* by, also when operations threw.
UsedCoversHistory == used >= Cost(undo)

\* As long as no operation threw, m_used is what the journal holds and keeps to
\* the budget, through any mix of pushes, undos, redos, evictions and new budgets;
\* and it never falls short of what the journal holds, whatever threw.
JournalAccounts ==
    TypeOK /\ UsedCoversHistory /\ (failures = 0 => UsedExact /\ BudgetKept)

\* The refinement: the journal walks the line its commands' meshes form.
Past == [i \in 1 .. Len(undo) |-> undo[i].before]
Future == [i \in 1 .. Len(redo) |-> redo[Len(redo) + 1 - i].after]
Line == INSTANCE Timeline WITH
            State <- Snapshot, past <- Past, present <- editMesh, future <- Future
ImplementsTimeline == Line!Spec
=============================================================================
