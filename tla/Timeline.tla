------------------------------ MODULE Timeline ------------------------------
(***************************************************************************)
(* What undo and redo promise their user, without commands, snapshots or   *)
(* bytes: the document moves along a line of states.  An edit continues    *)
(* the line from where the document stands and drops what lay ahead; undo  *)
(* and redo move one state back or forth; a limited memory may forget      *)
(* states, always the oldest first, and never the one an edit or a redo    *)
(* has just left.  Module Journal implements this.                         *)
(***************************************************************************)
EXTENDS Sequences, Integers

CONSTANT State    \* the states a document can be in

VARIABLES
    past,      \* the states undo goes back through, oldest first
    present,   \* the document
    future,    \* the states redo goes forth through, nearest first
    saved      \* the state the last autosave wrote

vars == <<past, present, future, saved>>

Init ==
    /\ past = <<>> /\ future = <<>>
    /\ present \in State /\ saved = present

\* states without its n oldest.
Newest(states, n) == SubSeq(states, n + 1, Len(states))

Moves(line) == \E n \in 0 .. Len(line) - 1 : past' = Newest(line, n)

Edit ==
    /\ present' \in State
    /\ Moves(Append(past, present))
    /\ future' = <<>> /\ UNCHANGED saved

Undo ==
    /\ past # <<>>
    /\ past' = SubSeq(past, 1, Len(past) - 1)
    /\ present' = past[Len(past)]
    /\ future' = <<present>> \o future
    /\ UNCHANGED saved

Redo ==
    /\ future # <<>>
    /\ Moves(Append(past, present))
    /\ present' = Head(future)
    /\ future' = Tail(future)
    /\ UNCHANGED saved

\* The memory for the history was reduced: the nearest state stays reachable.
Forget == past # <<>> /\ Moves(past) /\ UNCHANGED <<present, future, saved>>

Clear == past' = <<>> /\ future' = <<>> /\ UNCHANGED <<present, saved>>

Save == saved' = present /\ UNCHANGED <<past, present, future>>

\* After a crash the document is what was saved last, and has no history.
Restart == past' = <<>> /\ future' = <<>> /\ present' = saved /\ UNCHANGED saved

Next == Edit \/ Undo \/ Redo \/ Forget \/ Clear \/ Save \/ Restart

Spec == Init /\ [][Next]_vars
=============================================================================
