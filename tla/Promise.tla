-------------------------------- MODULE Promise --------------------------------
(***************************************************************************)
(* What an operation that many tasks await promises them: it settles once, *)
(* and each task is answered once, with what it settled to.                *)
(***************************************************************************)
EXTENDS Sequences

CONSTANTS Tasks, Results, Unsettled

VARIABLES settled, answers

Init == settled = Unsettled /\ answers = [t \in Tasks |-> <<>>]

Settle == /\ settled = Unsettled
          /\ settled' \in Results
          /\ UNCHANGED answers

Answer(t) == /\ settled # Unsettled /\ answers[t] = <<>>
             /\ answers' = [answers EXCEPT ![t] = <<settled>>]
             /\ UNCHANGED settled

Next == Settle \/ \E t \in Tasks : Answer(t)

Spec == Init /\ [][Next]_<<settled, answers>>
=============================================================================
