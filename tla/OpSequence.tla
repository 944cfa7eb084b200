------------------------------ MODULE OpSequence ------------------------------
(***************************************************************************)
(* What the tree of an object's operations promises: a sequence, into      *)
(* which an operation can be inserted at any position, and in which the    *)
(* operation at a position can be changed.                                 *)
(***************************************************************************)
EXTENDS Integers, Sequences, SequencesExt

VARIABLES
    ops,  \* the operations, in order
    call  \* the last call: its position, the operation it leaves there, what it does

Init == ops = <<>> /\ call = [tag |-> "none"]

\* The operations from the position on move by one.
Insert ==
    /\ call'.tag = "insert"
    /\ call'.index \in 0..Len(ops)
    /\ ops' = InsertAt(ops, call'.index + 1, call'.op)

Update ==
    /\ call'.tag = "update"
    /\ ops' = IF call'.index < Len(ops) THEN [ops EXCEPT ![call'.index + 1] = call'.op] ELSE ops

Next == Insert \/ Update

Spec == Init /\ [][Next]_<<ops, call>>
=============================================================================
