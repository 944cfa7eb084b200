---------------------------------- MODULE Op ----------------------------------
(***************************************************************************)
(* One operation of an object, and the order of operation ids.             *)
(*                                                                         *)
(* An id is a pair of a counter and an actor; actors are numbers, in the   *)
(* order of the bytes of their ids.  The key of a map's operation is a     *)
(* number, in the order of the properties' names; that of a list's is the  *)
(* id of the element it is about, or of the one it inserts after.  Vectors *)
(* of ids that are sorted and free of repetitions are sets.                *)
(***************************************************************************)
EXTENDS Naturals, FiniteSets

ROOT == <<0, 0>>
HEAD == <<0, 0>>

\* lamport_cmp(left, right) < 0
LamportLess(left, right) ==
    \/ left[1] < right[1]
    \/ left[1] = right[1] /\ left[2] < right[2]

\* The members of S in an order that is total on them.
Sorted(S, Less(_, _)) ==
    LET rank == [x \in S |-> Cardinality({y \in S : Less(y, x)})]
    IN  [i \in 1..Cardinality(S) |-> CHOOSE x \in S : rank[x] = i - 1]

\* A new operation.  The value of a counter or an increment is a number, start what it was at
\* first.
NewOp(id, action, key, pred, insert) ==
    [id |-> id, action |-> action.tag, start |-> action.value, value |-> action.value, increments |-> 0,
     key |-> key, pred |-> pred, succ |-> {}, insert |-> insert]

IsDelete(op)  == op.action = "delete"
IsInc(op)     == op.action = "increment"
IsCounter(op) == op.action = "counter"
IsPut(op)     == op.action \in {"put", "counter"}

\* Does the action put what op put?  Then it records nothing.
IsNoop(op, action) == IsPut(op) /\ op.action = action.tag /\ op.value = action.value

Overwrites(op, other) == other.id \in op.pred

\* The element the operation is about, or the property.
ElemidOrKey(op) == IF op.insert THEN op.id ELSE op.key

\* A counter stays visible when nothing but increments came after it.
Visible(op) ==
    /\ ~IsInc(op)
    /\ Cardinality(op.succ) <= IF IsCounter(op) THEN op.increments ELSE 0

\* old is overwritten, or incremented, by op.
AddSucc(old, op) ==
    LET counted == IsCounter(old) /\ IsInc(op)
    IN  [old EXCEPT !.succ       = @ \cup {op.id},
                    !.value      = IF counted THEN @ + op.value ELSE @,
                    !.increments = IF counted THEN @ + 1 ELSE @]
=============================================================================
