-------------------------------- MODULE OpTree --------------------------------
(***************************************************************************)
(* The tree of one object's operations under the two calls OpSet makes:    *)
(* insertion at a position, and the mark an operation gets when another    *)
(* overwrites or increments it.  Operations are numbered as they come.     *)
(***************************************************************************)
EXTENDS OpNode

CONSTANTS
    Keys,         \* the number of keys, used in turn
    MaxInserts,   \* bound: operations inserted
    MaxUpdates,   \* bound: operations marked
    Position(_)   \* the positions inserted at in a tree of a length

ASSUME BoundsAssumption == Keys \in Nat \ {0} /\ MaxInserts \in Nat /\ MaxUpdates \in Nat

VARIABLES
    root_node,  \* the root, or NoRoot
    made,       \* the number of operations made so far, those that only mark included
    call        \* the last call

vars == <<root_node, made, call>>

\* Counters and plain values in turn, so that marks hide some and not others.
Operation(n) ==
    NewOp(<<n, 1>>, [tag |-> IF n % 2 = 0 THEN "put" ELSE "counter", value |-> n], n % Keys, {}, FALSE)
Increment(n) == NewOp(<<n, 1>>, [tag |-> "increment", value |-> 1], 0, {}, FALSE)

Init == root_node = NoRoot /\ made = 0 /\ call = [tag |-> "none"]

Insert(index) ==
    /\ root_node.length < MaxInserts
    /\ made'      = made + 1
    /\ root_node' = TreeInsert(root_node, index, Operation(made'))
    /\ call'      = [tag |-> "insert", index |-> index, op |-> Operation(made')]

\* A position past the end is ignored.
Mark(index, mark) ==
    /\ made - root_node.length < MaxUpdates
    /\ made'      = made + 1
    /\ root_node' = TreeUpdate(root_node, index, LAMBDA old : AddSucc(old, mark))
    /\ call'      = [tag |-> "update", index |-> index,
                     op  |-> IF index < root_node.length THEN AddSucc(Get(root_node, index), mark) ELSE mark]

Next ==
    \/ \E index \in Position(root_node.length) : Insert(index)
    \/ \E index \in 0..root_node.length, mark \in {Operation(made + 1), Increment(made + 1)} :
          Mark(index, mark)

Spec == Init /\ [][Next]_vars
-----------------------------------------------------------------------------
(* Properties *)

\* In every node, the length and the index are those of the operations in it and below, and
\* the tree is balanced: splitting a node, at any level, moves no operation into the wrong
\* index, and a mark changes the indexes on the whole path to its operation.
Sound == root_node = NoRoot \/ IsSound(root_node, TRUE)

\* Access by position and iteration agree: get gives for each position what OpTreeIter gives
\* there, and last gives what it ends with.
AccessAgrees ==
    root_node = NoRoot \/
        /\ Iterate(root_node) = [i \in 1..root_node.length |-> Get(root_node, i - 1)]
        /\ LastOp(root_node) = Get(root_node, root_node.length - 1)

\* An operation comes to stand at the position it was inserted at, those after it move by
\* one, and no other call moves any: the tree is a sequence.
Sequence == INSTANCE OpSequence WITH ops <- Flatten(root_node)
ImplementsSequence == Sequence!Spec
=============================================================================
