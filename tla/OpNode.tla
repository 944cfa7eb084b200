-------------------------------- MODULE OpNode --------------------------------
(***************************************************************************)
(* A node of the tree that holds an object's operations in order: a B-tree *)
(* by position, whose nodes keep their length and an index, the number of  *)
(* visible operations of each key and the ids in the node and below.       *)
(*                                                                         *)
(* Positions count from 0, as in the code.  B is 16 in the code.           *)
(*                                                                         *)
(* Operators named Bad... are mistakes, as in ChangeHistory.               *)
(***************************************************************************)
EXTENDS Op, Sequences, Bags, BagsExt, SequencesExt

CONSTANT B

ASSUME BAssumption == B \in Nat /\ B >= 2

EmptyNode == [elements |-> <<>>, children |-> <<>>, length |-> 0,
              visible |-> EmptyBag, ops |-> {}]

IsLeaf(node) == node.children = <<>>
IsFull(node) == Len(node.elements) >= 2 * B - 1
HasVisible(node, key) == BagIn(key, node.visible)
VisibleLen(node) == Cardinality(BagToSet(node.visible))
-----------------------------------------------------------------------------
(* The index *)

IndexInsert(node, op) ==
    [node EXCEPT !.ops     = @ \cup {op.id},
                 !.visible = IF Visible(op) THEN BagAdd(@, ElemidOrKey(op)) ELSE @]

\* Visibility may have changed with the operation.
IndexReplace(node, old, new) ==
    [node EXCEPT !.visible = IF Visible(old) = Visible(new) THEN @
                             ELSE IF Visible(new) THEN BagAdd(@, ElemidOrKey(new))
                             ELSE BagRemove(@, ElemidOrKey(new))]

\* The index, built anew from the elements alone.
BadReindex(node) == FoldLeft(IndexInsert, [node EXCEPT !.visible = EmptyBag, !.ops = {}], node.elements)

Reindex(node) ==
    LET below == [node EXCEPT
            !.visible = FoldLeft(LAMBDA bag, child : bag (+) child.visible, EmptyBag, node.children),
            !.ops     = UNION {child.ops : child \in ToSet(node.children)}]
    IN  FoldLeft(IndexInsert, below, node.elements)
-----------------------------------------------------------------------------
(* Positions *)

SumLengths(children) == FoldLeft(LAMBDA n, child : n + child.length, 0, children)

\* The position of the first element of child i, for i = 1, 2, ...
CumulativeIndex(node, i) == SumLengths(SubSeq(node.children, 1, i - 1)) + i - 1

\* The child with position index, or whose next element has it, and the position there.
FindChildIndex(node, index) ==
    CHOOSE at \in {[child |-> i, sub |-> index - CumulativeIndex(node, i)] : i \in DOMAIN node.children} :
        at.sub \in 0..node.children[at.child].length

\* Is the place the element after the child?
AfterChild(node, at) == at.sub = node.children[at.child].length

RECURSIVE LastOp(_)
LastOp(node) == IF IsLeaf(node) THEN Last(node.elements) ELSE LastOp(Last(node.children))

RECURSIVE Get(_, _)
GetBelow(node, at) ==
    IF AfterChild(node, at) THEN node.elements[at.child] ELSE Get(node.children[at.child], at.sub)
Get(node, index) ==
    IF IsLeaf(node) THEN node.elements[index + 1] ELSE GetBelow(node, FindChildIndex(node, index))
-----------------------------------------------------------------------------
(* Insertion *)

\* What a full node is split into: what comes before its median, and after it.
Part(full, first, last) ==
    [elements |-> SubSeq(full.elements, first, last),
     children |-> IF IsLeaf(full) THEN <<>> ELSE SubSeq(full.children, first, last + 1)]

Lengthened(node, part) ==
    [node EXCEPT !.elements = part.elements, !.children = part.children,
                 !.length   = Len(part.elements) + SumLengths(part.children)]

\* The new sibling comes before the child.
BadSplitChild(node, i) ==
    LET full  == node.children[i]
        left  == Reindex(Lengthened(full, Part(full, 1, B - 1)))
        right == Reindex(Lengthened(EmptyNode, Part(full, B + 1, 2 * B - 1)))
    IN  [node EXCEPT !.children = InsertAt([@ EXCEPT ![i] = left], i, right),
                     !.elements = InsertAt(@, i, full.elements[B])]

\* The median of the full child i moves up, what follows it goes to a new sibling.
SplitChild(node, i) ==
    LET full  == node.children[i]
        left  == Reindex(Lengthened(full, Part(full, 1, B - 1)))
        right == Reindex(Lengthened(EmptyNode, Part(full, B + 1, 2 * B - 1)))
    IN  [node EXCEPT !.children = InsertAt([@ EXCEPT ![i] = left], i + 1, right),
                     !.elements = InsertAt(@, i, full.elements[B])]

\* The child that is inserted into must not be full.
Roomy(node, i) == IF IsFull(node.children[i]) THEN SplitChild(node, i) ELSE node

Counted(node, op) == [IndexInsert(node, op) EXCEPT !.length = @ + 1]

RECURSIVE InsertIntoNonFullNode(_, _, _)
InsertBelow(node, at, op) ==
    [node EXCEPT !.children[at.child] = InsertIntoNonFullNode(@, at.sub, op)]
InsertInChild(node, index, op) == InsertBelow(node, FindChildIndex(node, index), op)
InsertIntoNonFullNode(node, index, op) ==
    IF IsLeaf(node) THEN [Counted(node, op) EXCEPT !.elements = InsertAt(@, index + 1, op)]
    ELSE InsertInChild(Roomy(Counted(node, op), FindChildIndex(node, index).child), index, op)

RECURSIVE Update(_, _, _, _)
\* The operation at index, old, becomes new.
UpdateBelow(node, at, old, new) ==
    IF AfterChild(node, at) THEN [node EXCEPT !.elements[at.child] = new]
    ELSE [node EXCEPT !.children[at.child] = Update(@, at.sub, old, new)]
Update(node, index, old, new) ==
    IF IsLeaf(node) THEN [IndexReplace(node, old, new) EXCEPT !.elements[index + 1] = new]
    ELSE UpdateBelow(IndexReplace(node, old, new), FindChildIndex(node, index), old, new)
-----------------------------------------------------------------------------
(* The tree: its root may be missing *)

NoRoot == EmptyNode

\* A full root becomes the only child of a new one, and is split.
Grown(root) == SplitChild([root EXCEPT !.elements = <<>>, !.children = <<root>>], 1)

TreeInsert(root, index, op) ==
    IF ~IsFull(root) THEN InsertIntoNonFullNode(root, index, op)
    ELSE InsertInChild(Counted(Grown(root), op), index, op)

\* f is applied to the operation at index; past the end nothing happens.
TreeUpdate(root, index, f(_)) ==
    IF root.length > index THEN Update(root, index, Get(root, index), f(Get(root, index))) ELSE root
-----------------------------------------------------------------------------
(* Iteration: an iterator is a place in a node, and those in the nodes above it *)

TreeIter(root) == [node |-> root, index |-> 0, ancestors |-> <<>>]

\* The leftmost leaf of the child before which the iterator stands.
RECURSIVE DescendToLeaf(_)
DescendToLeaf(iter) ==
    IF IsLeaf(iter.node) THEN iter
    ELSE DescendToLeaf([node |-> iter.node.children[iter.index + 1], index |-> 0,
                        ancestors |-> Append(iter.ancestors, [node |-> iter.node, index |-> iter.index])])

\* Out of the nodes that are exhausted; the mistake leaves one of them only.
BadAscendFrom(iter) ==
    IF iter.index < Len(iter.node.elements) \/ iter.ancestors = <<>> THEN iter
    ELSE [node |-> Last(iter.ancestors).node, index |-> Last(iter.ancestors).index,
          ancestors |-> Front(iter.ancestors)]

RECURSIVE AscendFrom(_)
AscendFrom(iter) ==
    IF iter.index < Len(iter.node.elements) \/ iter.ancestors = <<>> THEN iter
    ELSE AscendFrom([node |-> Last(iter.ancestors).node, index |-> Last(iter.ancestors).index,
                     ancestors |-> Front(iter.ancestors)])

\* The place of the next operation, if any is left.
Positioned(iter) == AscendFrom(DescendToLeaf(iter))

RECURSIVE IterateFrom(_)
IterateAt(at) ==
    IF at.index >= Len(at.node.elements) THEN <<>>
    ELSE <<at.node.elements[at.index + 1]>> \o IterateFrom([at EXCEPT !.index = @ + 1])
IterateFrom(iter) == IterateAt(Positioned(iter))

\* OpTreeIter: all operations, in order.
Iterate(root) == IF root = NoRoot THEN <<>> ELSE IterateFrom(TreeIter(root))
-----------------------------------------------------------------------------
(* What a node has to be *)

RECURSIVE Flatten(_)
\* The operations in and below the node.
Flatten(node) ==
    IF IsLeaf(node) THEN node.elements
    ELSE FlattenSeq([i \in DOMAIN node.children |->
            Flatten(node.children[i])
                \o IF i \in DOMAIN node.elements THEN <<node.elements[i]>> ELSE <<>>])

RECURSIVE Depths(_)
\* The distances of the leaves from the node.
Depths(node) ==
    IF IsLeaf(node) THEN {0}
    ELSE {d + 1 : d \in UNION {Depths(node.children[i]) : i \in DOMAIN node.children}}

RECURSIVE IsSound(_, _)
\* Lengths and indexes are those of the operations below; the tree is balanced and its
\* nodes, apart from the root, are at least half full.
IsSound(node, isRoot) ==
    /\ node.length = Len(Flatten(node))
    /\ node.ops = {op.id : op \in ToSet(Flatten(node))}
    /\ node.visible = FoldLeft(LAMBDA bag, op : IF Visible(op) THEN BagAdd(bag, ElemidOrKey(op)) ELSE bag,
                               EmptyBag, Flatten(node))
    /\ Len(node.elements) \in (IF isRoot THEN 1 ELSE B - 1)..(2 * B - 1)
    /\ IsLeaf(node) \/ Len(node.children) = Len(node.elements) + 1
    /\ Cardinality(Depths(node)) = 1
    /\ \A i \in DOMAIN node.children : IsSound(node.children[i], FALSE)
=============================================================================
