------------------------------ MODULE OpQueries ------------------------------
(***************************************************************************)
(* The queries on the tree of an object's operations, and the search that  *)
(* drives them: a query is asked at each node whether to descend, to skip  *)
(* it or to finish, and at each operation whether to go on or to finish.   *)
(*                                                                         *)
(* A query is a record: its kind, its arguments and results, and the       *)
(* answer it gave last.  An optional value is a set of at most one.        *)
(* Positions count from 0.                                                 *)
(***************************************************************************)
EXTENDS OpNode

Finish(q)  == [q EXCEPT !.answer = "finish"]
Descend(q) == [q EXCEPT !.answer = "descend"]
Next1(q)   == [q EXCEPT !.answer = "next", !.pos = @ + 1]
Skip(q, child) == [q EXCEPT !.answer = "next", !.pos = @ + child.length]

\* Where a new operation goes, and which ones it succeeds.
SeekOp(op, isMap) == [kind |-> IF isMap THEN "seek_key" ELSE "seek_element", op |-> op, pos |-> 0,
                      succ |-> {}, found |-> FALSE, answer |-> "next"]
\* The visible operations of a key.
QueryProp(key) == [kind |-> "prop", key |-> key, pos |-> 0, ops |-> <<>>, ops_pos |-> {}, answer |-> "next"]
\* Those of the element that is number target of those that are visible.
Nth(target) == [kind |-> "nth", target |-> target, seen |-> 0, last_seen |-> {}, pos |-> 0,
                ops |-> <<>>, ops_pos |-> {}, answer |-> "next"]
\* Where to insert an element so that it becomes number target, and after which one.
InsertNth(target) == [kind |-> "insert_nth", target |-> target, seen |-> 0, last_seen |-> {}, pos |-> 0,
                      valid             |-> IF target = 0 THEN {0} ELSE {},
                      last_valid_insert |-> IF target = 0 THEN {HEAD} ELSE {}, answer |-> "next"]
-----------------------------------------------------------------------------
(* Map keys *)

\* Nothing below the node is of the key, or nothing of it is visible.
NothingOfKey(child, key) ==
    \/ LastOp(child).key < key
    \/ LastOp(child).key = key /\ ~HasVisible(child, key)

KeyNode(q, child, key) == IF NothingOfKey(child, key) THEN Skip(q, child) ELSE Descend(q)

Overwriting(q, e) == IF Overwrites(q.op, e) THEN [q EXCEPT !.succ = @ \cup {q.pos}] ELSE q

SeekKeyElement(q, e) ==
    IF e.key > q.op.key THEN Finish(q)
    ELSE IF e.key < q.op.key THEN Next1(q)
    ELSE IF LamportLess(q.op.id, e.id) THEN Finish(Overwriting(q, e))
    ELSE Next1(Overwriting(q, e))

PropElement(q, e) ==
    IF e.key > q.key THEN Finish(q)
    ELSE IF e.key = q.key /\ Visible(e)
         THEN Next1([q EXCEPT !.ops = Append(@, e), !.ops_pos = @ \cup {q.pos}])
         ELSE Next1(q)
-----------------------------------------------------------------------------
(* The place of an element *)

LesserInsert(e, op) == e.insert /\ LamportLess(e.id, op.id)

\* The first position whose insertion must come after the new one.
HeadPosition(q, child) ==
    CHOOSE p \in 0..child.length :
        /\ p = child.length \/ LesserInsert(Get(child, p), q.op)
        /\ \A i \in 0..(p - 1) : ~LesserInsert(Get(child, i), q.op)

SeekElementNode(q, child) ==
    IF q.found THEN Descend(q)
    ELSE IF q.op.key = HEAD THEN Finish([q EXCEPT !.pos = HeadPosition(q, child)])
    ELSE IF q.op.key \in child.ops THEN Descend(q)
    ELSE Skip(q, child)

\* Does the operation come before e, of those that follow the element it is about?
BadComesBefore(op, e) == IF op.insert THEN e.insert ELSE e.insert \/ LamportLess(op.id, e.id)
ComesBefore(op, e) ==
    IF op.insert THEN LesserInsert(e, op)
    ELSE e.insert \/ LamportLess(op.id, e.id)

SeekElementElement(q, e) ==
    IF q.found THEN IF ComesBefore(q.op, e) THEN Finish(Overwriting(q, e)) ELSE Next1(Overwriting(q, e))
    ELSE IF e.insert /\ e.id = q.op.key THEN Next1([Overwriting(q, e) EXCEPT !.found = TRUE])
    ELSE Next1(q)
-----------------------------------------------------------------------------
(* Elements by number *)

\* The visible elements of the node that were not counted before it.
BadNewlyVisible(q, child) == VisibleLen(child)
NewlyVisible(q, child) ==
    VisibleLen(child) - (IF \E key \in q.last_seen : HasVisible(child, key) THEN 1 ELSE 0)

\* The node is skipped and its elements are counted.  The last may go on in the next node.
CountAndSkip(q, child) ==
    LET last == ElemidOrKey(LastOp(child))
    IN  [Skip(q, child) EXCEPT
            !.seen      = @ + NewlyVisible(q, child),
            !.last_seen = IF HasVisible(child, last) THEN {last} ELSE @ \cap {last}]

NthNode(q, child) ==
    IF q.seen + NewlyVisible(q, child) > q.target THEN Descend(q) ELSE CountAndSkip(q, child)

NthElement(q, e) ==
    IF e.insert /\ q.seen > q.target THEN Finish(q)
    ELSE LET before == IF e.insert THEN {} ELSE q.last_seen
             fresh  == Visible(e) /\ before = {}
             seen   == q.seen + (IF fresh THEN 1 ELSE 0)
             taken  == seen = q.target + 1 /\ Visible(e)
         IN  Next1([q EXCEPT
                !.seen      = seen,
                !.last_seen = IF fresh THEN {ElemidOrKey(e)} ELSE before,
                !.ops       = IF taken THEN Append(@, e) ELSE @,
                !.ops_pos   = IF taken THEN @ \cup {q.pos} ELSE @])

InsertNthNode(q, child) ==
    IF q.seen + NewlyVisible(q, child) >= q.target THEN Descend(q) ELSE CountAndSkip(q, child)

InsertNthElement(q, e) ==
    LET placed == [q EXCEPT
            !.valid     = IF e.insert /\ @ = {} /\ q.seen >= q.target THEN {q.pos} ELSE @,
            !.last_seen = IF e.insert THEN {} ELSE @]
        fresh  == placed.last_seen = {} /\ Visible(e)
    IN  IF ~fresh THEN Next1(placed)
        ELSE IF placed.seen >= q.target THEN Finish(placed)
        ELSE Next1([placed EXCEPT !.seen              = @ + 1,
                                  !.last_seen         = {ElemidOrKey(e)},
                                  !.last_valid_insert = {ElemidOrKey(e)}])

\* Where an InsertNth inserts.
InsertPosition(q) == IF q.valid = {} THEN q.pos ELSE CHOOSE p \in q.valid : TRUE
-----------------------------------------------------------------------------
(* Search *)

QueryNode(q, child) ==
    CASE q.kind = "seek_key"     -> KeyNode(q, child, q.op.key)
      [] q.kind = "prop"         -> KeyNode(q, child, q.key)
      [] q.kind = "seek_element" -> SeekElementNode(q, child)
      [] q.kind = "nth"          -> NthNode(q, child)
      [] q.kind = "insert_nth"   -> InsertNthNode(q, child)

QueryElement(q, e) ==
    CASE q.kind = "seek_key"     -> SeekKeyElement(q, e)
      [] q.kind = "prop"         -> PropElement(q, e)
      [] q.kind = "seek_element" -> SeekElementElement(q, e)
      [] q.kind = "nth"          -> NthElement(q, e)
      [] q.kind = "insert_nth"   -> InsertNthElement(q, e)

RECURSIVE SearchElements(_, _)
SearchElements(q, elements) ==
    IF elements = <<>> \/ q.answer = "finish" THEN q
    ELSE SearchElements(QueryElement(q, Head(elements)), Tail(elements))

RECURSIVE SearchNode(_, _), SearchFrom(_, _, _)
Enter(q, node) == IF q.answer = "descend" THEN SearchNode(q, node) ELSE q

\* Child i, the element after it, the next child, and so on until the query finishes.
SearchFrom(q, node, i) ==
    LET child == node.children[i]
        after == SubSeq(node.elements, i, IF i \in DOMAIN node.elements THEN i ELSE 0)
    IN  IF q.answer = "finish" \/ i \notin DOMAIN node.children THEN q
        ELSE SearchFrom(SearchElements(Enter(QueryNode(q, child), child), after), node, i + 1)

SearchNode(query, node) ==
    IF IsLeaf(node) THEN SearchElements(query, node.elements) ELSE SearchFrom(query, node, 1)

Search(query, root) == IF root = NoRoot THEN query ELSE Enter(QueryNode(query, root), root)

\* Len: the elements that are visible.
LenQuery(root) == IF root = NoRoot THEN 0 ELSE VisibleLen(root)

\* QueryKeys: the keys of visible operations, each once if those of a key stand together.
QueryKeys(root) ==
    LET Take(found, op) ==
            IF Visible(op) /\ (found = <<>> \/ Last(found) # ElemidOrKey(op))
            THEN Append(found, ElemidOrKey(op)) ELSE found
        TakeAt(found, i) == Take(found, Get(root, i - 1))
    IN  FoldLeft(TakeAt, <<>>, [i \in 1..root.length |-> i])
=============================================================================
