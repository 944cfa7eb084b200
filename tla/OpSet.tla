-------------------------------- MODULE OpSet --------------------------------
(***************************************************************************)
(* One object, a map or a list, in the documents of several actors: local  *)
(* calls find their place and their predecessors with queries and add an   *)
(* operation to the open transaction, and the operations of received       *)
(* changes find theirs with SeekOp.  Documents exchange changes in any     *)
(* order that respects their dependencies (ChangeHistory has the queue     *)
(* that sees to it).                                                       *)
(*                                                                         *)
(* Each document writes under an actor id of its own.  The object is there *)
(* from the start, with what Base put into it.                             *)
(***************************************************************************)
EXTENDS OpQueries, TLC

CONSTANTS
    Actor,            \* numbers, from 1 on
    Kinds,            \* what the object may be: subset of {"map", "list"}
    Keys,             \* the keys of a map
    Indexes,          \* the indexes calls on a list have
    Actions,          \* what calls do, apart from inserting: [tag, value]
    Base(_),          \* the calls by which actor 1 made the object of a kind
    MaxOps,           \* bound: operations made after that
    MaxPending,       \* bound: operations of one transaction
    ReceiveWhileOpen  \* may a document receive changes while its transaction is open?

VARIABLES
    kind,      \* the kind of the object
    root,      \* actor -> the tree of the object's operations in its document
    log,       \* actor -> the changes it committed, with what they depend on
    clock,     \* actor -> actor -> number of the latter's changes in the former's document
    max_op,    \* actor -> highest counter in the history of its document
    tx,        \* actor -> its open transaction, or NoTx
    disturbed  \* actor -> keys of which an operation came late (history variable)

vars == <<kind, root, log, clock, max_op, tx, disturbed>>

NoTx == [start_op |-> 0]
IsOpen(a) == tx[a] # NoTx
-----------------------------------------------------------------------------
(* The operation set *)

\* add_succ: the operations at these positions are succeeded by op.
Mark(tree, positions, op) ==
    FoldSet(LAMBDA p, t : TreeUpdate(t, p, LAMBDA old : AddSucc(old, op)), tree, positions)

\* A delete leaves nothing but its mark.
AddMarked(tree, pos, op) == IF IsDelete(op) THEN tree ELSE TreeInsert(tree, pos, op)
Add(tree, positions, pos, op) == AddMarked(Mark(tree, positions, op), pos, op)

\* A received operation goes where SeekOp finds its place.
AddAt(tree, q, op) == Add(tree, q.succ, q.pos, op)
InsertOp(tree, op) == AddAt(tree, Search(SeekOp(op, kind = "map"), tree), op)

\* Putting what is there, deleting what is not, incrementing what is no counter.
Refused(ops, action) ==
    \/ action.tag = "delete" /\ ops = <<>>
    \/ Len(ops) = 1 /\ IsNoop(ops[1], action)
    \/ action.tag = "increment" /\ \A i \in DOMAIN ops : ~IsCounter(ops[i])

\* What a call changes: at most one operation, and the tree it leaves.
Nothing == {}
Changed(tree, q, key, id, action) ==
    LET op == NewOp(id, action, key, {e.id : e \in ToSet(q.ops)}, FALSE)
    IN  IF Refused(q.ops, action) THEN Nothing
        ELSE {[op |-> op, tree |-> Add(tree, q.ops_pos, q.pos, op)]}

LocalMapOp(tree, id, key, action) ==
    Changed(tree, Search(QueryProp(key), tree), key, id, action)

ElementChanged(tree, q, id, action) ==
    IF q.ops = <<>> THEN Nothing ELSE Changed(tree, q, ElemidOrKey(q.ops[1]), id, action)
LocalListOp(tree, id, index, action) == ElementChanged(tree, Search(Nth(index), tree), id, action)

Inserted(tree, q, op) == [op |-> op, tree |-> TreeInsert(tree, InsertPosition(q), op)]
InsertedBehind(tree, q, id, action) ==
    {Inserted(tree, q, NewOp(id, action, key, {}, TRUE)) : key \in q.last_valid_insert}
DoInsert(tree, id, index, action) == InsertedBehind(tree, Search(InsertNth(index), tree), id, action)

Effect(tree, id, call) ==
    CASE call.tag = "map"    -> LocalMapOp(tree, id, call.at, call.action)
      [] call.tag = "list"   -> LocalListOp(tree, id, call.at, call.action)
      [] call.tag = "insert" -> DoInsert(tree, id, call.at, call.action)
-----------------------------------------------------------------------------
(* Documents *)

\* The object as actor 1 made it: [tree, ops].
Built(calls) ==
    LET With(made, e) == [tree |-> e.tree, ops |-> Append(made.ops, e.op)]
    IN  FoldLeft(LAMBDA made, call :
                    With(made, CHOOSE e \in Effect(made.tree, <<Len(made.ops) + 1, 1>>, call) : TRUE),
                 [tree |-> NoRoot, ops |-> <<>>], calls)

Init ==
    /\ kind \in Kinds
    /\ \E made \in {Built(Base(kind))} :
          /\ root = [a \in Actor |-> made.tree]
          /\ log  = [a \in Actor |-> IF a = 1 THEN <<[ops |-> made.ops, deps |-> [b \in Actor |-> 0]]>> ELSE <<>>]
    /\ clock     = [a \in Actor |-> [b \in Actor |-> IF b = 1 THEN 1 ELSE 0]]
    /\ max_op    = [a \in Actor |-> Len(Base(kind))]
    /\ tx        = [a \in Actor |-> NoTx]
    /\ disturbed = [a \in Actor |-> {}]

\* The operations made so far.
OpsOf(changes) == FoldLeft(LAMBDA n, change : n + Len(change.ops), 0, changes)
Made == FoldSet(LAMBDA a, n : n + OpsOf(log[a]) + (IF IsOpen(a) THEN Len(tx[a].ops) ELSE 0), 0, Actor)
            - Len(Base(kind))

Calls ==
    IF kind = "map" THEN [tag : {"map"}, at : Keys, action : Actions]
    ELSE [tag : {"list"}, at : Indexes, action : Actions]
         \cup [tag : {"insert"}, at : Indexes, action : {[tag |-> "put", value |-> 0]}]

\* The first call opens the transaction: start_op and the dependencies are those of that time.
Opened(a) == IF IsOpen(a) THEN tx[a] ELSE [start_op |-> max_op[a] + 1, deps |-> clock[a], ops |-> <<>>]
NextId(a) == <<Opened(a).start_op + Len(Opened(a).ops), a>>

\* put, insert, increment, delete_: what is refused changes nothing.
Edit(a) ==
    /\ Made < MaxOps
    /\ IsOpen(a) => Len(tx[a].ops) < MaxPending
    /\ \E call \in Calls : \E e \in Effect(root[a], NextId(a), call) :
          /\ root' = [root EXCEPT ![a] = e.tree]
          /\ tx'   = [tx EXCEPT ![a] = [Opened(a) EXCEPT !.ops = Append(@, e.op)]]
    /\ UNCHANGED <<kind, log, clock, max_op, disturbed>>

Larger(m, n) == IF m < n THEN n ELSE m

Commit(a) ==
    /\ IsOpen(a)
    /\ log'    = [log EXCEPT ![a] = Append(@, [ops |-> tx[a].ops, deps |-> tx[a].deps])]
    /\ clock'  = [clock EXCEPT ![a][a] = @ + 1]
    /\ max_op' = [max_op EXCEPT ![a] = Larger(@, tx[a].start_op + Len(tx[a].ops) - 1)]
    /\ tx'     = [tx EXCEPT ![a] = NoTx]
    /\ UNCHANGED <<kind, root, disturbed>>

\* The operation may miss an invisible one of its key (see SeekSkips in the README).
ComesLate(tree, op) ==
    kind = "map" /\ \E e \in ToSet(Flatten(tree)) :
        e.key = op.key /\ ~Visible(e) /\ (LamportLess(op.id, e.id) \/ Overwrites(op, e))

Received(doc, op) == [tree |-> InsertOp(doc.tree, op),
                      late |-> IF ComesLate(doc.tree, op) THEN doc.late \cup {op.key} ELSE doc.late]

\* apply_change: the next change of b.
Receive(a, b) ==
    LET n      == clock[a][b] + 1
        change == log[b][n]
    IN  /\ ReceiveWhileOpen \/ ~IsOpen(a)
        /\ n \in DOMAIN log[b]
        /\ \A c \in Actor : change.deps[c] <= clock[a][c]
        /\ \E doc \in {FoldLeft(Received, [tree |-> root[a], late |-> disturbed[a]], change.ops)} :
              /\ root'      = [root EXCEPT ![a] = doc.tree]
              /\ disturbed' = [disturbed EXCEPT ![a] = doc.late]
        /\ clock'     = [clock EXCEPT ![a][b] = n]
        /\ max_op'    = [max_op EXCEPT ![a] = Larger(@, Last(change.ops).id[1])]
        /\ UNCHANGED <<kind, log, tx>>

Next ==
    \/ \E a \in Actor : Edit(a) \/ Commit(a)
    \/ \E a \in Actor, b \in Actor : a # b /\ Receive(a, b)

Spec == Init /\ [][Next]_vars
-----------------------------------------------------------------------------
(* The object, as the operations a document knows determine it *)

Known(a) ==
    UNION {UNION {ToSet(log[b][n].ops) : n \in 1..clock[a][b]} : b \in Actor}
        \cup (IF IsOpen(a) THEN ToSet(tx[a].ops) ELSE {})

\* An operation with the marks of those that name it as a predecessor.
Marked(op, ops) ==
    FoldSet(LAMBDA later, o : IF Overwrites(later, o) THEN AddSucc(o, later) ELSE o, op, ops)

Stored(known) == {Marked(op, known) : op \in {o \in known : ~IsDelete(o)}}

\* A map's operations stand by key, those of a key by id.
MapOrder(ops) ==
    Sorted(ops, LAMBDA o, p : IF o.key = p.key THEN LamportLess(o.id, p.id) ELSE o.key < p.key)

RECURSIVE ListOrder(_, _)
\* After an element come what else was put into it, by id, and then the elements inserted
\* after it, the latest first.
ListOrder(ops, element) ==
    LET after == Sorted({op \in ops : op.insert /\ op.key = element}, LAMBDA o, p : LamportLess(p.id, o.id))
        About(op) == Sorted({o \in ops : ~o.insert /\ o.key = op.id}, LAMBDA o, p : LamportLess(o.id, p.id))
    IN  FlattenSeq([i \in DOMAIN after |-> <<after[i]>> \o About(after[i]) \o ListOrder(ops, after[i].id)])

Reference(a) == IF kind = "map" THEN MapOrder(Stored(Known(a))) ELSE ListOrder(Stored(Known(a)), HEAD)
-----------------------------------------------------------------------------
(* Properties *)

Undisturbed(a, ops) == SelectSeq(ops, LAMBDA op : kind = "list" \/ op.key \notin disturbed[a])

\* The operations of a document, their marks, their counters and their order, depend on
\* which changes it holds and not on the order in which they came or on who made them:
\* what local calls and SeekOp do amounts to the same.  For the keys of a map of which no
\* operation came late.
OpsExact == \A a \in Actor : Undisturbed(a, Flatten(root[a])) = Undisturbed(a, Reference(a))

\* The keys of visible operations, in order: the keys of a map or the elements of a list.
VisibleKeys(ops) ==
    LET Shown(i, key) == Visible(ops[i]) /\ ElemidOrKey(ops[i]) = key
        IsFirst(i)    == Visible(ops[i]) /\ \A j \in 1..(i - 1) : ~Shown(j, ElemidOrKey(ops[i]))
        firsts        == SelectSeq([i \in DOMAIN ops |-> i], IsFirst)
    IN  [i \in DOMAIN firsts |-> ElemidOrKey(ops[firsts[i]])]
ValuesOf(ops, key) == SelectSeq(ops, LAMBDA op : Visible(op) /\ ElemidOrKey(op) = key)

MapQueriesExact(tree, ops) ==
    /\ QueryKeys(tree) = VisibleKeys(ops)
    /\ \A key \in Keys : Search(QueryProp(key), tree).ops = ValuesOf(ops, key)

\* An element inserted at index i comes after the visible element before it, ahead of every
\* element that follows, and becomes number i.
InsertsAt(q, ops, shown, i) ==
    LET pos == InsertPosition(q)
    IN  /\ q.last_valid_insert = {IF i = 0 THEN HEAD ELSE shown[i]}
        /\ VisibleKeys(SubSeq(ops, 1, pos)) = SubSeq(shown, 1, i)
        /\ pos < Len(ops) => ops[pos + 1].insert

ListQueriesExact(tree, ops) ==
    LET shown == VisibleKeys(ops)
    IN  /\ LenQuery(tree) = Len(shown)
        /\ \A i \in DOMAIN shown : Search(Nth(i - 1), tree).ops = ValuesOf(ops, shown[i])
        /\ Search(Nth(Len(shown)), tree).ops = <<>>
        /\ \A i \in 0..Len(shown) : InsertsAt(Search(InsertNth(i), tree), ops, shown, i)
        /\ Search(InsertNth(Len(shown) + 1), tree).last_valid_insert = {}

\* get_all, length, keys and insert, which skip nodes by their index, find all there is to
\* see, once, also when the operations of one element are spread over nodes.
QueriesExact == \A tree \in {root[a] : a \in Actor} :
    IF kind = "map" THEN MapQueriesExact(tree, Flatten(tree)) ELSE ListQueriesExact(tree, Flatten(tree))

\* Documents with the same changes have the same operations in the same order, and the same
\* marks on them.
SameDocument(a, b) == ~IsOpen(a) /\ ~IsOpen(b) /\ clock[a] = clock[b]
Convergent == \A a \in Actor, b \in Actor : SameDocument(a, b) => Flatten(root[a]) = Flatten(root[b])

\* The operations of a key are in the order of their ids.
KeyOpsAscending == \A a \in Actor : \A i \in 1..(root[a].length - 1) :
    Get(root[a], i - 1).key = Get(root[a], i).key => LamportLess(Get(root[a], i - 1).id, Get(root[a], i).id)
=============================================================================
