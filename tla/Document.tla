------------------------------- MODULE Document -------------------------------
(***************************************************************************)
(* A saved document, and the changes made again from it.                   *)
(*                                                                         *)
(* It keeps a row for each change, without its operations, and one for     *)
(* each operation of the operation set, with its successors in place of    *)
(* its predecessors; deletes have no row and are found among the           *)
(* successors.  The changes are right if they have the hashes they had,    *)
(* for which all that is in them must be the same.                         *)
(*                                                                         *)
(* Columns makes bytes of the cells of such rows.                          *)
(***************************************************************************)
EXTENDS OpSet

StartOp(change) == change.ops[1].id[1]

\* The changes of a document, in an order in which they may have come: a transaction starts
\* above all operations it depends on.
History(a) ==
    Sorted({c \in Actor \X (1..(MaxOps + 1)) : c[2] <= clock[a][c[1]]},
           LAMBDA c, d : LamportLess(<<StartOp(log[c[1]][c[2]]), c[1]>>, <<StartOp(log[d[1]][d[2]]), d[1]>>))

\* The changes of a clock that nothing else in it depends on.
Heads(known) ==
    LET latest == {<<b, known[b]>> : b \in {c \in Actor : known[c] > 0}}
    IN  {c \in latest : \A d \in latest \ {c} : log[d[1]][d[2]].deps[c[1]] < c[2]}

PositionsIn(history, changes) == {i \in DOMAIN history : history[i] \in changes}
-----------------------------------------------------------------------------
(* Saving *)

\* ChangeEncoder: dependencies are numbers of rows above.
ChangeRows(a) ==
    LET history == History(a)
        Row(c)  == LET change == log[c[1]][c[2]]
                   IN  [actor |-> c[1], seq |-> c[2], max_op |-> StartOp(change) + Len(change.ops) - 1,
                        deps  |-> PositionsIn(history, Heads(change.deps))]
    IN  [i \in DOMAIN history |-> Row(history[i])]

\* A counter is written with the value it had at first.
BadRowValue(op) == op.value
RowValue(op)    == IF IsCounter(op) THEN op.start ELSE op.value

\* DocOpEncoder: the operations in their order in the tree, those of an open transaction too.
OpRows(a) ==
    LET Row(op) == [id |-> op.id, action |-> op.action, value |-> RowValue(op), key |-> op.key,
                    insert |-> op.insert, succ |-> op.succ]
        ops     == Iterate(root[a])
    IN  [i \in DOMAIN ops |-> Row(ops[i])]
-----------------------------------------------------------------------------
(* Loading *)

\* Predecessors, in the order of the rows.
PredOf(rows, id) == LET before == SelectSeq(rows, LAMBDA row : id \in row.succ)
                    IN  [i \in DOMAIN before |-> before[i].id]

\* A successor that has no row deletes; its key is that of the first row it succeeds.
Deletes(rows) ==
    LET named == UNION {rows[i].succ : i \in DOMAIN rows} \ {rows[i].id : i \in DOMAIN rows}
        First(id) == CHOOSE i \in DOMAIN rows : id \in rows[i].succ /\ \A j \in 1..(i - 1) : id \notin rows[j].succ
    IN  {[id |-> id, action |-> "delete", value |-> 0, key |-> ElemidOrKey(rows[First(id)]), insert |-> FALSE]
            : id \in named}

\* The operations of the rows as a change has them, with their ids.
OpsOfRows(rows) ==
    LET Plain(row) == [id |-> row.id, action |-> row.action, value |-> row.value, key |-> row.key,
                       insert |-> row.insert]
    IN  {[id |-> op.id, made |-> [action |-> op.action, value |-> op.value, key |-> op.key,
                                  insert |-> op.insert, pred |-> PredOf(rows, op.id)]]
            : op \in {Plain(rows[i]) : i \in DOMAIN rows} \cup Deletes(rows)}

\* An operation is of the first change of its actor that goes so far.
IsOfChange(op, changes, i) ==
    /\ changes[i].actor = op.id[2]
    /\ op.id[1] <= changes[i].max_op
    /\ \A j \in 1..(i - 1) : changes[j].actor = op.id[2] => changes[j].max_op < op.id[1]

\* group_doc_change_and_doc_ops, compress_doc_changes: at most one sequence of changes; none
\* if a change or the change of an operation is missing.
Rebuild(changes, rows) ==
    LET ops    == OpsOfRows(rows)
        Ops(i) == Sorted({op \in ops : IsOfChange(op, changes, i)}, LAMBDA o, p : o.id[1] < p.id[1])
        Change(i) == LET own == Ops(i)
                     IN  [actor    |-> changes[i].actor,
                          seq      |-> changes[i].seq,
                          start_op |-> changes[i].max_op - Len(own) + 1,
                          deps     |-> changes[i].deps,
                          ops      |-> [k \in DOMAIN own |-> own[k].made]]
        SeqValid   == \A i \in DOMAIN changes :
            changes[i].seq = 1 + Cardinality({j \in 1..(i - 1) : changes[j].actor = changes[i].actor})
        MaxOpValid == \A op \in ops : \E i \in DOMAIN changes : IsOfChange(op, changes, i)
    IN  IF SeqValid /\ MaxOpValid THEN {[i \in DOMAIN changes |-> Change(i)]} ELSE {}

Loaded(a) == Rebuild(ChangeRows(a), OpRows(a))
-----------------------------------------------------------------------------
(* Properties *)

\* What the hash of a change is made of.
Committed(a) ==
    LET rows   == ChangeRows(a)
        Ops(i) == log[rows[i].actor][rows[i].seq].ops
        AsMade(op) == [action |-> op.action, value |-> op.value, key |-> op.key, insert |-> op.insert,
                     pred   |-> Sorted(op.pred, LamportLess)]
    IN  [i \in DOMAIN rows |-> [actor |-> rows[i].actor, seq |-> rows[i].seq, start_op |-> Ops(i)[1].id[1],
                                deps  |-> rows[i].deps, ops |-> [k \in DOMAIN Ops(i) |-> AsMade(Ops(i)[k])]]]

\* The changes loaded from a saved document are those that were committed: each operation is
\* back in its change, at its place and with its predecessors, deletes and increments among
\* them.  Only a document that is saved while a transaction is open is refused when it is
\* loaded, and it never gives other changes.
SavedDocumentLoads == \A a \in Actor : disturbed[a] = {} =>
    LET loaded == Loaded(a)
    IN  /\ loaded \subseteq {Committed(a)}
        /\ ~IsOpen(a) => loaded # {}
=============================================================================
