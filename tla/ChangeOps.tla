------------------------------ MODULE ChangeOps ------------------------------
(***************************************************************************)
(* The operations of a change as the columns of its chunk, and back.       *)
(*                                                                         *)
(* An operation names its object, {} for the root and {id} for others, its *)
(* key, what it does and its sorted predecessors; an id is a pair of a     *)
(* counter and an actor.  Actors are numbers, in the order of their bytes. *)
(* Strings and other bytes are sequences of numbers.                       *)
(***************************************************************************)
EXTENDS Columns

\* enum Action: the code of what an operation does.
Actions == <<"make_map", "set", "make_list", "del", "make_text", "inc", "make_table">>
ActionCode(tag)  == (CHOOSE i \in DOMAIN Actions : Actions[i] = tag) - 1

\* The codes of values' types; the length of the raw bytes stands above them.
ValueTypes == <<"null", "false", "true", "uint", "int", "f64", "str", "bytes", "counter", "timestamp">>
TypeCode(type) == (CHOOSE i \in DOMAIN ValueTypes : ValueTypes[i] = type) - 1

NullValue == [type |-> "null", data |-> 0]

COL_OBJ_ACTOR == 1
COL_OBJ_CTR   == 2
COL_KEY_ACTOR == 17
COL_KEY_CTR   == 19
COL_KEY_STR   == 21
COL_INSERT    == 52
COL_ACTION    == 66
COL_VAL_LEN   == 86
COL_VAL_RAW   == 87
COL_REF_ACTOR == 97
COL_REF_CTR   == 98
COL_PRED_NUM  == 112
COL_PRED_ACTOR == 113
COL_PRED_CTR  == 115

\* What follows the number in a column's id says how it is encoded.
Kind(col) == CASE col % 16 = 3 -> "delta" [] col % 16 = 4 -> "boolean" [] col % 16 = 5 -> "string"
               [] OTHER -> "unsigned"
-----------------------------------------------------------------------------
(* std::sort.  An order is the set of pairs of which the first is less. *)

NumberOrder == {p \in Nat \X Nat : p[1] < p[2]}
OpIdOrder ==
    {p \in (Nat \X Nat) \X (Nat \X Nat) : p[1][1] < p[2][1] \/ (p[1][1] = p[2][1] /\ p[1][2] < p[2][2])}

\* How many of a sorted sequence come before x.
PlaceOf(x, sorted, order) ==
    CHOOSE n \in 0..Len(sorted) : /\ \A i \in 1..n : <<x, sorted[i]>> \notin order
                                  /\ n < Len(sorted) => <<x, sorted[n + 1]>> \in order
Inserted(x, sorted, order) == InsertAt(sorted, PlaceOf(x, sorted, order) + 1, x)
SortedSeq(s, order) ==
    LET sorted[i \in 0..Len(s)] == IF i = 0 THEN <<>> ELSE Inserted(s[i], sorted[i - 1], order)
    IN sorted[Len(s)]
-----------------------------------------------------------------------------
(* Who is named in a change: its actor, then the others in order *)

IdsIn(op) == op.obj \cup (IF op.key.tag = "seq" THEN {op.key.id} ELSE {}) \cup ToSet(op.pred)

ActorIdsInChange(actor, ops) ==
    LET others == {id[2] : id \in UNION {IdsIn(op) : op \in ToSet(ops)}} \ {actor}
    IN  <<actor>> \o SortedSeq(SetToSeq(others), NumberOrder)

ActorIndex(actors, actor) == (CHOOSE i \in DOMAIN actors : actors[i] = actor) - 1
-----------------------------------------------------------------------------
(* Cells *)

\* The raw bytes of a value.
RawValue(value) ==
    CASE value.type \in {"null", "false", "true"}       -> <<>>
      [] value.type \in {"int", "counter", "timestamp"} -> WriteSigned(value.data)
      [] value.type = "uint"                            -> WriteUnsigned(value.data)
      [] value.type \in {"f64", "str", "bytes"}         -> value.data

ValueLen(value) == 16 * Len(RawValue(value)) + TypeCode(value.type)

ValueOf(op) == IF op.action.tag \in {"set", "inc"} THEN op.action.value ELSE NullValue

\* The element before the first is number 0 of no actor.
KeyCounter(key) == CASE key.tag = "map" -> {} [] key.tag = "head" -> {0} [] key.tag = "seq" -> {key.id[1]}
KeyActor(key, actors) == IF key.tag = "seq" THEN {ActorIndex(actors, key.id[2])} ELSE {}
KeyString(key) == IF key.tag = "map" THEN {key.str} ELSE {}

Preds(ops) == FlattenSeq([i \in DOMAIN ops |-> ops[i].pred])
ActorCells(ids, actors) == [i \in DOMAIN ids |-> {ActorIndex(actors, ids[i][2])}]
CounterCells(ids)       == [i \in DOMAIN ids |-> {ids[i][1]}]

\* The cell of an operation, in the columns that have one for each.
Cell(op, actors, col) ==
    CASE col = COL_OBJ_ACTOR -> {ActorIndex(actors, id[2]) : id \in op.obj}
      [] col = COL_OBJ_CTR   -> {id[1] : id \in op.obj}
      [] col = COL_KEY_ACTOR -> KeyActor(op.key, actors)
      [] col = COL_KEY_CTR   -> KeyCounter(op.key)
      [] col = COL_KEY_STR   -> KeyString(op.key)
      [] col = COL_INSERT    -> {op.insert}
      [] col = COL_ACTION    -> {ActionCode(op.action.tag)}
      [] col = COL_VAL_LEN   -> {ValueLen(ValueOf(op))}
      [] col \in {COL_REF_ACTOR, COL_REF_CTR} -> {}
      [] col = COL_PRED_NUM  -> {Len(op.pred)}

Cells(ops, actors, col) ==
    CASE col = COL_PRED_ACTOR -> ActorCells(Preds(ops), actors)
      [] col = COL_PRED_CTR   -> CounterCells(Preds(ops))
      [] OTHER                -> [i \in DOMAIN ops |-> Cell(ops[i], actors, col)]

\* The columns by id, those without bytes left out.
ColumnIds == <<COL_OBJ_ACTOR, COL_OBJ_CTR, COL_KEY_ACTOR, COL_KEY_CTR, COL_KEY_STR, COL_INSERT, COL_ACTION,
               COL_VAL_LEN, COL_VAL_RAW, COL_REF_ACTOR, COL_REF_CTR, COL_PRED_NUM, COL_PRED_ACTOR, COL_PRED_CTR>>

RawValues(ops) == FlattenSeq([i \in DOMAIN ops |-> RawValue(ValueOf(ops[i]))])
ColumnData(ops, actors, col) ==
    IF col = COL_VAL_RAW THEN RawValues(ops) ELSE EncodeColumn(Kind(col), Cells(ops, actors, col))
WithBytes(columns) ==
    LET kept[i \in 0..Len(columns)] ==
            IF i = 0 THEN <<>>
            ELSE IF columns[i].data = <<>> THEN kept[i - 1] ELSE Append(kept[i - 1], columns[i])
    IN kept[Len(columns)]
ColumnsOf(ops, actors) ==
    WithBytes([i \in DOMAIN ColumnIds |->
                   [col |-> ColumnIds[i], data |-> ColumnData(ops, actors, ColumnIds[i])]])
-----------------------------------------------------------------------------
(* OperationIterator: the bytes of the columns to operations *)

\* How many there are before the column ends or has a null.
EndsAfter(cells, n) == cells[n + 1] = {} /\ \A i \in 1..n : cells[i] # {}
CountRows(kind, bytes) == CHOOSE n \in 0..Modulus : EndsAfter(DecodeColumn(kind, bytes, n + 1), n)

SumOf(numbers) ==
    LET sum[i \in 0..Len(numbers)] == IF i = 0 THEN 0 ELSE sum[i - 1] + numbers[i] IN sum[Len(numbers)]

ReadRaw(type, bytes) ==
    [type |-> type,
     data |-> CASE type \in {"null", "false", "true"}       -> 0
                [] type \in {"int", "counter", "timestamp"} -> ReadSigned(bytes).value
                [] type = "uint"                            -> ReadUnsigned(bytes).value
                [] type \in {"f64", "str", "bytes"}         -> bytes]

PartAt(bytes, start, len) == SubSeq(bytes, start + 1, start + len)
\* The bytes of the i-th of values that stand one after the other.
Part(bytes, lens, i)   == PartAt(bytes, SumOf(SubSeq(lens, 1, i - 1)), lens[i])
ReadValue(lens, raw, i) ==
    ReadRaw(ValueTypes[(lens[i] % 16) + 1], Part(raw, [j \in DOMAIN lens |-> lens[j] \div 16], i))

ReadKey(actors, actor, ctr, str) ==
    CASE actor = {} /\ ctr = {} /\ str # {}  -> [tag |-> "map", str |-> TheOne(str)]
      [] actor = {} /\ ctr = {0} /\ str = {} -> [tag |-> "head"]
      [] OTHER -> [tag |-> "seq", id |-> <<TheOne(ctr), actors[TheOne(actor) + 1]>>]

\* In what follows, columns: id -> bytes, <<>> for those that are left out, and
\* rows: id -> cells.
DecodeCells(columns, ids, n) == [col \in ids |-> DecodeColumn(Kind(col), columns[col], n)]

Numbers(cells) == [i \in DOMAIN cells |-> TheOne(cells[i])]

\* The ids of each row: its part of all ids.
IdAt(ctr, actor, actors) == <<TheOne(ctr), actors[TheOne(actor) + 1]>>
IdsByRow(num, ids) == [i \in DOMAIN num |-> Part(ids, num, i)]
IdsFrom(ctr, actor, actors) == [j \in DOMAIN ctr |-> IdAt(ctr[j], actor[j], actors)]

\* For each row, a number of ids.
IdsOfRows(num, rows, actor_col, ctr_col, actors) ==
    IdsByRow(num, IdsFrom(rows[ctr_col], rows[actor_col], actors))
ReadNumbered(columns, actors, actor_col, ctr_col, num) ==
    IdsOfRows(num, DecodeCells(columns, {actor_col, ctr_col}, SumOf(num)), actor_col, ctr_col, actors)
ReadIds(columns, actors, num_col, actor_col, ctr_col, n) ==
    ReadNumbered(columns, actors, actor_col, ctr_col,
                 Numbers(DecodeColumn(Kind(num_col), columns[num_col], n)))

ReadObject(actors, actor, ctr) == IF actor = {} \/ ctr = {} THEN {} ELSE {IdAt(ctr, actor, actors)}

ReadAction(tag, lens, raw, i) ==
    [tag |-> tag, value |-> IF tag \in {"set", "inc"} THEN ReadValue(lens, raw, i) ELSE NullValue]

OpOfRow(rows, lens, raw, actors, i) ==
    [action |-> ReadAction(Actions[TheOne(rows[COL_ACTION][i]) + 1], lens, raw, i),
     obj    |-> ReadObject(actors, rows[COL_OBJ_ACTOR][i], rows[COL_OBJ_CTR][i]),
     key    |-> ReadKey(actors, rows[COL_KEY_ACTOR][i], rows[COL_KEY_CTR][i], rows[COL_KEY_STR][i]),
     insert |-> TheOne(rows[COL_INSERT][i])]
OpsOfRows(rows, raw, actors) ==
    [i \in DOMAIN rows[COL_ACTION] |-> OpOfRow(rows, Numbers(rows[COL_VAL_LEN]), raw, actors, i)]

OpColumns == {COL_OBJ_ACTOR, COL_OBJ_CTR, COL_KEY_ACTOR, COL_KEY_CTR, COL_KEY_STR, COL_INSERT, COL_ACTION, COL_VAL_LEN}

\* The first n operations, without ids, predecessors and successors.
ReadOps(columns, actors, n) ==
    OpsOfRows(DecodeCells(columns, OpColumns, n), columns[COL_VAL_RAW], actors)

WithPred(op, pred) ==
    [action |-> op.action, obj |-> op.obj, key |-> op.key, insert |-> op.insert, pred |-> pred]
WithPreds(ops, pred) == [i \in DOMAIN ops |-> WithPred(ops[i], SortedSeq(pred[i], OpIdOrder))]
FirstOps(columns, actors, n) ==
    WithPreds(ReadOps(columns, actors, n),
              ReadIds(columns, actors, COL_PRED_NUM, COL_PRED_ACTOR, COL_PRED_CTR, n))
IterOps(columns, actors) == FirstOps(columns, actors, CountRows("unsigned", columns[COL_ACTION]))
=============================================================================
