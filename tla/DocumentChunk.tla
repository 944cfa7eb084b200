---------------------------- MODULE DocumentChunk ----------------------------
(***************************************************************************)
(* A saved document as a chunk of bytes: its actors and heads, and two     *)
(* tables, of changes and of operations, each column for itself.           *)
(*                                                                         *)
(* A row of changes has the numbers of the rows it depends on, counted     *)
(* from 0; a row of operations has successors in the place of              *)
(* predecessors.  Actors are sorted.                                       *)
(***************************************************************************)
EXTENDS ChangeChunk

BLOCK_TYPE_DOC == 0

COL_ID_ACTOR   == 33
COL_ID_CTR     == 35
COL_SUCC_NUM   == 128
COL_SUCC_ACTOR == 129
COL_SUCC_CTR   == 131

DOC_ACTOR      == 1
DOC_SEQ        == 3
DOC_MAX_OP     == 19
DOC_TIME       == 35
DOC_MESSAGE    == 53
DOC_DEPS_NUM   == 64
DOC_DEPS_INDEX == 67
DOC_EXTRA_LEN  == 86
DOC_EXTRA_RAW  == 87

ChangeColumnIds == <<DOC_ACTOR, DOC_SEQ, DOC_MAX_OP, DOC_TIME, DOC_MESSAGE, DOC_DEPS_NUM, DOC_DEPS_INDEX,
                     DOC_EXTRA_LEN, DOC_EXTRA_RAW>>
OpColumnIds == <<COL_OBJ_ACTOR, COL_OBJ_CTR, COL_KEY_ACTOR, COL_KEY_CTR, COL_KEY_STR, COL_ID_ACTOR, COL_ID_CTR,
                 COL_INSERT, COL_ACTION, COL_VAL_LEN, COL_VAL_RAW, COL_REF_ACTOR, COL_REF_CTR,
                 COL_SUCC_NUM, COL_SUCC_ACTOR, COL_SUCC_CTR>>
-----------------------------------------------------------------------------
(* Writing *)

\* ChangeEncoder
ChangeCell(change, actors, col) ==
    CASE col = DOC_ACTOR     -> ActorIndex(actors, change.actor)
      [] col = DOC_SEQ       -> change.seq
      [] col = DOC_MAX_OP    -> change.max_op
      [] col = DOC_TIME      -> ToUnsigned(change.time)
      [] col = DOC_MESSAGE   -> change.message
      [] col = DOC_DEPS_NUM  -> Len(change.deps)
      [] col = DOC_EXTRA_LEN -> 16 * Len(change.extra_bytes) + TypeCode("bytes")
DepCells(deps) == [i \in DOMAIN deps |-> {deps[i]}]
ChangeCells(changes, actors, col) ==
    IF col = DOC_DEPS_INDEX THEN DepCells(FlattenSeq([i \in DOMAIN changes |-> changes[i].deps]))
    ELSE [i \in DOMAIN changes |-> {ChangeCell(changes[i], actors, col)}]

\* DocOpEncoder
Succs(ops) == FlattenSeq([i \in DOMAIN ops |-> ops[i].succ])
Ids(ops)   == [i \in DOMAIN ops |-> ops[i].id]
OpCells(ops, actors, col) ==
    CASE col = COL_ID_ACTOR   -> ActorCells(Ids(ops), actors)
      [] col = COL_ID_CTR     -> CounterCells(Ids(ops))
      [] col = COL_SUCC_NUM   -> [i \in DOMAIN ops |-> {Len(ops[i].succ)}]
      [] col = COL_SUCC_ACTOR -> ActorCells(Succs(ops), actors)
      [] col = COL_SUCC_CTR   -> CounterCells(Succs(ops))
      [] OTHER                -> Cells(ops, actors, col)

\* ColData::deflate: long columns are deflated, and marked.
Deflated(column) ==
    IF Len(column.data) <= DEFLATE_MIN_SIZE THEN column
    ELSE [col |-> column.col + COLUMN_TYPE_DEFLATE, data |-> Deflate(column.data)]

\* What finish makes of the columns: their ids and lengths, and their bytes.
Joined(columns) ==
    [info |-> WriteColumnInfo(columns), data |-> FlattenSeq([i \in DOMAIN columns |-> columns[i].data])]
Table(ids, Data(_)) ==
    Joined(WithBytes([i \in DOMAIN ids |-> Deflated([col |-> ids[i], data |-> Data(ids[i])])]))

ChangeColumn(doc, col) ==
    IF col = DOC_EXTRA_RAW THEN FlattenSeq([i \in DOMAIN doc.changes |-> doc.changes[i].extra_bytes])
    ELSE EncodeColumn(Kind(col), ChangeCells(doc.changes, doc.actors, col))
OpColumn(doc, col) ==
    IF col = COL_VAL_RAW THEN RawValues(doc.ops)
    ELSE EncodeColumn(Kind(col), OpCells(doc.ops, doc.actors, col))

EncodeChanges(doc) == Table(ChangeColumnIds, LAMBDA col : ChangeColumn(doc, col))
EncodeDocOps(doc)  == Table(OpColumnIds, LAMBDA col : OpColumn(doc, col))

\* encode_document: the size is computed from the parts before they are put together.
DocumentSize(doc, changes, ops) ==
    Len(WriteUnsigned(Len(doc.actors))) + Len(doc.actors) * (1 + ACTOR_ID_SIZE)
        + Len(WriteUnsigned(Len(doc.heads))) + Len(doc.heads) * HASH_SIZE
        + Len(changes.info) + Len(ops.info) + Len(changes.data) + Len(ops.data)
JoinTables(doc, changes, ops) ==
    Sealed(<<BLOCK_TYPE_DOC>> \o WriteUnsigned(DocumentSize(doc, changes, ops))
               \o WriteActors(doc.actors) \o WriteUnsigned(Len(doc.heads)) \o doc.heads
               \o changes.info \o ops.info \o changes.data \o ops.data)
EncodeDocument(doc) == JoinTables(doc, EncodeChanges(doc), EncodeDocOps(doc))
-----------------------------------------------------------------------------
(* Reading *)

\* ChangeIterator and DepsIterator
ChangeOfRow(rows, deps, extra, actors, i) ==
    [actor  |-> actors[TheOne(rows[DOC_ACTOR][i]) + 1],
     seq    |-> TheOne(rows[DOC_SEQ][i]),
     max_op |-> TheOne(rows[DOC_MAX_OP][i]),
     time   |-> ToSigned(TheOne(rows[DOC_TIME][i])),
     message     |-> TheOne(rows[DOC_MESSAGE][i]),
     deps        |-> Part(deps, Numbers(rows[DOC_DEPS_NUM]), i),
     extra_bytes |-> Part(extra, [j \in DOMAIN rows[DOC_EXTRA_LEN] |-> TheOne(rows[DOC_EXTRA_LEN][j]) \div 16], i)]
ReadDeps(columns, rows) ==
    Numbers(DecodeColumn("delta", columns[DOC_DEPS_INDEX], SumOf(Numbers(rows[DOC_DEPS_NUM]))))
ChangesOfRows(rows, deps, extra, actors) ==
    [i \in DOMAIN rows[DOC_ACTOR] |-> ChangeOfRow(rows, deps, extra, actors, i)]
WithDeps(columns, rows, actors) ==
    ChangesOfRows(rows, ReadDeps(columns, rows), columns[DOC_EXTRA_RAW], actors)
ReadChanges(columns, actors) ==
    WithDeps(columns,
             DecodeCells(columns, ToSet(ChangeColumnIds) \ {DOC_DEPS_INDEX, DOC_EXTRA_RAW},
                         CountRows("unsigned", columns[DOC_ACTOR])),
             actors)

\* DocOpIterator
WithId(op, id, succ) ==
    [id |-> id, obj |-> op.obj, key |-> op.key, action |-> op.action, insert |-> op.insert, succ |-> succ]
WithIds(ops, rows, succ, actors) ==
    [i \in DOMAIN ops |-> WithId(ops[i], IdAt(rows[COL_ID_CTR][i], rows[COL_ID_ACTOR][i], actors), succ[i])]
FirstDocOps(columns, actors, n) ==
    WithIds(ReadOps(columns, actors, n),
            DecodeCells(columns, {COL_ID_ACTOR, COL_ID_CTR}, n),
            ReadIds(columns, actors, COL_SUCC_NUM, COL_SUCC_ACTOR, COL_SUCC_CTR, n), actors)
ReadDocOps(columns, actors) == FirstDocOps(columns, actors, CountRows("unsigned", columns[COL_ACTION]))

\* decode_document, up to where operations are put into changes: at most one document.
ReadTables(bytes, start) ==
    LET actors       == DecodeActors(bytes, start)
        heads        == DecodeHashes(bytes, actors.at)
        changes_info == DecodeColumnInfo(bytes, heads.at)
        ops_info     == DecodeColumnInfo(bytes, changes_info.at)
    IN  [actors |-> actors.value, heads |-> heads.value, changes_info |-> changes_info.value,
         ops_info |-> ops_info.value, at |-> ops_info.at]

TableBytes(bytes, ids, ranges) == [col \in ToSet(ids) |-> ColIter(bytes, ranges, col)]
DocumentOfFields(bytes, doc) ==
    [actors  |-> doc.actors,
     heads   |-> doc.heads,
     changes |-> ReadChanges(TableBytes(bytes, ChangeColumnIds, Ranges(doc.changes_info, doc.at)), doc.actors),
     ops     |-> ReadDocOps(TableBytes(bytes, OpColumnIds,
                                       Ranges(doc.ops_info, doc.at + LengthOf(doc.changes_info))), doc.actors)]
DecodeFields(bytes, doc) ==
    IF InfoValid(doc.changes_info, TRUE) /\ InfoValid(doc.ops_info, TRUE)
    THEN {DocumentOfFields(bytes, doc)} ELSE {}
DecodeDocument(bytes) ==
    IF HeaderValid(bytes) /\ ChecksumValid(bytes) /\ bytes[HEADER_BYTES] = BLOCK_TYPE_DOC
    THEN DecodeFields(bytes, ReadTables(bytes, BodyStart(bytes))) ELSE {}
=============================================================================
