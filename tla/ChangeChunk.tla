----------------------------- MODULE ChangeChunk -----------------------------
(***************************************************************************)
(* A change as a chunk of bytes: a header with a checksum, and a body.     *)
(* What is kept of a change in memory are the bytes, some numbers, and the *)
(* ranges of its message, columns and extra bytes: pairs of positions that *)
(* count from 0, the second exclusive.                                     *)
(*                                                                         *)
(* A hash is what is hashed; the hashes of dependencies, which are only    *)
(* copied, are numbers that take one byte, and so does an actor id.  Of    *)
(* deflated bytes, each tells what was deflated; how many there are is     *)
(* left to the compressor.                                                 *)
(***************************************************************************)
EXTENDS ChangeOps

CONSTANTS
    DEFLATE_MIN_SIZE,  \* 256 in the code
    DeflatedSize(_),   \* what sdeflate returns: how many bytes it makes of these
    InflateRatio,      \* 128 in the code: room to inflate a byte into
    IntHalf            \* ints are less than this: 2^31 in the code

\* An int is no wider than the numbers that are written.
ASSUME DeflateAssumption ==
    /\ InflateRatio \in Nat \ {0}
    /\ IntHalf \in Nat \ {0} /\ IntHalf <= HalfModulus

MAGIC_BYTES    == <<133, 111, 74, 131>>
PREAMBLE_BYTES == 8
HEADER_BYTES   == PREAMBLE_BYTES + 1

BLOCK_TYPE_CHANGE  == 1
BLOCK_TYPE_DEFLATE == 2

HASH_SIZE     == 1
ACTOR_ID_SIZE == 1

Slice(bytes, range) == SubSeq(bytes, range[1] + 1, range[2])
Shift(range, n)     == <<range[1] + n, range[2] + n>>
From(bytes, at)     == SubSeq(bytes, at + 1, Len(bytes))
-----------------------------------------------------------------------------
(* Deflating and inflating, with sizes that are ints *)

\* The cast (int).
ToInt(n) == ((n + IntHalf) % (2 * IntHalf)) - IntHalf

AtMost(bytes, n) == IF n < Len(bytes) THEN SubSeq(bytes, 1, n) ELSE bytes

\* deflate_compress: no more is taken than the int says.
Taken(data)        == AtMost(data, ToInt(Len(data)))
DeflatedFrom(data) == [i \in 1..DeflatedSize(data) |-> [deflated |-> data]]
Deflate(data)      == DeflatedFrom(Taken(data))

\* deflate_decompress: what does not fit in the buffer is left out.
Capacity(size) == ToInt(InflateRatio * size)
Inflate(bytes)  == AtMost(bytes[1].deflated, Capacity(Len(bytes)))
-----------------------------------------------------------------------------
(* Writing *)

WriteString(str)   == WriteUnsigned(Len(str)) \o str
WriteActor(actor)  == WriteUnsigned(ACTOR_ID_SIZE) \o <<actor>>
WriteActors(actors) == WriteUnsigned(Len(actors)) \o FlattenSeq([i \in DOMAIN actors |-> WriteActor(actors[i])])

WriteColumnInfo(columns) ==
    WriteUnsigned(Len(columns)) \o FlattenSeq([i \in DOMAIN columns |->
        WriteUnsigned(columns[i].col) \o WriteUnsigned(Len(columns[i].data))])

\* Where each column is, given their ids and lengths in order: the first is at this position.
RangeOf(info, at, i) == Shift(<<0, info[i].len>>, at + SumOf([j \in 1..(i - 1) |-> info[j].len]))
IndexOf(info, col)   == CHOOSE i \in DOMAIN info : info[i].col = col
Ranges(info, at)     == [col \in {c.col : c \in ToSet(info)} |-> RangeOf(info, at, IndexOf(info, col))]

\* ColumnEncoder: how many columns there are, their ids and lengths, and their bytes.
InfoOf(columns) == [i \in DOMAIN columns |-> [col |-> columns[i].col, len |-> Len(columns[i].data)]]
JoinColumns(columns, info) ==
    [bytes |-> info \o FlattenSeq([i \in DOMAIN columns |-> columns[i].data]),
     ops   |-> Ranges(InfoOf(columns), Len(info))]
FinishColumns(columns) == JoinColumns(columns, WriteColumnInfo(columns))
EncodeOps(ops, actors) == FinishColumns(ColumnsOf(ops, actors))

\* The message is taken to start one byte after its length starts.
BadMessageStart(before) == Len(before)
MessageStart(before)    == Len(before) + 1

\* How far the columns' ranges are moved: what is before the operations; without the other
\* actors, if they were moved too early.
BadOpsStart(head, others) == Len(head)
OpsStart(head, others)    == Len(head) + Len(others)

BeforeMessage(change) ==
    WriteUnsigned(Len(change.deps)) \o change.deps \o WriteActor(change.actor_id)
        \o WriteUnsigned(change.seq) \o WriteUnsigned(change.start_op) \o WriteSigned(change.time)

\* The parts of a chunk, and where they are: before the message, with it, other actors, operations.
JoinParts(change, actors, before, head, others, ops) ==
    [bytes       |-> head \o others \o ops.bytes \o change.extra_bytes,
     actors      |-> actors,
     message     |-> <<MessageStart(before), Len(head)>>,
     ops         |-> [col \in DOMAIN ops.ops |-> Shift(ops.ops[col], OpsStart(head, others))],
     extra_bytes |-> Shift(<<0, Len(change.extra_bytes)>>, Len(head) + Len(others) + Len(ops.bytes))]
WithActors(change, actors, before) ==
    JoinParts(change, actors, before, before \o WriteString(change.message), WriteActors(Tail(actors)),
              EncodeOps(change.operations, actors))
EncodeChunk(change) ==
    WithActors(change, ActorIdsInChange(change.actor_id, change.operations), BeforeMessage(change))

\* What is hashed is what follows the checksum; the checksum is the hash's first four bytes.
Hashed(bytes) == From(bytes, PREAMBLE_BYTES)
Checksum(hash) == [i \in 1..4 |-> [part |-> i, of |-> hash]]

Sealed(hashed)    == MAGIC_BYTES \o Checksum(hashed) \o hashed
Block(type, body) == Sealed(<<type>> \o WriteUnsigned(Len(body)) \o body)

ChangeAt(change, chunk, bytes, start) ==
    [bytes       |-> bytes,
     body_start  |-> start,
     hash        |-> Hashed(bytes),
     seq         |-> change.seq,
     start_op    |-> change.start_op,
     time        |-> change.time,
     message     |-> Shift(chunk.message, start),
     actors      |-> chunk.actors,
     deps        |-> change.deps,
     ops         |-> [col \in DOMAIN chunk.ops |-> Shift(chunk.ops[col], start)],
     extra_bytes |-> Shift(chunk.extra_bytes, start),
     num_ops     |-> Len(change.operations)]
InBlock(change, chunk, bytes) == ChangeAt(change, chunk, bytes, Len(bytes) - Len(chunk.bytes))
WithChunk(change, chunk)      == InBlock(change, chunk, Block(BLOCK_TYPE_CHANGE, chunk.bytes))
WithSortedDeps(change)        == WithChunk(change, EncodeChunk(change))
FromOldChange(change)         == WithSortedDeps([change EXCEPT !.deps = SortedSeq(@, NumberOrder)])

BodyBytes(change) == From(change.bytes, change.body_start)

\* compress: the bytes that are sent and stored.  The checksum stays that of the whole bytes.
Compressed(change) ==
    LET body == Deflate(BodyBytes(change))
    IN  IF Len(change.bytes) <= DEFLATE_MIN_SIZE THEN change.bytes
        ELSE SubSeq(change.bytes, 1, PREAMBLE_BYTES) \o <<BLOCK_TYPE_DEFLATE>>
                \o WriteUnsigned(Len(body)) \o body
-----------------------------------------------------------------------------
(* Reading what a change holds *)

GetMessage(change) == Slice(change.bytes, change.message)

COLUMN_TYPE_DEFLATE == 8

\* col_iter: the bytes of a column, deflated ones inflated.
ColIter(bytes, ranges, col) ==
    CASE col \in DOMAIN ranges -> Slice(bytes, ranges[col])
      [] col + COLUMN_TYPE_DEFLATE \in DOMAIN ranges -> Inflate(Slice(bytes, ranges[col + COLUMN_TYPE_DEFLATE]))
      [] OTHER -> <<>>

ColumnBytes(change) == [col \in ToSet(ColumnIds) |-> ColIter(change.bytes, change.ops, col)]

OpsIn(change) == IterOps(ColumnBytes(change), change.actors)
-----------------------------------------------------------------------------
(* Reading bytes at a position: what is there, and the position after it *)

MoveBy(at, read)      == [value |-> read.value, at |-> at + read.size]
ReadNumber(bytes, at) == MoveBy(at, ReadUnsigned(From(bytes, at)))
ReadTime(bytes, at)   == MoveBy(at, ReadSigned(From(bytes, at)))

\* The range of bytes whose length comes first.
RangeAfter(len)       == [value |-> <<len.at, len.at + len.value>>, at |-> len.at + len.value]
SliceBytes(bytes, at) == RangeAfter(ReadNumber(bytes, at))

\* How many there are, and then each of them.
OneMore(done, one) == [value |-> Append(done.value, one.value), at |-> one.at]
ReadNext(bytes, done, ReadOne(_, _)) == OneMore(done, ReadOne(bytes, done.at))
ReadEach(bytes, count, ReadOne(_, _)) ==
    LET read[i \in 0..count.value] ==
            IF i = 0 THEN [value |-> <<>>, at |-> count.at] ELSE ReadNext(bytes, read[i - 1], ReadOne)
    IN read[count.value]
ReadMany(bytes, at, ReadOne(_, _)) == ReadEach(bytes, ReadNumber(bytes, at), ReadOne)

ReadHash(bytes, at)     == [value |-> bytes[at + 1], at |-> at + HASH_SIZE]
DecodeHashes(bytes, at) == ReadMany(bytes, at, ReadHash)

ActorAt(bytes, range)   == [value |-> Slice(bytes, range.value)[1], at |-> range.at]
ReadActor(bytes, at)    == ActorAt(bytes, SliceBytes(bytes, at))
DecodeActors(bytes, at) == ReadMany(bytes, at, ReadActor)

InfoAt(col, len)            == [value |-> [col |-> col.value, len |-> len.value], at |-> len.at]
InfoAfter(bytes, col)       == InfoAt(col, ReadNumber(bytes, col.at))
ReadInfo(bytes, at)         == InfoAfter(bytes, ReadNumber(bytes, at))
DecodeColumnInfo(bytes, at) == ReadMany(bytes, at, ReadInfo)

IsDeflated(col) == (col \div COLUMN_TYPE_DEFLATE) % 2 = 1
Unmarked(col)   == IF IsDeflated(col) THEN col - COLUMN_TYPE_DEFLATE ELSE col

\* Columns must come in the order of their ids, and may be deflated in documents only; nowhere,
\* if documents are read like changes.
BadInfoValid(info, allow_compressed) ==
    \A i \in DOMAIN info : info[i].col > (IF i = 1 THEN 0 ELSE info[i - 1].col) /\ ~IsDeflated(info[i].col)
InfoValid(info, allow_compressed) ==
    /\ \A i \in DOMAIN info : Unmarked(info[i].col) > IF i = 1 THEN 0 ELSE Unmarked(info[i - 1].col)
    /\ \A i \in DOMAIN info : IsDeflated(info[i].col) => allow_compressed

LengthOf(info) == SumOf([i \in DOMAIN info |-> info[i].len])
-----------------------------------------------------------------------------
(* Reading a chunk: at most one change, none if it is refused *)

HeaderFits(bytes, len) == Len(bytes) = len.at + len.value
HeaderValid(bytes) ==
    /\ Len(bytes) > HEADER_BYTES
    /\ SubSeq(bytes, 1, 4) = MAGIC_BYTES
    /\ HeaderFits(bytes, ReadNumber(bytes, HEADER_BYTES))

BodyStart(bytes) == ReadNumber(bytes, HEADER_BYTES).at

\* What compress made of the bytes is undone, as far as it is inflated.
Inflated(bytes, body) ==
    SubSeq(bytes, 1, PREAMBLE_BYTES) \o <<BLOCK_TYPE_CHANGE>> \o WriteUnsigned(Len(body)) \o body
Decompressed(bytes) ==
    IF bytes[HEADER_BYTES] # BLOCK_TYPE_DEFLATE THEN bytes
    ELSE Inflated(bytes, Inflate(From(bytes, BodyStart(bytes))))

\* The fields of a body, one after the other, and the position after them.
ReadBody(bytes, start) ==
    LET deps     == DecodeHashes(bytes, start)
        actor    == SliceBytes(bytes, deps.at)
        seq      == ReadNumber(bytes, actor.at)
        start_op == ReadNumber(bytes, seq.at)
        time     == ReadTime(bytes, start_op.at)
        message  == SliceBytes(bytes, time.at)
        others   == DecodeActors(bytes, message.at)
        info     == DecodeColumnInfo(bytes, others.at)
    IN  [deps |-> deps.value, actor |-> actor.value, seq |-> seq.value, start_op |-> start_op.value,
         time |-> time.value, message |-> message.value, others |-> others.value, info |-> info.value,
         at |-> info.at]

ChangeOf(bytes, start, body) ==
    [bytes       |-> bytes,
     body_start  |-> start,
     hash        |-> Hashed(bytes),
     seq         |-> body.seq,
     start_op    |-> body.start_op,
     time        |-> body.time,
     message     |-> body.message,
     actors      |-> Slice(bytes, body.actor) \o body.others,
     deps        |-> body.deps,
     ops         |-> Ranges(body.info, body.at),
     extra_bytes |-> <<body.at + LengthOf(body.info), Len(bytes)>>,
     num_ops     |-> 0]
CountOps(change) == [change EXCEPT !.num_ops = Len(OpsIn(change))]

DecodeBodyAt(bytes, start, body) ==
    IF InfoValid(body.info, FALSE) THEN {CountOps(ChangeOf(bytes, start, body))} ELSE {}
DecodeBodyFrom(bytes, start) == DecodeBodyAt(bytes, start, ReadBody(bytes, start))
DecodeBody(bytes)            == DecodeBodyFrom(bytes, BodyStart(bytes))

ChecksumValid(bytes) == SubSeq(bytes, 5, 8) = Checksum(Hashed(bytes))

DecodeInflated(bytes) ==
    IF HeaderValid(bytes) /\ ChecksumValid(bytes) /\ bytes[HEADER_BYTES] = BLOCK_TYPE_CHANGE
    THEN DecodeBody(bytes) ELSE {}
DecodeChange(raw) == IF HeaderValid(raw) THEN DecodeInflated(Decompressed(raw)) ELSE {}
-----------------------------------------------------------------------------
(* A file: blocks, of which an incomplete last one is left out *)

BadIncomplete(end, bytes) == end >= Len(bytes)
Incomplete(end, bytes)    == end > Len(bytes)

BlockEnd(bytes, end) == IF Incomplete(end, bytes) THEN [tag |-> "none"] ELSE [tag |-> "block", end |-> end]
BlockOfLength(bytes, len) ==
    IF len.size = 0 THEN [tag |-> "error"] ELSE BlockEnd(bytes, HEADER_BYTES + len.size + len.value)
PopBlock(bytes) ==
    CASE Len(bytes) < 4 \/ SubSeq(bytes, 1, 4) # MAGIC_BYTES -> [tag |-> "none"]
      [] OTHER -> IF Len(bytes) < HEADER_BYTES + 1 THEN [tag |-> "error"]
                  ELSE BlockOfLength(bytes, ReadUnsigned(From(bytes, HEADER_BYTES)))

\* One block after the other is split from the rest, until there is none: a block takes four
\* bytes or more, and one turn more ends the loop.
Took(bytes, split, block) ==
    CASE block.tag = "block" -> [at     |-> split.at + block.end,
                                 blocks |-> Append(split.blocks, PartAt(bytes, split.at, block.end)),
                                 tag    |-> "block"]
      [] OTHER -> [split EXCEPT !.tag = block.tag]
TakeBlock(bytes, split) ==
    IF split.tag # "block" THEN split ELSE Took(bytes, split, PopBlock(From(bytes, split.at)))
SplitTurns(bytes) == (Len(bytes) \div 4) + 1
SplitBlocks(bytes) ==
    LET split[i \in 0..SplitTurns(bytes)] ==
            IF i = 0 THEN [at |-> 0, blocks |-> <<>>, tag |-> "block"] ELSE TakeBlock(bytes, split[i - 1])
    IN split[SplitTurns(bytes)]

\* At most one sequence of changes: none if the file is refused.
Loaded(changes, block) == {Append(s, c) : s \in changes, c \in DecodeChange(block)}
LoadSplit(split) ==
    LET loaded[i \in 0..Len(split.blocks)] ==
            IF i = 0 THEN {<<>>} ELSE Loaded(loaded[i - 1], split.blocks[i])
    IN  IF split.tag = "error" THEN {} ELSE loaded[Len(split.blocks)]
LoadBlocks(bytes) == LoadSplit(SplitBlocks(bytes))
=============================================================================
