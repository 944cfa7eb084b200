------------------------------- MODULE Encoding -------------------------------
(***************************************************************************)
(* What is written is what is read: columns of any cells, and changes of   *)
(* any operations, taken one cell or one operation at a time.              *)
(***************************************************************************)
EXTENDS DocumentChunk

CONSTANTS
    CellValues,   \* the values of cells
    MaxCells,     \* bound: cells of a column
    Operations,   \* what changes do
    Drafts,       \* changes without operations
    MaxOperations \* bound: operations of a change

\* The numbers that fit: u64 and s64 in the code.
UnsignedNumber == 0..(Modulus - 1)
SignedNumber   == (-HalfModulus)..(HalfModulus - 1)

\* The differences of a delta column fit in a signed number, as those of counters and times do.
ASSUME CellsAssumption ==
    /\ CellValues \subseteq UnsignedNumber
    /\ \A v, w \in CellValues \cup {0} : ToSigned(v) - ToSigned(w) \in SignedNumber
    /\ MaxCells \in Nat /\ MaxCells + 1 \in SignedNumber
-----------------------------------------------------------------------------
(* What the types of the code say of operations and of changes without them *)

Counters == 0..(HalfModulus - 1)
OpIds      == Counters \X Nat
Strings  == {s \in Seq(Nat) : Len(s) \in UnsignedNumber}

Values ==
    [type : {"null", "false", "true"}, data : {0}]
        \cup [type : {"int", "counter", "timestamp"}, data : SignedNumber]
        \cup [type : {"uint"}, data : UnsignedNumber] \cup [type : {"f64", "str", "bytes"}, data : Seq(Nat)]
WhatOps ==
    [tag : {"set", "inc"}, value : {value \in Values : ValueLen(value) \in UnsignedNumber}]
        \cup [tag : ToSet(Actions) \ {"set", "inc"}, value : {NullValue}]
Keys == [tag : {"map"}, str : Strings] \cup {[tag |-> "head"]} \cup [tag : {"seq"}, id : OpIds]

\* Predecessors are in order.
InOrder(s, order) == \A i, j \in DOMAIN s : i < j => <<s[j], s[i]>> \notin order
OperationType ==
    [action : WhatOps, obj : {obj \in SUBSET OpIds : \A x, y \in obj : x = y}, key : Keys, insert : BOOLEAN,
     pred : {pred \in Seq(OpIds) : Len(pred) \in UnsignedNumber /\ InOrder(pred, OpIdOrder)}]

DraftType ==
    [actor_id : Nat, seq : UnsignedNumber, start_op : UnsignedNumber, time : SignedNumber,
     message : Seq(Nat), deps : Seq(Nat), operations : {<<>>}, extra_bytes : Seq(Nat)]

\* The changes there are, and what fits of them in numbers, were the message longer by some bytes.
FewOperations == UNION {[1..n -> Operations] : n \in 0..MaxOperations}
Changes       == {[draft EXCEPT !.operations = ops] : draft \in Drafts, ops \in FewOperations}
ColumnsFit(ops, actors) == \A col \in ToSet(ColumnIds) : Len(ColumnData(ops, actors, col)) \in UnsignedNumber
PartsFit(c, actors) ==
    /\ Len(c.message) \in UnsignedNumber /\ Len(c.deps) \in UnsignedNumber /\ Len(actors) \in UnsignedNumber
    /\ Len(Preds(c.operations)) \in SignedNumber /\ ColumnsFit(c.operations, actors)
ChangeFits(c) ==
    /\ PartsFit(c, ActorIdsInChange(c.actor_id, c.operations))
    /\ Len(EncodeChunk(c).bytes) + 2 * MaxSize \in UnsignedNumber

\* The compressor makes at least one byte of it, and says in an int how many.
Deflates(data)    == DeflatedSize(Taken(data)) \in 1..(IntHalf - 1)
ChangeDeflates(c) == Deflates(BodyBytes(FromOldChange(c)))

ASSUME ChangesAssumption ==
    /\ 128 \in UnsignedNumber
    /\ Operations \subseteq OperationType /\ Drafts \subseteq DraftType
    /\ MaxOperations \in Nat /\ MaxOperations \in SignedNumber
    /\ \A c \in Changes : ChangeFits(c) /\ ChangeDeflates(c)

VARIABLES
    cells,  \* a column
    change  \* at most one change, in its old form

vars == <<cells, change>>

Init ==
    /\ cells = <<>>
    /\ change = {} \/ \E draft \in Drafts : change = {draft}

AppendCell ==
    /\ change = {}
    /\ Len(cells) < MaxCells
    /\ \E cell \in {{}} \cup {{v} : v \in CellValues} : cells' = Append(cells, cell)
    /\ UNCHANGED change

AddOperation ==
    \E c \in change :
        /\ Len(c.operations) < MaxOperations
        /\ \E op \in Operations : change' = {[c EXCEPT !.operations = Append(@, op)]}
        /\ UNCHANGED cells

Next == AppendCell \/ AddOperation

Spec == Init /\ [][Next]_vars
-----------------------------------------------------------------------------
(* Properties *)

Decodes(kind, written) ==
    DecodeColumn(kind, EncodeColumn(kind, written), Len(written)) = written

\* Whatever mixture of runs, literal values and nulls a column is, its decoder yields the
\* cells that were appended, and nulls after them; numbers may be next to those at which
\* they take another byte, and the largest there are.
ColumnsRoundTrip ==
    /\ \A kind \in {"unsigned", "delta"} : Decodes(kind, Append(cells, {}))
    /\ Decodes("string", [i \in DOMAIN cells |-> {<<v, v>> : v \in cells[i]}])
    /\ Decodes("boolean", Append([i \in DOMAIN cells |-> {cells[i] # {}}], {FALSE}))

\* A change as its bytes tell it: with the range where its message is.
AsWritten(made, old) == [made EXCEPT !.message = <<made.message[2] - Len(old.message), made.message[2]>>]

LengthTakesOneByte(str) == Len(WriteUnsigned(Len(str))) = 1

\* There is room to inflate it all; there is for all that is stored of the change.
Inflates(data) == Len(data) <= Capacity(DeflatedSize(Taken(data)))
Stored(data, size) == size <= DEFLATE_MIN_SIZE \/ Inflates(data)
ChangeStored(made) == Stored(BodyBytes(made), Len(made.bytes))

RoundTrips(old, made, read) ==
    /\ DecodeChange(made.bytes) = {read}
    /\ DecodeChange(Compressed(made)) = IF ChangeStored(made) THEN {read} ELSE {}
    /\ GetMessage(read) = old.message
    /\ OpsIn(made) = old.operations
    /\ made = read <=> LengthTakesOneByte(old.message)

\* A change decoded from its bytes has the hash, actors, ranges and operations of the change
\* that was made, and its message.  Compressed, it is decoded as the same as long as there is
\* room to inflate it: deflate_decompress gives 128 bytes for each, in an int, and deflate may
\* need less.  If there is not, it is refused by its checksum; it is never taken for another.
\* The change in the memory of its maker is the same as long as the length of its message
\* takes one byte, and no longer: encode_chunk counts on that.
ChangeRoundTrip == \A old \in change : \A made \in {FromOldChange(old)} :
    RoundTrips(old, made, AsWritten(made, old))

\* A change made again from what can be read of it: its operations, message and numbers.
Rebuilt(made) ==
    [actor_id |-> made.actors[1], seq |-> made.seq, start_op |-> made.start_op, time |-> made.time,
     message |-> GetMessage(made), deps |-> made.deps, operations |-> OpsIn(made),
     extra_bytes |-> Slice(made.bytes, made.extra_bytes)]

\* It has the hash of the change it was made from.  Documents rely on it: they keep what can
\* be read of changes, and the hashes of the heads alone.  It fails for what the maker of a
\* change with a long message has in memory: the document saved there does not load.
RebuiltUnchanged == \A old \in change : \A made \in {FromOldChange(old)} :
    \A c \in {made, AsWritten(made, old)} :
        FromOldChange(Rebuilt(c)).hash = made.hash
            <=> c = AsWritten(made, old) \/ LengthTakesOneByte(old.message)

\* A document with a change before this one, and rows for the operations: whom they succeed
\* takes the place of who succeeds them.
RowOf(c, deps) ==
    [actor |-> c.actor_id, seq |-> c.seq, max_op |-> c.start_op + Len(c.operations) - 1,
     time  |-> c.time, message |-> c.message, deps |-> deps, extra_bytes |-> c.extra_bytes]
Earlier(old) == [old EXCEPT !.actor_id = 5, !.seq = 1, !.start_op = 1, !.operations = <<>>, !.message = <<>>]
OpRow(old, op, i) ==
    [id     |-> <<old.start_op + i - 1, old.actor_id>>, obj |-> op.obj, key |-> op.key,
     action |-> op.action, insert |-> op.insert, succ |-> op.pred]
DocumentOf(old) ==
    [actors  |-> SortedSeq(SetToSeq({5} \cup ToSet(ActorIdsInChange(old.actor_id, old.operations))), NumberOrder),
     heads   |-> SortedSeq(old.deps, NumberOrder),
     changes |-> <<RowOf(Earlier(old), <<>>), RowOf(Earlier(old), <<0>>), RowOf(old, <<0, 1>>)>>,
     ops     |-> [i \in DOMAIN old.operations |-> OpRow(old, old.operations[i], i)]]

\* All its columns are stored.
ColumnStored(data) == Stored(data, Len(data))
DocumentStored(doc) ==
    /\ \A col \in ToSet(ChangeColumnIds) : ColumnStored(ChangeColumn(doc, col))
    /\ \A col \in ToSet(OpColumnIds) : ColumnStored(OpColumn(doc, col))

\* A document decoded from its bytes has the same rows, whatever columns are left out because
\* they are empty or deflated because they are long, as long as there is room to inflate them:
\* columns that are repetitive and long come back cut.
DocumentRoundTrip == \A old \in change : \A doc \in {DocumentOf(old)} :
    DocumentStored(doc) => DecodeDocument(EncodeDocument(doc)) = {doc}

WrittenChange(old) == AsWritten(FromOldChange(old), old)
FirstAndLater(old) == [i \in 1..2 |-> WrittenChange(IF i = 1 THEN [old EXCEPT !.seq = 1, !.operations = <<>>] ELSE old)]

Complete(written, file, n) ==
    CASE n = Len(file) -> written
      [] Len(written[1].bytes) <= n /\ n < Len(file) -> SubSeq(written, 1, 1)
      [] n < Len(written[1].bytes) -> <<>>

KeepsPrefix(written, file) ==
    \A n \in 0..Len(file) : \A loaded \in {LoadBlocks(SubSeq(file, 1, n))} :
        /\ loaded \subseteq {Complete(written, file, n)}
        /\ n \in {Len(written[1].bytes), Len(written[1].bytes) + 3} => loaded # {}
        /\ n = Len(file) => (loaded # {} <=> ChangeStored(written[2]))

\* A file with two blocks, cut anywhere, yields the changes of its complete blocks or is
\* refused; it never yields a change that was not written.  It is not refused if it is cut
\* between the blocks or within the first bytes of the second; complete, it is not as long as
\* there is room to inflate the second.
TornFileKeepsPrefix == \A old \in change : \A written \in {FirstAndLater(old)} :
    Len(old.operations) <= 1 => KeepsPrefix(written, written[1].bytes \o Compressed(written[2]))
=============================================================================
