------------------------------- MODULE Columns -------------------------------
(***************************************************************************)
(* A column of a chunk: cells that are run-length encoded, as they are, as *)
(* differences or as Booleans.                                             *)
(*                                                                         *)
(* A cell is a set of at most one value, null if it is empty.  Decoders    *)
(* are given what encoders wrote.                                          *)
(***************************************************************************)
EXTENDS Leb128

\* An item of a run.
WriteItem(kind, item) ==
    CASE kind = "unsigned" -> WriteUnsigned(item)
      [] kind = "signed"   -> WriteSigned(item)
      [] kind = "string"   -> WriteUnsigned(Len(item)) \o item

ReadString(bytes, len) ==
    [value |-> SubSeq(bytes, len.size + 1, len.size + len.value), size |-> len.size + len.value]

ReadItem(kind, bytes) ==
    CASE kind = "unsigned" -> ReadUnsigned(bytes)
      [] kind = "signed"   -> ReadSigned(bytes)
      [] kind = "string"   -> ReadString(bytes, ReadUnsigned(bytes))

After(bytes, read) == SubSeq(bytes, read.size + 1, Len(bytes))
-----------------------------------------------------------------------------
(* RleEncoder: what it wrote and the run it has not written yet; a LONE_VAL is a literal *)
(* run before which nothing else is literal                                              *)

NewRle == [tag |-> "EMPTY", size |-> 0, value |-> {}, literals |-> <<>>, buf |-> <<>>]

FlushRun(kind, e)     == WriteSigned(e.size) \o WriteItem(kind, e.value)
FlushNullRun(e)       == WriteSigned(0) \o WriteUnsigned(e.size)
FlushLitRun(kind, vs) ==
    LET buf[i \in 0..Len(vs)] == IF i = 0 THEN WriteSigned(-Len(vs)) ELSE buf[i - 1] \o WriteItem(kind, vs[i])
    IN buf[Len(vs)]

Flushed(kind, e) ==
    e.buf \o CASE e.tag = "EMPTY"       -> <<>>
               [] e.tag = "NULL_RUN"    -> FlushNullRun(e)
               [] e.tag = "RUN"         -> FlushRun(kind, e)
               [] e.tag = "LITERAL_RUN" -> FlushLitRun(kind, Append(e.literals, e.value))

AppendNull(kind, e) ==
    IF e.tag = "NULL_RUN" THEN [e EXCEPT !.size = @ + 1]
    ELSE [NewRle EXCEPT !.tag = "NULL_RUN", !.size = 1, !.buf = Flushed(kind, e)]

\* The first of the equal values is left in the literal run, too.
BadAppendValue(kind, e, value) ==
    CASE e.tag = "RUN" /\ e.value = value -> [e EXCEPT !.size = @ + 1]
      [] e.tag = "LITERAL_RUN" /\ e.value # value ->
            [e EXCEPT !.literals = Append(@, e.value), !.value = value]
      [] e.tag = "LITERAL_RUN" /\ e.value = value ->
            [NewRle EXCEPT !.tag = "RUN", !.size = 2, !.value = value,
                           !.buf = IF e.literals = <<>> THEN e.buf ELSE Flushed(kind, e)]
      [] OTHER -> [NewRle EXCEPT !.tag = "LITERAL_RUN", !.value = value, !.buf = Flushed(kind, e)]

AppendValue(kind, e, value) ==
    CASE e.tag = "RUN" /\ e.value = value -> [e EXCEPT !.size = @ + 1]
      [] e.tag = "LITERAL_RUN" /\ e.value # value ->
            [e EXCEPT !.literals = Append(@, e.value), !.value = value]
      [] e.tag = "LITERAL_RUN" /\ e.value = value ->
            [NewRle EXCEPT !.tag = "RUN", !.size = 2, !.value = value,
                           !.buf = IF e.literals = <<>> THEN e.buf ELSE e.buf \o FlushLitRun(kind, e.literals)]
      [] OTHER -> [NewRle EXCEPT !.tag = "LITERAL_RUN", !.value = value, !.buf = Flushed(kind, e)]

\* A column of nulls alone is empty.
FinishRle(kind, e) == IF e.tag = "NULL_RUN" /\ e.buf = <<>> THEN <<>> ELSE Flushed(kind, e)

TheOne(cell) == CHOOSE value \in cell : TRUE

Appended(kind, e, cell) == IF cell = {} THEN AppendNull(kind, e) ELSE AppendValue(kind, e, TheOne(cell))
EncodeRle(kind, cells) ==
    LET e[i \in 0..Len(cells)] == IF i = 0 THEN NewRle ELSE Appended(kind, e[i - 1], cells[i])
    IN FinishRle(kind, e[Len(cells)])
-----------------------------------------------------------------------------
(* RleDecoder: past the last run there are only nulls *)

Decoder == [bytes : Seq(Nat), last_value : SUBSET (Int \cup Seq(Nat)), count : Nat, literal : BOOLEAN]

RleDecoder(bytes) == [bytes |-> bytes, last_value |-> {}, count |-> 0, literal |-> FALSE]

RunOfValue(rest, count, item) ==
    [bytes |-> After(rest, item), count |-> count, last_value |-> {item.value}, literal |-> FALSE]
RunOfNulls(rest, count) ==
    [bytes |-> After(rest, count), count |-> count.value, last_value |-> {}, literal |-> FALSE]
RunOfLiterals(rest, count) == [bytes |-> rest, count |-> count, last_value |-> {}, literal |-> TRUE]

\* The run that begins with this number.
Run(kind, number, rest) ==
    CASE number > 0 -> RunOfValue(rest, number, ReadItem(kind, rest))
      [] number < 0 -> RunOfLiterals(rest, -number)
      [] number = 0 -> RunOfNulls(rest, ReadUnsigned(rest))
RunAt(kind, bytes, number) == Run(kind, number.value, After(bytes, number))

\* The loop for the next run that is not empty; each turn but the last takes a byte at least.
Turn(kind, d) ==
    IF d.count # 0 \/ d.bytes = <<>> THEN d ELSE RunAt(kind, d.bytes, ReadSigned(d.bytes))
NextRun(kind, d) ==
    LET turn[n \in 0..Len(d.bytes)] == IF n = 0 THEN d ELSE Turn(kind, turn[n - 1]) IN turn[Len(d.bytes)]

\* The next cell is the decoder's last_value.
TakeLiteral(d, item) ==
    [d EXCEPT !.count = @ - 1, !.bytes = After(@, item), !.last_value = {item.value}]
TakeCell(kind, d) ==
    CASE d.count = 0               -> [d EXCEPT !.last_value = {}]
      [] d.count # 0 /\ d.literal  -> TakeLiteral(d, ReadItem(kind, d.bytes))
      [] d.count # 0 /\ ~d.literal -> [d EXCEPT !.count = @ - 1]
NextCell(kind, d) == TakeCell(kind, NextRun(kind, d))

\* The first n cells.
DecodeRle(kind, bytes, n) ==
    LET d[i \in 0..n] == IF i = 0 THEN RleDecoder(bytes) ELSE NextCell(kind, d[i - 1])
    IN [i \in 1..n |-> d[i].last_value]
-----------------------------------------------------------------------------
(* DeltaEncoder, DeltaDecoder: a value is the difference to the one before it, 0 at first *)

Differences(cells) ==
    LET absolute[i \in 0..Len(cells)] ==
            IF i = 0 THEN 0 ELSE IF cells[i] = {} THEN absolute[i - 1] ELSE TheOne(cells[i])
    IN [i \in DOMAIN cells |-> {ToSigned(value) - ToSigned(absolute[i - 1]) : value \in cells[i]}]
EncodeDelta(cells) == EncodeRle("signed", Differences(cells))

AddedUp(cells) ==
    LET absolute[i \in 0..Len(cells)] ==
            IF i = 0 THEN 0 ELSE IF cells[i] = {} THEN absolute[i - 1]
                                 ELSE ToUnsigned(absolute[i - 1] + TheOne(cells[i]))
    IN [i \in DOMAIN cells |-> IF cells[i] = {} THEN {} ELSE {absolute[i]}]
DecodeDelta(bytes, n) == AddedUp(DecodeRle("signed", bytes, n))
-----------------------------------------------------------------------------
(* BooleanEncoder, BooleanDecoder: the lengths of runs of false, true, false, and so on *)

CountBoolean(e, cell) ==
    IF TheOne(cell) = e.last THEN [e EXCEPT !.count = @ + 1]
    ELSE [last |-> TheOne(cell), count |-> 1, buf |-> e.buf \o WriteUnsigned(e.count)]
FinishBooleans(e) == IF e.count > 0 THEN e.buf \o WriteUnsigned(e.count) ELSE e.buf
EncodeBooleans(cells) ==
    LET e[i \in 0..Len(cells)] ==
            IF i = 0 THEN [last |-> FALSE, count |-> 0, buf |-> <<>>] ELSE CountBoolean(e[i - 1], cells[i])
    IN FinishBooleans(e[Len(cells)])

\* Past the last run everything is false.
BooleanRun(d, count) ==
    [d EXCEPT !.bytes = After(@, count), !.count = count.value, !.last_value = ~@]
BooleanTurn(d) ==
    IF d.count # 0 \/ d.bytes = <<>> THEN d ELSE BooleanRun(d, ReadUnsigned(d.bytes))
NextBooleanRun(d) ==
    LET turn[n \in 0..Len(d.bytes)] == IF n = 0 THEN d ELSE BooleanTurn(turn[n - 1]) IN turn[Len(d.bytes)]
TakeBoolean(d) ==
    IF d.count = 0 THEN [d EXCEPT !.cell = {FALSE}]
    ELSE [d EXCEPT !.count = @ - 1, !.cell = {d.last_value}]
NextBoolean(d) == TakeBoolean(NextBooleanRun(d))

BooleanDecoder(bytes) == [bytes |-> bytes, last_value |-> TRUE, count |-> 0, cell |-> {}]
DecodeBooleans(bytes, n) ==
    LET d[i \in 0..n] == IF i = 0 THEN BooleanDecoder(bytes) ELSE NextBoolean(d[i - 1])
    IN [i \in 1..n |-> d[i].cell]
-----------------------------------------------------------------------------
EncodeColumn(kind, cells) ==
    CASE kind = "boolean" -> EncodeBooleans(cells)
      [] kind = "delta"   -> EncodeDelta(cells)
      [] OTHER            -> EncodeRle(kind, cells)

DecodeColumn(kind, bytes, n) ==
    CASE kind = "boolean" -> DecodeBooleans(bytes, n)
      [] kind = "delta"   -> DecodeDelta(bytes, n)
      [] OTHER            -> DecodeRle(kind, bytes, n)
=============================================================================
