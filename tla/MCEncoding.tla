------------------------------ MODULE MCEncoding ------------------------------
(***************************************************************************)
(* Operations of every kind, by three actors, on maps and lists.           *)
(***************************************************************************)
EXTENDS Encoding

Name  == [tag |-> "map", str |-> <<110>>]
Title == [tag |-> "map", str |-> <<116, 105>>]
AtHead == [tag |-> "head"]
Element(id) == [tag |-> "seq", id |-> id]

Set(type, data) == [tag |-> "set", value |-> [type |-> type, data |-> data]]
Plain(tag) == [tag |-> tag, value |-> NullValue]

Op(action, obj, key, pred, insert) ==
    [action |-> action, obj |-> obj, key |-> key, pred |-> pred, insert |-> insert]

List == {<<1, 3>>}

\* The column with either of these texts is deflated.  There is room to inflate the first, and
\* two of them as long as the int does not overflow; there is none for the second.
LongText     == [i \in 1..45 |-> i]
RepeatedText == [i \in 1..120 |-> 97]

\* Runs of equal bytes take one byte each.
RunsOf(bytes) == 1 + Cardinality({i \in 2..Len(bytes) : bytes[i] # bytes[i - 1]})

AllOperations == {
    Op(Set("str", LongText), {}, Name, <<>>, FALSE),
    Op(Set("counter", -1024), {}, Title, <<<<1, 2>>, <<2, 1>>>>, FALSE),
    Op([tag |-> "inc", value |-> [type |-> "int", data |-> 1023]], {}, Title, <<<<9, 1>>>>, FALSE),
    Op(Plain("del"), {}, Name, <<<<3, 1>>, <<3, 3>>>>, FALSE),
    Op(Plain("make_list"), {}, Name, <<>>, FALSE),
    Op(Set("true", 0), List, AtHead, <<>>, TRUE),
    Op(Set("uint", 2047), List, Element(<<40, 2>>), <<>>, TRUE),
    Op(Set("bytes", RepeatedText), List, Element(<<4, 3>>), <<<<4, 3>>>>, FALSE)}

Draft(message) ==
    [actor_id |-> 2, seq |-> 2, start_op |-> 41, time |-> -5, message |-> message, deps |-> <<9, 7>>,
     operations |-> <<>>, extra_bytes |-> <<1>>]

\* None, a short message, and one whose length takes two bytes.
AllDrafts == {Draft(<<>>), Draft(<<111, 107>>), Draft(<<100, 111, 110, 101>>)}
=============================================================================
