------------------------------- MODULE MCOpSet -------------------------------
(***************************************************************************)
(* Small instances of Document: an object with a few operations, edited    *)
(* and exchanged by two actors.                                            *)
(***************************************************************************)
EXTENDS Document

Put(value)       == [tag |-> "put", value |-> value]
Counter(value)   == [tag |-> "counter", value |-> value]
Increment(value) == [tag |-> "increment", value |-> value]
Delete           == [tag |-> "delete", value |-> 0]

PutsAndDeletes == {Put(1), Delete}
Counting       == {Counter(5), Increment(1), Delete}
InsertsOnly    == {}

\* A map with two keys and a list of three elements, one of them a counter.
Small(k) ==
    IF k = "map" THEN <<[tag |-> "map", at |-> 1, action |-> Put(0)],
                        [tag |-> "map", at |-> 2, action |-> Counter(5)]>>
    ELSE <<[tag |-> "insert", at |-> 0, action |-> Put(0)],
           [tag |-> "insert", at |-> 1, action |-> Counter(5)],
           [tag |-> "insert", at |-> 2, action |-> Put(0)]>>
Empty(k) == <<>>
=============================================================================
