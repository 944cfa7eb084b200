------------------------------ MODULE MCJsonDoc ------------------------------
(***************************************************************************)
(* Maps and lists within each other.                                       *)
(***************************************************************************)
EXTENDS JsonDoc

Paths == {<<>>, <<"">>, <<"a">>, <<"0">>, <<"a", "a">>, <<"a", "0">>, <<"a", "1">>, <<"a", "01">>, <<"a", "a", "1">>}

Numbers    == [t \in {"0", "1", "01"} |-> IF t = "0" THEN 0 ELSE 1]
Canonicals == {"0", "1"}

\* 3 is too large for a signed number.
SomeValues == {
    Null, JsonNumber(3),
    List(<<JsonNumber(1), Null>>),
    Map([k \in {"a"} |-> List(<<JsonNumber(1)>>)]),
    Map([k \in {"", "a"} |-> JsonNumber(1)])}

\* Of documents that json_doc does not follow, only the smaller are continued.
Continued == apart => Len(objects) < MaxObjects - 1
=============================================================================
