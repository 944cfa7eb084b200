------------------------------- MODULE MCOpTree -------------------------------
(***************************************************************************)
(* Trees grown in the first half and at the end.                           *)
(***************************************************************************)
EXTENDS OpTree

Ends(length) == {length \div 3, length}
=============================================================================
