--------------------------- MODULE MCChangeQueries ---------------------------
(***************************************************************************)
(* Small instances of ChangeQueries.                                       *)
(***************************************************************************)
EXTENDS ChangeQueries, TLC

OwnActor == [d \in Doc |-> d]

\* One document at a time has a transaction open or a call under way.  One whose
\* transaction is open receives nothing here, so that what the transaction becomes does
\* not depend on what the other document does meanwhile.
OneAtATime == Cardinality({d \in Doc : call[d] # Idle \/ tx[d] # NoTx}) <= 1
SpecOneAtATime == Init /\ [][Next /\ OneAtATime']_vars
=============================================================================
