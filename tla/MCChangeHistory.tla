--------------------------- MODULE MCChangeHistory ---------------------------
(***************************************************************************)
(* Small instances of ChangeHistory.                                       *)
(***************************************************************************)
EXTENDS ChangeHistory, TLC

\* Every document has an actor id of its own, as new documents and forks do.
OwnActor == [d \in Doc |-> d]

\* All documents share one actor id, as those json_to_automerge makes do.
OneActor == [d \in Doc |-> CHOOSE a \in Actor : TRUE]

\* Hashes are interchangeable: nothing in ChangeHistory depends on their order.
HashSymmetry == Permutations(Hash)

\* Calls on different documents touch different variables, so that their steps
\* commute: it is enough to run one call at a time.
OneCallAtATime == Cardinality({d \in Doc : call[d] # Idle}) <= 1
SpecOneCallAtATime == Init /\ [][Next /\ OneCallAtATime']_vars
=============================================================================
