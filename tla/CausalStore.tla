----------------------------- MODULE CausalStore -----------------------------
(***************************************************************************)
(* What an automerge document promises its callers about changes, with     *)
(* nothing of how it keeps the promise: every document holds a set of      *)
(* changes, a change is held only with everything it depends on, and a     *)
(* document never lets go of a change.  ChangeHistory implements this.     *)
(***************************************************************************)
EXTENDS FiniteSets

CONSTANTS Doc,      \* the documents (objects of type Automerge)
          Hash      \* identities of changes

VARIABLES parents,  \* the changes made so far: hash -> hashes it depends on
          applied   \* document -> the changes it holds

vars == <<parents, applied>>

Made == DOMAIN parents

Init == /\ parents \in [{} -> SUBSET Hash]
        /\ applied = [d \in Doc |-> {}]

\* Document d makes a new change that depends on changes d holds.
Create(d, h) ==
    /\ h \notin Made
    /\ \E P \in SUBSET applied[d] :
          parents' = [x \in Made \cup {h} |-> IF x = h THEN P ELSE parents[x]]
    /\ applied' = [applied EXCEPT ![d] = @ \cup {h}]

\* Document d takes in a change somebody made.
Deliver(d, h) ==
    /\ h \in Made
    /\ parents[h] \subseteq applied[d]
    /\ applied' = [applied EXCEPT ![d] = @ \cup {h}]
    /\ UNCHANGED parents

\* A document that held nothing becomes a copy of document d.
Copy(d, e) ==
    /\ applied[e] = {}
    /\ applied' = [applied EXCEPT ![e] = applied[d]]
    /\ UNCHANGED parents

Next == \E d \in Doc : \/ \E h \in Hash : Create(d, h) \/ Deliver(d, h)
                       \/ \E e \in Doc : Copy(d, e)

Spec == Init /\ [][Next]_vars
-----------------------------------------------------------------------------
\* A document that holds a change holds everything the change depends on.
CausallyClosed ==
    \A d \in Doc : \A h \in applied[d] : h \in Made /\ parents[h] \subseteq applied[d]
=============================================================================
