-------------------------- MODULE ChangeHistoryProofs --------------------------
(***************************************************************************)
(* Proofs about ChangeHistory, for every number of documents, actors,      *)
(* changes and operations.                                                 *)
(***************************************************************************)
EXTENDS ChangeHistory, SequenceTheorems, FiniteSetTheorems, TLAPS

-----------------------------------------------------------------------------
(* Types *)

\* Appending to a sequence keeps the positions it had and its elements.
LEMMA AppendFacts ==
    ASSUME NEW S, NEW T, S \subseteq T, NEW s \in Seq(S), NEW x \in T
    PROVE  /\ Append(s, x) \in Seq(T)
           /\ Len(Append(s, x)) = Len(s) + 1
           /\ DOMAIN Append(s, x) = DOMAIN s \cup {Len(s) + 1}
           /\ DOMAIN s = 1..Len(s)
           /\ Len(s) \in Nat
           /\ \A i \in DOMAIN s : Append(s, x)[i] = s[i]
           /\ Append(s, x)[Len(s) + 1] = x
<1>1. s \in Seq(T)
  BY SeqMonotonic
<1>2. /\ Len(s) \in Nat
      /\ DOMAIN s = 1..Len(s)
  BY LenProperties
<1>3. /\ Append(s, x) \in Seq(T)
      /\ Len(Append(s, x)) = Len(s) + 1
      /\ \A i \in 1..Len(s) : Append(s, x)[i] = s[i]
      /\ Append(s, x)[Len(s) + 1] = x
  BY <1>1, AppendProperties
<1>4. DOMAIN Append(s, x) = 1..(Len(s) + 1)
  BY <1>3, LenProperties
<1>5. 1..(Len(s) + 1) = 1..Len(s) \cup {Len(s) + 1}
  BY <1>2
<1> QED
  BY <1>2, <1>3, <1>4, <1>5

\* update_history keeps the types, whether the change is new or was received.
LEMMA UpdateHistoryType ==
    ASSUME TypeOK,
           NEW K, Made \subseteq K, NEW h \in K,
           NEW d \in Doc, NEW c \in Change,
           UpdateHistory(d, h, c)
    PROVE  /\ histroy' \in [Doc -> Seq(K)]
           /\ deps' \in [Doc -> SUBSET K]
           /\ states' \in [Doc -> [Actor -> Seq(Nat)]]
           /\ \A e \in Doc : \A a \in Actor : states'[e][a] \in Seq(DOMAIN histroy'[e])
           /\ max_op' \in [Doc -> Nat]
<1> USE DEF TypeOK, UpdateHistory
<1>1. \A e \in Doc : histroy[e] \in Seq(Made) /\ histroy[e] \in Seq(K)
  BY SeqMonotonic
<1>2. Len(histroy[d]) \in Nat /\ Append(histroy[d], h) \in Seq(K)
  BY <1>1, AppendFacts
<1>3. histroy' \in [Doc -> Seq(K)]
  BY <1>1, <1>2
<1>4. deps' \in [Doc -> SUBSET K]
  BY DEF Change
<1>5. c.actor \in Actor /\ c.start_op \in Nat \ {0} /\ c.num_ops \in Nat
  BY DEF Change
<1>6. states[d][c.actor] \in Seq(Nat)
  BY <1>5
<1>7. Append(states[d][c.actor], Len(histroy[d]) + 1) \in Seq(Nat)
  BY <1>2, <1>6, AppendProperties
<1>8. states' \in [Doc -> [Actor -> Seq(Nat)]]
  BY <1>5, <1>7
<1>9. ASSUME NEW e \in Doc, NEW a \in Actor
      PROVE  states'[e][a] \in Seq(DOMAIN histroy'[e])
  <2>1. CASE e = d /\ a = c.actor
    <3>1. DOMAIN histroy'[d] = DOMAIN histroy[d] \cup {Len(histroy[d]) + 1}
      BY <1>1, AppendFacts
    <3>2. states[d][a] \in Seq(DOMAIN histroy[d])
      OBVIOUS
    <3>3. Append(states[d][a], Len(histroy[d]) + 1) \in Seq(DOMAIN histroy'[d])
      BY <3>1, <3>2, AppendFacts
    <3> QED
      BY <2>1, <3>3
  <2>2. CASE e = d /\ a # c.actor
    <3>1. DOMAIN histroy[d] \subseteq DOMAIN histroy'[d]
      BY <1>1, AppendFacts
    <3>2. states'[d][a] = states[d][a]
      BY <2>2
    <3> QED
      BY <2>2, <3>1, <3>2, SeqMonotonic
  <2>3. CASE e # d
    <3>1. states'[e] = states[e] /\ histroy'[e] = histroy[e]
      BY <2>3
    <3> QED
      BY <3>1
  <2> QED
    BY <2>1, <2>2, <2>3
<1>10. LastOp(c) \in Nat
  BY <1>5 DEF LastOp
<1>11. max_op' \in [Doc -> Nat]
  BY <1>10 DEF Larger
<1> QED
  BY <1>3, <1>4, <1>8, <1>9, <1>11

\* What a transaction records of a document has its type.
LEMMA TransactionInnerType ==
    ASSUME TypeOK, ConstantsAssumption, NEW d \in Doc
    PROVE  TransactionInner(d) \in Transaction /\ LastLocalHash(d) \subseteq History(d)
<1> DEFINE own == states[d][ActorOf[d]]
<1>1. ActorOf[d] \in Actor
  BY DEF ConstantsAssumption
<1>2. own \in Seq(DOMAIN histroy[d]) /\ histroy[d] \in Seq(Made)
  BY <1>1 DEF TypeOK
<1>3. Len(own) \in Nat /\ (Len(own) # 0 => own[Len(own)] \in DOMAIN histroy[d])
  BY <1>2, LenProperties, ElementOfSeq
<1>4. LastLocalHash(d) \subseteq History(d)
  BY <1>3 DEF LastLocalHash, History, Range
<1>5. History(d) \subseteq Hash
  BY <1>2, RangeOfSeq DEF History, TypeOK
<1>6. deps[d] \subseteq Hash /\ max_op[d] \in Nat
  BY DEF TypeOK
<1> QED
  BY <1>3, <1>4, <1>5, <1>6 DEF TransactionInner, Transaction

\* Removing a change from the queue keeps the type and adds nothing.
LEMMA SwapRemoveType ==
    ASSUME NEW S, NEW q \in Seq(S), NEW i \in DOMAIN q
    PROVE  /\ SwapRemove(q, i) \in Seq(S)
           /\ Range(SwapRemove(q, i)) \subseteq Range(q)
           /\ Range(q) \subseteq Range(SwapRemove(q, i)) \cup {q[i]}
<1> DEFINE r == SwapRemove(q, i)
<1>1. DOMAIN q = 1..Len(q) /\ Len(q) \in Nat /\ i \in 1..Len(q)
  BY LenProperties
<1>2. \A j \in 1..Len(q) : q[j] \in S
  BY <1>1, ElementOfSeq
<1>3. DOMAIN r = 1..(Len(q) - 1) /\ Len(q) - 1 \in Nat
  BY <1>1 DEF SwapRemove
<1>4. \A j \in 1..(Len(q) - 1) : r[j] = IF j = i THEN q[Len(q)] ELSE q[j]
  BY DEF SwapRemove
<1>5. r \in [1..(Len(q) - 1) -> S]
  BY <1>1, <1>2 DEF SwapRemove
<1>6. r \in Seq(S)
  BY <1>3, <1>5, SeqDef
<1>7. Range(r) \subseteq Range(q)
  BY <1>1, <1>3, <1>4 DEF Range
<1>8. ASSUME NEW j \in DOMAIN q, j # i
      PROVE  q[j] \in Range(r)
  <2>1. CASE j < Len(q)
    <3>1. j \in 1..(Len(q) - 1) /\ r[j] = q[j]
      BY <1>1, <1>4, <1>8, <2>1
    <3> QED
      BY <1>3, <3>1 DEF Range
  <2>2. CASE j = Len(q)
    <3>1. i \in 1..(Len(q) - 1) /\ r[i] = q[Len(q)]
      BY <1>1, <1>4, <1>8, <2>2
    <3> QED
      BY <1>3, <2>2, <3>1 DEF Range
  <2> QED
    BY <1>1, <2>1, <2>2
<1>9. Range(q) \subseteq Range(r) \cup {q[i]}
  BY <1>8 DEF Range
<1> QED
  BY <1>6, <1>7, <1>9

\* The first element of a sequence, and the rest.
LEMMA TailFacts ==
    ASSUME NEW S, NEW b \in Seq(S), b # <<>>
    PROVE  /\ Head(b) \in S
           /\ Tail(b) \in Seq(S)
           /\ Len(b) \in Nat \ {0}
           /\ Len(Tail(b)) = Len(b) - 1
           /\ Range(b) = Range(Tail(b)) \cup {Head(b)}
<1>1. /\ Head(b) \in S /\ Tail(b) \in Seq(S)
      /\ Len(Tail(b)) = Len(b) - 1
      /\ \A i \in 1..Len(Tail(b)) : Tail(b)[i] = b[i + 1]
      /\ Len(b) \in Nat \ {0}
      /\ DOMAIN b = 1..Len(b)
      /\ Head(b) = b[1]
  BY HeadTailProperties, LenProperties, EmptySeq
<1>2. DOMAIN Tail(b) = 1..(Len(b) - 1)
  BY <1>1, LenProperties
<1>3. Range(b) \subseteq Range(Tail(b)) \cup {Head(b)}
  <2> SUFFICES ASSUME NEW i \in 1..Len(b), i # 1
               PROVE  b[i] \in Range(Tail(b))
    BY <1>1 DEF Range
  <2>1. i - 1 \in 1..(Len(b) - 1) /\ b[i] = Tail(b)[i - 1]
    BY <1>1
  <2> QED
    BY <1>2, <2>1 DEF Range
<1>4. Range(Tail(b)) \subseteq Range(b)
  <2> SUFFICES ASSUME NEW i \in 1..(Len(b) - 1)
               PROVE  Tail(b)[i] \in Range(b)
    BY <1>2 DEF Range
  <2>1. i + 1 \in 1..Len(b) /\ Tail(b)[i] = b[i + 1]
    BY <1>1
  <2> QED
    BY <1>1, <2>1 DEF Range
<1>5. Head(b) \in Range(b)
  BY <1>1 DEF Range
<1> QED
  BY <1>1, <1>3, <1>4, <1>5

\* The change an iteration of apply_changes_with looks at, and what is left of the batch.
LEMMA NextReceivedType ==
    ASSUME TypeOK, NEW d \in Doc, Applying(d)
    PROVE  /\ NextReceived(d) \in Made
           /\ Tail(call[d].batch) \in Seq(Made)
           /\ changes[NextReceived(d)] \in Change
           /\ Range(call[d].batch) = Range(Tail(call[d].batch)) \cup {NextReceived(d)}
<1>1. call[d].batch \in Seq(Made) /\ call[d].batch # <<>>
  BY DEF TypeOK, Applying
<1>2. /\ NextReceived(d) \in Made /\ Tail(call[d].batch) \in Seq(Made)
      /\ Range(call[d].batch) = Range(Tail(call[d].batch)) \cup {NextReceived(d)}
  BY <1>1, TailFacts DEF NextReceived
<1> QED
  BY <1>2 DEF TypeOK

\* The initial state has the type.
LEMMA TypeInit ==
    ASSUME ConstantsAssumption, Init
    PROVE  TypeOK
<1>1. Made = {}
  BY DEF Init, Made
<1>2. \A S : <<>> \in Seq(S)
  BY EmptySeq
<1> QED
  BY <1>1, <1>2 DEF Init, TypeOK, ConstantsAssumption, Idle

\* Accepting a batch of changes keeps the type.
LEMMA TypeReceive ==
    ASSUME TypeOK, NEW d \in Doc, NEW b \in Seq(Made), Receive(d, b), live' \subseteq Doc
    PROVE  TypeOK'
BY DEF TypeOK, Receive, Made

\* Every step keeps the type.
LEMMA TypeStep ==
    ASSUME ConstantsAssumption, TypeOK, [Next]_vars
    PROVE  TypeOK'
<1>1. ASSUME NEW d \in Doc, NEW n \in {0, 1}, Edit(d, n)
      PROVE  TypeOK'
  <2> DEFINE t == IF tx[d] = NoTx THEN TransactionInner(d) ELSE tx[d]
  <2>1. t \in Transaction
    BY TransactionInnerType DEF TypeOK
  <2>2. tx' = [tx EXCEPT ![d] = [t EXCEPT !.pending = @ + n]]
    BY <1>1 DEF Edit
  <2> HIDE DEF t
  <2>3. [t EXCEPT !.pending = @ + n] \in Transaction
    BY <2>1 DEF Transaction
  <2>4. tx' \in [Doc -> Transaction \cup {NoTx}]
    BY <2>2, <2>3 DEF TypeOK
  <2> QED
    BY <1>1, <2>4 DEF Edit, TypeOK, docVars, Made
<1>2. ASSUME NEW d \in Doc, NEW h \in Hash, Commit(d, h)
      PROVE  TypeOK'
  <2> DEFINE t == tx[d]
             c == [actor |-> ActorOf[t.doc], seq |-> t.seq, start_op |-> t.start_op,
                   num_ops |-> t.pending, deps |-> t.deps]
             K == Made \cup {h}
  <2>1. t \in Transaction
    BY <1>2 DEF Commit, TypeOK
  <2>2. c \in Change /\ t.doc \in Doc
    BY <2>1 DEF Transaction, Change, ConstantsAssumption
  <2>3. /\ UpdateHistory(t.doc, h, c)
        /\ changes' = [x \in K |-> IF x = h THEN c ELSE changes[x]]
        /\ tx' = [tx EXCEPT ![d] = NoTx]
        /\ UNCHANGED <<live, queue, call>>
    BY <1>2 DEF Commit
  <2>4. Made' = K /\ changes' \in [K -> Change] /\ K \subseteq Hash
    BY <2>2, <2>3 DEF TypeOK, Made
  <2>. Made \subseteq K /\ h \in K
    OBVIOUS
  <2> HIDE DEF c, t, K
  <2>5. /\ histroy' \in [Doc -> Seq(K)]
        /\ deps' \in [Doc -> SUBSET K]
        /\ states' \in [Doc -> [Actor -> Seq(Nat)]]
        /\ \A e \in Doc : \A a \in Actor : states'[e][a] \in Seq(DOMAIN histroy'[e])
        /\ max_op' \in [Doc -> Nat]
    BY <2>2, <2>3, UpdateHistoryType
  <2>6. \A s \in Seq(Made) : s \in Seq(K)
    BY SeqMonotonic
  <2>7. /\ queue' \in [Doc -> Seq(K)]
        /\ call' \in [Doc -> [phase : {"idle", "apply", "drain"}, batch : Seq(K)]]
    BY <2>3, <2>6 DEF TypeOK
  <2>8. live' \in SUBSET Doc /\ tx' \in [Doc -> Transaction \cup {NoTx}]
    BY <2>3 DEF TypeOK
  <2> QED
    BY <2>4, <2>5, <2>7, <2>8 DEF TypeOK
<1>3. ASSUME NEW d \in Doc, ApplyChanges(d)
      PROVE  TypeOK'
  <2>1. PICK b \in Batches : Receive(d, b)
    BY <1>3 DEF ApplyChanges
  <2>2. b \in Seq(Made)
    <3>1. PICK n \in 1..MaxBatch : b \in [1..n -> Made]
      BY DEF Batches
    <3>2. n \in Nat
      BY DEF ConstantsAssumption
    <3> QED
      BY <3>1, <3>2, SeqDef
  <2> QED
    BY <1>3, <2>1, <2>2, TypeReceive DEF ApplyChanges, TypeOK
<1>4. ASSUME NEW d \in Doc, NEW o \in Doc, Merge(d, o)
      PROVE  TypeOK'
  <2> DEFINE added == ChangesAdded(d, o)
  <2>1. PICK b \in [1..Cardinality(added) -> added] : Range(b) = added /\ Receive(d, b)
    BY <1>4 DEF Merge
  <2>2. histroy[o] \in Seq(Made)
    BY DEF TypeOK
  <2>3. added \subseteq Made
    BY <2>2, RangeOfSeq DEF ChangesAdded, History
  <2>4. IsFiniteSet(added)
    <3>1. DOMAIN histroy[o] = 1..Len(histroy[o]) /\ Len(histroy[o]) \in Nat
      BY <2>2, LenProperties
    <3>2. IsFiniteSet(DOMAIN histroy[o])
      BY <3>1, FS_Interval
    <3>3. histroy[o] \in Surjection(DOMAIN histroy[o], History(o))
      BY <2>2, <3>1, LenProperties DEF Surjection, History, Range
    <3>4. IsFiniteSet(History(o))
      BY <3>2, <3>3, FS_Surjection
    <3> QED
      BY <3>4, FS_Subset DEF ChangesAdded
  <2>5. Cardinality(added) \in Nat
    BY <2>4, FS_CardinalityType
  <2>6. b \in Seq(Made)
    BY <2>1, <2>3, <2>5, SeqDef
  <2> QED
    BY <1>4, <2>1, <2>6, TypeReceive DEF Merge, TypeOK
<1>5. ASSUME NEW d \in Doc, SkipKnown(d)
      PROVE  TypeOK'
  BY <1>5, NextReceivedType DEF SkipKnown, Advance, TypeOK, docVars, Made
<1>6. ASSUME NEW d \in Doc, RejectDuplicateSeq(d)
      PROVE  TypeOK'
  BY <1>6, EmptySeq DEF RejectDuplicateSeq, Idle, TypeOK, docVars, Made
<1>7. ASSUME NEW d \in Doc, ApplyReady(d)
      PROVE  TypeOK'
  <2>1. NextReceived(d) \in Made /\ changes[NextReceived(d)] \in Change
    BY <1>7, NextReceivedType DEF ApplyReady
  <2>2. call' \in [Doc -> [phase : {"idle", "apply", "drain"}, batch : Seq(Made)]]
    BY <1>7, NextReceivedType DEF ApplyReady, Advance, TypeOK
  <2>3. Made' = Made /\ UpdateHistory(d, NextReceived(d), changes[NextReceived(d)])
    BY <1>7 DEF ApplyReady, Made
  <2>4. /\ histroy' \in [Doc -> Seq(Made)]
        /\ deps' \in [Doc -> SUBSET Made]
        /\ states' \in [Doc -> [Actor -> Seq(Nat)]]
        /\ \A e \in Doc : \A a \in Actor : states'[e][a] \in Seq(DOMAIN histroy'[e])
        /\ max_op' \in [Doc -> Nat]
    BY <2>1, <2>3, UpdateHistoryType
  <2> QED
    BY <1>7, <2>2, <2>3, <2>4 DEF ApplyReady, TypeOK
<1>8. ASSUME NEW d \in Doc, Enqueue(d)
      PROVE  TypeOK'
  <2>1. Append(queue[d], NextReceived(d)) \in Seq(Made)
    BY <1>8, NextReceivedType, AppendProperties DEF Enqueue, TypeOK
  <2> QED
    BY <1>8, <2>1, NextReceivedType DEF Enqueue, Advance, TypeOK, Made
<1>9. ASSUME NEW d \in Doc, StartDrain(d)
      PROVE  TypeOK'
  BY <1>9 DEF StartDrain, TypeOK, docVars, Made
<1>10. ASSUME NEW d \in Doc, DrainApply(d)
       PROVE  TypeOK'
  <2>1. PICK i \in DOMAIN queue[d] :
           /\ queue' = [queue EXCEPT ![d] = SwapRemove(@, i)]
           /\ UpdateHistory(d, queue[d][i], changes[queue[d][i]])
    BY <1>10 DEF DrainApply
  <2>2. queue[d] \in Seq(Made) /\ queue[d][i] \in Made /\ changes[queue[d][i]] \in Change
    BY ElementOfSeq, LenProperties DEF TypeOK
  <2>3. SwapRemove(queue[d], i) \in Seq(Made)
    BY <2>2, SwapRemoveType
  <2>4. /\ histroy' \in [Doc -> Seq(Made)]
        /\ deps' \in [Doc -> SUBSET Made]
        /\ states' \in [Doc -> [Actor -> Seq(Nat)]]
        /\ \A e \in Doc : \A a \in Actor : states'[e][a] \in Seq(DOMAIN histroy'[e])
        /\ max_op' \in [Doc -> Nat]
    BY <2>1, <2>2, UpdateHistoryType
  <2> QED
    BY <1>10, <2>1, <2>3, <2>4 DEF DrainApply, TypeOK, Made
<1>11. ASSUME NEW d \in Doc, DrainSkip(d)
       PROVE  TypeOK'
  <2>1. PICK i \in DOMAIN queue[d] : queue' = [queue EXCEPT ![d] = SwapRemove(@, i)]
    BY <1>11 DEF DrainSkip
  <2>2. SwapRemove(queue[d], i) \in Seq(Made)
    BY SwapRemoveType DEF TypeOK
  <2> QED
    BY <1>11, <2>1, <2>2 DEF DrainSkip, TypeOK, Made
<1>12. ASSUME NEW d \in Doc, DrainDone(d)
       PROVE  TypeOK'
  BY <1>12, EmptySeq DEF DrainDone, Idle, TypeOK, docVars, Made
<1>13. ASSUME NEW d \in Doc, NEW e \in Doc, Fork(d, e)
       PROVE  TypeOK'
  BY <1>13 DEF Fork, TypeOK, Made
<1>14. ASSUME NEW d \in Doc, NEW e \in Doc, Load(d, e)
       PROVE  TypeOK'
  BY <1>14, TypeReceive DEF Load, TypeOK
<1>15. CASE UNCHANGED vars
  BY <1>15 DEF vars, TypeOK, Made
<1> QED
  BY <1>1, <1>2, <1>3, <1>4, <1>5, <1>6, <1>7, <1>8, <1>9, <1>10, <1>11, <1>12,
     <1>13, <1>14, <1>15 DEF Next, ApplyStep

\* Every variable has its type at all times: in particular the positions in states
\* point into the history, and histories and queues hold only changes somebody made.
THEOREM TypeCorrect == Spec => []TypeOK
<1>1. Init => TypeOK
  BY ConstantsAssumption, TypeInit
<1>2. TypeOK /\ [Next]_vars => TypeOK'
  BY ConstantsAssumption, TypeStep
<1> QED
  BY <1>1, <1>2, PTL DEF Spec
-----------------------------------------------------------------------------
(* The history: causal order, heads, operation counter *)

\* A document that does not exist yet is empty, and nothing is under way in it.
Unborn ==
    \A e \in Doc \ live :
        /\ histroy[e] = <<>>
        /\ call[e] = Idle
        /\ tx[e] = NoTx
        /\ \A d \in Doc : tx[d] # NoTx => tx[d].doc # e

\* The dependencies a transaction recorded when it opened are in the document it will
\* be committed to, however much that document has grown since.
TxDepsHeld == \A d \in Doc : tx[d] # NoTx => tx[d].deps \subseteq History(tx[d].doc)

HistoryInv == TypeOK /\ Unborn /\ TxDepsHeld /\ HistoryTopological /\ HeadsExact /\ MaxOpExact

\* What a step can do to the histories: nothing, append one change to one of them,
\* or copy one into a document that starts to exist.
Quiet == UNCHANGED <<changes, histroy, deps, states, max_op>>

Grow(d, h, c) ==
    /\ UpdateHistory(d, h, c)
    /\ h \notin History(d)
    /\ c.deps \subseteq History(d)
    /\ Made' = Made \cup {h}
    /\ changes'[h] = c
    /\ \A g \in Made : changes'[g] = changes[g]

CopyOf(d, e) ==
    /\ histroy[e] = <<>> /\ e # d
    /\ histroy' = [histroy EXCEPT ![e] = histroy[d]]
    /\ deps'    = [deps EXCEPT ![e] = deps[d]]
    /\ states'  = [states EXCEPT ![e] = states[d]]
    /\ max_op'  = [max_op EXCEPT ![e] = max_op[d]]
    /\ changes' = changes

\* What the type says of the history of one document.
LEMMA HistoryHasType ==
    ASSUME TypeOK, NEW d \in Doc
    PROVE  /\ histroy[d] \in Seq(Made)
           /\ Len(histroy[d]) \in Nat
           /\ DOMAIN histroy[d] = 1..Len(histroy[d])
           /\ History(d) \subseteq Made
           /\ \A i \in DOMAIN histroy[d] : histroy[d][i] \in Made
BY LenProperties, RangeOfSeq, ElementOfSeq DEF TypeOK, History

\* A commit and the application of a change have in common that they append a change
\* the document lacks after everything it depends on.
LEMMA StepShape ==
    ASSUME TypeOK, Unborn, TxDepsHeld, ConstantsAssumption, [Next]_vars
    PROVE  \/ Quiet
           \/ \E d \in Doc : \E h \in Hash : \E c \in Change : Grow(d, h, c)
           \/ \E d, e \in Doc : CopyOf(d, e)
<1>1. ASSUME NEW d \in Doc, NEW h \in Hash, Commit(d, h)
      PROVE  \E e \in Doc : \E g \in Hash : \E c \in Change : Grow(e, g, c)
  <2> DEFINE t == tx[d]
             c == [actor |-> ActorOf[t.doc], seq |-> t.seq, start_op |-> t.start_op,
                   num_ops |-> t.pending, deps |-> t.deps]
  <2>1. t \in Transaction
    BY <1>1 DEF Commit, TypeOK
  <2>2. c \in Change /\ t.doc \in Doc
    BY <2>1 DEF Transaction, Change, ConstantsAssumption
  <2>3. /\ UpdateHistory(t.doc, h, c)
        /\ changes' = [x \in Made \cup {h} |-> IF x = h THEN c ELSE changes[x]]
        /\ h \notin Made
    BY <1>1 DEF Commit
  <2>4. h \notin History(t.doc)
    BY <2>2, <2>3, HistoryHasType
  <2>5. c.deps \subseteq History(t.doc)
    BY <1>1 DEF TxDepsHeld, Commit
  <2> HIDE DEF c, t
  <2>6. Made' = Made \cup {h} /\ changes'[h] = c /\ \A g \in Made : changes'[g] = changes[g]
    BY <2>3 DEF Made
  <2>7. Grow(t.doc, h, c)
    BY <2>3, <2>4, <2>5, <2>6 DEF Grow
  <2> QED
    BY <2>2, <2>7
<1>2. ASSUME NEW d \in Doc, NEW h \in Made, ~InHistory(d, h), Ready(d, h),
             UpdateHistory(d, h, changes[h]), changes' = changes
      PROVE  \E e \in Doc : \E g \in Hash : \E c \in Change : Grow(e, g, c)
  <2>1. changes[h] \in Change /\ h \in Hash
    BY DEF TypeOK
  <2>2. Grow(d, h, changes[h])
    BY <1>2 DEF Grow, Ready, InHistory, Made
  <2> QED
    BY <2>1, <2>2
<1>3. ASSUME NEW d \in Doc, ApplyReady(d)
      PROVE  \E e \in Doc : \E g \in Hash : \E c \in Change : Grow(e, g, c)
  BY <1>2, <1>3, NextReceivedType DEF ApplyReady
<1>4. ASSUME NEW d \in Doc, DrainApply(d)
      PROVE  \E e \in Doc : \E g \in Hash : \E c \in Change : Grow(e, g, c)
  <2>1. PICK i \in DOMAIN queue[d] :
           /\ FirstReady(d, i)
           /\ ~InHistory(d, queue[d][i])
           /\ UpdateHistory(d, queue[d][i], changes[queue[d][i]])
    BY <1>4 DEF DrainApply
  <2>2. queue[d][i] \in Made
    BY ElementOfSeq, LenProperties DEF TypeOK
  <2>3. Ready(d, queue[d][i]) /\ changes' = changes
    BY <1>4, <2>1 DEF FirstReady, ReadyAt, DrainApply
  <2> QED
    BY <1>2, <2>1, <2>2, <2>3
<1>5. ASSUME NEW d \in Doc, NEW e \in Doc, Fork(d, e)
      PROVE  \E f, g \in Doc : CopyOf(f, g)
  <2>1. CopyOf(d, e)
    BY <1>5 DEF Fork, CopyOf, Unborn
  <2> QED
    BY <2>1
<1>6. ASSUME NEW d \in Doc,
             \/ \E n \in {0, 1} : Edit(d, n)
             \/ ApplyChanges(d) \/ (\E o \in Doc : Merge(d, o)) \/ (\E e \in Doc : Load(d, e))
             \/ SkipKnown(d) \/ RejectDuplicateSeq(d) \/ Enqueue(d)
             \/ StartDrain(d) \/ DrainSkip(d) \/ DrainDone(d)
      PROVE  Quiet
  BY <1>6 DEF Edit, ApplyChanges, Merge, Load, Receive, SkipKnown, RejectDuplicateSeq,
              Enqueue, StartDrain, DrainSkip, DrainDone, docVars, Quiet
<1>7. CASE UNCHANGED vars
  BY <1>7 DEF vars, Quiet
<1> QED
  BY <1>1, <1>3, <1>4, <1>5, <1>6, <1>7 DEF Next, ApplyStep

\* What Grow does to the document it grows, and that it leaves the others alone.
LEMMA GrowFacts ==
    ASSUME TypeOK, NEW d \in Doc, NEW h \in Hash, NEW c \in Change, Grow(d, h, c)
    PROVE  /\ History(d)' = History(d) \cup {h}
           /\ DOMAIN histroy'[d] = DOMAIN histroy[d] \cup {Len(histroy[d]) + 1}
           /\ \A i \in DOMAIN histroy[d] : histroy'[d][i] = histroy[d][i]
           /\ histroy'[d][Len(histroy[d]) + 1] = h
           /\ deps'[d] = (deps[d] \ c.deps) \cup {h}
           /\ max_op'[d] = Larger(max_op[d], LastOp(c))
           /\ \A e \in Doc \ {d} : /\ histroy'[e] = histroy[e]
                                   /\ deps'[e] = deps[e]
                                   /\ max_op'[e] = max_op[e]
           /\ changes'[h] = c
           /\ \A e \in Doc : \A g \in History(e) : changes'[g] = changes[g]
<1>1. histroy[d] \in Seq(Made) /\ Made \subseteq Made \cup {h} /\ h \in Made \cup {h}
  BY HistoryHasType
<1>2. histroy' = [histroy EXCEPT ![d] = Append(histroy[d], h)]
  BY DEF Grow, UpdateHistory
<1>3. histroy'[d] = Append(histroy[d], h)
  BY <1>2 DEF TypeOK
<1>4. /\ DOMAIN histroy'[d] = DOMAIN histroy[d] \cup {Len(histroy[d]) + 1}
      /\ \A i \in DOMAIN histroy[d] : histroy'[d][i] = histroy[d][i]
      /\ histroy'[d][Len(histroy[d]) + 1] = h
  BY <1>1, <1>3, AppendFacts
<1>5. History(d)' = History(d) \cup {h}
  BY <1>4 DEF History, Range
<1>6. /\ deps'[d] = (deps[d] \ c.deps) \cup {h}
      /\ max_op'[d] = Larger(max_op[d], LastOp(c))
      /\ \A e \in Doc \ {d} : /\ histroy'[e] = histroy[e]
                              /\ deps'[e] = deps[e]
                              /\ max_op'[e] = max_op[e]
  BY DEF Grow, UpdateHistory, TypeOK
<1>7. \A e \in Doc : \A g \in History(e) : changes'[g] = changes[g]
  BY HistoryHasType DEF Grow
<1> QED
  BY <1>4, <1>5, <1>6, <1>7 DEF Grow

\* A topologically sorted history holds what its changes depend on.
LEMMA TopologicalIsClosed ==
    ASSUME TypeOK, HistoryTopological, NEW d \in Doc, NEW g \in History(d)
    PROVE  changes[g].deps \subseteq History(d)
<1>1. PICK i \in DOMAIN histroy[d] : g = histroy[d][i]
  BY DEF History, Range
<1>2. changes[g].deps \subseteq {histroy[d][j] : j \in 1..(i - 1)}
  BY <1>1 DEF HistoryTopological
<1>3. 1..(i - 1) \subseteq DOMAIN histroy[d]
  BY HistoryHasType
<1> QED
  BY <1>2, <1>3 DEF History, Range

\* Nothing happens to a document before fork or load makes it.
LEMMA UnbornStep ==
    ASSUME TypeOK, Unborn, ConstantsAssumption, [Next]_vars
    PROVE  Unborn'
<1>1. ASSUME NEW d \in Doc, NEW n \in {0, 1}, Edit(d, n)
      PROVE  Unborn'
  <2> DEFINE t == IF tx[d] = NoTx THEN TransactionInner(d) ELSE tx[d]
  <2>1. tx' = [tx EXCEPT ![d] = [t EXCEPT !.pending = @ + n]] /\ d \in live
    BY <1>1 DEF Edit
  <2>2. t \in Transaction /\ t.doc \in live
    BY <2>1, TransactionInnerType DEF TypeOK, TransactionInner, Unborn, Transaction
  <2> HIDE DEF t
  <2>3. [t EXCEPT !.pending = @ + n].doc \in live
    BY <2>2 DEF Transaction
  <2>4. \A e \in Doc \ live : tx'[e] = tx[e] /\ \A f \in Doc : tx'[f] # NoTx => tx'[f].doc # e
    BY <2>1, <2>3 DEF TypeOK, Unborn
  <2> QED
    BY <1>1, <2>4 DEF Edit, docVars, Unborn
<1>2. ASSUME NEW d \in Doc, NEW h \in Hash, Commit(d, h)
      PROVE  Unborn'
  <2>1. tx[d].doc \in Doc /\ tx[d].doc \in live
    BY <1>2 DEF Commit, Unborn, TypeOK, Transaction
  <2> QED
    BY <1>2, <2>1 DEF Commit, UpdateHistory, Unborn, TypeOK
<1>3. ASSUME NEW d \in Doc, ApplyStep(d)
      PROVE  Unborn'
  <2>1. d \in live
    BY <1>3 DEF ApplyStep, SkipKnown, RejectDuplicateSeq, ApplyReady, Enqueue, StartDrain,
                DrainApply, DrainSkip, DrainDone, Applying, Unborn, Idle
  <2>2. /\ live' = live /\ tx' = tx
        /\ \A e \in Doc \ {d} : histroy'[e] = histroy[e] /\ call'[e] = call[e]
    BY <1>3 DEF ApplyStep, SkipKnown, RejectDuplicateSeq, ApplyReady, Enqueue, StartDrain,
                DrainApply, DrainSkip, DrainDone, Advance, UpdateHistory, docVars, TypeOK
  <2> QED
    BY <2>1, <2>2 DEF Unborn
<1>4. ASSUME NEW d \in Doc, ApplyChanges(d) \/ \E o \in Doc : Merge(d, o)
      PROVE  Unborn'
  <2>1. PICK b : Receive(d, b)
    BY <1>4 DEF ApplyChanges, Merge
  <2>2. d \in live /\ live' = live
    BY <1>4 DEF ApplyChanges, Merge, MayReceive
  <2> QED
    BY <2>1, <2>2 DEF Receive, Unborn, TypeOK
<1>5. ASSUME NEW d \in Doc, NEW e \in Doc, Fork(d, e)
      PROVE  Unborn'
  BY <1>5 DEF Fork, Unborn, TypeOK
<1>6. ASSUME NEW d \in Doc, NEW e \in Doc, Load(d, e)
      PROVE  Unborn'
  BY <1>6 DEF Load, Receive, Unborn, TypeOK
<1>7. CASE UNCHANGED vars
  BY <1>7 DEF vars, Unborn
<1> QED
  BY <1>1, <1>2, <1>3, <1>4, <1>5, <1>6, <1>7 DEF Next

\* Histories only grow.
LEMMA HistoryGrows ==
    ASSUME TypeOK, Unborn, TxDepsHeld, ConstantsAssumption, [Next]_vars, NEW e \in Doc
    PROVE  History(e) \subseteq History(e)'
<1>1. CASE Quiet
  BY <1>1 DEF Quiet, History
<1>2. ASSUME NEW d \in Doc, NEW h \in Hash, NEW c \in Change, Grow(d, h, c)
      PROVE  History(e) \subseteq History(e)'
  <2>1. CASE e = d
    BY <1>2, <2>1, GrowFacts
  <2>2. CASE e # d
    BY <1>2, <2>2, GrowFacts DEF History
  <2> QED
    BY <2>1, <2>2
<1>3. ASSUME NEW d \in Doc, NEW f \in Doc, CopyOf(d, f)
      PROVE  History(e) \subseteq History(e)'
  <2>1. CASE e = f
    BY <1>3, <2>1 DEF CopyOf, History, Range
  <2>2. CASE e # f
    BY <1>3, <2>2 DEF CopyOf, History, TypeOK
  <2> QED
    BY <2>1, <2>2
<1> QED
  BY <1>1, <1>2, <1>3, StepShape

\* Every step keeps the dependencies of open transactions in their documents.
LEMMA TxDepsHeldStep ==
    ASSUME HistoryInv, ConstantsAssumption, [Next]_vars
    PROVE  TxDepsHeld'
<1> USE DEF HistoryInv
<1>1. \A e \in Doc : History(e) \subseteq History(e)'
  BY HistoryGrows
<1>2. ASSUME tx' = tx
      PROVE  TxDepsHeld'
  BY <1>1, <1>2 DEF TxDepsHeld, TypeOK, Transaction
<1>3. ASSUME NEW d \in Doc, NEW n \in {0, 1}, Edit(d, n)
      PROVE  TxDepsHeld'
  <2> DEFINE t == IF tx[d] = NoTx THEN TransactionInner(d) ELSE tx[d]
             u == [t EXCEPT !.pending = @ + n]
  <2>1. tx' = [tx EXCEPT ![d] = u]
    BY <1>3 DEF Edit
  <2>2. deps[d] \subseteq History(d)
    BY DEF HeadsExact
  <2>3. t \in Transaction /\ t.deps \subseteq History(t.doc)
    BY <2>2, TransactionInnerType DEF TypeOK, TransactionInner, TxDepsHeld
  <2> HIDE DEF t
  <2>4. u.doc = t.doc /\ u.deps = t.deps
    BY <2>3 DEF Transaction
  <2> HIDE DEF u
  <2>5. tx'[d] = u /\ \A e \in Doc \ {d} : tx'[e] = tx[e]
    BY <2>1 DEF TypeOK
  <2>6. t.doc \in Doc /\ t.deps \subseteq Range(histroy'[t.doc])
    BY <1>1, <2>3 DEF Transaction, History
  <2>7. ASSUME NEW e \in Doc, tx'[e] # NoTx
        PROVE  tx'[e].deps \subseteq Range(histroy'[tx'[e].doc])
    <3>1. CASE e = d
      BY <2>4, <2>5, <2>6, <3>1
    <3>2. CASE e # d
      BY <1>1, <2>5, <2>7, <3>2 DEF TxDepsHeld, TypeOK, Transaction, History
    <3> QED
      BY <3>1, <3>2
  <2> QED
    BY <2>7 DEF TxDepsHeld, History, NoTx
<1>4. ASSUME NEW d \in Doc, NEW h \in Hash, Commit(d, h)
      PROVE  TxDepsHeld'
  BY <1>1, <1>4 DEF Commit, TxDepsHeld, TypeOK, Transaction
<1>5. ASSUME NEW d \in Doc, NEW e \in Doc, Fork(d, e)
      PROVE  TxDepsHeld'
  BY <1>1, <1>5 DEF Fork, TxDepsHeld, TypeOK, Transaction
<1>6. ASSUME NEW d \in Doc,
             \/ ApplyChanges(d) \/ (\E o \in Doc : Merge(d, o)) \/ (\E e \in Doc : Load(d, e))
             \/ ApplyStep(d)
      PROVE  tx' = tx
  BY <1>6 DEF ApplyChanges, Merge, Load, Receive, ApplyStep, SkipKnown, RejectDuplicateSeq,
              ApplyReady, Enqueue, StartDrain, DrainApply, DrainSkip, DrainDone
<1>7. CASE UNCHANGED vars
  BY <1>2, <1>7 DEF vars
<1> QED
  BY <1>2, <1>3, <1>4, <1>5, <1>6, <1>7 DEF Next

\* A change appended after all it depends on keeps the history topological.
LEMMA GrowKeepsTopological ==
    ASSUME HistoryInv, NEW d \in Doc, NEW h \in Hash, NEW c \in Change, Grow(d, h, c)
    PROVE  HistoryTopological'
<1> USE DEF HistoryInv
<1> DEFINE n == Len(histroy[d])
<1>1. n \in Nat /\ DOMAIN histroy[d] = 1..n
  BY HistoryHasType
<1>2. /\ DOMAIN histroy'[d] = 1..n \cup {n + 1}
      /\ \A i \in 1..n : histroy'[d][i] = histroy[d][i]
      /\ histroy'[d][n + 1] = h
      /\ changes'[h] = c
      /\ \A e \in Doc : \A g \in History(e) : changes'[g] = changes[g]
      /\ \A e \in Doc \ {d} : histroy'[e] = histroy[e]
  BY <1>1, GrowFacts
<1>3. \A e \in Doc : \A i \in DOMAIN histroy[e] : changes'[histroy[e][i]] = changes[histroy[e][i]]
  BY <1>2 DEF History, Range
<1>4. h \notin History(d) /\ c.deps \subseteq History(d)
  BY DEF Grow
<1>5. History(d) = {histroy[d][j] : j \in 1..n}
  BY <1>1 DEF History, Range
<1> HIDE DEF n
<1>6. ASSUME NEW e \in Doc \ {d}, NEW i \in DOMAIN histroy'[e]
      PROVE  /\ changes'[histroy'[e][i]].deps \subseteq {histroy'[e][j] : j \in 1..(i - 1)}
             /\ histroy'[e][i] \notin {histroy'[e][j] : j \in 1..(i - 1)}
  BY <1>2, <1>3 DEF HistoryTopological
<1>7. ASSUME NEW i \in DOMAIN histroy'[d]
      PROVE  /\ changes'[histroy'[d][i]].deps \subseteq {histroy'[d][j] : j \in 1..(i - 1)}
             /\ histroy'[d][i] \notin {histroy'[d][j] : j \in 1..(i - 1)}
  <2>1. CASE i \in 1..n
    <3>1. \A j \in 1..(i - 1) : histroy'[d][j] = histroy[d][j]
      BY <1>1, <1>2, <2>1
    <3>2. {histroy'[d][j] : j \in 1..(i - 1)} = {histroy[d][j] : j \in 1..(i - 1)}
      BY <3>1
    <3>3. /\ i \in DOMAIN histroy[d]
          /\ histroy'[d][i] = histroy[d][i]
          /\ changes'[histroy[d][i]] = changes[histroy[d][i]]
      BY <1>1, <1>2, <1>3, <2>1
    <3>4. /\ changes[histroy[d][i]].deps \subseteq {histroy[d][j] : j \in 1..(i - 1)}
          /\ histroy[d][i] \notin {histroy[d][j] : j \in 1..(i - 1)}
      BY <3>3 DEF HistoryTopological
    <3> QED
      BY <3>2, <3>3, <3>4
  <2>2. CASE i = n + 1
    <3>1. 1..(i - 1) = 1..n
      BY <1>1, <2>2
    <3>2. {histroy'[d][j] : j \in 1..(i - 1)} = History(d)
      BY <1>2, <1>5, <3>1
    <3> QED
      BY <1>2, <1>4, <2>2, <3>2
  <2> QED
    BY <1>2, <2>1, <2>2
<1> QED
  BY <1>6, <1>7 DEF HistoryTopological

\* Erasing a change's dependencies from the heads and adding it keeps the heads exact.
LEMMA GrowKeepsHeads ==
    ASSUME HistoryInv, NEW d \in Doc, NEW h \in Hash, NEW c \in Change, Grow(d, h, c)
    PROVE  HeadsExact'
<1> USE DEF HistoryInv
<1>1. /\ History(d)' = History(d) \cup {h}
      /\ deps'[d] = (deps[d] \ c.deps) \cup {h}
      /\ \A e \in Doc \ {d} : histroy'[e] = histroy[e] /\ deps'[e] = deps[e]
      /\ changes'[h] = c
      /\ \A e \in Doc : \A g \in History(e) : changes'[g] = changes[g]
  BY GrowFacts
<1>2. h \notin History(d) /\ c.deps \subseteq History(d)
  BY DEF Grow
<1>3. \A g \in History(d) : changes[g].deps \subseteq History(d)
  BY TopologicalIsClosed
<1>4. deps'[d] = {x \in History(d)' : \A g \in History(d)' : x \notin changes'[g].deps}
  <2>1. deps[d] = {x \in History(d) : \A g \in History(d) : x \notin changes[g].deps}
    BY DEF HeadsExact
  <2> QED
    BY <1>1, <1>2, <1>3, <2>1
<1>5. ASSUME NEW e \in Doc \ {d}
      PROVE  deps'[e] = {x \in History(e)' : \A g \in History(e)' : x \notin changes'[g].deps}
  <2>1. History(e)' = History(e)
    BY <1>1 DEF History
  <2>2. deps[e] = {x \in History(e) : \A g \in History(e) : x \notin changes[g].deps}
    BY DEF HeadsExact
  <2> QED
    BY <1>1, <2>1, <2>2
<1> QED
  BY <1>4, <1>5 DEF HeadsExact, History

\* Taking the larger of the two counters keeps max_op exact.
LEMMA GrowKeepsMaxOp ==
    ASSUME HistoryInv, NEW d \in Doc, NEW h \in Hash, NEW c \in Change, Grow(d, h, c)
    PROVE  MaxOpExact'
<1> USE DEF HistoryInv
<1>1. /\ History(d)' = History(d) \cup {h}
      /\ max_op'[d] = Larger(max_op[d], LastOp(c))
      /\ \A e \in Doc \ {d} : histroy'[e] = histroy[e] /\ max_op'[e] = max_op[e]
      /\ changes'[h] = c
      /\ \A e \in Doc : \A g \in History(e) : changes'[g] = changes[g]
  BY GrowFacts
<1>2. \A x \in Change : LastOp(x) \in Nat
  BY DEF Change, LastOp
<1>3. \A e \in Doc : max_op[e] \in Nat
  BY DEF TypeOK
<1>4. \A e \in Doc : \A g \in History(e) : LastOp(changes[g]) \in Nat
  BY <1>2, HistoryHasType DEF TypeOK
<1>5. /\ \A g \in History(d)' : LastOp(changes'[g]) <= max_op'[d]
      /\ max_op'[d] # 0 => \E g \in History(d)' : LastOp(changes'[g]) = max_op'[d]
  <2>1. /\ \A g \in History(d) : LastOp(changes[g]) <= max_op[d]
        /\ max_op[d] # 0 => \E g \in History(d) : LastOp(changes[g]) = max_op[d]
    BY DEF MaxOpExact
  <2>2. LastOp(c) \in Nat /\ max_op[d] \in Nat
    BY <1>2, <1>3
  <2>3. CASE max_op[d] < LastOp(c)
    <3>1. max_op'[d] = LastOp(c)
      BY <1>1, <2>3 DEF Larger
    <3> QED
      BY <1>1, <1>4, <2>1, <2>2, <2>3, <3>1
  <2>4. CASE ~(max_op[d] < LastOp(c))
    <3>1. max_op'[d] = max_op[d]
      BY <1>1, <2>4 DEF Larger
    <3> QED
      BY <1>1, <1>4, <2>1, <2>2, <2>4, <3>1
  <2> QED
    BY <2>3, <2>4
<1>6. ASSUME NEW e \in Doc \ {d}
      PROVE  /\ \A g \in History(e)' : LastOp(changes'[g]) <= max_op'[e]
             /\ max_op'[e] # 0 => \E g \in History(e)' : LastOp(changes'[g]) = max_op'[e]
  <2>1. History(e)' = History(e)
    BY <1>1 DEF History
  <2>2. /\ \A g \in History(e) : LastOp(changes[g]) <= max_op[e]
        /\ max_op[e] # 0 => \E g \in History(e) : LastOp(changes[g]) = max_op[e]
    BY DEF MaxOpExact
  <2> QED
    BY <1>1, <2>1, <2>2
<1> QED
  BY <1>5, <1>6 DEF MaxOpExact, History, LastOp

\* Every step keeps the invariant.
LEMMA HistoryInvStep ==
    ASSUME ConstantsAssumption, HistoryInv, [Next]_vars
    PROVE  HistoryInv'
<1>1. TypeOK' /\ Unborn' /\ TxDepsHeld'
  BY TypeStep, UnbornStep, TxDepsHeldStep DEF HistoryInv
<1>2. HistoryTopological' /\ HeadsExact' /\ MaxOpExact'
  <2>1. CASE Quiet
    BY <2>1 DEF Quiet, HistoryInv, HistoryTopological, HeadsExact, MaxOpExact, History
  <2>2. ASSUME NEW d \in Doc, NEW h \in Hash, NEW c \in Change, Grow(d, h, c)
        PROVE  HistoryTopological' /\ HeadsExact' /\ MaxOpExact'
    BY <2>2, GrowKeepsTopological, GrowKeepsHeads, GrowKeepsMaxOp
  <2>3. ASSUME NEW d \in Doc, NEW e \in Doc, CopyOf(d, e)
        PROVE  HistoryTopological' /\ HeadsExact' /\ MaxOpExact'
    <3>1. \A f \in Doc : \E g \in Doc : /\ histroy'[f] = histroy[g]
                                        /\ deps'[f] = deps[g]
                                        /\ max_op'[f] = max_op[g]
      BY <2>3 DEF CopyOf, HistoryInv, TypeOK
    <3>2. changes' = changes
      BY <2>3 DEF CopyOf
    <3>3. HistoryTopological'
      <4> SUFFICES ASSUME NEW f \in Doc, NEW i \in DOMAIN histroy'[f]
                   PROVE  /\ changes'[histroy'[f][i]].deps \subseteq {histroy'[f][j] : j \in 1..(i - 1)}
                          /\ histroy'[f][i] \notin {histroy'[f][j] : j \in 1..(i - 1)}
        BY DEF HistoryTopological
      <4>1. PICK g \in Doc : histroy'[f] = histroy[g]
        BY <3>1
      <4> QED
        BY <3>2, <4>1 DEF HistoryInv, HistoryTopological
    <3>4. HeadsExact'
      BY <3>1, <3>2 DEF HistoryInv, HeadsExact, History
    <3>5. MaxOpExact'
      BY <3>1, <3>2 DEF HistoryInv, MaxOpExact, History
    <3> QED
      BY <3>3, <3>4, <3>5
  <2> QED
    BY <2>1, <2>2, <2>3, StepShape DEF HistoryInv
<1> QED
  BY <1>1, <1>2 DEF HistoryInv

\* The empty documents of the start satisfy the invariant.
LEMMA HistoryInvInit ==
    ASSUME ConstantsAssumption, Init
    PROVE  HistoryInv
<1>1. TypeOK
  BY TypeInit
<1>2. \A d \in Doc : histroy[d] = <<>> /\ History(d) = {}
  BY DEF Init, History, Range
<1> QED
  BY <1>1, <1>2 DEF Init, HistoryInv, Unborn, TxDepsHeld, HistoryTopological, HeadsExact, MaxOpExact

\* The inductive invariant of the change history.
LEMMA HistoryInvariant == Spec => []HistoryInv
<1>1. Init => HistoryInv
  BY ConstantsAssumption, HistoryInvInit
<1>2. HistoryInv /\ [Next]_vars => HistoryInv'
  BY ConstantsAssumption, HistoryInvStep
<1> QED
  BY <1>1, <1>2, PTL DEF Spec

\* However changes arrive, in any order and any number of times, through apply_changes,
\* merge, fork or load, the history lists each once and after all it depends on.
THEOREM HistoryIsTopological == Spec => []HistoryTopological
<1>1. HistoryInv => HistoryTopological
  BY DEF HistoryInv
<1> QED
  BY <1>1, HistoryInvariant, PTL

\* The heads are exactly the changes nothing in the history depends on, also when a
\* transaction commits after its document received other changes.
THEOREM HeadsAreExact == Spec => []HeadsExact
<1>1. HistoryInv => HeadsExact
  BY DEF HistoryInv
<1> QED
  BY <1>1, HistoryInvariant, PTL

\* The operation counter of a document is that of its latest operation.
THEOREM MaxOpIsExact == Spec => []MaxOpExact
<1>1. HistoryInv => MaxOpExact
  BY DEF HistoryInv
<1> QED
  BY <1>1, HistoryInvariant, PTL
-----------------------------------------------------------------------------
(* ChangeHistory implements CausalStore *)

\* Received or committed, a change enters as CausalStore lets one in.
LEMMA GrowIsStoreStep ==
    ASSUME HistoryInv, NEW d \in Doc, NEW h \in Hash, NEW c \in Change, Grow(d, h, c)
    PROVE  Store!Create(d, h) \/ Store!Deliver(d, h)
<1> USE DEF HistoryInv
<1>1. /\ History(d)' = History(d) \cup {h}
      /\ \A e \in Doc \ {d} : histroy'[e] = histroy[e]
      /\ changes'[h] = c
  BY GrowFacts
<1>2. [e \in Doc |-> History(e)]' = [[e \in Doc |-> History(e)] EXCEPT ![d] = @ \cup {h}]
  BY <1>1 DEF History
<1>3. /\ Made' = Made \cup {h}
      /\ \A g \in Made : changes'[g] = changes[g]
      /\ c.deps \subseteq History(d)
  BY DEF Grow
<1>4. CASE h \notin Made
  <2>1. [x \in Made |-> changes[x].deps]' =
          [x \in Made \cup {h} |-> IF x = h THEN c.deps ELSE [y \in Made |-> changes[y].deps][x]]
    BY <1>1, <1>3, <1>4
  <2>2. Store!Create(d, h)
    BY <1>2, <1>3, <1>4, <2>1 DEF Store!Create, Store!Made, Made
  <2> QED
    BY <2>2
<1>5. CASE h \in Made
  <2>1. changes[h] = c /\ Made' = Made
    BY <1>1, <1>3, <1>5
  <2>2. [x \in Made |-> changes[x].deps]' = [x \in Made |-> changes[x].deps]
    BY <1>3, <2>1
  <2>3. Store!Deliver(d, h)
    BY <1>2, <1>3, <1>5, <2>1, <2>2 DEF Store!Deliver, Store!Made, Made
  <2> QED
    BY <2>3
<1> QED
  BY <1>4, <1>5

\* Whatever the program does with changes, an observer who sees only which changes
\* exist, what they depend on and which document holds which sees a CausalStore.
THEOREM Implementation == Spec => ImplementsStore
<1>1. Init => Store!Init
  <2> SUFFICES ASSUME Init
               PROVE  Store!Init
    OBVIOUS
  <2>1. Made = {} /\ \A d \in Doc : History(d) = {}
    BY DEF Init, Made, History, Range
  <2> QED
    BY <2>1 DEF Store!Init
<1>2. HistoryInv /\ [Next]_vars => [Store!Next]_(Store!vars)
  <2> SUFFICES ASSUME HistoryInv, [Next]_vars
               PROVE  [Store!Next]_(Store!vars)
    OBVIOUS
  <2>1. CASE Quiet
    BY <2>1 DEF Quiet, History, Made, Store!vars
  <2>2. ASSUME NEW d \in Doc, NEW h \in Hash, NEW c \in Change, Grow(d, h, c)
        PROVE  Store!Next
    BY <2>2, GrowIsStoreStep DEF Store!Next
  <2>3. ASSUME NEW d \in Doc, NEW e \in Doc, CopyOf(d, e)
        PROVE  Store!Next
    <3>1. History(e) = {} /\ changes' = changes
      BY <2>3 DEF CopyOf, History, Range
    <3>2. [f \in Doc |-> History(f)]' = [[f \in Doc |-> History(f)] EXCEPT ![e] = History(d)]
      BY <2>3 DEF CopyOf, History, HistoryInv, TypeOK
    <3>3. Store!Copy(d, e)
      BY <3>1, <3>2 DEF Store!Copy, Made
    <3> QED
      BY <3>3 DEF Store!Next
  <2> QED
    BY <2>1, <2>2, <2>3, StepShape, ConstantsAssumption DEF HistoryInv
<1> QED
  BY <1>1, <1>2, HistoryInvariant, PTL DEF Spec, Store!Spec, ImplementsStore
=============================================================================
