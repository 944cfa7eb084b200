------------------------- MODULE ChangeNumberingProofs -------------------------
(***************************************************************************)
(* What holds of sequence numbers and operation ids when every document    *)
(* writes under an actor id of its own and no document is forked with its  *)
(* transaction open; and of the queue of changes that are not causally     *)
(* ready: nothing a document was given gets lost on its way through batch, *)
(* queue and history, and the drain loop leaves nothing behind that could  *)
(* have been applied.                                                      *)
(***************************************************************************)
EXTENDS ChangeHistoryProofs

Disciplined ==
    /\ \A d, e \in Doc : ActorOf[d] = ActorOf[e] => d = e
    /\ ~ForkWhileOpen

\* Every change is in the history of the document that made it.
KeptByMaker ==
    \A h \in Made : \E d \in live : ActorOf[d] = changes[h].actor /\ h \in History(d)

\* change k + 1 of an actor depends on its change k.
PredecessorIn(D, a, k) ==
    \E g \in D : g \in Made /\ changes[g].actor = a /\ changes[g].seq = k
Chained ==
    \A h \in Made : changes[h].seq > 1 =>
        PredecessorIn(changes[h].deps, changes[h].actor, changes[h].seq - 1)

\* An open transaction is numbered after all changes of its actor, and its operations
\* come after theirs, whatever its document has received since it was opened.
TxCurrent ==
    \A d \in Doc : tx[d] # NoTx =>
        /\ tx[d].doc = d
        /\ tx[d].seq = Len(states[d][ActorOf[d]]) + 1
        /\ tx[d].seq > 1 => PredecessorIn(tx[d].deps, ActorOf[d], tx[d].seq - 1)
        /\ \A h \in Made : changes[h].actor = ActorOf[d] => LastOp(changes[h]) < tx[d].start_op

NumberingInv ==
    /\ HistoryInv
    /\ StatesExact /\ KeptByMaker /\ Chained /\ TxCurrent /\ OpIdsUnique

\* The two halves of StatesExact at one entry of a list and at one position.
LEMMA EntryIsChange ==
    ASSUME StatesExact, NEW d \in Doc, NEW a \in Actor, NEW k \in DOMAIN states[d][a]
    PROVE  /\ states[d][a][k] \in DOMAIN histroy[d]
           /\ changes[histroy[d][states[d][a][k]]].actor = a
           /\ changes[histroy[d][states[d][a][k]]].seq = k
<1>1. NumberedAs(d, a, k)
  BY DEF StatesExact
<1> QED
  BY <1>1 DEF NumberedAs

\* Every position of a history has an entry.
LEMMA PositionIsListed ==
    ASSUME StatesExact, NEW d \in Doc, NEW i \in DOMAIN histroy[d]
    PROVE  \E k \in DOMAIN states[d][changes[histroy[d][i]].actor] :
             states[d][changes[histroy[d][i]].actor][k] = i
<1>1. Listed(d, i)
  BY DEF StatesExact
<1> QED
  BY <1>1 DEF Listed

\* StatesExact speaks of these variables only.
LEMMA SameStates ==
    ASSUME StatesExact, UNCHANGED <<changes, histroy, states>>
    PROVE  StatesExact'
<1>1. ASSUME NEW d \in Doc, NEW a \in Actor, NEW k \in DOMAIN states[d][a]
      PROVE  NumberedAs(d, a, k)'
  <2>1. NumberedAs(d, a, k)
    BY DEF StatesExact
  <2> QED
    BY <2>1 DEF NumberedAs
<1>2. ASSUME NEW d \in Doc, NEW i \in DOMAIN histroy[d]
      PROVE  Listed(d, i)'
  <2>1. Listed(d, i)
    BY DEF StatesExact
  <2> QED
    BY <2>1 DEF Listed
<1> QED
  BY <1>1, <1>2 DEF StatesExact

\* A document holds what its own actor made.
LEMMA OwnChangesHeld ==
    ASSUME Disciplined, KeptByMaker, Unborn, TypeOK, NEW d \in Doc,
           NEW h \in Made, changes[h].actor = ActorOf[d]
    PROVE  h \in History(d) /\ d \in live
BY DEF Disciplined, KeptByMaker, TypeOK

\* The number and the actor identify a change within a document.
LEMMA NumberIdentifies ==
    ASSUME TypeOK, StatesExact, NEW d \in Doc, NEW g \in History(d), NEW h \in History(d),
           changes[g].actor = changes[h].actor, changes[g].seq = changes[h].seq
    PROVE  g = h
<1>1. PICK i \in DOMAIN histroy[d], j \in DOMAIN histroy[d] : g = histroy[d][i] /\ h = histroy[d][j]
  BY DEF History, Range
<1>2. PICK k \in DOMAIN states[d][changes[g].actor] : states[d][changes[g].actor][k] = i
  BY <1>1, PositionIsListed
<1>3. PICK l \in DOMAIN states[d][changes[h].actor] : states[d][changes[h].actor][l] = j
  BY <1>1, PositionIsListed
<1>4. changes[g].actor \in Actor
  BY <1>1, HistoryHasType DEF TypeOK, Change
<1>5. changes[g].seq = k /\ changes[h].seq = l
  <2>1. changes[histroy[d][states[d][changes[g].actor][k]]].seq = k
    BY <1>2, <1>4, EntryIsChange
  <2>2. changes[histroy[d][states[d][changes[h].actor][l]]].seq = l
    BY <1>3, <1>4, EntryIsChange
  <2> QED
    BY <1>1, <1>2, <1>3, <2>1, <2>2
<1> QED
  BY <1>1, <1>2, <1>3, <1>5

\* The list of an actor's changes, of type sequence of positions.
LEMMA StatesFacts ==
    ASSUME TypeOK, NEW d \in Doc, NEW a \in Actor
    PROVE  /\ states[d][a] \in Seq(DOMAIN histroy[d])
           /\ states[d][a] \in Seq(Nat)
           /\ Len(states[d][a]) \in Nat
           /\ DOMAIN states[d][a] = 1..Len(states[d][a])
BY LenProperties DEF TypeOK

\* A change of the history is within the list of its actor's changes.
LEMMA NumberInRange ==
    ASSUME TypeOK, StatesExact, NEW d \in Doc, NEW h \in History(d)
    PROVE  changes[h].seq \in 1..Len(states[d][changes[h].actor])
<1>1. PICK i \in DOMAIN histroy[d] : h = histroy[d][i]
  BY DEF History, Range
<1>2. changes[h].actor \in Actor
  BY <1>1, HistoryHasType DEF TypeOK, Change
<1>3. PICK k \in DOMAIN states[d][changes[h].actor] : states[d][changes[h].actor][k] = i
  BY <1>1, PositionIsListed
<1>4. changes[h].seq = k
  BY <1>1, <1>2, <1>3, EntryIsChange
<1> QED
  BY <1>2, <1>3, <1>4, StatesFacts

\* A number not above the length of the list is that of a change of the history.
LEMMA NumberIsHeld ==
    ASSUME TypeOK, StatesExact, NEW d \in Doc, NEW a \in Actor,
           NEW k \in 1..Len(states[d][a])
    PROVE  \E g \in History(d) : changes[g].actor = a /\ changes[g].seq = k
<1>1. k \in DOMAIN states[d][a]
  BY StatesFacts
<1> QED
  BY <1>1, EntryIsChange DEF History, Range

\* In all documents together, too, number and actor identify a change.
LEMMA NumberIdentifiesMade ==
    ASSUME Disciplined, NumberingInv, NEW g \in Made, NEW h \in Made,
           changes[g].actor = changes[h].actor, changes[g].seq = changes[h].seq
    PROVE  g = h
<1>1. PICK d \in Doc : ActorOf[d] = changes[h].actor /\ h \in History(d)
  BY DEF NumberingInv, KeptByMaker, HistoryInv, TypeOK
<1>2. g \in History(d)
  BY <1>1, OwnChangesHeld DEF NumberingInv, HistoryInv
<1> QED
  BY <1>1, <1>2, NumberIdentifies DEF NumberingInv, HistoryInv

\* A change a document lacks has a number beyond those of its actor it holds.
LEMMA LackedIsNotDuplicate ==
    ASSUME Disciplined, NumberingInv, NEW d \in Doc, NEW h \in Made, DuplicateSeq(d, h)
    PROVE  InHistory(d, h)
<1> USE DEF NumberingInv, HistoryInv
<1>1. changes[h].actor \in Actor /\ changes[h].seq \in Nat \ {0}
  BY DEF TypeOK, Change
<1>2. changes[h].seq \in 1..Len(states[d][changes[h].actor])
  BY <1>1, StatesFacts DEF DuplicateSeq
<1>3. PICK g \in History(d) : changes[g].actor = changes[h].actor /\ changes[g].seq = changes[h].seq
  BY <1>1, <1>2, NumberIsHeld
<1>4. g \in Made
  BY HistoryHasType
<1> QED
  BY <1>3, <1>4, NumberIdentifiesMade DEF InHistory

\* A change the document is ready for and lacks is the next of its actor.
LEMMA ReadyIsNext ==
    ASSUME Disciplined, NumberingInv, NEW d \in Doc, NEW h \in Made,
           Ready(d, h), ~InHistory(d, h)
    PROVE  changes[h].seq = Len(states[d][changes[h].actor]) + 1
<1> USE DEF NumberingInv, HistoryInv
<1>1. changes[h].actor \in Actor /\ changes[h].seq \in Nat \ {0}
  BY DEF TypeOK, Change
<1>2. Len(states[d][changes[h].actor]) \in Nat
  BY <1>1, StatesFacts
<1>3. ~(Len(states[d][changes[h].actor]) >= changes[h].seq)
  BY LackedIsNotDuplicate DEF DuplicateSeq
<1>4. CASE changes[h].seq = 1
  BY <1>1, <1>2, <1>3, <1>4
<1>5. CASE changes[h].seq > 1
  <2>1. PICK g \in changes[h].deps : /\ g \in Made
                                     /\ changes[g].actor = changes[h].actor
                                     /\ changes[g].seq = changes[h].seq - 1
    BY <1>5 DEF Chained, PredecessorIn
  <2>2. g \in History(d)
    BY <2>1 DEF Ready
  <2>3. changes[h].seq - 1 \in 1..Len(states[d][changes[h].actor])
    BY <2>1, <2>2, NumberInRange
  <2> DEFINE q == changes[h].seq
             n == Len(states[d][changes[h].actor])
  <2>4. q \in Nat /\ n \in Nat /\ ~(n >= q) /\ q - 1 \in 1..n
    BY <1>1, <1>2, <1>3, <2>3
  <2> HIDE DEF q, n
  <2>5. q = n + 1
    BY <2>4
  <2> QED
    BY <2>5 DEF q, n
<1> QED
  BY <1>1, <1>4, <1>5
-----------------------------------------------------------------------------
(* Steps *)

\* Appending the next change of an actor keeps states exact.
LEMMA GrowKeepsStates ==
    ASSUME TypeOK, StatesExact, NEW d \in Doc, NEW h \in Hash, NEW c \in Change, Grow(d, h, c),
           c.seq = Len(states[d][c.actor]) + 1
    PROVE  StatesExact'
<1> DEFINE n == Len(histroy[d])
           b == c.actor
           m == Len(states[d][b])
<1>1. /\ n \in Nat /\ DOMAIN histroy[d] = 1..n
      /\ b \in Actor /\ m \in Nat /\ DOMAIN states[d][b] = 1..m
      /\ states[d][b] \in Seq(Nat) /\ n + 1 \in Nat
  BY HistoryHasType, StatesFacts DEF Change
<1>2. /\ DOMAIN histroy'[d] = 1..n \cup {n + 1}
      /\ \A i \in 1..n : histroy'[d][i] = histroy[d][i]
      /\ histroy'[d][n + 1] = h
      /\ changes'[h] = c
      /\ \A e \in Doc : \A g \in History(e) : changes'[g] = changes[g]
      /\ \A e \in Doc \ {d} : histroy'[e] = histroy[e]
  BY <1>1, GrowFacts
<1>3. \A e \in Doc : \A i \in DOMAIN histroy[e] : changes'[histroy[e][i]] = changes[histroy[e][i]]
  BY <1>2 DEF History, Range
<1>4. states' = [states EXCEPT ![d] = [states[d] EXCEPT ![b] = Append(states[d][b], n + 1)]]
  BY DEF Grow, UpdateHistory
<1>5. /\ \A e \in Doc \ {d} : states'[e] = states[e]
      /\ \A a \in Actor \ {b} : states'[d][a] = states[d][a]
      /\ states'[d][b] = Append(states[d][b], n + 1)
  BY <1>1, <1>4 DEF TypeOK
<1>6. /\ DOMAIN states'[d][b] = 1..m \cup {m + 1}
      /\ \A k \in 1..m : states'[d][b][k] = states[d][b][k]
      /\ states'[d][b][m + 1] = n + 1
  <2>1. states[d][b] \in Seq(Nat) /\ Nat \subseteq Nat /\ n + 1 \in Nat
    BY <1>1
  <2> DEFINE s == states[d][b]
             x == n + 1
  <2> HIDE DEF s, x
  <2>2. s \in Seq(Nat) /\ x \in Nat /\ Nat \subseteq Nat
    BY <2>1 DEF s, x
  <2>3. /\ DOMAIN Append(s, x) = DOMAIN s \cup {Len(s) + 1}
        /\ \A i \in DOMAIN s : Append(s, x)[i] = s[i]
        /\ Append(s, x)[Len(s) + 1] = x
    BY <2>2, AppendFacts
  <2> QED
    BY <1>1, <1>5, <2>3 DEF s, x, m
<1>7. c.seq = m + 1 /\ c.actor = b
  OBVIOUS
<1> HIDE DEF n, m, b
<1>8. ASSUME NEW e \in Doc, NEW a \in Actor, NEW k \in DOMAIN states'[e][a]
      PROVE  /\ states'[e][a][k] \in DOMAIN histroy'[e]
             /\ changes'[histroy'[e][states'[e][a][k]]].actor = a
             /\ changes'[histroy'[e][states'[e][a][k]]].seq = k
  <2>1. CASE e # d
    <3>1. /\ states'[e] = states[e] /\ histroy'[e] = histroy[e]
          /\ k \in DOMAIN states[e][a]
      BY <1>2, <1>5, <1>8, <2>1
    <3>2. /\ states[e][a][k] \in DOMAIN histroy[e]
          /\ changes[histroy[e][states[e][a][k]]].actor = a
          /\ changes[histroy[e][states[e][a][k]]].seq = k
      BY <3>1, EntryIsChange
    <3>3. changes'[histroy[e][states[e][a][k]]] = changes[histroy[e][states[e][a][k]]]
      BY <1>3, <3>2
    <3> QED
      BY <3>1, <3>2, <3>3
  <2>2. CASE e = d /\ k \in DOMAIN states[d][a]
    <3>1. states'[d][a][k] = states[d][a][k]
      BY <1>1, <1>5, <1>6, <2>2
    <3>2. /\ states[d][a][k] \in DOMAIN histroy[d]
          /\ changes[histroy[d][states[d][a][k]]].actor = a
          /\ changes[histroy[d][states[d][a][k]]].seq = k
      BY <2>2, EntryIsChange
    <3> DEFINE i == states[d][a][k]
    <3>3. histroy'[d][i] = histroy[d][i]
      BY <1>1, <1>2, <3>2
    <3>4. changes'[histroy[d][i]] = changes[histroy[d][i]]
      BY <1>3, <3>2
    <3>5. i \in DOMAIN histroy'[d]
      BY <1>1, <1>2, <3>2
    <3> HIDE DEF i
    <3>6. states'[e][a][k] = i
      BY <2>2, <3>1 DEF i
    <3> QED
      BY <2>2, <3>2, <3>3, <3>4, <3>5, <3>6 DEF i
  <2>3. CASE e = d /\ k \notin DOMAIN states[d][a]
    <3>1. a = b /\ k = m + 1
      BY <1>1, <1>5, <1>6, <1>8, <2>3
    <3> QED
      BY <1>2, <1>6, <1>7, <2>3, <3>1
  <2> QED
    BY <2>1, <2>2, <2>3
<1>9. ASSUME NEW e \in Doc, NEW i \in DOMAIN histroy'[e]
      PROVE  \E k \in DOMAIN states'[e][changes'[histroy'[e][i]].actor] :
                states'[e][changes'[histroy'[e][i]].actor][k] = i
  <2>1. CASE e # d
    <3>1. /\ states'[e] = states[e] /\ histroy'[e] = histroy[e]
          /\ i \in DOMAIN histroy[e]
      BY <1>2, <1>5, <1>9, <2>1
    <3>2. \E k \in DOMAIN states[e][changes[histroy[e][i]].actor] :
             states[e][changes[histroy[e][i]].actor][k] = i
      BY <3>1, PositionIsListed
    <3>3. changes'[histroy[e][i]] = changes[histroy[e][i]]
      BY <1>3, <3>1
    <3> QED
      BY <3>1, <3>2, <3>3
  <2>2. CASE e = d /\ i \in 1..n
    <3>1. /\ histroy'[d][i] = histroy[d][i]
          /\ changes'[histroy[d][i]] = changes[histroy[d][i]]
      BY <1>1, <1>2, <1>3, <2>2
    <3> DEFINE a == changes[histroy[d][i]].actor
    <3>5. i \in DOMAIN histroy[d]
      BY <1>1, <2>2
    <3>2. PICK k \in DOMAIN states[d][a] : states[d][a][k] = i
      BY <3>5, PositionIsListed
    <3>3. a \in Actor
      BY <1>1, <2>2, HistoryHasType DEF TypeOK, Change
    <3>4. k \in DOMAIN states'[d][a] /\ states'[d][a][k] = i
      BY <1>1, <1>5, <1>6, <3>2, <3>3
    <3> QED
      BY <2>2, <3>1, <3>4
  <2>3. CASE e = d /\ i = n + 1
    BY <1>2, <1>6, <1>7, <2>3
  <2> QED
    BY <1>2, <2>1, <2>2, <2>3
<1> QED
  <2>1. ASSUME NEW e \in Doc, NEW a \in Actor, NEW k \in DOMAIN states'[e][a]
        PROVE  NumberedAs(e, a, k)'
    BY <1>8 DEF NumberedAs
  <2>2. ASSUME NEW e \in Doc, NEW i \in DOMAIN histroy'[e]
        PROVE  Listed(e, i)'
    BY <1>9 DEF Listed
  <2> QED
    BY <2>1, <2>2 DEF StatesExact

\* Taking in a change somebody made: in the loop over the batch or from the queue.
Take(d, h) ==
    /\ h \in Made /\ ~InHistory(d, h) /\ Ready(d, h)
    /\ Grow(d, h, changes[h])
    /\ UNCHANGED <<changes, live, tx>>

Still == UNCHANGED <<changes, histroy, states, max_op, tx>> /\ live \subseteq live'

\* What a step does to what the numbering speaks of.
LEMMA NumberingStepShape ==
    ASSUME HistoryInv, ConstantsAssumption, [Next]_vars
    PROVE  \/ Still
           \/ \E d \in Doc : \E n \in {0, 1} : Edit(d, n)
           \/ \E d \in Doc : \E h \in Hash : Commit(d, h)
           \/ \E d \in Doc : \E h \in Hash : Take(d, h)
           \/ \E d, e \in Doc : Fork(d, e)
<1> USE DEF HistoryInv
<1>1. ASSUME NEW d \in Doc, NEW h \in Made, ~InHistory(d, h), Ready(d, h),
             UpdateHistory(d, h, changes[h]), UNCHANGED <<changes, live, tx>>
      PROVE  \E e \in Doc : \E g \in Hash : Take(e, g)
  <2>1. Made' = Made \cup {h} /\ changes' = changes /\ h \in Hash
    BY <1>1 DEF Made, TypeOK
  <2>2. Grow(d, h, changes[h]) /\ h \in Hash
    BY <1>1, <2>1 DEF Grow, Ready, InHistory
  <2> QED
    BY <1>1, <2>2 DEF Take
<1>2. ASSUME NEW d \in Doc, ApplyReady(d)
      PROVE  \E e \in Doc : \E g \in Hash : Take(e, g)
  BY <1>1, <1>2, NextReceivedType DEF ApplyReady
<1>3. ASSUME NEW d \in Doc, DrainApply(d)
      PROVE  \E e \in Doc : \E g \in Hash : Take(e, g)
  <2>1. PICK i \in DOMAIN queue[d] :
           /\ FirstReady(d, i)
           /\ ~InHistory(d, queue[d][i])
           /\ UpdateHistory(d, queue[d][i], changes[queue[d][i]])
    BY <1>3 DEF DrainApply
  <2>2. queue[d][i] \in Made
    BY ElementOfSeq, LenProperties DEF TypeOK
  <2>3. Ready(d, queue[d][i]) /\ UNCHANGED <<changes, live, tx>>
    BY <1>3, <2>1 DEF FirstReady, ReadyAt, DrainApply
  <2> QED
    BY <1>1, <2>1, <2>2, <2>3
<1>4. ASSUME NEW d \in Doc,
             \/ ApplyChanges(d) \/ (\E o \in Doc : Merge(d, o)) \/ (\E e \in Doc : Load(d, e))
             \/ SkipKnown(d) \/ RejectDuplicateSeq(d) \/ Enqueue(d)
             \/ StartDrain(d) \/ DrainSkip(d) \/ DrainDone(d)
      PROVE  Still
  BY <1>4 DEF ApplyChanges, Merge, Load, Receive, SkipKnown, RejectDuplicateSeq,
              Enqueue, StartDrain, DrainSkip, DrainDone, docVars, Still
<1>5. CASE UNCHANGED vars
  BY <1>5 DEF vars, Still
<1> QED
  BY <1>2, <1>3, <1>4, <1>5 DEF Next, ApplyStep

\* A step that leaves histories and transactions alone keeps the numbering.
LEMMA StillKeepsNumbering ==
    ASSUME NumberingInv, Still
    PROVE  StatesExact' /\ KeptByMaker' /\ Chained' /\ TxCurrent' /\ OpIdsUnique'
<1>1. StatesExact'
  <2>1. StatesExact /\ UNCHANGED <<changes, histroy, states>>
    BY DEF NumberingInv, Still
  <2> QED
    BY <2>1, SameStates
<1>2. KeptByMaker'
  BY DEF NumberingInv, Still, KeptByMaker, Made, History
<1>3. Chained' /\ TxCurrent' /\ OpIdsUnique'
  BY DEF NumberingInv, Still, Chained, TxCurrent, OpIdsUnique, PredecessorIn, Made, LastOp
<1> QED
  BY <1>1, <1>2, <1>3

\* A change taken in is the next of its actor, which is not the document's own.
LEMMA TakeKeepsNumbering ==
    ASSUME Disciplined, NumberingInv, NEW d \in Doc, NEW h \in Hash, Take(d, h)
    PROVE  StatesExact' /\ KeptByMaker' /\ Chained' /\ TxCurrent' /\ OpIdsUnique'
<1> USE DEF NumberingInv, HistoryInv
<1>1. h \in Made /\ changes[h] \in Change /\ ~InHistory(d, h) /\ Ready(d, h)
  BY DEF Take, TypeOK
<1>2. Grow(d, h, changes[h]) /\ changes' = changes /\ live' = live /\ tx' = tx
  BY DEF Take
<1>3. StatesExact'
  BY <1>1, <1>2, ReadyIsNext, GrowKeepsStates
<1>4. \A e \in Doc : History(e) \subseteq History(e)'
  BY <1>1, <1>2, GrowFacts DEF History
<1>5. KeptByMaker'
  BY <1>2, <1>4 DEF KeptByMaker, Made, TypeOK
<1>6. Chained' /\ OpIdsUnique'
  BY <1>2 DEF Chained, OpIdsUnique, PredecessorIn, Made, LastOp
<1>7. ASSUME NEW e \in Doc
      PROVE  states'[e][ActorOf[e]] = states[e][ActorOf[e]]
  <2>1. CASE e # d
    BY <1>2, <2>1 DEF Grow, UpdateHistory, TypeOK
  <2>2. CASE e = d
    <3>1. changes[h].actor # ActorOf[d]
      BY <1>1, OwnChangesHeld DEF InHistory
    <3> QED
      BY <1>1, <1>2, <2>2, <3>1 DEF Grow, UpdateHistory, TypeOK, Change
  <2> QED
    BY <2>1, <2>2
<1>8. TxCurrent'
  BY <1>2, <1>7 DEF TxCurrent, PredecessorIn, Made, LastOp
<1> QED
  BY <1>3, <1>5, <1>6, <1>8

\* A transaction opened now gets the next number and the operation ids after all those
\* of its actor.
LEMMA FreshTransaction ==
    ASSUME Disciplined, ConstantsAssumption, NumberingInv, NEW d \in Doc
    PROVE  LET t == TransactionInner(d) IN
           /\ t.doc = d
           /\ t.seq = Len(states[d][ActorOf[d]]) + 1
           /\ t.seq > 1 => PredecessorIn(t.deps, ActorOf[d], t.seq - 1)
           /\ \A h \in Made : changes[h].actor = ActorOf[d] => LastOp(changes[h]) < t.start_op
<1>0. TypeOK /\ StatesExact /\ MaxOpExact /\ KeptByMaker /\ Unborn
  BY DEF NumberingInv, HistoryInv
<1> DEFINE own == states[d][ActorOf[d]]
           n == Len(own)
<1>1. ActorOf[d] \in Actor
  BY DEF ConstantsAssumption
<1>2. n \in Nat /\ DOMAIN own = 1..n
  BY <1>0, <1>1, StatesFacts
<1>3. ASSUME n + 1 > 1
      PROVE  PredecessorIn(deps[d] \cup LastLocalHash(d), ActorOf[d], n)
  <2>1. n \in DOMAIN own /\ n \in {n} \ {0}
    BY <1>2, <1>3
  <2>2. /\ own[n] \in DOMAIN histroy[d]
        /\ changes[histroy[d][own[n]]].actor = ActorOf[d]
        /\ changes[histroy[d][own[n]]].seq = n
    <3>1. ASSUME NEW a \in Actor, NEW k \in DOMAIN states[d][a]
          PROVE  /\ states[d][a][k] \in DOMAIN histroy[d]
                 /\ changes[histroy[d][states[d][a][k]]].actor = a
                 /\ changes[histroy[d][states[d][a][k]]].seq = k
      BY <1>0, EntryIsChange
    <3> HIDE DEF n
    <3> QED
      BY <1>1, <2>1, <3>1
  <2>3. histroy[d][own[n]] \in Made
    BY <1>0, <2>2, HistoryHasType
  <2>4. histroy[d][own[n]] \in LastLocalHash(d)
    BY <2>1 DEF LastLocalHash
  <2> QED
    BY <2>2, <2>3, <2>4 DEF PredecessorIn
<1>4. ASSUME NEW h \in Made, changes[h].actor = ActorOf[d]
      PROVE  LastOp(changes[h]) < max_op[d] + 1
  <2>1. h \in History(d)
    BY <1>0, <1>4, OwnChangesHeld
  <2>2. changes[h].start_op \in Nat /\ changes[h].num_ops \in Nat /\ max_op[d] \in Nat
    BY <1>0 DEF TypeOK, Change
  <2>3. LastOp(changes[h]) <= max_op[d]
    BY <1>0, <2>1 DEF MaxOpExact
  <2> QED
    BY <2>2, <2>3 DEF LastOp
<1>5. (n + 1) - 1 = n
  BY <1>2
<1> QED
  BY <1>3, <1>4, <1>5 DEF TransactionInner

\* Recording an operation, in a transaction that was open or in a new one.
LEMMA EditKeepsNumbering ==
    ASSUME Disciplined, ConstantsAssumption, NumberingInv,
           NEW d \in Doc, NEW n \in {0, 1}, Edit(d, n)
    PROVE  StatesExact' /\ KeptByMaker' /\ Chained' /\ TxCurrent' /\ OpIdsUnique'
<1> USE DEF NumberingInv, HistoryInv
<1> DEFINE t == IF tx[d] = NoTx THEN TransactionInner(d) ELSE tx[d]
           u == [t EXCEPT !.pending = @ + n]
<1>1. UNCHANGED <<changes, live, histroy, states, max_op>> /\ tx' = [tx EXCEPT ![d] = u]
  BY DEF Edit, docVars
<1>2. t \in Transaction
  BY TransactionInnerType DEF TypeOK
<1>3. /\ t.doc = d
      /\ t.seq = Len(states[d][ActorOf[d]]) + 1
      /\ t.seq > 1 => PredecessorIn(t.deps, ActorOf[d], t.seq - 1)
      /\ \A h \in Made : changes[h].actor = ActorOf[d] => LastOp(changes[h]) < t.start_op
  BY FreshTransaction DEF TxCurrent
<1> HIDE DEF t
<1>4. u.doc = t.doc /\ u.seq = t.seq /\ u.start_op = t.start_op /\ u.deps = t.deps
  BY <1>2 DEF Transaction
<1> HIDE DEF u
<1>5. tx'[d] = u /\ \A e \in Doc \ {d} : tx'[e] = tx[e]
  BY <1>1 DEF TypeOK
<1>6. StatesExact'
  <2>1. StatesExact /\ UNCHANGED <<changes, histroy, states>>
    BY <1>1
  <2> QED
    BY <2>1, SameStates
<1>7. KeptByMaker'
  BY <1>1 DEF KeptByMaker, Made, History
<1>8. Chained' /\ OpIdsUnique'
  BY <1>1 DEF Chained, OpIdsUnique, PredecessorIn, Made, LastOp
<1>9. ASSUME NEW e \in Doc, tx'[e] # NoTx
      PROVE  /\ tx'[e].doc = e
             /\ tx'[e].seq = Len(states[e][ActorOf[e]]) + 1
             /\ tx'[e].seq > 1 => PredecessorIn(tx'[e].deps, ActorOf[e], tx'[e].seq - 1)
             /\ \A h \in Made : changes[h].actor = ActorOf[e] => LastOp(changes[h]) < tx'[e].start_op
  <2>1. CASE e = d
    BY <1>3, <1>4, <1>5, <2>1
  <2>2. CASE e # d
    BY <1>5, <1>9, <2>2 DEF TxCurrent
  <2> QED
    BY <2>1, <2>2
<1>10. TxCurrent'
  BY <1>1, <1>9 DEF TxCurrent, PredecessorIn, Made, LastOp, NoTx
<1> QED
  BY <1>6, <1>7, <1>8, <1>10

\* A commit: the change takes the number and the operation ids its transaction holds.
LEMMA CommitKeepsNumbering ==
    ASSUME Disciplined, ConstantsAssumption, NumberingInv,
           NEW d \in Doc, NEW h \in Hash, Commit(d, h)
    PROVE  StatesExact' /\ KeptByMaker' /\ Chained' /\ TxCurrent' /\ OpIdsUnique'
<1> USE DEF NumberingInv, HistoryInv
<1> DEFINE t == tx[d]
           c == [actor |-> ActorOf[t.doc], seq |-> t.seq, start_op |-> t.start_op,
                 num_ops |-> t.pending, deps |-> t.deps]
<1>1. t \in Transaction /\ t # NoTx
  BY DEF Commit, TypeOK
<1>2. /\ t.doc = d
      /\ t.seq = Len(states[d][ActorOf[d]]) + 1
      /\ t.seq > 1 => PredecessorIn(t.deps, ActorOf[d], t.seq - 1)
      /\ \A g \in Made : changes[g].actor = ActorOf[d] => LastOp(changes[g]) < t.start_op
  BY <1>1 DEF TxCurrent
<1>3. /\ UpdateHistory(d, h, c)
      /\ changes' = [x \in Made \cup {h} |-> IF x = h THEN c ELSE changes[x]]
      /\ h \notin Made /\ d \in live /\ live' = live
      /\ tx' = [tx EXCEPT ![d] = NoTx]
  BY <1>2 DEF Commit
<1>4. c \in Change
  BY <1>1, <1>2 DEF Transaction, Change, ConstantsAssumption
<1>5. h \notin History(d) /\ c.deps \subseteq History(d)
  BY <1>1, <1>2, <1>3, HistoryHasType DEF TxDepsHeld
<1>6. /\ c.actor = ActorOf[d] /\ c.seq = t.seq
      /\ c.start_op = t.start_op /\ c.deps = t.deps
  BY <1>2
<1> HIDE DEF c, t
<1>7. Made' = Made \cup {h} /\ changes'[h] = c /\ \A g \in Made : changes'[g] = changes[g]
  BY <1>3 DEF Made
<1>8. Grow(d, h, c)
  BY <1>3, <1>5, <1>7 DEF Grow
<1>9. StatesExact'
  BY <1>2, <1>4, <1>6, <1>8, GrowKeepsStates
<1>10. History(d)' = History(d) \cup {h} /\ \A e \in Doc \ {d} : histroy'[e] = histroy[e]
  BY <1>4, <1>8, GrowFacts
<1>11. KeptByMaker'
  <2>1. ASSUME NEW g \in Made
        PROVE  \E e \in live : ActorOf[e] = changes'[g].actor /\ g \in History(e)'
    BY <1>7, <1>10 DEF KeptByMaker, History, TypeOK
  <2>2. d \in live /\ ActorOf[d] = changes'[h].actor /\ h \in History(d)'
    BY <1>3, <1>6, <1>7, <1>10
  <2> QED
    BY <1>3, <1>7, <2>1, <2>2 DEF KeptByMaker
<1>12. ASSUME NEW D \in SUBSET Hash, NEW a, NEW k, PredecessorIn(D, a, k)
       PROVE  PredecessorIn(D, a, k)'
  BY <1>7, <1>12 DEF PredecessorIn
<1>13. Chained'
  <2>1. ASSUME NEW g \in Made, changes[g].seq > 1
        PROVE  PredecessorIn(changes[g].deps, changes[g].actor, changes[g].seq - 1)'
    <3>1. \E f \in changes[g].deps :
             f \in Made /\ changes[f].actor = changes[g].actor /\ changes[f].seq = changes[g].seq - 1
      BY <2>1 DEF Chained, PredecessorIn
    <3> QED
      BY <1>7, <3>1 DEF PredecessorIn
  <2>2. ASSUME c.seq > 1
        PROVE  PredecessorIn(changes[h].deps, changes[h].actor, changes[h].seq - 1)'
    <3>1. \E f \in c.deps : f \in Made /\ changes[f].actor = c.actor /\ changes[f].seq = c.seq - 1
      BY <1>2, <1>6, <2>2 DEF PredecessorIn
    <3> QED
      BY <1>7, <3>1 DEF PredecessorIn
  <2> QED
    BY <1>7, <2>1, <2>2 DEF Chained
<1>14. OpIdsUnique'
  <2>1. ASSUME NEW g \in Made, changes[g].actor = c.actor
        PROVE  LastOp(changes[g]) < c.start_op
    BY <1>2, <1>6, <2>1
  <2>2. ASSUME NEW g \in Made', NEW f \in Made', g # f, changes'[g].actor = changes'[f].actor
        PROVE  \/ LastOp(changes'[g]) < changes'[f].start_op
               \/ LastOp(changes'[f]) < changes'[g].start_op
    <3>1. CASE g \in Made /\ f \in Made
      BY <1>7, <2>2, <3>1 DEF OpIdsUnique
    <3>2. CASE g = h \/ f = h
      BY <1>7, <2>1, <2>2, <3>2
    <3> QED
      BY <1>7, <3>1, <3>2
  <2> QED
    BY <2>2 DEF OpIdsUnique, LastOp
<1>15. ASSUME NEW e \in Doc, tx'[e] # NoTx
       PROVE  /\ tx'[e].doc = e
              /\ tx'[e].seq = Len(states'[e][ActorOf[e]]) + 1
              /\ tx'[e].seq > 1 => PredecessorIn(tx[e].deps, ActorOf[e], tx[e].seq - 1)'
              /\ \A g \in Made' : changes'[g].actor = ActorOf[e] => LastOp(changes'[g]) < tx'[e].start_op
  <2>1. e # d /\ tx'[e] = tx[e]
    BY <1>3, <1>15 DEF TypeOK
  <2>2. states'[e] = states[e]
    BY <1>3, <2>1 DEF UpdateHistory, TypeOK
  <2>3. /\ tx[e].doc = e
        /\ tx[e].seq = Len(states[e][ActorOf[e]]) + 1
        /\ tx[e].seq > 1 => PredecessorIn(tx[e].deps, ActorOf[e], tx[e].seq - 1)
        /\ \A g \in Made : changes[g].actor = ActorOf[e] => LastOp(changes[g]) < tx[e].start_op
    BY <1>15, <2>1 DEF TxCurrent
  <2>4. ASSUME tx[e].seq > 1
        PROVE  PredecessorIn(tx[e].deps, ActorOf[e], tx[e].seq - 1)'
    <3>1. \E f \in tx[e].deps : f \in Made /\ changes[f].actor = ActorOf[e] /\ changes[f].seq = tx[e].seq - 1
      BY <2>3, <2>4 DEF PredecessorIn
    <3> QED
      BY <1>7, <2>1, <3>1 DEF PredecessorIn
  <2>5. ASSUME NEW g \in Made', changes'[g].actor = ActorOf[e]
        PROVE  LastOp(changes'[g]) < tx'[e].start_op
    <3>1. g # h
      BY <1>6, <1>7, <2>1, <2>5 DEF Disciplined
    <3> QED
      BY <1>7, <2>1, <2>3, <2>5, <3>1
  <2> QED
    BY <2>1, <2>2, <2>3, <2>4, <2>5
<1>16. TxCurrent'
  BY <1>15 DEF TxCurrent, LastOp, NoTx
<1> QED
  BY <1>9, <1>11, <1>13, <1>14, <1>16

\* A fork: the new document writes under its own actor id and has no transaction.
LEMMA ForkKeepsNumbering ==
    ASSUME Disciplined, ConstantsAssumption, NumberingInv,
           NEW d \in Doc, NEW e \in Doc, Fork(d, e)
    PROVE  StatesExact' /\ KeptByMaker' /\ Chained' /\ TxCurrent' /\ OpIdsUnique'
<1> USE DEF NumberingInv, HistoryInv
<1>1. /\ d \in live /\ e \notin live /\ live' = live \cup {e}
      /\ changes' = changes /\ tx[d] = NoTx
      /\ histroy' = [histroy EXCEPT ![e] = histroy[d]]
      /\ states'  = [states EXCEPT ![e] = states[d]]
      /\ tx'      = [tx EXCEPT ![e] = tx[d]]
  BY DEF Fork, Disciplined
<1>2. /\ histroy'[e] = histroy[d] /\ states'[e] = states[d] /\ tx'[e] = NoTx
      /\ \A f \in Doc \ {e} : histroy'[f] = histroy[f] /\ states'[f] = states[f] /\ tx'[f] = tx[f]
  BY <1>1 DEF TypeOK
<1>3. StatesExact'
  <2>1. ASSUME NEW f \in Doc
        PROVE  \E g \in Doc : histroy'[f] = histroy[g] /\ states'[f] = states[g]
    BY <1>2
  <2>2. ASSUME NEW f \in Doc, NEW a \in Actor, NEW k \in DOMAIN states'[f][a]
        PROVE  /\ states'[f][a][k] \in DOMAIN histroy'[f]
               /\ changes'[histroy'[f][states'[f][a][k]]].actor = a
               /\ changes'[histroy'[f][states'[f][a][k]]].seq = k
    <3>1. PICK g \in Doc : histroy'[f] = histroy[g] /\ states'[f] = states[g]
      BY <2>1
    <3>2. k \in DOMAIN states[g][a]
      BY <2>2, <3>1
    <3>3. /\ states[g][a][k] \in DOMAIN histroy[g]
          /\ changes[histroy[g][states[g][a][k]]].actor = a
          /\ changes[histroy[g][states[g][a][k]]].seq = k
      BY <3>2, EntryIsChange
    <3> QED
      BY <1>1, <3>1, <3>3
  <2>3. ASSUME NEW f \in Doc, NEW i \in DOMAIN histroy'[f]
        PROVE  \E k \in DOMAIN states'[f][changes'[histroy'[f][i]].actor] :
                  states'[f][changes'[histroy'[f][i]].actor][k] = i
    <3>1. PICK g \in Doc : histroy'[f] = histroy[g] /\ states'[f] = states[g]
      BY <2>1
    <3>2. i \in DOMAIN histroy[g]
      BY <2>3, <3>1
    <3>3. \E k \in DOMAIN states[g][changes[histroy[g][i]].actor] :
             states[g][changes[histroy[g][i]].actor][k] = i
      BY <3>2, PositionIsListed
    <3> QED
      BY <1>1, <3>1, <3>3
  <2> QED
    <3>1. ASSUME NEW f \in Doc, NEW a \in Actor, NEW k \in DOMAIN states'[f][a]
          PROVE  NumberedAs(f, a, k)'
      BY <2>2 DEF NumberedAs
    <3>2. ASSUME NEW f \in Doc, NEW i \in DOMAIN histroy'[f]
          PROVE  Listed(f, i)'
      BY <2>3 DEF Listed
    <3> QED
      BY <3>1, <3>2 DEF StatesExact
<1>4. KeptByMaker'
  <2>1. ASSUME NEW h \in Made
        PROVE  \E f \in live : ActorOf[f] = changes[h].actor /\ h \in History(f)'
    <3>1. PICK f \in live : ActorOf[f] = changes[h].actor /\ h \in History(f)
      BY DEF KeptByMaker
    <3>2. histroy'[f] = histroy[f]
      BY <1>1, <1>2, <3>1 DEF TypeOK
    <3> QED
      BY <3>1, <3>2 DEF History
  <2> QED
    BY <1>1, <2>1 DEF KeptByMaker, Made
<1>5. Chained' /\ OpIdsUnique'
  BY <1>1 DEF Chained, OpIdsUnique, PredecessorIn, Made, LastOp
<1>6. TxCurrent'
  BY <1>1, <1>2 DEF TxCurrent, PredecessorIn, Made, LastOp
<1> QED
  BY <1>3, <1>4, <1>5, <1>6
-----------------------------------------------------------------------------
(* The invariant and what follows from it *)

\* Every step keeps the numbering.
LEMMA NumberingInvStep ==
    ASSUME Disciplined, ConstantsAssumption, NumberingInv, [Next]_vars
    PROVE  NumberingInv'
<1>1. HistoryInv /\ HistoryInv'
  BY HistoryInvStep DEF NumberingInv
<1> QED
  BY <1>1, NumberingStepShape, StillKeepsNumbering, TakeKeepsNumbering, EditKeepsNumbering,
     CommitKeepsNumbering, ForkKeepsNumbering DEF NumberingInv

\* At the start there is nothing to number.
LEMMA NumberingInvInit ==
    ASSUME ConstantsAssumption, Init
    PROVE  NumberingInv
<1>1. HistoryInv
  BY HistoryInvInit
<1>2. Made = {} /\ \A d \in Doc : DOMAIN histroy[d] = {} /\ \A a \in Actor : DOMAIN states[d][a] = {}
  BY DEF Init, Made
<1>3. StatesExact
  BY <1>2 DEF StatesExact
<1>4. KeptByMaker /\ Chained /\ OpIdsUnique
  BY <1>2 DEF KeptByMaker, Chained, OpIdsUnique
<1>5. TxCurrent
  BY DEF Init, TxCurrent
<1> QED
  BY <1>1, <1>3, <1>4, <1>5 DEF NumberingInv

\* The numbering holds in every state of a disciplined system.
LEMMA NumberingInvariant == Spec => [](Disciplined => NumberingInv)
<1>1. Init => (Disciplined => NumberingInv)
  BY ConstantsAssumption, NumberingInvInit
<1>2. (Disciplined => NumberingInv) /\ [Next]_vars => (Disciplined => NumberingInv)'
  BY ConstantsAssumption, NumberingInvStep DEF Disciplined
<1> QED
  BY <1>1, <1>2, PTL DEF Spec

\* states finds every change by its actor and number, whatever order it came in, through
\* the batch or through the queue.
THEOREM StatesAreExact == Spec => [](Disciplined => StatesExact)
<1>1. (Disciplined => NumberingInv) => (Disciplined => StatesExact)
  BY DEF NumberingInv
<1> QED
  BY <1>1, NumberingInvariant, PTL

\* No two changes share an operation id, also when a transaction stays open while its
\* document receives changes that raise its counter.
THEOREM OperationIdsAreUnique == Spec => [](Disciplined => OpIdsUnique)
<1>1. (Disciplined => NumberingInv) => (Disciplined => OpIdsUnique)
  BY DEF NumberingInv
<1> QED
  BY <1>1, NumberingInvariant, PTL

\* apply_changes, merge and load throw DuplicateSeqNumber for no change of such a system.
THEOREM NothingIsRejected == Spec => [](Disciplined => NeverRejected)
<1>1. (Disciplined => NumberingInv) => (Disciplined => NeverRejected)
  BY LackedIsNotDuplicate, NextReceivedType DEF NeverRejected, NumberingInv, HistoryInv
<1> QED
  BY <1>1, NumberingInvariant, PTL
-----------------------------------------------------------------------------
(* Batches and queues *)

\* A document that does not exist has received nothing, and the drain loop runs when
\* the batch is used up.
QueueShape ==
    /\ \A e \in Doc \ live : queue[e] = <<>>
    /\ \A d \in Doc : call[d].phase = "drain" => call[d].batch = <<>>

\* The type of one document's queue and batch.
LEMMA QueueHasType ==
    ASSUME TypeOK, NEW d \in Doc
    PROVE  /\ queue[d] \in Seq(Made)
           /\ DOMAIN queue[d] = 1..Len(queue[d])
           /\ \A i \in DOMAIN queue[d] : queue[d][i] \in Made
           /\ Range(queue[d]) \subseteq Made
           /\ call[d] \in [phase : {"idle", "apply", "drain"}, batch : Seq(Made)]
BY LenProperties, RangeOfSeq, ElementOfSeq DEF TypeOK

\* An iteration of apply_changes_with concerns a document that exists and leaves the
\* queues and the calls of the others alone.
LEMMA ApplyStepFrame ==
    ASSUME TypeOK, Unborn, NEW d \in Doc, ApplyStep(d)
    PROVE  /\ d \in live /\ live' = live /\ call[d] # Idle
           /\ changes' = changes
           /\ \A e \in Doc \ {d} : /\ histroy'[e] = histroy[e]
                                   /\ queue'[e] = queue[e]
                                   /\ call'[e] = call[e]
<1>1. call[d] # Idle
  BY DEF ApplyStep, SkipKnown, RejectDuplicateSeq, ApplyReady, Enqueue, StartDrain,
         DrainApply, DrainSkip, DrainDone, Applying, Idle
<1>2. live' = live /\ changes' = changes
  BY DEF ApplyStep, SkipKnown, RejectDuplicateSeq, ApplyReady, Enqueue, StartDrain,
         DrainApply, DrainSkip, DrainDone, docVars
<1>3. \A e \in Doc \ {d} : call'[e] = call[e]
  BY DEF ApplyStep, SkipKnown, RejectDuplicateSeq, ApplyReady, Enqueue, StartDrain,
         DrainApply, DrainSkip, DrainDone, Advance, TypeOK
<1>4. \A e \in Doc \ {d} : histroy'[e] = histroy[e] /\ queue'[e] = queue[e]
  BY DEF ApplyStep, SkipKnown, RejectDuplicateSeq, ApplyReady, Enqueue, StartDrain,
         DrainApply, DrainSkip, DrainDone, UpdateHistory, docVars, TypeOK
<1> QED
  BY <1>1, <1>2, <1>3, <1>4 DEF Unborn

\* Accepting a batch concerns the call of one document.
LEMMA ReceiveFrame ==
    ASSUME TypeOK, NEW d \in Doc, \E b : Receive(d, b)
    PROVE  /\ call'[d].phase = "apply" /\ call'[d] # Idle
           /\ \A e \in Doc \ {d} : call'[e] = call[e]
           /\ histroy' = histroy /\ queue' = queue /\ changes' = changes
BY DEF Receive, TypeOK, Idle

\* Every step keeps the shape.
LEMMA QueueShapeStep ==
    ASSUME ConstantsAssumption, HistoryInv, QueueShape, [Next]_vars
    PROVE  QueueShape'
<1> USE DEF HistoryInv
<1>1. ASSUME UNCHANGED <<live, queue, call>>
      PROVE  QueueShape'
  BY <1>1 DEF QueueShape
<1>2. ASSUME NEW d \in Doc, (\E n \in {0, 1} : Edit(d, n)) \/ (\E h \in Hash : Commit(d, h))
      PROVE  QueueShape'
  BY <1>1, <1>2 DEF Edit, Commit, docVars
<1>3. ASSUME NEW d \in Doc, \E b : Receive(d, b), live \subseteq live'
      PROVE  QueueShape'
  BY <1>3, ReceiveFrame DEF QueueShape
<1>4. ASSUME NEW d \in Doc, ApplyStep(d)
      PROVE  QueueShape'
  <2>1. /\ d \in live /\ live' = live
        /\ \A e \in Doc \ {d} : queue'[e] = queue[e] /\ call'[e] = call[e]
    BY <1>4, ApplyStepFrame
  <2>2. call'[d].phase = "drain" => call'[d].batch = <<>>
    BY <1>4 DEF ApplyStep, SkipKnown, RejectDuplicateSeq, ApplyReady, Enqueue, StartDrain,
                DrainApply, DrainSkip, DrainDone, Advance, Idle, QueueShape, TypeOK
  <2> QED
    BY <2>1, <2>2 DEF QueueShape
<1>5. ASSUME NEW d \in Doc, NEW e \in Doc, Fork(d, e)
      PROVE  QueueShape'
  BY <1>5 DEF Fork, QueueShape, TypeOK
<1>6. ASSUME NEW d \in Doc, \/ ApplyChanges(d) \/ \E o \in Doc : Merge(d, o)
                            \/ \E e \in Doc : Load(d, e)
      PROVE  QueueShape'
  BY <1>3, <1>6 DEF ApplyChanges, Merge, Load
<1>7. CASE UNCHANGED vars
  BY <1>1, <1>7 DEF vars
<1> QED
  BY <1>2, <1>4, <1>5, <1>6, <1>7 DEF Next

\* No document that does not exist has a queue, and batches come before queues, at all times.
LEMMA QueueShapeInvariant == Spec => [](HistoryInv /\ QueueShape)
<1>1. Init => HistoryInv /\ QueueShape
  BY ConstantsAssumption, HistoryInvInit DEF Init, QueueShape, Idle
<1>2. HistoryInv /\ QueueShape /\ [Next]_vars => (HistoryInv /\ QueueShape)'
  BY ConstantsAssumption, HistoryInvStep, QueueShapeStep
<1> QED
  BY <1>1, <1>2, PTL DEF Spec
-----------------------------------------------------------------------------
(* Nothing is lost *)

\* Appending adds one element.
LEMMA AppendRange ==
    ASSUME NEW S, NEW s \in Seq(S), NEW x \in S
    PROVE  Range(Append(s, x)) = Range(s) \cup {x}
<1>1. S \subseteq S
  OBVIOUS
<1> QED
  BY <1>1, AppendFacts DEF Range

\* Where a document puts what it was given, by the step it takes.
LEMMA ApplyStepHolds ==
    ASSUME HistoryInv, QueueShape, NEW d \in Doc, ApplyStep(d), ~RejectDuplicateSeq(d)
    PROVE  Held(d) \subseteq Held(d)'
<1> USE DEF HistoryInv
<1>1. /\ histroy[d] \in Seq(Made) /\ queue[d] \in Seq(Made)
      /\ call[d] \in [phase : {"idle", "apply", "drain"}, batch : Seq(Made)]
  BY HistoryHasType, QueueHasType
<1>2. Applying(d) => /\ NextReceived(d) \in Made
                     /\ Range(call[d].batch) = Range(Tail(call[d].batch)) \cup {NextReceived(d)}
  BY NextReceivedType
<1>3. Advance(d) => call'[d].batch = Tail(call[d].batch)
  BY DEF Advance, TypeOK
<1>4. Range(<<>>) = {}
  BY DEF Range
<1>5. CASE SkipKnown(d)
  <2>1. histroy' = histroy /\ queue' = queue /\ call'[d].batch = Tail(call[d].batch)
    BY <1>3, <1>5 DEF SkipKnown, docVars
  <2>2. NextReceived(d) \in History(d)
    BY <1>5 DEF SkipKnown, InHistory
  <2> QED
    BY <1>2, <1>5, <2>1, <2>2 DEF Held, History, SkipKnown
<1>6. CASE ApplyReady(d)
  <2>1. /\ histroy'[d] = Append(histroy[d], NextReceived(d))
        /\ queue' = queue /\ call'[d].batch = Tail(call[d].batch)
    BY <1>3, <1>6 DEF ApplyReady, UpdateHistory, TypeOK
  <2>2. Range(histroy'[d]) = History(d) \cup {NextReceived(d)}
    BY <1>1, <1>2, <1>6, <2>1, AppendRange DEF ApplyReady, History
  <2> QED
    BY <1>2, <1>6, <2>1, <2>2 DEF Held, History, ApplyReady
<1>7. CASE Enqueue(d)
  <2>1. /\ queue'[d] = Append(queue[d], NextReceived(d))
        /\ histroy' = histroy /\ call'[d].batch = Tail(call[d].batch)
    BY <1>3, <1>7 DEF Enqueue, TypeOK
  <2>2. Range(queue'[d]) = Range(queue[d]) \cup {NextReceived(d)}
    BY <1>1, <1>2, <1>7, <2>1, AppendRange DEF Enqueue
  <2> QED
    BY <1>2, <1>7, <2>1, <2>2 DEF Held, History, Enqueue
<1>8. CASE StartDrain(d)
  BY <1>8 DEF StartDrain, Held, History, docVars, TypeOK
<1>9. CASE DrainApply(d)
  <2>1. PICK i \in DOMAIN queue[d] :
           /\ queue' = [queue EXCEPT ![d] = SwapRemove(@, i)]
           /\ UpdateHistory(d, queue[d][i], changes[queue[d][i]])
    BY <1>9 DEF DrainApply
  <2>2. queue'[d] = SwapRemove(queue[d], i) /\ histroy'[d] = Append(histroy[d], queue[d][i])
    BY <2>1 DEF UpdateHistory, TypeOK
  <2>3. Range(queue[d]) \subseteq Range(queue'[d]) \cup {queue[d][i]}
    BY <1>1, <2>2, SwapRemoveType
  <2>4. Range(histroy'[d]) = History(d) \cup {queue[d][i]}
    BY <1>1, <2>2, QueueHasType, AppendRange DEF History
  <2> QED
    BY <1>9, <2>3, <2>4 DEF Held, History, DrainApply
<1>10. CASE DrainSkip(d)
  <2>1. PICK i \in DOMAIN queue[d] :
           queue' = [queue EXCEPT ![d] = SwapRemove(@, i)] /\ InHistory(d, queue[d][i])
    BY <1>10 DEF DrainSkip
  <2>2. queue'[d] = SwapRemove(queue[d], i)
    BY <2>1 DEF TypeOK
  <2>3. Range(queue[d]) \subseteq Range(queue'[d]) \cup {queue[d][i]}
    BY <1>1, <2>2, SwapRemoveType
  <2> QED
    BY <1>10, <2>1, <2>3 DEF Held, History, InHistory, DrainSkip
<1>11. CASE DrainDone(d)
  <2>1. call[d].batch = <<>> /\ histroy' = histroy /\ queue' = queue
    BY <1>11 DEF DrainDone, QueueShape, docVars
  <2> QED
    BY <1>4, <2>1 DEF Held, History
<1> QED
  BY <1>5, <1>6, <1>7, <1>8, <1>9, <1>10, <1>11 DEF ApplyStep

\* No step takes away from what a document holds, except a rejection.
LEMMA StepHolds ==
    ASSUME ConstantsAssumption, HistoryInv, QueueShape, [Next]_vars, NEW d \in Doc
    PROVE  Held(d) \subseteq Held(d)' \/ RejectDuplicateSeq(d)
<1> USE DEF HistoryInv
<1>1. Range(<<>>) = {}
  BY DEF Range
<1>2. ASSUME NEW e \in Doc, ApplyStep(e)
      PROVE  Held(d) \subseteq Held(d)' \/ RejectDuplicateSeq(d)
  <2>1. CASE d = e
    BY <1>2, <2>1, ApplyStepHolds
  <2>2. CASE d # e
    BY <1>2, <2>2, ApplyStepFrame DEF Held, History
  <2> QED
    BY <2>1, <2>2
<1>3. ASSUME NEW e \in Doc, \E b : Receive(e, b), call[e] = Idle
      PROVE  Held(d) \subseteq Held(d)'
  <2>1. histroy' = histroy /\ queue' = queue /\ \A f \in Doc \ {e} : call'[f] = call[f]
    BY <1>3, ReceiveFrame
  <2>2. d = e => Range(call[d].batch) = {}
    BY <1>1, <1>3 DEF Idle
  <2> QED
    BY <2>1, <2>2 DEF Held, History
<1>4. ASSUME NEW e \in Doc, NEW h \in Hash, Commit(e, h)
      PROVE  Held(d) \subseteq Held(d)'
  BY <1>4, HistoryGrows DEF Held, Commit
<1>5. ASSUME NEW e \in Doc, NEW f \in Doc, Fork(e, f)
      PROVE  Held(d) \subseteq Held(d)'
  <2>1. call' = call /\ f \in Doc \ live /\ \A g \in Doc \ {f} : queue'[g] = queue[g]
    BY <1>5 DEF Fork, TypeOK
  <2>2. Range(queue[d]) \subseteq Range(queue'[d])
    BY <1>1, <2>1 DEF QueueShape
  <2> QED
    BY <2>1, <2>2, HistoryGrows DEF Held
<1>6. ASSUME NEW e \in Doc, ApplyChanges(e) \/ \E o \in Doc : Merge(e, o)
      PROVE  Held(d) \subseteq Held(d)'
  BY <1>3, <1>6 DEF ApplyChanges, Merge, MayReceive
<1>7. ASSUME NEW e \in Doc, NEW f \in Doc, Load(e, f)
      PROVE  Held(d) \subseteq Held(d)'
  BY <1>3, <1>7 DEF Load, Unborn
<1>8. ASSUME UNCHANGED <<histroy, queue, call>>
      PROVE  Held(d) \subseteq Held(d)'
  BY <1>8 DEF Held, History
<1>9. ASSUME NEW e \in Doc, NEW n \in {0, 1}, Edit(e, n)
      PROVE  Held(d) \subseteq Held(d)'
  BY <1>8, <1>9 DEF Edit, docVars
<1>10. CASE UNCHANGED vars
  BY <1>8, <1>10 DEF vars
<1> QED
  BY <1>2, <1>4, <1>5, <1>6, <1>7, <1>9, <1>10 DEF Next

\* A change that was given to a document and not rejected is in its batch, its queue or
\* its history from then on, through every iteration of both loops of
\* apply_changes_with and every removal from the queue, which changes its order.
THEOREM NothingIsLost == Spec => NothingLost
<1>1. HistoryInv /\ QueueShape /\ [Next]_vars =>
        [\A d \in Doc : Held(d) \subseteq Held(d)' \/ RejectDuplicateSeq(d)]_vars
  BY ConstantsAssumption, StepHolds
<1> QED
  BY <1>1, QueueShapeInvariant, PTL DEF Spec, NothingLost
-----------------------------------------------------------------------------
(* The queue holds only what has to wait *)

\* Every change is in the history of some document.
MadeIsHeld == \A h \in Made : \E d \in Doc : h \in History(d)

\* So what anybody's change depends on was made before it.
LEMMA MadeIsClosed ==
    ASSUME TypeOK, HistoryTopological, MadeIsHeld, NEW h \in Made
    PROVE  changes[h].deps \subseteq Made
<1>1. PICK d \in Doc : h \in History(d)
  BY DEF MadeIsHeld
<1> QED
  BY <1>1, TopologicalIsClosed, HistoryHasType

\* Every step leaves the queues of idle documents blocked: the end of the drain loop
\* because it found nothing ready, a commit because nobody can depend on its change yet.
LEMMA QueueBlockedStep ==
    ASSUME Disciplined, ConstantsAssumption, NumberingInv, QueueBlocked, [Next]_vars
    PROVE  QueueBlocked'
<1> USE DEF NumberingInv, HistoryInv
<1>1. ASSUME NEW d \in Doc, call'[d] = Idle => call[d] = Idle,
             queue'[d] = queue[d], histroy'[d] = histroy[d],
             \A q \in Range(queue[d]) : changes'[q] = changes[q], call'[d] = Idle
      PROVE  ReadyAt(d)' = {}
  <2>1. ReadyAt(d) = {}
    BY <1>1 DEF QueueBlocked
  <2> QED
    BY <1>1, <2>1 DEF ReadyAt, Ready, History, Range
<1>2. ASSUME UNCHANGED <<changes, histroy, queue, call>>
      PROVE  QueueBlocked'
  BY <1>1, <1>2 DEF QueueBlocked
<1>3. ASSUME NEW e \in Doc, NEW h \in Hash, Commit(e, h)
      PROVE  QueueBlocked'
  <2> SUFFICES ASSUME NEW d \in Doc, call'[d] = Idle, NEW i \in DOMAIN queue'[d],
                      Ready(d, queue[d][i])'
               PROVE  FALSE
    BY DEF QueueBlocked, ReadyAt
  <2>1. /\ queue' = queue /\ call' = call /\ h \notin Made
        /\ \A x \in Made : changes'[x] = changes[x]
    BY <1>3 DEF Commit
  <2>2. queue[d][i] \in Made /\ i \in DOMAIN queue[d]
    BY <2>1, QueueHasType
  <2>3. History(d)' \subseteq History(d) \cup {h}
    <3> DEFINE t == tx[e]
    <3>1. /\ t.doc \in Doc
          /\ histroy' = [histroy EXCEPT ![t.doc] = Append(@, h)]
      BY <1>3 DEF Commit, UpdateHistory, TypeOK, Transaction
    <3>2. histroy'[d] \in {histroy[d], Append(histroy[d], h)}
      BY <3>1 DEF TypeOK
    <3>3. histroy[d] \in Seq(Hash)
      BY HistoryHasType, SeqMonotonic DEF TypeOK
    <3>4. Range(Append(histroy[d], h)) = Range(histroy[d]) \cup {h}
      BY <3>3, AppendRange
    <3> QED
      BY <3>2, <3>4 DEF History
  <2>4. changes[queue[d][i]].deps \subseteq History(d) \cup {h}
    BY <2>1, <2>2, <2>3 DEF Ready
  <2>5. changes[queue[d][i]].deps \subseteq History(d)
    <3>1. MadeIsHeld
      BY DEF MadeIsHeld, KeptByMaker, TypeOK
    <3> QED
      BY <2>1, <2>2, <2>4, <3>1, MadeIsClosed
  <2>6. i \in ReadyAt(d)
    BY <2>2, <2>5 DEF ReadyAt, Ready
  <2> QED
    BY <2>1, <2>6 DEF QueueBlocked
<1>4. ASSUME NEW e \in Doc, \E b : Receive(e, b)
      PROVE  QueueBlocked'
  <2>1. /\ call'[e] # Idle /\ \A d \in Doc \ {e} : call'[d] = call[d]
        /\ histroy' = histroy /\ queue' = queue /\ changes' = changes
    BY <1>4, ReceiveFrame
  <2> QED
    BY <1>1, <2>1 DEF QueueBlocked
<1>5. ASSUME NEW e \in Doc, ApplyStep(e)
      PROVE  QueueBlocked'
  <2>1. /\ changes' = changes
        /\ \A d \in Doc \ {e} : /\ histroy'[d] = histroy[d]
                                /\ queue'[d] = queue[d]
                                /\ call'[d] = call[d]
    BY <1>5, ApplyStepFrame
  <2>2. ~RejectDuplicateSeq(e)
    BY LackedIsNotDuplicate, NextReceivedType DEF RejectDuplicateSeq
  <2>3. ~DrainDone(e) => call'[e] # Idle
    BY <1>5, <2>2 DEF ApplyStep, SkipKnown, ApplyReady, Enqueue, StartDrain,
                      DrainApply, DrainSkip, Advance, Idle, TypeOK
  <2>4. DrainDone(e) => ReadyAt(e) = {} /\ histroy' = histroy /\ queue' = queue
    BY DEF DrainDone, docVars
  <2>5. call'[e] = Idle => ReadyAt(e)' = {}
    BY <2>1, <2>3, <2>4 DEF ReadyAt, Ready, History
  <2>6. \A d \in Doc \ {e} : call'[d] = Idle => ReadyAt(d)' = {}
    BY <1>1, <2>1
  <2> QED
    BY <2>5, <2>6 DEF QueueBlocked
<1>6. ASSUME NEW e \in Doc, NEW f \in Doc, Fork(e, f)
      PROVE  QueueBlocked'
  <2>1. /\ call' = call /\ changes' = changes /\ call[e] = Idle
        /\ queue'[f] = queue[e] /\ histroy'[f] = histroy[e]
        /\ \A g \in Doc \ {f} : queue'[g] = queue[g] /\ histroy'[g] = histroy[g]
    BY <1>6 DEF Fork, TypeOK
  <2>2. ReadyAt(f)' = ReadyAt(e)
    BY <2>1 DEF ReadyAt, Ready, History
  <2>3. ReadyAt(f)' = {}
    BY <2>1, <2>2 DEF QueueBlocked
  <2>4. \A g \in Doc \ {f} : call'[g] = Idle => ReadyAt(g)' = {}
    BY <1>1, <2>1
  <2> QED
    BY <2>3, <2>4 DEF QueueBlocked
<1>7. ASSUME NEW d \in Doc, \/ ApplyChanges(d) \/ \E o \in Doc : Merge(d, o)
                            \/ \E e \in Doc : Load(d, e)
      PROVE  QueueBlocked'
  BY <1>4, <1>7 DEF ApplyChanges, Merge, Load
<1>8. ASSUME NEW d \in Doc, NEW n \in {0, 1}, Edit(d, n)
      PROVE  QueueBlocked'
  BY <1>2, <1>8 DEF Edit, docVars
<1>9. CASE UNCHANGED vars
  BY <1>2, <1>9 DEF vars
<1> QED
  BY <1>3, <1>5, <1>6, <1>7, <1>8, <1>9 DEF Next

\* The numbering is what keeps the drain loop from being cut short by an exception.
LEMMA QueueInvariant == Spec => [](Disciplined => NumberingInv /\ QueueBlocked)
<1>1. Init => (Disciplined => NumberingInv /\ QueueBlocked)
  BY ConstantsAssumption, NumberingInvInit DEF Init, QueueBlocked, ReadyAt
<1>2. (Disciplined => NumberingInv /\ QueueBlocked) /\ [Next]_vars
        => (Disciplined => NumberingInv /\ QueueBlocked)'
  BY ConstantsAssumption, NumberingInvStep, QueueBlockedStep DEF Disciplined
<1> QED
  BY <1>1, <1>2, PTL DEF Spec

\* Whenever no call of apply_changes runs on a document, no change of its queue is
\* causally ready: one that becomes ready while the queue is drained is taken in the same
\* call, and local commits never make one ready.
THEOREM QueueIsBlocked == Spec => [](Disciplined => QueueBlocked)
<1>1. (Disciplined => NumberingInv /\ QueueBlocked) => (Disciplined => QueueBlocked)
  OBVIOUS
<1> QED
  BY <1>1, QueueInvariant, PTL
=============================================================================
