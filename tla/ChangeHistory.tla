---------------------------- MODULE ChangeHistory ----------------------------
(***************************************************************************)
(* The change history of Automerge documents: local transactions, the      *)
(* application of received changes in any order with the queue of those    *)
(* that are not causally ready, merge, fork, and load of a saved document. *)
(*                                                                         *)
(* A change is its header; the operations it carries are counted, not      *)
(* represented, and its hash is a value nobody has used before.  The loop  *)
(* of apply_changes_with is one step per iteration: while it runs, call[d] *)
(* says where it is and no other operation of document d may start.        *)
(*                                                                         *)
(* Operators named Bad... are mistakes that are easy to make in the code   *)
(* beside them; the behaviours never use them (see README, Mutants).       *)
(***************************************************************************)
EXTENDS Naturals, Sequences, FiniteSets, Functions

CONSTANTS
    Doc,              \* objects of type Automerge
    InitialDocs,      \* those that exist from the start; the others come of fork and load
    Actor,            \* actor ids
    ActorOf,          \* the actor id each document writes under
    Hash,             \* change hashes; also bounds the number of changes ever made
    MaxOps,           \* bound: operations of one transaction
    MaxBatch,         \* bound: changes given to one call of apply_changes
    MaxQueue,         \* bound: no changes are received when the queue is longer, nor
                      \* by apply_changes when it could become longer
    ReceiveWhileOpen, \* may a document receive changes while its transaction is open?
    ForkWhileOpen     \* may a document be forked while its transaction is open?

ASSUME ConstantsAssumption ==
    /\ InitialDocs \subseteq Doc
    /\ ActorOf \in [Doc -> Actor]
    /\ MaxOps \in Nat
    /\ MaxBatch \in Nat
    /\ MaxQueue \in Nat
    /\ ReceiveWhileOpen \in BOOLEAN
    /\ ForkWhileOpen \in BOOLEAN

VARIABLES
    changes,  \* every change committed anywhere: hash -> header
    live,     \* the documents that exist
    histroy,  \* document -> the changes that form it, in the order applied
    queue,    \* document -> received changes that are not causally ready
    deps,     \* document -> its heads
    states,   \* document -> actor -> indices into histroy of that actor's changes
    max_op,   \* document -> highest operation counter seen
    tx,       \* document -> its open transaction, or NoTx
    call      \* document -> progress of the apply_changes_with it is executing

docVars == <<live, histroy, queue, deps, states, max_op>>
vars == <<changes, live, histroy, queue, deps, states, max_op, tx, call>>

Change == [actor : Actor, seq : Nat \ {0}, start_op : Nat \ {0}, num_ops : Nat,
           deps : SUBSET Hash]

Transaction == [doc : Doc, seq : Nat \ {0}, start_op : Nat \ {0}, pending : Nat,
                deps : SUBSET Hash]
NoTx == [pending |-> "none"]

Idle == [phase |-> "idle", batch |-> <<>>]

Made == DOMAIN changes
History(d) == Range(histroy[d])
InHistory(d, h) == h \in History(d)

\* Change::max_op: the counter of the last operation; start_op - 1 if there is none.
LastOp(c) == (c.start_op + c.num_ops) - 1

BadLarger(m, n) == n
Larger(m, n) == IF m < n THEN n ELSE m

Init ==
    /\ changes \in [{} -> Change]
    /\ live    = InitialDocs
    /\ histroy = [d \in Doc |-> <<>>]
    /\ queue   = [d \in Doc |-> <<>>]
    /\ deps    = [d \in Doc |-> {}]
    /\ states  = [d \in Doc |-> [a \in Actor |-> <<>>]]
    /\ max_op  = [d \in Doc |-> 0]
    /\ tx      = [d \in Doc |-> NoTx]
    /\ call    = [d \in Doc |-> Idle]
-----------------------------------------------------------------------------
(* Appending a change to a document *)

\* Positions counted from one further on.
BadPositions(d, h, c) ==
    /\ histroy' = [histroy EXCEPT ![d] = Append(@, h)]
    /\ deps'    = [deps EXCEPT ![d] = (@ \ c.deps) \cup {h}]
    /\ states'  = [states EXCEPT ![d][c.actor] = Append(@, Len(histroy[d]) + 2)]
    /\ max_op'  = [max_op EXCEPT ![d] = Larger(@, LastOp(c))]

\* Superseded heads are not erased.
BadHeads(d, h, c) ==
    /\ histroy' = [histroy EXCEPT ![d] = Append(@, h)]
    /\ deps'    = [deps EXCEPT ![d] = @ \cup {h}]
    /\ states'  = [states EXCEPT ![d][c.actor] = Append(@, Len(histroy[d]) + 1)]
    /\ max_op'  = [max_op EXCEPT ![d] = Larger(@, LastOp(c))]

\* update_history and update_deps: change h with header c becomes the last of d.
UpdateHistory(d, h, c) ==
    /\ histroy' = [histroy EXCEPT ![d] = Append(@, h)]
    /\ deps'    = [deps EXCEPT ![d] = (@ \ c.deps) \cup {h}]
    /\ states'  = [states EXCEPT ![d][c.actor] = Append(@, Len(histroy[d]) + 1)]
    /\ max_op'  = [max_op EXCEPT ![d] = Larger(@, LastOp(c))]

\* One dependency is enough.
BadReady(d, h) == changes[h].deps # {} => changes[h].deps \cap History(d) # {}
Ready(d, h) == changes[h].deps \subseteq History(d)

BadDuplicateSeq(d, h) == Len(states[d][changes[h].actor]) >= changes[h].seq - 1

\* duplicate_seq: d already has as many changes of this actor as h's number.
DuplicateSeq(d, h) == Len(states[d][changes[h].actor]) >= changes[h].seq
-----------------------------------------------------------------------------
(* Local transactions *)

\* get_hash(actor, seq - 1), the document's own previous change.
LastLocalHash(d) ==
    LET own == states[d][ActorOf[d]]
    IN  {histroy[d][own[i]] : i \in {Len(own)} \ {0}}

\* Numbered by the document's changes, not by those of its actor.
BadSeq(d) ==
    [doc |-> d, seq |-> Len(histroy[d]) + 1, start_op |-> max_op[d] + 1, pending |-> 0,
     deps |-> deps[d] \cup LastLocalHash(d)]

\* The first operation gets the highest counter seen, not the next.
BadStartOp(d) ==
    [doc |-> d, seq |-> Len(states[d][ActorOf[d]]) + 1, start_op |-> Larger(max_op[d], 1),
     pending |-> 0, deps |-> deps[d] \cup LastLocalHash(d)]

\* transaction_inner: what a transaction records of the document when it opens.
TransactionInner(d) ==
    [doc      |-> d,
     seq      |-> Len(states[d][ActorOf[d]]) + 1,
     start_op |-> max_op[d] + 1,
     pending  |-> 0,
     deps     |-> deps[d] \cup LastLocalHash(d)]

\* put, insert, delete_, ...: open a transaction unless one is open, then record
\* n operations in it, none when the call changes nothing (put of the same value).
Edit(d, n) ==
    /\ d \in live
    /\ call[d] = Idle
    /\ LET t == IF tx[d] = NoTx THEN TransactionInner(d) ELSE tx[d]
       IN  /\ t.pending + n <= MaxOps
           /\ tx' = [tx EXCEPT ![d] = [t EXCEPT !.pending = @ + n]]
    /\ UNCHANGED <<changes, docVars, call>>

\* commit: export the change and append it to the document the transaction points to.
Commit(d, h) ==
    /\ d \in live
    /\ tx[d] # NoTx
    /\ call[d] = Idle /\ call[tx[d].doc] = Idle
    /\ h \in Hash \ Made
    /\ LET t == tx[d]
           c == [actor |-> ActorOf[t.doc], seq |-> t.seq, start_op |-> t.start_op,
                 num_ops |-> t.pending, deps |-> t.deps]
       IN  /\ changes' = [x \in Made \cup {h} |-> IF x = h THEN c ELSE changes[x]]
           /\ UpdateHistory(t.doc, h, c)
    /\ tx' = [tx EXCEPT ![d] = NoTx]
    /\ UNCHANGED <<live, queue, call>>
-----------------------------------------------------------------------------
(* Receiving changes: apply_changes_with *)

Batches == UNION {[1..n -> Made] : n \in 1..MaxBatch}

MayReceive(d) ==
    /\ d \in live
    /\ call[d] = Idle
    /\ tx[d] = NoTx \/ ReceiveWhileOpen
    /\ Len(queue[d]) <= MaxQueue

Receive(d, batch) ==
    /\ call' = [call EXCEPT ![d] = [phase |-> "apply", batch |-> batch]]
    /\ UNCHANGED <<changes, histroy, queue, deps, states, max_op, tx>>

\* apply_changes: any changes anybody made, in any order, some more than once.
ApplyChanges(d) ==
    /\ MayReceive(d)
    /\ \E batch \in Batches :
          /\ Len(queue[d]) + Len(batch) <= MaxQueue
          /\ Receive(d, batch)
    /\ UNCHANGED live

\* get_changes_added: the changes of o that d lacks.  The code's depth-first order
\* depends on the hashes and need not be topological: any order may come out.
ChangesAdded(d, o) == History(o) \ History(d)

\* merge: receive what the other document has and this one lacks.
Merge(d, o) ==
    /\ MayReceive(d)
    /\ o \in live \ {d} /\ call[o] = Idle
    /\ LET added == ChangesAdded(d, o)
       IN  \E batch \in [1..Cardinality(added) -> added] :
              /\ Range(batch) = added
              /\ Receive(d, batch)
    /\ UNCHANGED live

Applying(d) == call[d].phase = "apply" /\ call[d].batch # <<>>
NextReceived(d) == Head(call[d].batch)

\* One iteration is over; the next one takes the rest of the batch.
Advance(d) ==
    call' = [call EXCEPT ![d] = [phase |-> "apply", batch |-> Tail(@.batch)]]

\* histroy_index.count(c.hash): the document has it, go on.
SkipKnown(d) ==
    /\ Applying(d)
    /\ InHistory(d, NextReceived(d))
    /\ Advance(d)
    /\ UNCHANGED <<changes, docVars, tx>>

\* throw DuplicateSeqNumber: what was applied stays, the rest is dropped, nothing is drained.
RejectDuplicateSeq(d) ==
    /\ Applying(d)
    /\ ~InHistory(d, NextReceived(d))
    /\ DuplicateSeq(d, NextReceived(d))
    /\ call' = [call EXCEPT ![d] = Idle]
    /\ UNCHANGED <<changes, docVars, tx>>

ApplyReady(d) ==
    /\ Applying(d)
    /\ ~InHistory(d, NextReceived(d))
    /\ ~DuplicateSeq(d, NextReceived(d))
    /\ Ready(d, NextReceived(d))
    /\ UpdateHistory(d, NextReceived(d), changes[NextReceived(d)])
    /\ Advance(d)
    /\ UNCHANGED <<changes, live, queue, tx>>

Enqueue(d) ==
    /\ Applying(d)
    /\ ~InHistory(d, NextReceived(d))
    /\ ~DuplicateSeq(d, NextReceived(d))
    /\ ~Ready(d, NextReceived(d))
    /\ queue' = [queue EXCEPT ![d] = Append(@, NextReceived(d))]
    /\ Advance(d)
    /\ UNCHANGED <<changes, live, histroy, deps, states, max_op, tx>>

StartDrain(d) ==
    /\ call[d].phase = "apply"
    /\ call[d].batch = <<>>
    /\ call' = [call EXCEPT ![d] = [phase |-> "drain", batch |-> <<>>]]
    /\ UNCHANGED <<changes, docVars, tx>>

\* Whatever waits is taken to be ready.
BadReadyAt(d) == DOMAIN queue[d]

\* The positions of the queue whose changes are causally ready.
ReadyAt(d) == {i \in DOMAIN queue[d] : Ready(d, queue[d][i])}

\* pop_next_causally_ready_change takes the first; the last of the queue fills its place.
FirstReady(d, i) == i \in ReadyAt(d) /\ \A j \in ReadyAt(d) : i <= j
BadSwapRemove(q, i) == [j \in 1..(Len(q) - 1) |-> q[j]]
SwapRemove(q, i) == [j \in 1..(Len(q) - 1) |-> IF j = i THEN q[Len(q)] ELSE q[j]]

DrainApply(d) ==
    /\ call[d].phase = "drain"
    /\ \E i \in DOMAIN queue[d] :
          /\ FirstReady(d, i)
          /\ ~InHistory(d, queue[d][i])
          /\ queue' = [queue EXCEPT ![d] = SwapRemove(@, i)]
          /\ UpdateHistory(d, queue[d][i], changes[queue[d][i]])
    /\ UNCHANGED <<changes, live, tx, call>>

\* A queued change that is in the history already is found again and again.
BadDrainSkip(d) ==
    /\ call[d].phase = "drain"
    /\ \E i \in DOMAIN queue[d] : FirstReady(d, i) /\ InHistory(d, queue[d][i])
    /\ UNCHANGED vars

DrainSkip(d) ==
    /\ call[d].phase = "drain"
    /\ \E i \in DOMAIN queue[d] :
          /\ FirstReady(d, i)
          /\ InHistory(d, queue[d][i])
          /\ queue' = [queue EXCEPT ![d] = SwapRemove(@, i)]
    /\ UNCHANGED <<changes, live, histroy, deps, states, max_op, tx, call>>

\* One pass over the queue, whatever became ready in its course.
BadDrainDone(d) ==
    /\ call[d].phase = "drain"
    /\ call' = [call EXCEPT ![d] = Idle]
    /\ UNCHANGED <<changes, docVars, tx>>

DrainDone(d) ==
    /\ call[d].phase = "drain"
    /\ ReadyAt(d) = {}
    /\ call' = [call EXCEPT ![d] = Idle]
    /\ UNCHANGED <<changes, docVars, tx>>

ApplyStep(d) ==
    \/ SkipKnown(d) \/ RejectDuplicateSeq(d) \/ ApplyReady(d) \/ Enqueue(d)
    \/ StartDrain(d) \/ DrainApply(d) \/ DrainSkip(d) \/ DrainDone(d)
-----------------------------------------------------------------------------
(* New documents *)

\* fork: copy every field, the open transaction with its pointer included,
\* and give the copy an actor id of its own.
Fork(d, e) ==
    /\ d \in live /\ call[d] = Idle
    /\ e \in Doc \ live
    /\ tx[d] = NoTx \/ ForkWhileOpen
    /\ live'    = live \cup {e}
    /\ histroy' = [histroy EXCEPT ![e] = histroy[d]]
    /\ queue'   = [queue EXCEPT ![e] = queue[d]]
    /\ deps'    = [deps EXCEPT ![e] = deps[d]]
    /\ states'  = [states EXCEPT ![e] = states[d]]
    /\ max_op'  = [max_op EXCEPT ![e] = max_op[d]]
    /\ tx'      = [tx EXCEPT ![e] = tx[d]]
    /\ UNCHANGED <<changes, call>>

\* load(d.save()): a fresh document applies the saved history; the queue and
\* the open transaction of d are not saved.
Load(d, e) ==
    /\ d \in live /\ call[d] = Idle /\ tx[d] = NoTx
    /\ e \in Doc \ live
    /\ live' = live \cup {e}
    /\ Receive(e, histroy[d])
-----------------------------------------------------------------------------
Next ==
    \E d \in Doc :
        \/ \E n \in {0, 1} : Edit(d, n)
        \/ \E h \in Hash : Commit(d, h)
        \/ ApplyChanges(d)
        \/ \E o \in Doc : Merge(d, o)
        \/ ApplyStep(d)
        \/ \E e \in Doc : Fork(d, e) \/ Load(d, e)

Spec == Init /\ [][Next]_vars

\* A call of apply_changes_with, once started, keeps running its loops.
FairSpec == Spec /\ \A d \in Doc : WF_vars(ApplyStep(d))
-----------------------------------------------------------------------------
(* Properties *)

\* Every variable has its type: histories and queues hold changes that were made,
\* states hold positions of the history, transactions point to documents that exist.
TypeOK ==
    /\ Made \subseteq Hash
    /\ changes \in [Made -> Change]
    /\ live \in SUBSET Doc
    /\ histroy \in [Doc -> Seq(Made)]
    /\ queue \in [Doc -> Seq(Made)]
    /\ deps \in [Doc -> SUBSET Made]
    /\ states \in [Doc -> [Actor -> Seq(Nat)]]
    /\ \A d \in Doc : \A a \in Actor : states[d][a] \in Seq(DOMAIN histroy[d])
    /\ max_op \in [Doc -> Nat]
    /\ tx \in [Doc -> Transaction \cup {NoTx}]
    /\ call \in [Doc -> [phase : {"idle", "apply", "drain"}, batch : Seq(Made)]]

\* "The history of changes that form this document, topologically sorted too"
\* (Automerge.h:42): no change twice, and each after everything it depends on,
\* whatever the order and the repetitions in which changes came.
HistoryTopological ==
    \A d \in Doc : \A i \in DOMAIN histroy[d] :
        /\ changes[histroy[d][i]].deps \subseteq {histroy[d][j] : j \in 1..(i - 1)}
        /\ histroy[d][i] \notin {histroy[d][j] : j \in 1..(i - 1)}

\* The heads a document keeps by erasing and inserting hashes (update_deps) are
\* the changes of its history that no other change of it depends on.
HeadsExact ==
    \A d \in Doc :
        deps[d] = {h \in History(d) : \A g \in History(d) : h \notin changes[g].deps}

NumberedAs(d, a, k) ==
    LET i == states[d][a][k]
    IN  i \in DOMAIN histroy[d] /\ changes[histroy[d][i]].actor = a /\ changes[histroy[d][i]].seq = k

Listed(d, i) ==
    \E k \in DOMAIN states[d][changes[histroy[d][i]].actor] :
        states[d][changes[histroy[d][i]].actor][k] = i

\* states[actor] finds the changes of an actor by number: its k-th entry is the
\* position of change k of that actor, and every change of the history is there.
StatesExact ==
    \A d \in Doc :
        /\ \A a \in Actor : \A k \in DOMAIN states[d][a] : NumberedAs(d, a, k)
        /\ \A i \in DOMAIN histroy[d] : Listed(d, i)

\* max_op is the highest operation counter of the history, so that the next
\* transaction starts above every operation it can see.
MaxOpExact ==
    \A d \in Doc :
        /\ \A h \in History(d) : LastOp(changes[h]) <= max_op[d]
        /\ max_op[d] # 0 => \E h \in History(d) : LastOp(changes[h]) = max_op[d]

\* Operation ids (counter, actor) are never given twice: the counters of two
\* changes of one actor do not overlap, wherever and whenever they were made.
OpIdsUnique ==
    \A g, h \in Made :
        g # h /\ changes[g].actor = changes[h].actor =>
            \/ LastOp(changes[g]) < changes[h].start_op
            \/ LastOp(changes[h]) < changes[g].start_op

\* Where every document writes under an actor id of its own, apply_changes never
\* throws DuplicateSeqNumber: whatever it is given is known, ready or waits.
NeverRejected ==
    \A d \in Doc :
        Applying(d) /\ DuplicateSeq(d, NextReceived(d)) => InHistory(d, NextReceived(d))

\* When a call of apply_changes is over, nothing is left in the queue that
\* could have been applied.
QueueBlocked ==
    \A d \in Doc : call[d] = Idle => ReadyAt(d) = {}

\* What a document was given and did not reject it keeps, applied, queued or
\* about to be: neither the loops nor the swap in the queue lose a change.
Held(d) == History(d) \cup Range(queue[d]) \cup Range(call[d].batch)
NothingLost ==
    [][\A d \in Doc : Held(d) \subseteq Held(d)' \/ RejectDuplicateSeq(d)]_vars

\* commit: "assert(doc.get_heads() == vector(1, hash))" (Transaction.cpp:29):
\* the change just committed is the only head of the document it went to.  It fails if
\* the document receives a change while the transaction is open (run CommitAssertion).
CommitIsOnlyHead ==
    [][\A h \in Hash \ Made : \A d \in Doc : h \in History(d)' => deps[d]' = {h}]_vars

\* Every call of apply_changes returns, whatever it is given: the drain loop
\* shrinks the queue at each turn.
CallReturns == \A d \in Doc : call[d] # Idle ~> call[d] = Idle

\* What the document does with changes is what CausalStore promises.
Store == INSTANCE CausalStore WITH
            parents <- [h \in Made |-> changes[h].deps],
            applied <- [d \in Doc |-> History(d)]
ImplementsStore == Store!Spec
=============================================================================
