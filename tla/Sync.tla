--------------------------------- MODULE Sync ---------------------------------
(***************************************************************************)
(* The sync protocol: two peers, each with a document and a State about    *)
(* the other, exchange messages over a connection that keeps their order   *)
(* until it breaks.  Changes also reach the peers in other ways, from      *)
(* other documents.                                                        *)
(*                                                                         *)
(* A document is the set of changes it holds and the set that waits in its *)
(* queue: ChangeHistory and ChangeQueries show that heads, get_changes and *)
(* the rest are functions of these.  Vectors of hashes are sets, as every  *)
(* vector compared here is sorted and free of repetitions.  A Bloom filter *)
(* is the set of hashes it answers "yes" for.                              *)
(*                                                                         *)
(* Operators named Bad... are mistakes, as in ChangeHistory.               *)
(***************************************************************************)
EXTENDS Naturals, Sequences, FiniteSets

CONSTANTS
    Peer,               \* the two documents that sync
    Hash,               \* change hashes; also bounds the number of changes ever made
    ChangeAnyTime,      \* may documents change whenever they like even if filters err?
    MaxFalsePositives,  \* bound: hashes one Bloom filter wrongly contains
    MaxMessages,        \* bound: messages on their way to one peer
    MaxOther,           \* bound: changes taken from other documents
    MaxReconnects       \* bound: times the connection breaks

ASSUME ConstantsAssumption ==
    /\ \E p, q \in Peer : p # q /\ Peer = {p, q}
    /\ ChangeAnyTime \in BOOLEAN
    /\ {MaxFalsePositives, MaxMessages, MaxOther, MaxReconnects} \subseteq Nat

VARIABLES
    exact,      \* does it so happen that no filter has a false positive?
    parents,    \* every change committed anywhere: hash -> hashes it depends on
    applied,    \* peer -> the changes of its document
    queue,      \* peer -> received changes that are not causally ready
    own,        \* peer -> the last change its present actor made, if any
    sync_state, \* peer -> its State
    chan,       \* peer -> messages on their way to it
    others,     \* number of changes taken from other documents
    reconnects  \* number of times the connection broke

docVars == <<exact, parents, applied, queue, own, others>>
vars == <<exact, parents, applied, queue, own, sync_state, chan, others, reconnects>>

Remote(p) == CHOOSE q \in Peer : q # p

Made == DOMAIN parents

Have == [last_sync : SUBSET Hash, bloom : SUBSET Hash]
Haves == {<<>>} \cup [1..1 -> Have]
SyncMessage == [heads : SUBSET Hash, need : SUBSET Hash, have : Haves, changes : SUBSET Made]

\* their_heads, their_need and their_have are set together; decode sets their_have
\* to an empty vector, which has the same effect as none.
NoneReceived == [received |-> FALSE, heads |-> {}, need |-> {}, have |-> <<>>]
Theirs == [received : BOOLEAN, heads : SUBSET Hash, need : SUBSET Hash, have : Haves]

State == [shared_heads : SUBSET Hash, last_sent_heads : SUBSET Hash, theirs : Theirs,
          sent_hashes : SUBSET Hash, in_flight : BOOLEAN]
FreshState == [shared_heads |-> {}, last_sent_heads |-> {}, theirs |-> NoneReceived,
               sent_hashes |-> {}, in_flight |-> FALSE]

Init ==
    /\ exact      \in BOOLEAN
    /\ parents    \in [{} -> SUBSET Hash]
    /\ applied    = [p \in Peer |-> {}]
    /\ queue      = [p \in Peer |-> {}]
    /\ own        = [p \in Peer |-> {}]
    /\ sync_state = [p \in Peer |-> FreshState]
    /\ chan       = [p \in Peer |-> <<>>]
    /\ others     = 0
    /\ reconnects = 0
\* The whole State is used again in the next connection.
BadResumed(s) == s

\* State::decode(State::encode(s))
Resumed(s) == [FreshState EXCEPT !.shared_heads = s.shared_heads]

-----------------------------------------------------------------------------
(* Documents *)

Closed(S) == \A h \in S : parents[h] \subseteq S

\* H and everything it depends on: what every causally closed set with H contains.
Ancestors(H) == {h \in Made : \A S \in SUBSET Made : H \subseteq S /\ Closed(S) => h \in S}

\* get_heads of a document that holds the changes S.
HeadsOf(S) == {h \in S : \A g \in S : h \notin parents[g]}
Heads(p) == HeadsOf(applied[p])

\* apply_changes: what is held after the changes S have been offered to a document
\* that held A, whatever their order: the most that is causally closed.
Absorb(A, S) == A \cup UNION {T \in SUBSET S : \A h \in T : parents[h] \subseteq A \cup T}

\* What leaves the queue stays in it too.
BadApply(p, received) ==
    LET now == Absorb(applied[p], queue[p] \cup received)
    IN  /\ applied' = [applied EXCEPT ![p] = now]
        /\ queue'   = [queue EXCEPT ![p] = @ \cup (received \ now)]

\* p applies the changes received; what is not ready waits.  Where nothing is
\* received the code does not call apply_changes: nothing in the queue is ready.
Apply(p, received) ==
    LET now == Absorb(applied[p], queue[p] \cup received)
    IN  /\ applied' = [applied EXCEPT ![p] = now]
        /\ queue'   = [queue EXCEPT ![p] = (@ \cup received) \ now]

\* get_changes: have_deps the document does not know are left out of account.
GetChanges(p, have_deps) == applied[p] \ Ancestors(have_deps \cap applied[p])

GetMissingDeps(p, heads) ==
    ((heads \cup UNION {parents[h] : h \in queue[p]}) \ applied[p]) \ queue[p]

\* Nothing has been sent or received since the peers were connected.
Unstarted == \A p \in Peer : chan[p] = <<>> /\ sync_state[p] = Resumed(sync_state[p])

\* With filters that err the peers may fall silent too early (SyncStall) if a document
\* comes to hold more, in mid-session, than what the peer sent.
MayEdit == exact \/ ChangeAnyTime \/ Unstarted
MayMeetOthers == others < MaxOther /\ (exact \/ ChangeAnyTime)

\* A transaction of p: opened and committed with nothing received in between.
Edit(p, h) ==
    /\ MayEdit
    /\ h \in Hash \ Made
    /\ parents' = [x \in Made \cup {h} |-> IF x = h THEN Heads(p) \cup own[p] ELSE parents[x]]
    /\ applied' = [applied EXCEPT ![p] = @ \cup {h}]
    /\ own'     = [own EXCEPT ![p] = {h}]
    /\ UNCHANGED <<exact, queue, sync_state, chan, others, reconnects>>

\* A document that is none of the peers makes a change; it has merged what it likes.
OtherEdit(h) ==
    /\ MayMeetOthers
    /\ h \in Hash \ Made
    /\ \E T \in SUBSET Made :
          parents' = [x \in Made \cup {h} |-> IF x = h THEN HeadsOf(Ancestors(T)) ELSE parents[x]]
    /\ UNCHANGED <<exact, applied, queue, own, sync_state, chan, others, reconnects>>

\* p gets a change from such a document, in any order, outside the protocol.
ApplyOther(p, h) ==
    /\ MayMeetOthers
    /\ h \in Made \ (applied[p] \cup queue[p])
    /\ Apply(p, {h})
    /\ others' = others + 1
    /\ UNCHANGED <<exact, parents, own, sync_state, chan, reconnects>>
-----------------------------------------------------------------------------
(* generate_sync_message *)

\* make_bloom_filter: the filters there may be for the changes since last_sync.
MakeBloomFilter(p, last_sync) ==
    LET hashes == GetChanges(p, last_sync)
    IN  {[last_sync |-> last_sync, bloom |-> hashes \cup F] :
            F \in {G \in SUBSET (Hash \ hashes) :
                      /\ exact \/ hashes = {} => G = {}
                      /\ Cardinality(G) <= MaxFalsePositives}}

\* A default Have: nothing in common, nothing in the filter.
EmptyHave == [last_sync |-> {}, bloom |-> {}]

\* The changes the filter does not contain, and those that depend on them.
WithDependents(changes, S) == {h \in changes : Ancestors({h}) \cap S # {}}

GetChangesToSend(p, have, need) ==
    IF have = <<>> THEN need \cap applied[p]
    ELSE LET changes == GetChanges(p, have[1].last_sync)
         IN  WithDependents(changes, changes \ have[1].bloom) \cup (need \cap applied[p])

\* What p was asked for by name it does not look up.
BadChangesToSend(p) ==
    LET s == sync_state[p]
    IN  GetChangesToSend(p, s.theirs.have, {}) \ s.sent_hashes

ChangesToSend(p) ==
    LET s == sync_state[p]
    IN  GetChangesToSend(p, s.theirs.have, s.theirs.need) \ s.sent_hashes

OurNeed(p) == GetMissingDeps(p, sync_state[p].theirs.heads)

OurHaves(p) ==
    IF OurNeed(p) \subseteq sync_state[p].theirs.heads
    THEN {<<h>> : h \in MakeBloomFilter(p, sync_state[p].shared_heads)}
    ELSE {<<>>}

\* The peer refers to a last sync p knows nothing of (any more).
MustReset(p) ==
    LET have == sync_state[p].theirs.have
    IN  have # <<>> /\ ~(have[1].last_sync \subseteq applied[p])

\* Equal heads and nothing to send are no reason to be silent.
BadNothingToSay(p) ==
    /\ ~MustReset(p)
    /\ sync_state[p].last_sent_heads = Heads(p)
    /\ sync_state[p].in_flight

\* generate_sync_message returns no message.
NothingToSay(p) ==
    LET s == sync_state[p]
        heads_equal == s.theirs.received /\ s.theirs.heads = Heads(p)
    IN  /\ ~MustReset(p)
        /\ s.last_sent_heads = Heads(p)
        /\ (heads_equal /\ ChangesToSend(p) = {}) \/ s.in_flight

Send(p, m) == chan' = [chan EXCEPT ![Remote(p)] = Append(@, m)]

\* Ask for everything; State is left as it is.
SendReset(p) ==
    /\ MustReset(p)
    /\ Len(chan[Remote(p)]) < MaxMessages
    /\ Send(p, [heads |-> Heads(p), need |-> {}, have |-> <<EmptyHave>>, changes |-> {}])
    /\ UNCHANGED <<docVars, sync_state, reconnects>>

SendMessage(p) ==
    /\ ~MustReset(p) /\ ~NothingToSay(p)
    /\ Len(chan[Remote(p)]) < MaxMessages
    /\ \E have \in OurHaves(p) :
          Send(p, [heads |-> Heads(p), need |-> OurNeed(p), have |-> have,
                   changes |-> ChangesToSend(p)])
    /\ sync_state' = [sync_state EXCEPT ![p].last_sent_heads = Heads(p),
                                        ![p].sent_hashes = @ \cup ChangesToSend(p),
                                        ![p].in_flight = TRUE]
    /\ UNCHANGED <<docVars, reconnects>>

GenerateSyncMessage(p) == SendReset(p) \/ SendMessage(p)
-----------------------------------------------------------------------------
(* receive_sync_message *)

\* advance_heads: heads gained, and shared heads that are heads still.
AdvanceHeads(old, new, shared) == (new \ old) \cup (shared \cap new)

\* Heads the document does not know are taken for shared.
BadKnownHeads(heads, now) == heads
KnownHeads(heads, now) == heads \cap now

\* What State s becomes on message m, when the document's heads were before and
\* it holds now once the changes of m are applied.
Received(s, m, before, now) ==
    LET new      == HeadsOf(now)
        shared   == IF m.changes = {} THEN s.shared_heads
                    ELSE AdvanceHeads(before, new, s.shared_heads)
        sent     == s.sent_hashes \ Ancestors(m.heads \cap now)
        last     == IF m.changes = {} /\ m.heads = before THEN m.heads ELSE s.last_sent_heads
        allKnown == m.heads \subseteq now
    IN  [shared_heads    |-> IF allKnown THEN m.heads ELSE shared \cup KnownHeads(m.heads, now),
         last_sent_heads |-> IF m.heads = {} THEN {} ELSE last,
         theirs          |-> [received |-> TRUE, heads |-> m.heads, need |-> m.need,
                              have |-> m.have],
         sent_hashes     |-> IF m.heads = {} THEN {} ELSE sent,
         in_flight       |-> s.in_flight /\ sent # {} /\ ~allKnown]

ReceiveSyncMessage(p) ==
    /\ chan[p] # <<>>
    /\ LET m == Head(chan[p])
       IN  /\ Apply(p, m.changes)
           /\ sync_state' = [sync_state EXCEPT ![p] = Received(@, m, Heads(p), applied'[p])]
    /\ chan' = [chan EXCEPT ![p] = Tail(@)]
    /\ UNCHANGED <<exact, parents, own, others, reconnects>>
-----------------------------------------------------------------------------
(* The connection breaks *)

\* Messages on their way are lost.  Each peer goes on with its document as it is,
\* or loaded from a save (the queue is not saved, the actor is a new one), or with
\* an empty one; and with the State it encoded or a new one, a new one always if
\* its document is lost.
Reconnect ==
    /\ reconnects < MaxReconnects
    /\ reconnects' = reconnects + 1
    /\ chan' = [p \in Peer |-> <<>>]
    /\ \E doc \in [Peer -> {"same", "loaded", "lost"}] :
          /\ applied' = [p \in Peer |-> IF doc[p] = "lost" THEN {} ELSE applied[p]]
          /\ queue'   = [p \in Peer |-> IF doc[p] = "same" THEN queue[p] ELSE {}]
          /\ own'     = [p \in Peer |-> IF doc[p] = "same" THEN own[p] ELSE {}]
          /\ \E kept \in SUBSET {p \in Peer : doc[p] # "lost"} :
                sync_state' = [p \in Peer |-> IF p \in kept THEN Resumed(sync_state[p])
                                                            ELSE FreshState]
    /\ UNCHANGED <<exact, parents, others>>
-----------------------------------------------------------------------------
Next ==
    \/ \E p \in Peer : \/ \E h \in Hash : Edit(p, h) \/ ApplyOther(p, h)
                       \/ GenerateSyncMessage(p)
                       \/ ReceiveSyncMessage(p)
    \/ \E h \in Hash : OtherEdit(h)
    \/ Reconnect

Spec == Init /\ [][Next]_vars

\* Both peers keep asking for messages and delivering them, as any loop that
\* syncs two documents does until neither has anything to say.
FairSpec ==
    Spec /\ \A p \in Peer : WF_vars(GenerateSyncMessage(p)) /\ WF_vars(ReceiveSyncMessage(p))
-----------------------------------------------------------------------------
(* Properties *)

\* Every variable has its type, and no queue holds what its document holds.
TypeOK ==
    /\ Made \subseteq Hash
    /\ parents \in [Made -> SUBSET Made]
    /\ applied \in [Peer -> SUBSET Made]
    /\ queue \in [Peer -> SUBSET Made]
    /\ \A p \in Peer : queue[p] \cap applied[p] = {}
    /\ own \in [Peer -> SUBSET Made]
    /\ sync_state \in [Peer -> State]
    /\ chan \in [Peer -> Seq(SyncMessage)]
    /\ exact \in BOOLEAN
    /\ others \in 0..MaxOther
    /\ reconnects \in 0..MaxReconnects

\* Neither peer has a message to receive or to send.
Quiet == \A p \in Peer : chan[p] = <<>> /\ NothingToSay(p)

\* The two documents hold the same changes.
InSync == \A p, q \in Peer : applied[p] = applied[q]

\* The hashes a peer takes to be sent (sent_hashes), and will not send again in this
\* connection, are on their way to the other peer or have arrived.
SentArrives ==
    \A p \in Peer :
        LET q == Remote(p)
        IN  sync_state[p].sent_hashes \subseteq
                applied[q] \cup queue[q] \cup UNION {chan[q][i].changes : i \in DOMAIN chan[q]}

\* "The hashes which we know both peers have" (State.h:36): both have them.
SharedHeadsKnown ==
    \A p \in Peer : sync_state[p].shared_heads \subseteq applied[p] \cap applied[Remote(p)]

\* So it is in the first connection of peers that get changes from nobody else: with the
\* next one a peer may have lost its document.
SharedHeadsKnownToPair == others = 0 /\ reconnects = 0 => SharedHeadsKnown

\* "`generate_sync_message` should return `None` if there are no new changes to send"
\* (State.h:49), and not for another reason: peers do not fall silent, each waiting
\* for the other, while their documents differ.
QuietMeansInSync == Quiet => InSync

\* So it is where no filter errs and the peers get changes from nobody else, however
\* edits and messages cross, connections break and documents are lost.
ExactPairNeverStalls == exact /\ others = 0 => QuietMeansInSync

\* The two documents end up with the same changes.
Converges == <>[]InSync

\* The exchange of messages ends: sync loops as that of the tests terminate.
FallsQuiet == <>[]Quiet
=============================================================================
