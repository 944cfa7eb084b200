--------------------------- MODULE SyncProgressProofs ---------------------------
(***************************************************************************)
(* Why two peers do not fall silent, each waiting for the other, while     *)
(* their documents differ: for any number of changes made at any time, any *)
(* messages under way, broken connections and lost documents, as long as   *)
(* no Bloom filter errs and no third document interferes.                  *)
(***************************************************************************)
EXTENDS SyncProofs, SequenceTheorems

-----------------------------------------------------------------------------
(* Documents *)

\* Changes depend on earlier ones only: in every set of them there is one on which none of
\* the set depends.
Topmost == \A S \in SUBSET Made : S # {} => \E h \in S : \A g \in S : h \notin parents[g]

\* Documents are causally closed, and know the hashes they start a change from, take for
\* shared and announced last.
DocInv ==
    /\ Topmost
    /\ \A p \in Peer :
          /\ Closed(applied[p])
          /\ own[p] \subseteq applied[p]
          /\ sync_state[p].shared_heads \subseteq applied[p]
          /\ sync_state[p].last_sent_heads \subseteq applied[p]

\* A closed set that has the heads of a set of changes has all of it.
LEMMA AllBelowHeads ==
    ASSUME Topmost, NEW S \in SUBSET Made, NEW C, Closed(C), HeadsOf(S) \subseteq C
    PROVE  S \subseteq C
<1> SUFFICES ASSUME S \ C # {}
             PROVE  FALSE
  OBVIOUS
<1>1. PICK h \in S \ C : \A g \in S \ C : h \notin parents[g]
  BY DEF Topmost
<1>2. PICK g \in S : h \in parents[g]
  BY <1>1 DEF HeadsOf
<1>3. g \in C
  BY <1>1, <1>2
<1> QED
  BY <1>1, <1>2, <1>3 DEF Closed

\* Ancestors of hashes in a closed set of changes are in it.
LEMMA AncestorsWithin ==
    ASSUME NEW S \in SUBSET Made, Closed(S), NEW H, H \subseteq S
    PROVE  Ancestors(H) \subseteq S
BY DEF Ancestors

\* What a document absorbs leaves it closed.
LEMMA AbsorbClosed ==
    ASSUME NEW A, NEW S, Closed(A)
    PROVE  Closed(Absorb(A, S))
<1> SUFFICES ASSUME NEW h \in Absorb(A, S)
             PROVE  parents[h] \subseteq Absorb(A, S)
  BY DEF Closed
<1>1. CASE h \in A
  BY <1>1 DEF Closed, Absorb
<1>2. CASE h \notin A
  <2>1. PICK T \in SUBSET S : h \in T /\ \A g \in T : parents[g] \subseteq A \cup T
    BY <1>2 DEF Absorb
  <2> QED
    BY <2>1 DEF Absorb
<1> QED
  BY <1>1, <1>2

\* Changes that depend on nothing but the document and each other are all absorbed.
LEMMA AbsorbAll ==
    ASSUME NEW A, NEW S, \A h \in S : parents[h] \subseteq A \cup S
    PROVE  Absorb(A, S) = A \cup S
<1>1. S \in {T \in SUBSET S : \A h \in T : parents[h] \subseteq A \cup T}
  OBVIOUS
<1> QED
  BY <1>1, AbsorbBounds DEF Absorb

\* A change more keeps the order and what is closed, and is not below what there was.
LEMMA OneChangeMore ==
    ASSUME TypeOK, Topmost, NEW h, h \notin Made, NEW P \in SUBSET Made,
           parents' = [x \in Made \cup {h} |-> IF x = h THEN P ELSE parents[x]]
    PROVE  /\ Made' = Made \cup {h}
           /\ \A g \in Made : parents'[g] = parents[g]
           /\ Topmost'
           /\ \A S \in SUBSET Made : HeadsOf(S)' = HeadsOf(S) /\ (Closed(S) => Closed(S)')
<1>1. Made' = Made \cup {h} /\ h \in Made'
  BY DEF Made
<1>2. /\ \A g \in Made : parents'[g] = parents[g] /\ parents[g] \subseteq Made
      /\ parents'[h] = P
  BY DEF TypeOK
<1>3. Topmost'
  <2> SUFFICES ASSUME NEW S \in SUBSET Made', S # {}
               PROVE  \E x \in S : \A g \in S : x \notin parents'[g]
    BY DEF Topmost
  <2>1. CASE h \in S
    BY <1>1, <1>2, <2>1
  <2>2. CASE h \notin S
    BY <1>1, <1>2, <2>2 DEF Topmost
  <2> QED
    BY <2>1, <2>2
<1>4. ASSUME NEW S \in SUBSET Made
      PROVE  HeadsOf(S)' = HeadsOf(S) /\ (Closed(S) => Closed(S)')
  <2>1. \A g \in S : parents'[g] = parents[g]
    BY <1>2
  <2> QED
    BY <2>1 DEF HeadsOf, Closed
<1> QED
  BY <1>1, <1>2, <1>3, <1>4

\* The State after a message refers to what the document holds, if it did before.
LEMMA ReceivedWithin ==
    ASSUME NEW s \in State, NEW m, NEW A, NEW now, A \subseteq now,
           s.shared_heads \subseteq A, s.last_sent_heads \subseteq A
    PROVE  /\ Received(s, m, HeadsOf(A), now).shared_heads \subseteq now
           /\ Received(s, m, HeadsOf(A), now).last_sent_heads \subseteq now
<1>1. HeadsOf(A) \subseteq A /\ HeadsOf(now) \subseteq now
  BY HeadsBound
<1>2. AdvanceHeads(HeadsOf(A), HeadsOf(now), s.shared_heads) \cup KnownHeads(m.heads, now)
         \subseteq now
  BY <1>1 DEF AdvanceHeads, KnownHeads
<1> DEFINE shared == IF m.changes = {} THEN s.shared_heads
                     ELSE AdvanceHeads(HeadsOf(A), HeadsOf(now), s.shared_heads)
           last == IF m.changes = {} /\ m.heads = HeadsOf(A) THEN m.heads ELSE s.last_sent_heads
<1>3. /\ Received(s, m, HeadsOf(A), now).shared_heads =
            IF m.heads \subseteq now THEN m.heads ELSE shared \cup KnownHeads(m.heads, now)
      /\ Received(s, m, HeadsOf(A), now).last_sent_heads = IF m.heads = {} THEN {} ELSE last
  BY DEF Received
<1>4. shared \cup KnownHeads(m.heads, now) \subseteq now
  BY <1>2
<1>5. last \subseteq now
  BY <1>1
<1> HIDE DEF shared, last
<1> QED
  BY <1>3, <1>4, <1>5

\* Every step keeps this, whatever filters say and whoever makes changes.
LEMMA DocInvStep ==
    ASSUME TypeOK, DocInv, [Next]_vars
    PROVE  DocInv'
<1>t. /\ \A p \in Peer : applied[p] \in SUBSET Made /\ sync_state[p] \in State
      /\ \A p \in Peer : Heads(p) \subseteq applied[p]
  BY HeadsBound DEF TypeOK, Heads
<1>1. ASSUME NEW p \in Peer, NEW h \in Hash, Edit(p, h)
      PROVE  DocInv'
  <2>1. h \notin Made /\ Heads(p) \cup own[p] \in SUBSET Made
    BY <1>1, <1>t DEF Edit, DocInv
  <2>2. parents' = [x \in Made \cup {h} |-> IF x = h THEN Heads(p) \cup own[p] ELSE parents[x]]
    BY <1>1 DEF Edit
  <2>3. /\ Topmost' /\ \A S \in SUBSET Made : Closed(S) => Closed(S)'
        /\ \A g \in Made : parents'[g] = parents[g]
    BY <2>1, <2>2, OneChangeMore DEF DocInv
  <2>4. parents'[h] \subseteq applied[p]
    BY <1>t, <2>1, <2>2 DEF DocInv
  <2>5. /\ applied' = [applied EXCEPT ![p] = applied[p] \cup {h}]
        /\ own' = [own EXCEPT ![p] = {h}] /\ sync_state' = sync_state
    BY <1>1 DEF Edit
  <2>6. ASSUME NEW x \in Peer
        PROVE  applied[x] \subseteq applied'[x] /\ own'[x] \subseteq applied'[x]
    BY <2>5 DEF DocInv, TypeOK
  <2>7. ASSUME NEW x \in Peer
        PROVE  Closed(applied[x])'
    BY <1>t, <2>3, <2>4, <2>5 DEF DocInv, TypeOK, Closed
  <2> QED
    BY <2>3, <2>5, <2>6, <2>7 DEF DocInv
<1>2. ASSUME NEW h \in Hash, OtherEdit(h)
      PROVE  DocInv'
  <2>1. PICK T \in SUBSET Made :
           parents' = [x \in Made \cup {h} |-> IF x = h THEN HeadsOf(Ancestors(T)) ELSE parents[x]]
    BY <1>2 DEF OtherEdit
  <2>2. h \notin Made /\ HeadsOf(Ancestors(T)) \in SUBSET Made
    BY <1>2 DEF OtherEdit, HeadsOf, Ancestors
  <2>3. /\ Topmost' /\ \A S \in SUBSET Made : Closed(S) => Closed(S)'
    BY <2>1, <2>2, OneChangeMore DEF DocInv
  <2>4. applied' = applied /\ own' = own /\ sync_state' = sync_state
    BY <1>2 DEF OtherEdit
  <2> QED
    BY <1>t, <2>3, <2>4 DEF DocInv, Closed
<1>3. ASSUME NEW p \in Peer, NEW S, Apply(p, S), UNCHANGED <<parents, own>>
      PROVE  /\ Topmost'
             /\ \A x \in Peer : /\ Closed(applied[x])' /\ applied[x] \subseteq applied'[x]
                                /\ own'[x] \subseteq applied'[x]
  <2>1. /\ applied'[p] = Absorb(applied[p], queue[p] \cup S)
        /\ \A x \in Peer : applied[x] \subseteq applied'[x]
        /\ \A x \in Peer \ {p} : applied'[x] = applied[x]
    BY <1>3, ApplyKeeps
  <2>2. Closed(Absorb(applied[p], queue[p] \cup S))
    BY AbsorbClosed DEF DocInv
  <2>3. \A x \in Peer : Closed(applied'[x])
    BY <2>1, <2>2 DEF DocInv
  <2>4. \A x \in Peer : Closed(applied[x])'
    BY <1>3, <2>3 DEF Closed
  <2> QED
    BY <1>3, <2>1, <2>4 DEF DocInv, Topmost, Made
<1>4. ASSUME NEW p \in Peer, NEW h \in Hash, ApplyOther(p, h)
      PROVE  DocInv'
  <2>1. Apply(p, {h}) /\ UNCHANGED <<parents, own, sync_state>>
    BY <1>4 DEF ApplyOther
  <2> QED
    BY <1>3, <2>1 DEF DocInv
<1>5. ASSUME NEW p \in Peer, SendReset(p)
      PROVE  DocInv'
  BY <1>5 DEF SendReset, docVars, DocInv, Topmost, Made, Closed
<1>6. ASSUME NEW p \in Peer, SendMessage(p)
      PROVE  DocInv'
  <2>1. UNCHANGED <<parents, applied, own>>
    BY <1>6 DEF SendMessage, docVars
  <2>2. \A x \in Peer : /\ sync_state'[x].shared_heads = sync_state[x].shared_heads
                        /\ sync_state'[x].last_sent_heads
                              \in {sync_state[x].last_sent_heads, Heads(x)}
    BY <1>6, <1>t DEF SendMessage, State, TypeOK
  <2> QED
    BY <1>t, <2>1, <2>2 DEF DocInv, Topmost, Made, Closed
<1>7. ASSUME NEW p \in Peer, ReceiveSyncMessage(p)
      PROVE  DocInv'
  <2> DEFINE m == Head(chan[p])
  <2>1. /\ Apply(p, m.changes) /\ UNCHANGED <<parents, own>>
        /\ sync_state' = [sync_state EXCEPT ![p] = Received(sync_state[p], m, Heads(p), applied'[p])]
    BY <1>7 DEF ReceiveSyncMessage
  <2> HIDE DEF m
  <2>2. \A x \in Peer : applied[x] \subseteq applied'[x]
    BY <1>3, <2>1
  <2>3. /\ sync_state'[p].shared_heads \subseteq applied'[p]
        /\ sync_state'[p].last_sent_heads \subseteq applied'[p]
    <3>1. sync_state'[p] = Received(sync_state[p], m, HeadsOf(applied[p]), applied'[p])
      BY <2>1 DEF TypeOK, Heads
    <3>2. /\ sync_state[p].shared_heads \subseteq applied[p]
          /\ sync_state[p].last_sent_heads \subseteq applied[p]
      BY DEF DocInv
    <3> QED
      BY <1>t, <2>2, <3>1, <3>2, ReceivedWithin
  <2>4. \A x \in Peer \ {p} : sync_state'[x] = sync_state[x]
    BY <2>1 DEF TypeOK
  <2>5. \A x \in Peer : /\ sync_state'[x].shared_heads \subseteq applied'[x]
                        /\ sync_state'[x].last_sent_heads \subseteq applied'[x]
    BY <2>2, <2>3, <2>4 DEF DocInv
  <2> QED
    BY <1>3, <2>1, <2>5 DEF DocInv
<1>8. CASE Reconnect
  <2>1. PICK doc \in [Peer -> {"same", "loaded", "lost"}] :
          /\ applied' = [p \in Peer |-> IF doc[p] = "lost" THEN {} ELSE applied[p]]
          /\ own'     = [p \in Peer |-> IF doc[p] = "same" THEN own[p] ELSE {}]
          /\ \E kept \in SUBSET {p \in Peer : doc[p] # "lost"} :
                sync_state' = [p \in Peer |-> IF p \in kept THEN Resumed(sync_state[p])
                                                            ELSE FreshState]
    BY <1>8 DEF Reconnect
  <2>2. PICK kept \in SUBSET {p \in Peer : doc[p] # "lost"} :
           sync_state' = [p \in Peer |-> IF p \in kept THEN Resumed(sync_state[p]) ELSE FreshState]
    BY <2>1
  <2>3. parents' = parents
    BY <1>8 DEF Reconnect
  <2>4. ASSUME NEW p \in Peer
        PROVE  Closed(applied[p])' /\ own'[p] \subseteq applied'[p]
    BY <2>1, <2>3 DEF Closed, DocInv
  <2>5. ASSUME NEW p \in Peer
        PROVE  /\ sync_state'[p].shared_heads \subseteq applied'[p]
               /\ sync_state'[p].last_sent_heads \subseteq applied'[p]
    <3>1. CASE p \in kept
      <4>1. sync_state'[p] = Resumed(sync_state[p]) /\ applied'[p] = applied[p]
        BY <2>1, <2>2, <3>1
      <4> QED
        BY <4>1 DEF DocInv, Resumed, FreshState
    <3>2. CASE p \notin kept
      BY <2>2, <3>2 DEF FreshState
    <3> QED
      BY <3>1, <3>2
  <2> QED
    BY <2>3, <2>4, <2>5 DEF DocInv, Topmost, Made
<1>9. CASE UNCHANGED vars
  BY <1>9 DEF vars, DocInv, Topmost, Made, Closed
<1> QED
  BY <1>1, <1>2, <1>4, <1>5, <1>6, <1>7, <1>8, <1>9 DEF Next, GenerateSyncMessage

\* The documents of the peers are always causally closed, and so is what is left of them after
\* a crash: a peer never holds a change without the changes it depends on.
THEOREM DocumentsAreClosed == Spec => [](\A p \in Peer : Closed(applied[p]))
<1>1. Init => DocInv
  BY DEF Init, DocInv, Topmost, Made, Closed, FreshState
<1>2. TypeOK /\ DocInv /\ [Next]_vars => DocInv'
  BY DocInvStep
<1>3. DocInv => \A p \in Peer : Closed(applied[p])
  BY DEF DocInv
<1> QED
  BY <1>1, <1>2, <1>3, SyncTypeCorrect, PTL DEF Spec
-----------------------------------------------------------------------------
(* Two peers and exact filters *)

\* What m, a message of peer q or what is kept of one, says of q's document is true.
Tells(q, m) ==
    /\ m.have # <<>>
    /\ m.heads \cup m.have[1].last_sync \cup m.have[1].bloom \subseteq applied[q]

\* The heads q announced last in this connection, to p: on their way or received.
Announced(p) == chan[p] # <<>> \/ sync_state[p].theirs.received
LatestHeads(p) ==
    IF chan[p] = <<>> THEN sync_state[p].theirs.heads ELSE chan[p][Len(chan[p])].heads

\* A channel brings changes of its sender, none before those it depends on, and messages
\* that tell the truth.
Arrives(p) ==
    \A i \in DOMAIN chan[p] :
        /\ Tells(Remote(p), chan[p][i])
        /\ chan[p][i].changes \subseteq applied[Remote(p)]
        /\ \A h \in chan[p][i].changes :
              parents[h] \subseteq applied[p] \cup UNION {chan[p][j].changes : j \in 1..i}

\* What p keeps of the last message is true; before the first one p has sent no change.
Hears(p) ==
    LET s == sync_state[p]
    IN  /\ s.theirs.received => Tells(Remote(p), s.theirs)
        /\ ~s.theirs.received => s.theirs = NoneReceived /\ s.sent_hashes = {}

\* A peer that waits for an answer, and whose heads are still those it announced last, did
\* announce them; if it has heard of the other peer, it also sent all that one lacks.
WaitsRightly(p) ==
    LET s == sync_state[p]
    IN  s.in_flight /\ s.last_sent_heads = Heads(p) =>
            /\ Announced(Remote(p)) /\ LatestHeads(Remote(p)) = Heads(p)
            /\ s.theirs.received =>
                  applied[p] \subseteq applied[Remote(p)] \cup Carried(chan[Remote(p)])

\* The inductive invariant: so it is with both, and nothing waits in a queue, since whatever
\* arrives can be applied.
Progress(p) == queue[p] = {} /\ Arrives(p) /\ Hears(p) /\ WaitsRightly(p)
ExactPair == exact /\ others = 0
ProgressInv == ExactPair => \A p \in Peer : Progress(p)

\* A document that grew has other heads than those it announced before.
LEMMA HeadsTellGrowth ==
    ASSUME Topmost, NEW A, NEW now \in SUBSET Made, A \subseteq now, Closed(A),
           HeadsOf(now) \subseteq A
    PROVE  now = A
BY AllBelowHeads

\* What p says of its document in a message is true.
LEMMA OurHavesTell ==
    ASSUME TypeOK, DocInv, ExactPair, NEW p \in Peer, queue[p] = {}, NEW have \in OurHaves(p)
    PROVE  /\ have # <<>>
           /\ have[1].last_sync \cup have[1].bloom \subseteq applied[p]
<1>1. OurNeed(p) \subseteq sync_state[p].theirs.heads
  BY DEF OurNeed, GetMissingDeps
<1>2. PICK h \in MakeBloomFilter(p, sync_state[p].shared_heads) : have = <<h>>
  BY <1>1 DEF OurHaves
<1>3. h.last_sync = sync_state[p].shared_heads
      /\ h.bloom = GetChanges(p, sync_state[p].shared_heads)
  BY <1>2 DEF MakeBloomFilter, ExactPair
<1> QED
  BY <1>2, <1>3 DEF DocInv, GetChanges

\* p sends all it has but what its peer said it had and what was sent before.
LEMMA SendsAllLacking ==
    ASSUME TypeOK, DocInv, NEW p \in Peer, ~MustReset(p), sync_state[p].theirs.received,
           Tells(Remote(p), sync_state[p].theirs)
    PROVE  applied[p] \subseteq applied[Remote(p)] \cup sync_state[p].sent_hashes \cup ChangesToSend(p)
<1> DEFINE have == sync_state[p].theirs.have
           changes == GetChanges(p, have[1].last_sync)
<1>1. /\ have # <<>> /\ have[1].last_sync \subseteq applied[p]
      /\ have[1].last_sync \subseteq applied[Remote(p)] /\ have[1].bloom \subseteq applied[Remote(p)]
  BY DEF MustReset, Tells
<1>2. Ancestors(have[1].last_sync \cap applied[p]) \subseteq applied[Remote(p)]
  <2>1. applied[Remote(p)] \in SUBSET Made /\ Closed(applied[Remote(p)])
    BY RemoteOfRemote DEF TypeOK, DocInv
  <2> QED
    BY <1>1, <2>1, AncestorsWithin
<1>3. applied[p] \subseteq changes \cup applied[Remote(p)]
  BY <1>2 DEF GetChanges
<1>4. changes \ have[1].bloom \subseteq WithDependents(changes, changes \ have[1].bloom)
  BY DEF WithDependents, Ancestors, GetChanges, TypeOK
<1>5. WithDependents(changes, changes \ have[1].bloom) \ sync_state[p].sent_hashes
         \subseteq ChangesToSend(p)
  BY <1>1 DEF ChangesToSend, GetChangesToSend
<1> QED
  BY <1>1, <1>3, <1>4, <1>5

\* p cannot know what to send before it has received a message.
LEMMA NothingSentUnheard ==
    ASSUME NEW p, sync_state[p].theirs = NoneReceived
    PROVE  ChangesToSend(p) = {}
BY DEF ChangesToSend, GetChangesToSend, NoneReceived

\* A channel that gets one message more.
LEMMA AppendedChannel ==
    ASSUME NEW S, NEW s \in Seq(S), NEW m \in S
    PROVE  /\ Append(s, m) # <<>>
           /\ Append(s, m)[Len(Append(s, m))] = m
           /\ DOMAIN Append(s, m) = DOMAIN s \cup {Len(s) + 1}
           /\ \A i \in DOMAIN s : /\ Append(s, m)[i] = s[i]
                                  /\ 1..i \subseteq DOMAIN s
           /\ Append(s, m)[Len(s) + 1] = m
           /\ 1..(Len(s) + 1) = DOMAIN s \cup {Len(s) + 1}
OBVIOUS

\* A channel that loses its first message.
LEMMA TailOfChannel ==
    ASSUME NEW S, NEW s \in Seq(S), s # <<>>
    PROVE  /\ 1 \in DOMAIN s /\ s[1] = Head(s)
           /\ Tail(s) \in Seq(S)
           /\ \A i \in DOMAIN Tail(s) : i \in Nat /\ i + 1 \in DOMAIN s /\ Tail(s)[i] = s[i + 1]
           /\ Tail(s) = <<>> => Len(s) = 1
           /\ Tail(s) # <<>> => Tail(s)[Len(Tail(s))] = s[Len(s)]
<1> DEFINE t == Tail(s)
<1>1. /\ 1 \in DOMAIN s /\ s[1] = Head(s) /\ t \in Seq(S)
      /\ Len(s) \in Nat \ {0} /\ Len(t) = Len(s) - 1 /\ DOMAIN t = 1..Len(t)
      /\ DOMAIN s = 1..Len(s)
      /\ \A i \in 1..Len(t) : t[i] = s[i + 1]
  OBVIOUS
<1>2. t = <<>> <=> Len(t) = 0
  BY <1>1, EmptySeq
<1> HIDE DEF t
<1>3. \A i \in DOMAIN t : i \in Nat /\ i + 1 \in DOMAIN s /\ t[i] = s[i + 1]
  BY <1>1
<1>4. t # <<>> => t[Len(t)] = s[Len(s)]
  <2> SUFFICES ASSUME t # <<>>
               PROVE  t[Len(t)] = s[Len(s)]
    OBVIOUS
  <2>1. Len(t) \in 1..Len(t) /\ Len(t) + 1 = Len(s)
    BY <1>1, <1>2
  <2> QED
    BY <1>1, <2>1
<1>5. t = <<>> => Len(s) = 1
  BY <1>1, <1>2
<1> QED
  BY <1>1, <1>3, <1>4, <1>5 DEF t

\* Changes made earlier in a channel than place i + 1: the first one's or made before place i
\* of the rest.
LEMMA EarlierInTail ==
    ASSUME NEW S, NEW s \in Seq(S), s # <<>>, NEW i \in DOMAIN Tail(s)
    PROVE  UNION {s[j].changes : j \in 1..(i + 1)} \subseteq
               Head(s).changes \cup UNION {Tail(s)[j].changes : j \in 1..i}
<1>1. i \in Nat /\ i <= Len(s) - 1 /\ DOMAIN Tail(s) = 1..(Len(s) - 1) /\ s[1] = Head(s)
  OBVIOUS
<1>2. \A k \in DOMAIN Tail(s) : Tail(s)[k] = s[k + 1]
  BY TailOfChannel
<1> SUFFICES ASSUME NEW j \in 1..(i + 1)
             PROVE  \/ j = 1
                    \/ j - 1 \in 1..i /\ s[j] = Tail(s)[j - 1]
  BY <1>1
<1> SUFFICES ASSUME j # 1
             PROVE  j - 1 \in 1..i /\ s[j] = Tail(s)[j - 1]
  OBVIOUS
<1>3. j \in Nat /\ j - 1 \in 1..i /\ j - 1 \in DOMAIN Tail(s) /\ (j - 1) + 1 = j
  BY <1>1
<1> QED
  BY <1>2, <1>3

\* Documents that grow, by changes nobody has mentioned yet, disturb nothing; the heads of one
\* that grew are not those it announced.
LEMMA GrowthKeepsProgress ==
    ASSUME TypeOK, NEW p \in Peer, Progress(p),
           UNCHANGED <<queue, sync_state, chan>>,
           \A x \in Peer : applied[x] \subseteq applied'[x],
           \A g \in Made : parents'[g] = parents[g],
           \/ applied'[p] = applied[p] /\ Heads(p)' = Heads(p)
           \/ sync_state[p].last_sent_heads # Heads(p)'
    PROVE  Progress(p)'
<1> DEFINE q == Remote(p)
<1>1. q \in Peer /\ applied[p] \subseteq applied'[p] /\ applied[q] \subseteq applied'[q]
  BY RemoteOfRemote
<1>2. Arrives(p)'
  <2> SUFFICES ASSUME NEW i \in DOMAIN chan[p]
               PROVE  /\ Tells(q, chan[p][i])'
                      /\ chan[p][i].changes \subseteq applied'[q]
                      /\ \A h \in chan[p][i].changes : parents'[h] \subseteq
                            applied'[p] \cup UNION {chan[p][j].changes : j \in 1..i}
    BY DEF Arrives
  <2>1. chan[p][i].changes \subseteq Made
    <3>1. chan[p] \in Seq(SyncMessage)
      BY DEF TypeOK
    <3>2. chan[p][i] \in SyncMessage
      BY <3>1
    <3> QED
      BY <3>2 DEF SyncMessage
  <2>2. /\ Tells(q, chan[p][i]) /\ chan[p][i].changes \subseteq applied[q]
        /\ \A h \in chan[p][i].changes :
              parents[h] \subseteq applied[p] \cup UNION {chan[p][j].changes : j \in 1..i}
    BY DEF Progress, Arrives
  <2> QED
    BY <1>1, <2>1, <2>2 DEF Tells
<1>3. Hears(p)'
  BY <1>1 DEF Progress, Hears, Tells
<1>4. WaitsRightly(p)'
  BY <1>1 DEF Progress, WaitsRightly, Announced, LatestHeads
<1> QED
  BY <1>2, <1>3, <1>4 DEF Progress

\* A message that tells the truth, and brings no change before those it depends on, keeps the
\* channels as they should be.
LEMMA SendKeepsArrives ==
    ASSUME TypeOK, NEW x \in Peer, NEW m, m \in SyncMessage, Send(x, m),
           UNCHANGED <<parents, applied>>,
           Tells(x, m), m.changes \subseteq applied[x],
           \A h \in m.changes : parents[h] \subseteq
               applied[Remote(x)] \cup Carried(chan[Remote(x)]) \cup m.changes,
           NEW p \in Peer, Arrives(p)
    PROVE  Arrives(p)'
<1> DEFINE q == Remote(x)
<1>1. q \in Peer /\ q # x /\ Remote(q) = x /\ \A y \in Peer : y = x \/ y = q
  BY RemoteOfRemote, ConstantsAssumption DEF ConstantsAssumption
<1>2. chan' = [chan EXCEPT ![q] = Append(chan[q], m)] /\ chan[q] \in Seq(SyncMessage)
  BY <1>1 DEF Send, TypeOK
<1>3. \A y \in Peer : \A n : Tells(y, n)' = Tells(y, n)
  BY DEF Tells
<1>4. CASE p = x
  BY <1>1, <1>2, <1>3, <1>4 DEF Arrives, TypeOK
<1>5. CASE p = q
  <2> DEFINE s == chan[q]
             t == Append(s, m)
  <2>1. chan'[p] = t
    BY <1>2, <1>5 DEF TypeOK
  <2>2. /\ DOMAIN t = DOMAIN s \cup {Len(s) + 1} /\ t[Len(s) + 1] = m
        /\ \A i \in DOMAIN s : t[i] = s[i] /\ 1..i \subseteq DOMAIN s
        /\ 1..(Len(s) + 1) = DOMAIN s \cup {Len(s) + 1}
    BY <1>2, AppendedChannel
  <2> HIDE DEF t
  <2>3. ASSUME NEW i \in DOMAIN s
        PROVE  /\ Tells(x, t[i]) /\ t[i].changes \subseteq applied[x]
               /\ \A h \in t[i].changes :
                     parents[h] \subseteq applied[q] \cup UNION {t[j].changes : j \in 1..i}
    <3>1. \A j \in 1..i : t[j] = s[j]
      BY <2>2
    <3>2. UNION {t[j].changes : j \in 1..i} = UNION {s[j].changes : j \in 1..i}
      BY <3>1
    <3>3. /\ Tells(x, s[i]) /\ s[i].changes \subseteq applied[x]
          /\ \A h \in s[i].changes :
                parents[h] \subseteq applied[q] \cup UNION {s[j].changes : j \in 1..i}
      BY <1>1, <1>5 DEF Arrives
    <3> QED
      BY <2>2, <3>2, <3>3
  <2>4. \A h \in m.changes :
           parents[h] \subseteq applied[q] \cup UNION {t[j].changes : j \in 1..(Len(s) + 1)}
    BY <2>2 DEF Carried
  <2>5. \A i \in DOMAIN t :
           /\ Tells(x, t[i]) /\ t[i].changes \subseteq applied[x]
           /\ \A h \in t[i].changes :
                 parents[h] \subseteq applied[q] \cup UNION {t[j].changes : j \in 1..i}
    BY <2>2, <2>3, <2>4
  <2> QED
    BY <1>1, <1>3, <1>5, <2>1, <2>5 DEF Arrives
<1> QED
  BY <1>1, <1>4, <1>5

\* After a message of x there is one on its way, with the heads of x and its changes.
LEMMA SendAnnounces ==
    ASSUME TypeOK, NEW x \in Peer, NEW m, m \in SyncMessage, Send(x, m)
    PROVE  /\ Announced(Remote(x))' /\ LatestHeads(Remote(x))' = m.heads
           /\ Carried(chan'[Remote(x)]) = Carried(chan[Remote(x)]) \cup m.changes
           /\ chan'[x] = chan[x]
<1> DEFINE q == Remote(x)
<1>1. q \in Peer /\ q # x /\ chan[q] \in Seq(SyncMessage)
  BY RemoteOfRemote DEF TypeOK
<1>2. chan'[q] = Append(chan[q], m) /\ chan'[x] = chan[x]
  BY <1>1 DEF Send, TypeOK
<1> QED
  BY <1>1, <1>2, AppendedChannel, CarriedByAppend DEF Announced, LatestHeads

\* Sending a message keeps the invariant: what a peer sends tells the truth, and all it lacks
\* goes to the other peer.
LEMMA SendKeepsProgress ==
    ASSUME TypeOK, DocInv, SentArrives, ProgressInv, ExactPair,
           NEW x \in Peer, GenerateSyncMessage(x), NEW p \in Peer
    PROVE  Progress(p)'
<1> DEFINE q == Remote(x)
<1>1. q \in Peer /\ q # x /\ Remote(q) = x /\ \A y \in Peer : y = x \/ y = q
  BY RemoteOfRemote, ConstantsAssumption DEF ConstantsAssumption
<1>2. Progress(p) /\ Progress(x) /\ Progress(q)
  BY <1>1 DEF ProgressInv
<1>3. UNCHANGED <<parents, applied, queue>>
  BY DEF GenerateSyncMessage, SendReset, SendMessage, docVars
<1>4. Heads(x) \subseteq applied[x] /\ Heads(x) \subseteq Made /\ \A y \in Peer : Heads(y)' = Heads(y)
  BY <1>3, HeadsBound DEF Heads, HeadsOf, TypeOK
<1>5. sync_state[x].sent_hashes \subseteq applied[q] \cup Carried(chan[q])
  BY <1>1, <1>2 DEF SentArrives, Progress, Carried
<1>6. \A n : Tells(q, n)' = Tells(q, n) /\ Tells(x, n)' = Tells(x, n)
  BY <1>3 DEF Tells
<1>7. CASE SendReset(x)
  <2> DEFINE m == [heads |-> Heads(x), need |-> {}, have |-> <<EmptyHave>>, changes |-> {}]
  <2>1. Send(x, m) /\ sync_state' = sync_state
    BY <1>7 DEF SendReset
  <2>2. m \in SyncMessage
    <3>1. <<EmptyHave>> \in Haves
      BY DEF EmptyHave, Haves, Have
    <3> QED
      BY <1>4, <3>1 DEF SyncMessage, TypeOK
  <2>3. Tells(x, m) /\ m.changes = {} /\ m.heads = Heads(x)
    BY <1>4 DEF Tells, EmptyHave
  <2> HIDE DEF m
  <2>4. Arrives(p)'
    BY <1>2, <1>3, <2>1, <2>2, <2>3, SendKeepsArrives DEF Progress
  <2>5. /\ Announced(q)' /\ LatestHeads(q)' = Heads(x)
        /\ Carried(chan'[q]) = Carried(chan[q]) /\ chan'[x] = chan[x]
    BY <2>1, <2>2, <2>3, SendAnnounces
  <2>6. Hears(p)'
    BY <1>1, <1>2, <1>6, <2>1 DEF Progress, Hears
  <2>7. WaitsRightly(x)'
    BY <1>2, <1>3, <1>4, <2>1, <2>5 DEF Progress, WaitsRightly
  <2>8. WaitsRightly(q)'
    BY <1>1, <1>2, <1>3, <1>4, <2>1, <2>5 DEF Progress, WaitsRightly, Announced, LatestHeads
  <2> QED
    BY <1>1, <1>2, <1>3, <2>4, <2>6, <2>7, <2>8 DEF Progress
<1>8. CASE SendMessage(x)
  <2>1. PICK have \in OurHaves(x) :
           Send(x, [heads |-> Heads(x), need |-> OurNeed(x), have |-> have,
                    changes |-> ChangesToSend(x)])
    BY <1>8 DEF SendMessage
  <2> DEFINE m == [heads |-> Heads(x), need |-> OurNeed(x), have |-> have,
                   changes |-> ChangesToSend(x)]
  <2>2. m \in SyncMessage /\ m.changes = ChangesToSend(x) /\ m.heads = Heads(x)
        /\ m.changes \subseteq applied[x]
    BY MessageTypes DEF SyncMessage, TypeOK
  <2>3. Tells(x, m)
    BY <1>2, <1>4, OurHavesTell DEF Tells, Progress
  <2>4. /\ sync_state'[x].in_flight /\ sync_state'[x].theirs = sync_state[x].theirs
        /\ sync_state'[x].sent_hashes = sync_state[x].sent_hashes \cup ChangesToSend(x)
        /\ sync_state'[q] = sync_state[q] /\ ~MustReset(x)
    BY <1>1, <1>8 DEF SendMessage, TypeOK, State
  <2>5. Send(x, m)
    BY <2>1
  <2> HIDE DEF m
  <2>6. ~sync_state[x].theirs.received => ChangesToSend(x) = {}
    BY <1>2, NothingSentUnheard DEF Progress, Hears
  <2>7. sync_state[x].theirs.received =>
           applied[x] \subseteq applied[q] \cup Carried(chan[q]) \cup ChangesToSend(x)
    BY <1>2, <1>5, <2>4, SendsAllLacking DEF Progress, Hears
  <2>8. \A h \in m.changes : parents[h] \subseteq applied[q] \cup Carried(chan[q]) \cup m.changes
    BY <2>2, <2>6, <2>7 DEF DocInv, Closed
  <2>9. Arrives(p)'
    BY <1>2, <1>3, <2>2, <2>3, <2>5, <2>8, SendKeepsArrives DEF Progress
  <2>10. /\ Announced(q)' /\ LatestHeads(q)' = Heads(x)
         /\ Carried(chan'[q]) = Carried(chan[q]) \cup ChangesToSend(x) /\ chan'[x] = chan[x]
    BY <2>2, <2>5, SendAnnounces
  <2>11. Hears(x)'
    BY <1>1, <1>2, <1>6, <2>4, <2>6 DEF Progress, Hears
  <2>12. Hears(q)'
    BY <1>1, <1>2, <1>6, <2>4 DEF Progress, Hears
  <2>13. WaitsRightly(x)'
    BY <1>3, <1>4, <2>4, <2>7, <2>10 DEF WaitsRightly
  <2>14. WaitsRightly(q)'
    BY <1>1, <1>2, <1>3, <1>4, <2>4, <2>10 DEF Progress, WaitsRightly, Announced, LatestHeads
  <2> QED
    BY <1>1, <1>2, <1>3, <2>9, <2>11, <2>12, <2>13, <2>14 DEF Progress
<1> QED
  BY <1>7, <1>8 DEF GenerateSyncMessage

\* A peer that still waits after a message had sent changes and did not know all of its heads.
LEMMA StillWaiting ==
    ASSUME NEW s, NEW m, NEW before, NEW now, Received(s, m, before, now).in_flight
    PROVE  s.in_flight /\ s.sent_hashes # {} /\ ~(m.heads \subseteq now)
<1>1. /\ s.in_flight
      /\ s.sent_hashes \ Ancestors(m.heads \cap now) # {}
      /\ ~(m.heads \subseteq now)
  BY Zenon DEF Received
<1> QED
  BY <1>1

\* Receiving a message keeps it: all it brings can be applied, and whoever still waits then
\* heard nothing new.
LEMMA ReceiveKeepsProgress ==
    ASSUME TypeOK, DocInv, ProgressInv, ExactPair,
           NEW x \in Peer, ReceiveSyncMessage(x), NEW p \in Peer
    PROVE  Progress(p)'
<1> DEFINE q == Remote(x)
           m == Head(chan[x])
           s == sync_state[x]
<1>1. q \in Peer /\ q # x /\ Remote(q) = x /\ \A y \in Peer : y = x \/ y = q
  BY RemoteOfRemote, ConstantsAssumption DEF ConstantsAssumption
<1>2. Progress(x) /\ Progress(q)
  BY <1>1 DEF ProgressInv
<1>3. /\ chan[x] # <<>> /\ chan[x] \in Seq(SyncMessage) /\ Apply(x, m.changes)
      /\ chan'[x] = Tail(chan[x]) /\ chan'[q] = chan[q] /\ parents' = parents
      /\ sync_state'[x] = Received(s, m, HeadsOf(applied[x]), applied'[x])
      /\ sync_state'[q] = sync_state[q] /\ s \in State
  BY <1>1 DEF ReceiveSyncMessage, TypeOK, Heads
<1>4. /\ 1 \in DOMAIN chan[x] /\ chan[x][1] = m
      /\ \A i \in DOMAIN Tail(chan[x]) : /\ i \in Nat /\ i + 1 \in DOMAIN chan[x]
                                         /\ Tail(chan[x])[i] = chan[x][i + 1]
  BY <1>3, TailOfChannel
<1>5. /\ Tells(q, m) /\ m.changes \subseteq applied[q]
      /\ \A h \in m.changes : parents[h] \subseteq applied[x] \cup m.changes
  <2>1. \A h \in chan[x][1].changes :
           parents[h] \subseteq applied[x] \cup UNION {chan[x][j].changes : j \in 1..1}
    BY <1>2, <1>4 DEF Progress, Arrives
  <2>2. UNION {chan[x][j].changes : j \in 1..1} = m.changes
    BY <1>4
  <2> QED
    BY <1>2, <1>4, <2>1, <2>2 DEF Progress, Arrives
<1> HIDE DEF m
<1>6. /\ applied'[x] = applied[x] \cup m.changes /\ queue'[x] = {}
      /\ applied'[q] = applied[q] /\ queue'[q] = {}
  <2>1. Absorb(applied[x], queue[x] \cup m.changes) = applied[x] \cup m.changes
    BY <1>2, <1>5, AbsorbAll DEF Progress
  <2>2. /\ applied'[x] = applied[x] \cup m.changes
        /\ applied'[q] = applied[q] /\ queue'[q] = queue[q]
    BY <1>1, <1>3, <2>1, ApplyKeeps
  <2>3. queue'[x] = (queue[x] \cup m.changes) \ applied'[x]
    BY <1>3 DEF Apply, TypeOK
  <2> QED
    BY <1>2, <2>2, <2>3 DEF Progress
<1>7. \A n : (Tells(q, n) => Tells(q, n)') /\ (Tells(x, n) => Tells(x, n)')
  BY <1>6 DEF Tells
<1>8. Carried(chan[x]) = m.changes \cup Carried(chan'[x])
  BY <1>3, CarriedByTail DEF m
<1>9. Arrives(x)'
  <2> DEFINE t == Tail(chan[x])
  <2>1. ASSUME NEW i \in DOMAIN t
        PROVE  /\ t[i].have # <<>>
               /\ t[i].heads \cup t[i].have[1].last_sync \cup t[i].have[1].bloom \subseteq applied'[q]
               /\ t[i].changes \subseteq applied'[q]
               /\ \A h \in t[i].changes :
                     parents[h] \subseteq applied'[x] \cup UNION {t[j].changes : j \in 1..i}
    <3>1. i + 1 \in DOMAIN chan[x] /\ t[i] = chan[x][i + 1]
      BY <1>4
    <3>2. UNION {chan[x][j].changes : j \in 1..(i + 1)} \subseteq
             m.changes \cup UNION {t[j].changes : j \in 1..i}
      BY <1>3, EarlierInTail DEF m
    <3> HIDE DEF t
    <3>3. /\ Tells(q, t[i]) /\ t[i].changes \subseteq applied[q]
          /\ \A h \in t[i].changes : parents[h] \subseteq
                applied[x] \cup UNION {chan[x][j].changes : j \in 1..(i + 1)}
      BY <1>2, <3>1 DEF Progress, Arrives
    <3> QED
      BY <1>6, <3>2, <3>3 DEF Tells
  <2>2. chan'[x] = t
    BY <1>3
  <2> HIDE DEF t
  <2>3. \A i \in DOMAIN chan'[x] :
           /\ Tells(q, chan[x][i])' /\ chan'[x][i].changes \subseteq applied'[q]
           /\ \A h \in chan'[x][i].changes :
                 parents'[h] \subseteq applied'[x] \cup UNION {chan'[x][j].changes : j \in 1..i}
    <3> SUFFICES ASSUME NEW i \in DOMAIN t
                 PROVE  /\ Tells(q, chan[x][i])' /\ t[i].changes \subseteq applied'[q]
                        /\ \A h \in t[i].changes :
                              parents'[h] \subseteq applied'[x] \cup UNION {t[j].changes : j \in 1..i}
      BY <2>2
    <3>1. Tells(q, chan[x][i])'
      BY <2>1, <2>2 DEF Tells
    <3>2. parents' = parents
      BY <1>3
    <3> QED
      BY <2>1, <3>1, <3>2
  <2> QED
    BY <2>3 DEF Arrives
<1>10. Arrives(q)'
  <2>1. \A i \in DOMAIN chan[q] : /\ Tells(x, chan[q][i])'
                                  /\ chan[q][i].changes \subseteq applied'[x]
    BY <1>1, <1>2, <1>3, <1>6 DEF Progress, Arrives, Tells
  <2> QED
    BY <1>1, <1>2, <1>3, <1>6, <2>1 DEF Progress, Arrives
<1>11. /\ sync_state'[x].theirs = [received |-> TRUE, heads |-> m.heads, need |-> m.need,
                                   have |-> m.have]
  BY <1>3 DEF Received
<1>12. Hears(x)'
  BY <1>5, <1>6, <1>11 DEF Hears, Tells
<1>13. Hears(q)'
  BY <1>1, <1>2, <1>3, <1>6 DEF Progress, Hears, Tells
<1>14. WaitsRightly(x)'
  <2> SUFFICES ASSUME sync_state'[x].in_flight, sync_state'[x].last_sent_heads = Heads(x)'
               PROVE  /\ Announced(q)' /\ LatestHeads(q)' = Heads(x)'
                      /\ applied'[x] \subseteq applied'[q] \cup Carried(chan'[q])
    BY DEF WaitsRightly
  <2>1. s.in_flight /\ s.sent_hashes # {} /\ ~(m.heads \subseteq applied'[x])
    BY <1>3, StillWaiting
  <2>2. s.theirs.received
    BY <1>2, <2>1 DEF Progress, Hears
  <2>3. sync_state'[x].last_sent_heads = s.last_sent_heads
    <3>1. m.heads # {} /\ m.heads # HeadsOf(applied[x])
      BY <1>6, <2>1, HeadsBound
    <3> QED
      BY <1>3, <3>1 DEF Received
  <2>4. applied'[x] = applied[x] /\ Heads(x)' = Heads(x)
    <3>1. Heads(x)' = HeadsOf(applied'[x])
      BY <1>3 DEF Heads, HeadsOf
    <3>2. HeadsOf(applied'[x]) \subseteq applied[x]
      BY <2>3, <3>1 DEF DocInv
    <3>3. applied'[x] \in SUBSET Made /\ applied[x] \subseteq applied'[x]
      BY <1>1, <1>5, <1>6 DEF TypeOK
    <3>4. applied'[x] = applied[x]
      BY <3>2, <3>3, HeadsTellGrowth DEF DocInv
    <3> QED
      BY <3>1, <3>4 DEF Heads
  <2> QED
    BY <1>1, <1>2, <1>3, <1>6, <2>1, <2>2, <2>3, <2>4
    DEF Progress, WaitsRightly, Announced, LatestHeads
<1>15. WaitsRightly(q)'
  <2>1. Heads(q)' = Heads(q)
    BY <1>3, <1>6 DEF Heads, HeadsOf
  <2>2. Announced(x)' /\ LatestHeads(x)' = LatestHeads(x)
    <3>1. CASE Tail(chan[x]) = <<>>
      BY <1>3, <1>4, <1>11, <3>1, TailOfChannel DEF Announced, LatestHeads
    <3>2. CASE Tail(chan[x]) # <<>>
      BY <1>3, <3>2, TailOfChannel DEF Announced, LatestHeads
    <3> QED
      BY <3>1, <3>2
  <2> QED
    BY <1>1, <1>2, <1>3, <1>6, <1>8, <2>1, <2>2 DEF Progress, WaitsRightly
<1> QED
  BY <1>1, <1>6, <1>9, <1>10, <1>12, <1>13, <1>14, <1>15 DEF Progress

\* A State at the start of a connection.
LEMMA NewConnection ==
    /\ ~NoneReceived.received
    /\ ~FreshState.in_flight /\ FreshState.theirs = NoneReceived /\ FreshState.sent_hashes = {}
    /\ \A s : /\ ~Resumed(s).in_flight /\ Resumed(s).theirs = NoneReceived
              /\ Resumed(s).sent_hashes = {}
BY DEF NoneReceived, FreshState, Resumed

\* Every step keeps the invariant.
LEMMA ProgressStep ==
    ASSUME TypeOK, DocInv, SentArrives, ProgressInv, [Next]_vars
    PROVE  ProgressInv'
<1> SUFFICES ASSUME ExactPair', NEW p \in Peer
             PROVE  Progress(p)'
  BY DEF ProgressInv
<1>1. ASSUME NEW x \in Peer, NEW h \in Hash, Edit(x, h)
      PROVE  Progress(p)'
  <2>1. /\ h \notin Made /\ h \in Made' /\ UNCHANGED <<exact, others, queue, sync_state, chan>>
        /\ parents' = [g \in Made \cup {h} |-> IF g = h THEN Heads(x) \cup own[x] ELSE parents[g]]
        /\ applied' = [applied EXCEPT ![x] = applied[x] \cup {h}]
    BY <1>1 DEF Edit, Made
  <2>2. Heads(x) \cup own[x] \in SUBSET Made
    BY HeadsBound DEF TypeOK, Heads
  <2>3. /\ \A g \in Made : parents'[g] = parents[g]
        /\ \A S \in SUBSET Made : HeadsOf(S)' = HeadsOf(S)
    BY <2>1, <2>2, OneChangeMore DEF DocInv
  <2>4. \A y \in Peer : applied[y] \subseteq applied'[y]
    BY <2>1 DEF TypeOK
  <2>5. CASE p # x
    <3>1. applied'[p] = applied[p] /\ applied[p] \in SUBSET Made
      BY <2>1, <2>5 DEF TypeOK
    <3>2. Heads(p)' = Heads(p)
      BY <2>3, <3>1 DEF Heads, HeadsOf
    <3> QED
      BY <1>1, <2>1, <2>3, <2>4, <3>1, <3>2, GrowthKeepsProgress DEF ProgressInv, ExactPair
  <2>6. CASE p = x
    <3>1. applied'[p] = applied[p] \cup {h} /\ applied[p] \subseteq Made
      BY <2>1, <2>6 DEF TypeOK
    <3>2. \A g \in applied'[p] : h \notin parents'[g]
      BY <2>1, <2>2, <2>3, <3>1 DEF TypeOK
    <3>3. h \in Heads(p)'
      BY <3>1, <3>2 DEF Heads, HeadsOf
    <3>4. sync_state[p].last_sent_heads # Heads(p)'
      BY <2>1, <3>1, <3>3 DEF DocInv
    <3> QED
      BY <1>1, <2>1, <2>3, <2>4, <3>4, GrowthKeepsProgress DEF ProgressInv, ExactPair
  <2> QED
    BY <2>5, <2>6
<1>2. ASSUME NEW h \in Hash, OtherEdit(h)
      PROVE  Progress(p)'
  <2>1. PICK T \in SUBSET Made :
           parents' = [x \in Made \cup {h} |-> IF x = h THEN HeadsOf(Ancestors(T)) ELSE parents[x]]
    BY <1>2 DEF OtherEdit
  <2>2. /\ h \notin Made /\ HeadsOf(Ancestors(T)) \in SUBSET Made
        /\ UNCHANGED <<exact, others, queue, sync_state, chan, applied>>
    BY <1>2 DEF OtherEdit, HeadsOf, Ancestors
  <2>3. /\ \A g \in Made : parents'[g] = parents[g]
        /\ \A S \in SUBSET Made : HeadsOf(S)' = HeadsOf(S)
    BY <2>1, <2>2, OneChangeMore DEF DocInv
  <2>4. Heads(p)' = Heads(p)
    BY <2>2, <2>3 DEF Heads, HeadsOf, TypeOK
  <2> QED
    BY <2>2, <2>3, <2>4, GrowthKeepsProgress DEF ProgressInv, ExactPair
<1>3. ASSUME NEW x \in Peer, NEW h \in Hash, ApplyOther(x, h)
      PROVE  FALSE
  <2>1. others \in Nat
    BY ConstantsAssumption DEF TypeOK, ConstantsAssumption
  <2> QED
    BY <1>3, <2>1 DEF ApplyOther, ExactPair
<1>4. ASSUME NEW x \in Peer, GenerateSyncMessage(x)
      PROVE  Progress(p)'
  <2>1. ExactPair
    BY <1>4 DEF GenerateSyncMessage, SendReset, SendMessage, docVars, ExactPair
  <2> QED
    BY <1>4, <2>1, SendKeepsProgress
<1>5. ASSUME NEW x \in Peer, ReceiveSyncMessage(x)
      PROVE  Progress(p)'
  <2>1. ExactPair
    BY <1>5 DEF ReceiveSyncMessage, ExactPair
  <2> QED
    BY <1>5, <2>1, ReceiveKeepsProgress
<1>6. CASE Reconnect
  <2>1. /\ chan' = [x \in Peer |-> <<>>] /\ ExactPair
        /\ \E doc \in [Peer -> {"same", "loaded", "lost"}] :
              queue' = [x \in Peer |-> IF doc[x] = "same" THEN queue[x] ELSE {}]
        /\ sync_state'[p] = FreshState \/ sync_state'[p] = Resumed(sync_state[p])
    BY <1>6 DEF Reconnect, ExactPair
  <2>2. queue'[p] = {}
    BY <2>1 DEF ProgressInv, Progress
  <2>3. Hears(p)' /\ WaitsRightly(p)'
    <3>1. /\ ~sync_state'[p].in_flight /\ sync_state'[p].theirs = NoneReceived
          /\ sync_state'[p].sent_hashes = {}
      BY <2>1, NewConnection
    <3> QED
      BY <3>1, NewConnection DEF Hears, WaitsRightly
  <2> QED
    BY <2>1, <2>2, <2>3 DEF Progress, Arrives
<1>7. CASE UNCHANGED vars
  <2>1. Progress(p) /\ \A x \in Peer : Heads(x)' = Heads(x)
    BY <1>7 DEF vars, ProgressInv, ExactPair, Heads, HeadsOf
  <2> QED
    BY <1>7, <2>1, GrowthKeepsProgress DEF vars
<1> QED
  BY <1>1, <1>2, <1>3, <1>4, <1>5, <1>6, <1>7 DEF Next

\* When both are silent, each has all that the other has: either it has the other's heads, or
\* it waits, and the other's last message brought what it lacked.
LEMMA QuietPeersAgree ==
    ASSUME TypeOK, DocInv, ProgressInv, ExactPair, Quiet, NEW p \in Peer
    PROVE  applied[Remote(p)] \subseteq applied[p]
<1> DEFINE q == Remote(p)
           s == sync_state[p]
           t == sync_state[q]
<1>1. q \in Peer /\ Remote(q) = p
  BY RemoteOfRemote
<1>2. /\ Progress(p) /\ Progress(q) /\ chan[p] = <<>> /\ chan[q] = <<>>
      /\ s.last_sent_heads = Heads(p) /\ t.last_sent_heads = Heads(q)
      /\ s.in_flight \/ (s.theirs.received /\ s.theirs.heads = Heads(p))
      /\ t.in_flight \/ (t.theirs.received /\ t.theirs.heads = Heads(q))
  BY <1>1 DEF ProgressInv, Quiet, NothingToSay
<1>3. /\ applied[p] \in SUBSET Made /\ applied[q] \in SUBSET Made
      /\ Closed(applied[p]) /\ Closed(applied[q]) /\ Topmost
      /\ Carried(<<>>) = {}
  BY <1>1 DEF DocInv, TypeOK, Carried
<1>4. CASE t.theirs.received /\ t.theirs.heads = Heads(q)
  <2>1. HeadsOf(applied[q]) \subseteq applied[p]
    BY <1>1, <1>2, <1>4 DEF Progress, Hears, Tells, Heads
  <2> QED
    BY <1>3, <2>1, AllBelowHeads
<1>5. CASE t.in_flight
  <2>1. s.theirs.received /\ s.theirs.heads = Heads(q)
    BY <1>1, <1>2, <1>5 DEF Progress, WaitsRightly, Announced, LatestHeads
  <2>2. CASE s.theirs.heads = Heads(p)
    <3>1. HeadsOf(applied[q]) \subseteq applied[p]
      BY <2>1, <2>2, HeadsBound DEF Heads
    <3> QED
      BY <1>3, <3>1, AllBelowHeads
  <2>3. CASE s.in_flight
    <3>1. t.theirs.received
      BY <1>2, <2>3 DEF Progress, WaitsRightly, Announced
    <3> QED
      BY <1>1, <1>2, <1>3, <1>5, <3>1 DEF Progress, WaitsRightly
  <2> QED
    BY <1>2, <2>2, <2>3
<1> QED
  BY <1>2, <1>4, <1>5

\* As long as no filter errs and no third document interferes, two peers of which neither has
\* anything to say (generate_sync_message) nor anything to receive hold the same changes.
THEOREM ExactPairsNeverStall == Spec => []ExactPairNeverStalls
<1>1. Init => DocInv /\ ProgressInv
  <2> SUFFICES ASSUME Init
               PROVE  DocInv /\ ProgressInv
    OBVIOUS
  <2>1. DocInv
    BY DEF Init, DocInv, Topmost, Made, Closed, FreshState
  <2>2. \A p \in Peer : Progress(p)
    <3> SUFFICES ASSUME NEW p \in Peer
                 PROVE  Progress(p)
      OBVIOUS
    <3>1. sync_state[p] = FreshState /\ queue[p] = {} /\ chan[p] = <<>>
      BY DEF Init
    <3>2. Hears(p) /\ WaitsRightly(p)
      BY <3>1, NewConnection DEF Hears, WaitsRightly
    <3> QED
      BY <3>1, <3>2 DEF Progress, Arrives
  <2> QED
    BY <2>1, <2>2 DEF ProgressInv
<1>2. TypeOK /\ SentArrives /\ (DocInv /\ ProgressInv) /\ [Next]_vars => (DocInv /\ ProgressInv)'
  BY DocInvStep, ProgressStep
<1>3. TypeOK /\ (DocInv /\ ProgressInv) => ExactPairNeverStalls
  <2> SUFFICES ASSUME TypeOK, DocInv, ProgressInv, exact, others = 0, Quiet,
                      NEW p \in Peer, NEW q \in Peer
               PROVE  applied[p] = applied[q]
    BY DEF ExactPairNeverStalls, QuietMeansInSync, InSync
  <2>1. \A x \in Peer : x = p \/ x = Remote(p)
    BY RemoteOfRemote, ConstantsAssumption DEF ConstantsAssumption
  <2>2. applied[Remote(p)] = applied[p]
    BY QuietPeersAgree, RemoteOfRemote DEF ExactPair
  <2> QED
    BY <2>1, <2>2
<1> QED
  BY <1>1, <1>2, <1>3, SyncTypeCorrect, SentHashesArrive, PTL DEF Spec
=============================================================================
