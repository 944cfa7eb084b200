------------------------------ MODULE SyncProofs ------------------------------
(***************************************************************************)
(* Proofs about Sync, for any two peers, any number of changes and all     *)
(* bounds: the types, that nothing is taken for sent that has not been     *)
(* sent, and that peers who hear of changes only from each other take only *)
(* heads for shared that both have.                                        *)
(***************************************************************************)
EXTENDS Sync, TLAPS

\* Each peer is the other's remote.
LEMMA RemoteOfRemote ==
    ASSUME NEW p \in Peer
    PROVE  Remote(p) \in Peer /\ Remote(p) # p /\ Remote(Remote(p)) = p
<1>1. PICK a, b \in Peer : a # b /\ Peer = {a, b}
  BY ConstantsAssumption DEF ConstantsAssumption
<1>2. ASSUME NEW x \in Peer
      PROVE  Remote(x) \in Peer /\ Remote(x) # x
  BY <1>1, <1>2 DEF Remote
<1> QED
  BY <1>1, <1>2

\* Applying what is received keeps what the document holds and takes nothing from elsewhere.
LEMMA AbsorbBounds ==
    ASSUME NEW A, NEW S
    PROVE  A \subseteq Absorb(A, S) /\ Absorb(A, S) \subseteq A \cup S
BY DEF Absorb

\* Sequences over a set are sequences over a larger one.
LEMMA SeqMonotone ==
    ASSUME NEW S, NEW T, S \subseteq T, NEW s \in Seq(S)
    PROVE  s \in Seq(T)
<1>1. s \in [1..Len(s) -> T] /\ Len(s) \in Nat
  OBVIOUS
<1> QED
  BY <1>1

\* Heads are changes of the set they are heads of.
LEMMA HeadsBound ==
    ASSUME NEW S
    PROVE  HeadsOf(S) \subseteq S
BY DEF HeadsOf
-----------------------------------------------------------------------------
(* Types *)

\* What generate_sync_message puts into a message has the type of its place.
LEMMA MessageTypes ==
    ASSUME TypeOK, NEW p \in Peer
    PROVE  /\ Heads(p) \subseteq Made
           /\ OurNeed(p) \subseteq Hash
           /\ OurHaves(p) \subseteq Haves
           /\ ChangesToSend(p) \subseteq applied[p]
           /\ ChangesToSend(p) \subseteq Made
<1>1. /\ applied[p] \subseteq Made /\ queue[p] \subseteq Made /\ Made \subseteq Hash
      /\ sync_state[p] \in State
  BY DEF TypeOK
<1>2. Heads(p) \subseteq Made
  BY <1>1, HeadsBound DEF Heads
<1>3. OurNeed(p) \subseteq Hash
  <2>1. sync_state[p].theirs.heads \subseteq Hash
    BY <1>1 DEF State, Theirs
  <2>2. \A h \in queue[p] : parents[h] \subseteq Hash
    BY <1>1 DEF TypeOK
  <2> QED
    BY <2>1, <2>2 DEF OurNeed, GetMissingDeps
<1>4. OurHaves(p) \subseteq Haves
  <2>1. sync_state[p].shared_heads \subseteq Hash
    BY <1>1 DEF State
  <2>2. MakeBloomFilter(p, sync_state[p].shared_heads) \subseteq Have
    BY <1>1, <2>1 DEF MakeBloomFilter, GetChanges, Have
  <2>3. \A h \in Have : <<h>> \in [1..1 -> Have]
    OBVIOUS
  <2> QED
    BY <2>2, <2>3 DEF OurHaves, Haves
<1>5. ChangesToSend(p) \subseteq applied[p]
  BY DEF ChangesToSend, GetChangesToSend, WithDependents, GetChanges
<1> QED
  BY <1>1, <1>2, <1>3, <1>4, <1>5

\* A message keeps its type as changes are made.
LEMMA ChannelsStayTyped ==
    ASSUME TypeOK, Made \subseteq Made', UNCHANGED chan
    PROVE  chan' \in [Peer -> Seq(SyncMessage')]
<1>1. SyncMessage \subseteq SyncMessage'
  BY DEF SyncMessage
<1> QED
  BY <1>1, SeqMonotone DEF TypeOK

\* What the handler makes of a State is a State.
LEMMA ReceivedIsState ==
    ASSUME NEW s \in State, NEW m \in SyncMessage, NEW before, NEW now, now \subseteq Hash
    PROVE  Received(s, m, before, now) \in State
<1>1. AdvanceHeads(before, HeadsOf(now), s.shared_heads) \subseteq Hash
  BY HeadsBound DEF AdvanceHeads, State
<1>2. KnownHeads(m.heads, now) \subseteq Hash
  BY DEF KnownHeads
<1>3. m.heads \subseteq Hash /\ m.need \subseteq Hash /\ m.have \in Haves
  BY DEF SyncMessage
<1>4. /\ s.shared_heads \subseteq Hash /\ s.last_sent_heads \subseteq Hash
      /\ s.sent_hashes \subseteq Hash /\ s.in_flight \in BOOLEAN
  BY DEF State
<1>5. [received |-> TRUE, heads |-> m.heads, need |-> m.need, have |-> m.have] \in Theirs
  BY <1>3 DEF Theirs
<1>6. (s.in_flight /\ s.sent_hashes \ Ancestors(m.heads \cap now) # {} /\ ~(m.heads \subseteq now))
         \in BOOLEAN
  OBVIOUS
<1> QED
  BY <1>1, <1>2, <1>3, <1>4, <1>5, <1>6 DEF Received, State

\* Applying keeps the types, and queue and document apart.
LEMMA ApplyTypes ==
    ASSUME TypeOK, NEW p \in Peer, NEW S \in SUBSET Made, Apply(p, S), UNCHANGED parents
    PROVE  /\ applied' \in [Peer -> SUBSET Made]
           /\ queue' \in [Peer -> SUBSET Made]
           /\ \A q \in Peer : queue'[q] \cap applied'[q] = {}
<1> DEFINE now == Absorb(applied[p], queue[p] \cup S)
<1>1. now \subseteq Made
  BY AbsorbBounds DEF TypeOK
<1>2. /\ applied' = [applied EXCEPT ![p] = now]
      /\ queue' = [queue EXCEPT ![p] = (queue[p] \cup S) \ now]
  BY DEF Apply
<1> HIDE DEF now
<1> QED
  BY <1>1, <1>2 DEF TypeOK

\* The initial State is one, and so is what is left of a State in the next connection.
LEMMA NewStates ==
    /\ FreshState \in State
    /\ \A s \in State : Resumed(s) \in State
<1>1. NoneReceived \in Theirs
  BY DEF NoneReceived, Theirs, Haves
<1> QED
  BY <1>1 DEF FreshState, Resumed, State

\* A message at the end or the removal of one at the front leaves a channel a channel.
LEMMA ChannelOps ==
    ASSUME NEW S, NEW s \in Seq(S), NEW m \in S
    PROVE  Append(s, m) \in Seq(S) /\ (s # <<>> => Tail(s) \in Seq(S) /\ Head(s) \in S)
OBVIOUS

\* Every step keeps the types.
LEMMA TypeStep ==
    ASSUME TypeOK, [Next]_vars
    PROVE  TypeOK'
<1> USE ConstantsAssumption DEF ConstantsAssumption
<1>1. ASSUME NEW p \in Peer, NEW h \in Hash, Edit(p, h)
      PROVE  TypeOK'
  <2>1. Made' = Made \cup {h} /\ h \notin Made
    BY <1>1 DEF Edit, Made
  <2>2. parents' \in [Made' -> SUBSET Made']
    BY <1>1, <2>1, MessageTypes DEF Edit, TypeOK
  <2>3. chan' \in [Peer -> Seq(SyncMessage')]
    BY <1>1, <2>1, ChannelsStayTyped DEF Edit
  <2>4. /\ applied' \in [Peer -> SUBSET Made'] /\ queue' \in [Peer -> SUBSET Made']
        /\ own' \in [Peer -> SUBSET Made'] /\ \A q \in Peer : queue'[q] \cap applied'[q] = {}
    BY <1>1, <2>1 DEF Edit, TypeOK
  <2>5. /\ Made' \subseteq Hash /\ sync_state' \in [Peer -> State] /\ exact' \in BOOLEAN
        /\ others' \in 0..MaxOther /\ reconnects' \in 0..MaxReconnects
    BY <1>1, <2>1 DEF Edit, TypeOK
  <2> QED
    BY <2>2, <2>3, <2>4, <2>5 DEF TypeOK
<1>2. ASSUME NEW h \in Hash, OtherEdit(h)
      PROVE  TypeOK'
  <2>1. Made' = Made \cup {h} /\ h \notin Made
    BY <1>2 DEF OtherEdit, Made
  <2>2. parents' \in [Made' -> SUBSET Made']
    <3>1. PICK T \in SUBSET Made :
             parents' = [x \in Made \cup {h} |-> IF x = h THEN HeadsOf(Ancestors(T)) ELSE parents[x]]
      BY <1>2 DEF OtherEdit
    <3>2. HeadsOf(Ancestors(T)) \subseteq Made
      BY DEF HeadsOf, Ancestors
    <3> QED
      BY <2>1, <3>1, <3>2 DEF TypeOK
  <2>3. chan' \in [Peer -> Seq(SyncMessage')]
    BY <1>2, <2>1, ChannelsStayTyped DEF OtherEdit
  <2> QED
    BY <1>2, <2>1, <2>2, <2>3 DEF OtherEdit, TypeOK
<1>3. ASSUME NEW p \in Peer, NEW h \in Hash, ApplyOther(p, h)
      PROVE  TypeOK'
  <2>1. h \in Made /\ Apply(p, {h})
    BY <1>3 DEF ApplyOther
  <2>2. /\ applied' \in [Peer -> SUBSET Made] /\ queue' \in [Peer -> SUBSET Made]
        /\ \A q \in Peer : queue'[q] \cap applied'[q] = {}
    BY <1>3, <2>1, ApplyTypes DEF ApplyOther
  <2>3. others' \in 0..MaxOther
    BY <1>3 DEF ApplyOther, MayMeetOthers, TypeOK
  <2>4. Made' = Made
    BY <1>3 DEF ApplyOther, Made
  <2>5. chan' \in [Peer -> Seq(SyncMessage')]
    BY <1>3, <2>4, ChannelsStayTyped DEF ApplyOther
  <2> QED
    BY <1>3, <2>2, <2>3, <2>4, <2>5 DEF ApplyOther, TypeOK
<1>4. ASSUME NEW p \in Peer, SendReset(p)
      PROVE  TypeOK'
  <2> DEFINE m == [heads |-> Heads(p), need |-> {}, have |-> <<EmptyHave>>, changes |-> {}]
  <2>1. <<EmptyHave>> \in Haves
    BY DEF EmptyHave, Haves, Have
  <2>2. m \in SyncMessage
    BY <2>1, MessageTypes DEF SyncMessage, TypeOK
  <2>3. Made' = Made /\ SyncMessage' = SyncMessage
    BY <1>4 DEF SendReset, docVars, Made, SyncMessage
  <2>4. chan' = [chan EXCEPT ![Remote(p)] = Append(chan[Remote(p)], m)]
    BY <1>4 DEF SendReset, Send
  <2> HIDE DEF m
  <2>5. chan' \in [Peer -> Seq(SyncMessage')]
    BY <2>2, <2>3, <2>4, ChannelOps DEF TypeOK
  <2> QED
    BY <1>4, <2>3, <2>5 DEF SendReset, docVars, TypeOK
<1>5. ASSUME NEW p \in Peer, SendMessage(p)
      PROVE  TypeOK'
  <2>1. PICK have \in OurHaves(p) :
           Send(p, [heads |-> Heads(p), need |-> OurNeed(p), have |-> have,
                    changes |-> ChangesToSend(p)])
    BY <1>5 DEF SendMessage
  <2> DEFINE m == [heads |-> Heads(p), need |-> OurNeed(p), have |-> have,
                   changes |-> ChangesToSend(p)]
  <2>2. m \in SyncMessage
    BY MessageTypes DEF SyncMessage, TypeOK
  <2>3. Made' = Made /\ SyncMessage' = SyncMessage
    BY <1>5 DEF SendMessage, docVars, Made, SyncMessage
  <2>4. chan' = [chan EXCEPT ![Remote(p)] = Append(chan[Remote(p)], m)]
    BY <2>1 DEF Send
  <2> HIDE DEF m
  <2>5. chan' \in [Peer -> Seq(SyncMessage')]
    BY <2>2, <2>3, <2>4, ChannelOps DEF TypeOK
  <2>6. sync_state' \in [Peer -> State]
    <3>1. sync_state[p] \in State /\ Heads(p) \subseteq Hash /\ ChangesToSend(p) \subseteq Hash
      BY MessageTypes DEF TypeOK
    <3>2. [sync_state[p] EXCEPT !.last_sent_heads = Heads(p),
                                !.sent_hashes = sync_state[p].sent_hashes \cup ChangesToSend(p),
                                !.in_flight = TRUE] \in State
      BY <3>1 DEF State
    <3>3. sync_state' = [sync_state EXCEPT ![p] =
             [sync_state[p] EXCEPT !.last_sent_heads = Heads(p),
                                   !.sent_hashes = sync_state[p].sent_hashes \cup ChangesToSend(p),
                                   !.in_flight = TRUE]]
      BY <1>5 DEF SendMessage, TypeOK
    <3> QED
      BY <3>2, <3>3 DEF TypeOK
  <2> QED
    BY <1>5, <2>3, <2>5, <2>6 DEF SendMessage, docVars, TypeOK
<1>6. ASSUME NEW p \in Peer, ReceiveSyncMessage(p)
      PROVE  TypeOK'
  <2> DEFINE m == Head(chan[p])
  <2>1. m \in SyncMessage /\ Tail(chan[p]) \in Seq(SyncMessage)
    BY <1>6 DEF ReceiveSyncMessage, TypeOK
  <2>2. m.changes \subseteq Made
    BY <2>1 DEF SyncMessage
  <2>3. Made' = Made /\ SyncMessage' = SyncMessage
    BY <1>6 DEF ReceiveSyncMessage, Made, SyncMessage
  <2>4. Apply(p, m.changes)
        /\ sync_state' = [sync_state EXCEPT ![p] = Received(sync_state[p], m, Heads(p), applied'[p])]
    BY <1>6 DEF ReceiveSyncMessage
  <2>5. chan' = [chan EXCEPT ![p] = Tail(chan[p])]
    BY <1>6 DEF ReceiveSyncMessage
  <2>6. chan' \in [Peer -> Seq(SyncMessage')]
    BY <2>1, <2>3, <2>5 DEF TypeOK
  <2> HIDE DEF m
  <2>7. /\ applied' \in [Peer -> SUBSET Made] /\ queue' \in [Peer -> SUBSET Made]
        /\ \A q \in Peer : queue'[q] \cap applied'[q] = {}
    BY <1>6, <2>2, <2>4, ApplyTypes DEF ReceiveSyncMessage
  <2>8. sync_state' \in [Peer -> State]
    <3>1. applied'[p] \subseteq Hash
      BY <2>7 DEF TypeOK
    <3>2. Received(sync_state[p], m, Heads(p), applied'[p]) \in State
      BY <2>1, <3>1, ReceivedIsState DEF TypeOK
    <3> QED
      BY <2>4, <3>2 DEF TypeOK
  <2> QED
    BY <1>6, <2>3, <2>6, <2>7, <2>8 DEF ReceiveSyncMessage, TypeOK
<1>7. CASE Reconnect
  <2>1. Made' = Made /\ SyncMessage' = SyncMessage
    BY <1>7 DEF Reconnect, Made, SyncMessage
  <2>2. chan' \in [Peer -> Seq(SyncMessage')]
    BY <1>7 DEF Reconnect
  <2>3. PICK doc \in [Peer -> {"same", "loaded", "lost"}] :
          /\ applied' = [p \in Peer |-> IF doc[p] = "lost" THEN {} ELSE applied[p]]
          /\ queue'   = [p \in Peer |-> IF doc[p] = "same" THEN queue[p] ELSE {}]
          /\ own'     = [p \in Peer |-> IF doc[p] = "same" THEN own[p] ELSE {}]
          /\ \E kept \in SUBSET {p \in Peer : doc[p] # "lost"} :
                sync_state' = [p \in Peer |-> IF p \in kept THEN Resumed(sync_state[p])
                                                            ELSE FreshState]
    BY <1>7 DEF Reconnect
  <2>4. sync_state' \in [Peer -> State]
    BY <2>3, NewStates DEF TypeOK
  <2>5. /\ applied' \in [Peer -> SUBSET Made] /\ queue' \in [Peer -> SUBSET Made]
        /\ own' \in [Peer -> SUBSET Made] /\ \A q \in Peer : queue'[q] \cap applied'[q] = {}
    BY <2>3 DEF TypeOK
  <2>6. reconnects' \in 0..MaxReconnects
    BY <1>7 DEF Reconnect, TypeOK
  <2> QED
    BY <1>7, <2>1, <2>2, <2>4, <2>5, <2>6 DEF Reconnect, TypeOK
<1>8. CASE UNCHANGED vars
  BY <1>8 DEF vars, TypeOK, Made, SyncMessage
<1> QED
  BY <1>1, <1>2, <1>3, <1>4, <1>5, <1>6, <1>7, <1>8 DEF Next, GenerateSyncMessage

\* Documents, States and messages keep their types, and no change waits in the queue of a
\* document that holds it.
THEOREM SyncTypeCorrect == Spec => []TypeOK
<1>1. Init => TypeOK
  BY NewStates, ConstantsAssumption DEF Init, TypeOK, Made, ConstantsAssumption
<1>2. TypeOK /\ [Next]_vars => TypeOK'
  BY TypeStep
<1> QED
  BY <1>1, <1>2, PTL DEF Spec
-----------------------------------------------------------------------------
(* Nothing is taken for sent that has not been sent *)

\* The changes, and with them the heads, of the messages of a channel.
Carried(s) == UNION {s[i].changes : i \in DOMAIN s}
Mentioned(s) == UNION {s[i].heads \cup s[i].changes : i \in DOMAIN s}

\* A message that joins a channel adds what it carries.
LEMMA CarriedByAppend ==
    ASSUME NEW S, NEW s \in Seq(S), NEW m \in S
    PROVE  /\ Carried(Append(s, m)) = Carried(s) \cup m.changes
           /\ Mentioned(Append(s, m)) = Mentioned(s) \cup m.heads \cup m.changes
<1> DEFINE t == Append(s, m)
<1>1. /\ DOMAIN t = DOMAIN s \cup {Len(s) + 1} /\ t[Len(s) + 1] = m
      /\ \A i \in DOMAIN s : t[i] = s[i]
  OBVIOUS
<1> HIDE DEF t
<1>2. Carried(t) = Carried(s) \cup m.changes
  BY <1>1 DEF Carried
<1>3. Mentioned(t) = Mentioned(s) \cup m.heads \cup m.changes
  BY <1>1 DEF Mentioned
<1> QED
  BY <1>2, <1>3 DEF t

\* What a channel carries is in its first message or in the rest.
LEMMA CarriedByTail ==
    ASSUME NEW S, NEW s \in Seq(S), s # <<>>
    PROVE  /\ Carried(s) = Head(s).changes \cup Carried(Tail(s))
           /\ Mentioned(s) = Head(s).heads \cup Head(s).changes \cup Mentioned(Tail(s))
<1> DEFINE t == Tail(s)
<1>1. /\ 1 \in DOMAIN s /\ s[1] = Head(s)
      /\ \A i \in DOMAIN t : i + 1 \in DOMAIN s /\ t[i] = s[i + 1]
      /\ \A i \in DOMAIN s : i = 1 \/ (i - 1 \in DOMAIN t /\ t[i - 1] = s[i])
  OBVIOUS
<1> HIDE DEF t
<1>2. Carried(s) = Head(s).changes \cup Carried(t)
  BY <1>1 DEF Carried
<1>3. Mentioned(s) = Head(s).heads \cup Head(s).changes \cup Mentioned(t)
  BY <1>1 DEF Mentioned
<1> QED
  BY <1>2, <1>3 DEF t

\* A change that is applied or queued by apply_changes is lost to neither.
LEMMA ApplyKeeps ==
    ASSUME TypeOK, NEW p \in Peer, NEW S, Apply(p, S)
    PROVE  /\ applied'[p] \cup queue'[p] = applied[p] \cup queue[p] \cup S
           /\ applied[p] \subseteq applied'[p]
           /\ applied'[p] = Absorb(applied[p], queue[p] \cup S)
           /\ \A q \in Peer \ {p} : applied'[q] = applied[q] /\ queue'[q] = queue[q]
<1> DEFINE now == Absorb(applied[p], queue[p] \cup S)
<1>1. applied[p] \subseteq now /\ now \subseteq applied[p] \cup queue[p] \cup S
  BY AbsorbBounds
<1>2. /\ applied' = [applied EXCEPT ![p] = now]
      /\ queue' = [queue EXCEPT ![p] = (queue[p] \cup S) \ now]
  BY DEF Apply
<1> HIDE DEF now
<1>3. /\ applied'[p] = now /\ queue'[p] = (queue[p] \cup S) \ now
      /\ \A q \in Peer \ {p} : applied'[q] = applied[q] /\ queue'[q] = queue[q]
  BY <1>2 DEF TypeOK
<1> QED
  BY <1>1, <1>3 DEF now

\* What p takes for sent is with its peer or on its way there.
Arriving(p) == applied[Remote(p)] \cup queue[Remote(p)] \cup Carried(chan[Remote(p)])

\* Every step keeps it so.
LEMMA SentStep ==
    ASSUME TypeOK, SentArrives, [Next]_vars
    PROVE  SentArrives'
<1>0. \A p \in Peer : sync_state[p].sent_hashes \subseteq Arriving(p)
  BY DEF SentArrives, Arriving, Carried
<1> SUFFICES ASSUME NEW p \in Peer
             PROVE  sync_state'[p].sent_hashes \subseteq Arriving(p)'
  BY DEF SentArrives, Arriving, Carried
<1> DEFINE q == Remote(p)
<1>q. q \in Peer /\ q # p /\ Remote(q) = p /\ \A x \in Peer : x = p \/ x = q
  BY RemoteOfRemote, ConstantsAssumption DEF ConstantsAssumption
<1>1. ASSUME NEW x \in Peer, NEW h \in Hash, Edit(x, h)
      PROVE  sync_state'[p].sent_hashes \subseteq Arriving(p)'
  <2>1. applied[q] \subseteq applied'[q]
    BY <1>1, <1>q DEF Edit, TypeOK
  <2> QED
    BY <1>0, <1>1, <2>1 DEF Edit, Arriving
<1>2. ASSUME NEW h \in Hash, OtherEdit(h)
      PROVE  sync_state'[p].sent_hashes \subseteq Arriving(p)'
  BY <1>0, <1>2 DEF OtherEdit, Arriving
<1>3. ASSUME NEW x \in Peer, NEW h \in Hash, ApplyOther(x, h)
      PROVE  sync_state'[p].sent_hashes \subseteq Arriving(p)'
  <2>1. applied[q] \cup queue[q] \subseteq applied'[q] \cup queue'[q]
    BY <1>3, <1>q, ApplyKeeps DEF ApplyOther
  <2> QED
    BY <1>0, <1>3, <2>1 DEF ApplyOther, Arriving
<1>4. ASSUME NEW x \in Peer, SendReset(x)
      PROVE  sync_state'[p].sent_hashes \subseteq Arriving(p)'
  <2> DEFINE m == [heads |-> Heads(x), need |-> {}, have |-> <<EmptyHave>>, changes |-> {}]
  <2>1. chan' = [chan EXCEPT ![Remote(x)] = Append(chan[Remote(x)], m)]
    BY <1>4 DEF SendReset, Send
  <2>2. Carried(chan[q]) \subseteq Carried(chan'[q])
    <3>1. m \in {m} \cup SyncMessage /\ chan[q] \in Seq({m} \cup SyncMessage)
      BY <1>q, SeqMonotone DEF TypeOK
    <3> HIDE DEF m
    <3>2. chan'[q] = chan[q] \/ chan'[q] = Append(chan[q], m)
      BY <2>1, <1>q
    <3>3. Carried(Append(chan[q], m)) = Carried(chan[q]) \cup m.changes
      BY <3>1, CarriedByAppend
    <3> QED
      BY <3>2, <3>3
  <2> QED
    BY <1>0, <1>4, <2>2 DEF SendReset, docVars, Arriving
<1>5. ASSUME NEW x \in Peer, SendMessage(x)
      PROVE  sync_state'[p].sent_hashes \subseteq Arriving(p)'
  <2>1. PICK have \in OurHaves(x) :
           Send(x, [heads |-> Heads(x), need |-> OurNeed(x), have |-> have,
                    changes |-> ChangesToSend(x)])
    BY <1>5 DEF SendMessage
  <2> DEFINE m == [heads |-> Heads(x), need |-> OurNeed(x), have |-> have,
                   changes |-> ChangesToSend(x)]
  <2>2. chan' = [chan EXCEPT ![Remote(x)] = Append(chan[Remote(x)], m)]
    BY <2>1 DEF Send
  <2>3. m \in {m} \cup SyncMessage /\ chan[q] \in Seq({m} \cup SyncMessage) /\ q \in DOMAIN chan
    BY <1>q, SeqMonotone, <2>2 DEF TypeOK
  <2>4. applied' = applied /\ queue' = queue
    BY <1>5 DEF SendMessage, docVars
  <2>5. m.changes = ChangesToSend(x)
    OBVIOUS
  <2> HIDE DEF m
  <2>6. CASE x = p
    <3>1. chan'[q] = Append(chan[q], m)
      BY <2>2, <2>3, <2>6
    <3>2. Carried(chan'[q]) = Carried(chan[q]) \cup ChangesToSend(p)
      BY <3>1, <2>3, <2>5, <2>6, CarriedByAppend
    <3>3. sync_state'[p].sent_hashes = sync_state[p].sent_hashes \cup ChangesToSend(p)
      BY <1>5, <2>6 DEF SendMessage, TypeOK, State
    <3> QED
      BY <1>0, <2>4, <3>2, <3>3 DEF Arriving
  <2>7. CASE x # p
    <3>1. chan'[q] = chan[q] /\ sync_state'[p] = sync_state[p]
      BY <1>5, <1>q, <2>2, <2>7 DEF SendMessage, TypeOK
    <3> QED
      BY <1>0, <2>4, <3>1 DEF Arriving
  <2> QED
    BY <2>6, <2>7
<1>6. ASSUME NEW x \in Peer, ReceiveSyncMessage(x)
      PROVE  sync_state'[p].sent_hashes \subseteq Arriving(p)'
  <2> DEFINE m == Head(chan[x])
  <2>1. /\ chan[x] # <<>> /\ Apply(x, m.changes) /\ chan' = [chan EXCEPT ![x] = Tail(chan[x])]
        /\ sync_state' = [sync_state EXCEPT ![x] = Received(sync_state[x], m, Heads(x), applied'[x])]
    BY <1>6 DEF ReceiveSyncMessage
  <2>2. Carried(chan[x]) = m.changes \cup Carried(Tail(chan[x]))
    BY <2>1, CarriedByTail DEF TypeOK
  <2> HIDE DEF m
  <2>3. CASE x = p
    <3>1. sync_state'[p].sent_hashes \subseteq sync_state[p].sent_hashes
      BY <2>1, <2>3 DEF Received, TypeOK
    <3>2. chan'[q] = chan[q] /\ applied'[q] = applied[q] /\ queue'[q] = queue[q]
      BY <1>q, <2>1, <2>3, ApplyKeeps DEF TypeOK
    <3> QED
      BY <1>0, <3>1, <3>2 DEF Arriving
  <2>4. CASE x = q
    <3>1. sync_state'[p] = sync_state[p]
      BY <1>q, <2>1, <2>4 DEF TypeOK
    <3>2. /\ chan'[q] = Tail(chan[q])
          /\ applied'[q] \cup queue'[q] = applied[q] \cup queue[q] \cup m.changes
      <4>1. applied'[x] \cup queue'[x] = applied[x] \cup queue[x] \cup m.changes
        BY <2>1, ApplyKeeps
      <4>2. chan'[x] = Tail(chan[x])
        BY <2>1 DEF TypeOK
      <4> QED
        BY <2>4, <4>1, <4>2
    <3> QED
      BY <1>0, <2>2, <2>4, <3>1, <3>2 DEF Arriving
  <2> QED
    BY <1>q, <2>3, <2>4
<1>7. CASE Reconnect
  <2>1. sync_state'[p] = FreshState \/ sync_state'[p] = Resumed(sync_state[p])
    BY <1>7 DEF Reconnect
  <2> QED
    BY <2>1 DEF FreshState, Resumed
<1>8. CASE UNCHANGED vars
  BY <1>0, <1>8 DEF vars, Arriving
<1> QED
  BY <1>1, <1>2, <1>3, <1>4, <1>5, <1>6, <1>7, <1>8 DEF Next, GenerateSyncMessage

\* The hashes a peer will not send again in this connection (sent_hashes) are those of
\* changes that have arrived or are on their way.
THEOREM SentHashesArrive == Spec => []SentArrives
<1>1. Init => SentArrives
  BY RemoteOfRemote DEF Init, SentArrives, FreshState
<1>2. TypeOK /\ SentArrives /\ [Next]_vars => SentArrives'
  BY SentStep
<1> QED
  BY <1>1, <1>2, SyncTypeCorrect, PTL DEF Spec
-----------------------------------------------------------------------------
(* Shared heads are shared *)

\* What p knows of came from its peer and the peer still has it: what waits in p's queue,
\* what is on its way to p and what p takes for shared.
FromPeer(p) ==
    /\ queue[p] \subseteq applied[Remote(p)]
    /\ Mentioned(chan[p]) \subseteq applied[Remote(p)]
    /\ sync_state[p].shared_heads \subseteq applied[p] \cap applied[Remote(p)]

\* The inductive invariant: so it is for both as long as no third document interferes and
\* no document is lost.
OnlyPair == others = 0 /\ reconnects = 0
PairInv == OnlyPair => \A p \in Peer : FromPeer(p)

\* Receiving, p takes only hashes for shared that it holds and its peer R holds.
LEMMA ReceivedShared ==
    ASSUME NEW s, NEW m, NEW A, NEW Q, NEW R,
           s.shared_heads \subseteq A \cap R, Q \subseteq R,
           m.heads \subseteq R, m.changes \subseteq R
    PROVE  Received(s, m, HeadsOf(A), Absorb(A, Q \cup m.changes)).shared_heads
               \subseteq Absorb(A, Q \cup m.changes) \cap R
<1> DEFINE now == Absorb(A, Q \cup m.changes)
           shared == IF m.changes = {} THEN s.shared_heads
                     ELSE AdvanceHeads(HeadsOf(A), HeadsOf(now), s.shared_heads)
<1>1. A \subseteq now /\ now \subseteq A \cup Q \cup m.changes
  BY AbsorbBounds
<1>2. Received(s, m, HeadsOf(A), now).shared_heads =
         IF m.heads \subseteq now THEN m.heads ELSE shared \cup KnownHeads(m.heads, now)
  BY DEF Received
<1> HIDE DEF now
<1>3. HeadsOf(now) \ HeadsOf(A) \subseteq now \ A
  \* A change of A that is no head of A is a parent of a change of A.
  BY <1>1 DEF HeadsOf
<1>4. shared \subseteq now \cap R
  BY <1>1, <1>3 DEF AdvanceHeads
<1> HIDE DEF shared
<1>5. Received(s, m, HeadsOf(A), now).shared_heads \subseteq now \cap R
  BY <1>2, <1>4 DEF KnownHeads
<1> QED
  BY <1>5 DEF now

\* Every step keeps the invariant.
LEMMA PairStep ==
    ASSUME TypeOK, PairInv, [Next]_vars
    PROVE  PairInv'
<1> SUFFICES ASSUME OnlyPair', NEW p \in Peer
             PROVE  FromPeer(p)'
  BY DEF PairInv
<1> DEFINE q == Remote(p)
<1>q. q \in Peer /\ q # p /\ Remote(q) = p /\ \A x \in Peer : x = p \/ x = q
  BY RemoteOfRemote, ConstantsAssumption DEF ConstantsAssumption
<1>t. others \in Nat /\ reconnects \in Nat
  BY ConstantsAssumption DEF TypeOK
<1>1. ASSUME NEW x \in Peer, NEW h \in Hash, Edit(x, h)
      PROVE  FromPeer(p)'
  <2>1. applied[p] \subseteq applied'[p] /\ applied[q] \subseteq applied'[q]
    BY <1>1, <1>q DEF Edit, TypeOK
  <2>2. FromPeer(p)
    BY <1>1 DEF Edit, PairInv, OnlyPair
  <2> QED
    BY <1>1, <2>1, <2>2 DEF Edit, FromPeer
<1>2. ASSUME NEW h \in Hash, OtherEdit(h)
      PROVE  FromPeer(p)'
  BY <1>2 DEF OtherEdit, PairInv, OnlyPair, FromPeer
<1>3. ASSUME NEW x \in Peer, NEW h \in Hash, ApplyOther(x, h)
      PROVE  FALSE
  BY <1>3, <1>t DEF ApplyOther, OnlyPair
<1>4. ASSUME NEW x \in Peer, NEW m, m.heads \subseteq applied[x], m.changes \subseteq applied[x],
             Send(x, m), UNCHANGED <<docVars, reconnects>>,
             sync_state'[p].shared_heads = sync_state[p].shared_heads
      PROVE  FromPeer(p)'
  <2>1. FromPeer(p)
    BY <1>4 DEF PairInv, OnlyPair, docVars
  <2>2. chan' = [chan EXCEPT ![Remote(x)] = Append(chan[Remote(x)], m)]
    BY <1>4 DEF Send
  <2>3. Mentioned(chan'[p]) \subseteq applied[q]
    <3>1. CASE x = p
      BY <1>q, <2>1, <2>2, <3>1 DEF FromPeer
    <3>2. CASE x = q
      <4>1. m \in {m} \cup SyncMessage /\ chan[p] \in Seq({m} \cup SyncMessage)
        BY SeqMonotone DEF TypeOK
      <4>2. Mentioned(Append(chan[p], m)) = Mentioned(chan[p]) \cup m.heads \cup m.changes
        BY <4>1, CarriedByAppend
      <4>3. chan'[p] = Append(chan[p], m)
        BY <1>q, <2>2, <3>2 DEF TypeOK
      <4> QED
        BY <1>4, <2>1, <3>2, <4>2, <4>3 DEF FromPeer
    <3> QED
      BY <1>q, <3>1, <3>2
  <2> QED
    BY <1>4, <2>1, <2>3 DEF FromPeer, docVars
<1>5. ASSUME NEW x \in Peer, SendReset(x)
      PROVE  FromPeer(p)'
  <2> DEFINE m == [heads |-> Heads(x), need |-> {}, have |-> <<EmptyHave>>, changes |-> {}]
  <2>1. Send(x, m) /\ UNCHANGED <<docVars, sync_state, reconnects>>
    BY <1>5 DEF SendReset
  <2>2. m.heads \subseteq applied[x] /\ m.changes \subseteq applied[x]
    BY HeadsBound DEF Heads
  <2> HIDE DEF m
  <2> QED
    BY <1>4, <2>1, <2>2
<1>6. ASSUME NEW x \in Peer, SendMessage(x)
      PROVE  FromPeer(p)'
  <2>1. PICK have \in OurHaves(x) :
           Send(x, [heads |-> Heads(x), need |-> OurNeed(x), have |-> have,
                    changes |-> ChangesToSend(x)])
    BY <1>6 DEF SendMessage
  <2> DEFINE m == [heads |-> Heads(x), need |-> OurNeed(x), have |-> have,
                   changes |-> ChangesToSend(x)]
  <2>2. m.heads \subseteq applied[x] /\ m.changes \subseteq applied[x]
    BY HeadsBound, MessageTypes DEF Heads
  <2>3. UNCHANGED <<docVars, reconnects>>
        /\ sync_state'[p].shared_heads = sync_state[p].shared_heads
    BY <1>6 DEF SendMessage, TypeOK, State
  <2>4. Send(x, m)
    BY <2>1
  <2> HIDE DEF m
  <2> QED
    BY <1>4, <2>2, <2>3, <2>4
<1>7. ASSUME NEW x \in Peer, ReceiveSyncMessage(x)
      PROVE  FromPeer(p)'
  <2> DEFINE m == Head(chan[x])
  <2>1. /\ chan[x] # <<>> /\ Apply(x, m.changes) /\ chan' = [chan EXCEPT ![x] = Tail(chan[x])]
        /\ sync_state' = [sync_state EXCEPT ![x] = Received(sync_state[x], m, Heads(x), applied'[x])]
    BY <1>7 DEF ReceiveSyncMessage
  <2>2. Mentioned(chan[x]) = m.heads \cup m.changes \cup Mentioned(Tail(chan[x]))
    BY <2>1, CarriedByTail DEF TypeOK
  <2> HIDE DEF m
  <2>3. /\ applied'[x] \cup queue'[x] = applied[x] \cup queue[x] \cup m.changes
        /\ applied[x] \subseteq applied'[x]
        /\ applied'[x] = Absorb(applied[x], queue[x] \cup m.changes)
        /\ \A y \in Peer \ {x} : applied'[y] = applied[y] /\ queue'[y] = queue[y]
    BY <2>1, ApplyKeeps
  <2>4. FromPeer(x) /\ FromPeer(p)
    BY <1>7 DEF ReceiveSyncMessage, PairInv, OnlyPair
  <2>5. CASE x = p
    <3>1. applied'[q] = applied[q]
      BY <1>q, <2>3, <2>5
    <3>2. m.heads \subseteq applied[q] /\ m.changes \subseteq applied[q]
          /\ Mentioned(Tail(chan[p])) \subseteq applied[q]
      BY <2>2, <2>4, <2>5 DEF FromPeer
    <3>3. chan'[p] = Tail(chan[p])
      BY <2>1, <2>5 DEF TypeOK
    <3>4. sync_state'[p].shared_heads \subseteq applied'[p] \cap applied[q]
      <4>1. sync_state'[p] = Received(sync_state[p], m, HeadsOf(applied[p]),
                                      Absorb(applied[p], queue[p] \cup m.changes))
        BY <2>1, <2>3, <2>5 DEF TypeOK, Heads
      <4>2. /\ sync_state[p].shared_heads \subseteq applied[p] \cap applied[q]
            /\ queue[p] \subseteq applied[q]
        BY <2>4 DEF FromPeer
      <4>3. sync_state'[p].shared_heads
               \subseteq Absorb(applied[p], queue[p] \cup m.changes) \cap applied[q]
        BY <3>2, <4>1, <4>2, ReceivedShared
      <4> QED
        BY <2>3, <2>5, <4>3
    <3>5. queue'[p] \subseteq applied[q] \cup applied[p]
      BY <2>3, <2>4, <2>5, <3>2 DEF FromPeer
    <3>6. queue'[p] \subseteq applied[q]
      <4>1. queue'[p] \cap applied'[p] = {}
        BY <2>1, <2>5 DEF Apply, TypeOK
      <4> QED
        BY <2>3, <2>5, <3>5, <4>1
    <3> QED
      BY <3>1, <3>2, <3>3, <3>4, <3>6 DEF FromPeer
  <2>6. CASE x = q
    <3>1. /\ sync_state'[p] = sync_state[p] /\ chan'[p] = chan[p]
          /\ applied'[p] = applied[p] /\ queue'[p] = queue[p]
      BY <1>q, <2>1, <2>3, <2>6 DEF TypeOK
    <3>2. applied[q] \subseteq applied'[q]
      BY <2>3, <2>6
    <3> QED
      BY <2>4, <3>1, <3>2 DEF FromPeer
  <2> QED
    BY <1>q, <2>5, <2>6
<1>8. CASE Reconnect
  BY <1>8, <1>t DEF Reconnect, OnlyPair
<1>9. CASE UNCHANGED vars
  BY <1>9 DEF vars, PairInv, OnlyPair, FromPeer
<1> QED
  BY <1>1, <1>2, <1>3, <1>5, <1>6, <1>7, <1>8, <1>9 DEF Next, GenerateSyncMessage

\* Peers who get changes only from each other, in their first connection, take only hashes for
\* shared (shared_heads) that both documents hold.
THEOREM SharedHeadsAreShared == Spec => []SharedHeadsKnownToPair
<1>1. Init => PairInv
  BY RemoteOfRemote DEF Init, PairInv, FromPeer, FreshState, Mentioned
<1>2. TypeOK /\ PairInv /\ [Next]_vars => PairInv'
  BY PairStep
<1>3. PairInv => SharedHeadsKnownToPair
  BY DEF PairInv, OnlyPair, FromPeer, SharedHeadsKnownToPair, SharedHeadsKnown
<1> QED
  BY <1>1, <1>2, <1>3, SyncTypeCorrect, PTL DEF Spec
=============================================================================
