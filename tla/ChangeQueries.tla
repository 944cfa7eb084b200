---------------------------- MODULE ChangeQueries ----------------------------
(***************************************************************************)
(* The questions a document answers about its change graph, computed as    *)
(* the code computes them (stacks of hashes, clocks of (max_op, seq)       *)
(* pairs), and what the answers have to be.  They change no state; the     *)
(* states they are asked in are those of ChangeHistory.  Here the order of *)
(* hashes matters, since vectors of hashes are sorted: Hash is a set of    *)
(* numbers.  Operators named Bad... are mistakes, as in ChangeHistory.     *)
(***************************************************************************)
EXTENDS ChangeHistory, SequencesExt

ASSUME HashAssumption == Hash \subseteq Nat

\* A loop: its state at the start and after each turn.
Iterate(turn, start) ==
    LET state[n \in Nat] == IF n = 0 THEN start ELSE turn[state[n - 1]]
    IN  state

\* get_heads and from_old_change: hashes leave a document in ascending order, the
\* i-th one has i - 1 smaller ones.
Sorted(H) ==
    [i \in 1..Cardinality(H) |-> CHOOSE h \in H : Cardinality({g \in H : g < h}) = i - 1]

Walk == [stack : Seq(Made), found : Seq(Made)]

\* One turn of a depth-first search: take the last hash off the stack; if the search
\* has not found it yet, nor is it one of those known, note it and push its dependencies.
Turn(w, known) ==
    IF w.stack = <<>> THEN w
    ELSE IF Last(w.stack) \in Range(w.found) \cup known
         THEN [stack |-> Front(w.stack), found |-> w.found]
         ELSE [stack |-> Front(w.stack) \o Sorted(changes[Last(w.stack)].deps),
               found |-> Append(w.found, Last(w.stack))]

\* No search takes more turns than this: it pushes the dependencies of a change once.
MaxTurns == Cardinality(Made) * (Cardinality(Made) + 1)

\* The changes a search from the given hashes finds, in the order found.
DepthFirst(hashes, known) ==
    Iterate([w \in Walk |-> Turn(w, known)],
            [stack |-> Sorted(hashes), found |-> <<>>])[MaxTurns].found

\* ChangeGraph::traverse_ancestors: from those of the heads the graph knows.
TraverseAncestors(d, heads) == DepthFirst({h \in heads : InHistory(d, h)}, {})

NoClock == [max_op |-> 0, seq |-> 0]

\* The entry met last wins.
BadInclude(clock, c) ==
    [clock EXCEPT ![c.actor] = [max_op |-> LastOp(c), seq |-> c.seq]]

\* Clock::include: an entry yields only to one with a larger max_op.
Include(clock, c) ==
    IF clock[c.actor] = NoClock \/ LastOp(c) > clock[c.actor].max_op
    THEN [clock EXCEPT ![c.actor] = [max_op |-> LastOp(c), seq |-> c.seq]]
    ELSE clock

Clock == [Actor -> [max_op : Nat, seq : Nat]]
Fold == [rest : Seq(Made), clock : Clock]

IncludeNext(f) ==
    IF f.rest = <<>> THEN f
    ELSE [rest |-> Tail(f.rest), clock |-> Include(f.clock, changes[Head(f.rest)])]

\* ChangeGraph::clock_for_heads: include the changes as the search comes to them.
ClockForHeads(d, heads) ==
    LET order == TraverseAncestors(d, heads)
    IN  Iterate([f \in Fold |-> IncludeNext(f)],
                [rest |-> order, clock |-> [a \in Actor |-> NoClock]])[Len(order)].clock

\* One past the next change.
BadGetChanges(d, have_deps) ==
    LET clock == ClockForHeads(d, have_deps)
    IN  UNION {{histroy[d][states[d][a][k]] : k \in (clock[a].seq + 2)..Len(states[d][a])} :
               a \in Actor}

\* get_changes: what follows, in each actor's list of changes, the clock of have_deps.
GetChanges(d, have_deps) ==
    LET clock == ClockForHeads(d, have_deps)
    IN  UNION {{histroy[d][states[d][a][k]] : k \in (clock[a].seq + 1)..Len(states[d][a])} :
               a \in Actor}

\* Only the heads themselves.
BadFilterChanges(d, heads, hashes) == hashes \ heads

\* ChangeGraph::remove_ancestors, and filter_changes around it
FilterChanges(d, heads, hashes) == hashes \ Range(TraverseAncestors(d, heads))

\* The search goes on below what we have.
BadGetChangesAdded(d, o) == Reverse(DepthFirst(deps[o], {}))

\* get_changes_added: depth first through the other document, not below what we
\* have; the changes in the reverse of the order found.
GetChangesAdded(d, o) == Reverse(DepthFirst(deps[o], History(d)))

\* What is queued is asked for again.
BadGetMissingDeps(d, heads) ==
    (heads \cup UNION {changes[q].deps : q \in Range(queue[d])}) \ History(d)

\* get_missing_deps: dependencies of the queue and given heads that are neither
\* in the history nor in the queue itself.
GetMissingDeps(d, heads) ==
    ((heads \cup UNION {changes[q].deps : q \in Range(queue[d])}) \ History(d))
        \ Range(queue[d])
-----------------------------------------------------------------------------
(* What the answers have to be *)

\* The documents a caller can ask: those that exist and are not inside a call.
Answering == {d \in live : call[d] = Idle}

\* What a member of C depends on is in C.
Closed(C) == \A c \in C : changes[c].deps \subseteq C

\* H and everything it depends on: the least closed set of changes around H.
AncestorsOf(H) == {h \in Made : \A C \in SUBSET Made : H \subseteq C /\ Closed(C) => h \in C}

\* get_changes(have_deps) never leaves out a change the holder of have_deps lacks,
\* whatever clock the walk computes: a peer served with it can apply what it gets.
GetChangesComplete ==
    \A d \in Answering : \A H \in SUBSET History(d) :
        History(d) \ AncestorsOf(H) \subseteq GetChanges(d, H)

\* Nothing the holder of have_deps already has is returned.
NothingReturnedTwice(d, H) == GetChanges(d, H) \cap AncestorsOf(H) = {}

\* As long as no transaction commits without operations, the order of the walk does
\* not matter: get_changes returns nothing twice, whatever hashes it is asked with.
GetChangesExactIfNoneEmpty ==
    (\A h \in Made : changes[h].num_ops > 0) =>
        \A d \in Answering : \A H \in SUBSET History(d) : NothingReturnedTwice(d, H)

\* merge asks the other document for exactly what this one lacks, each change once,
\* although the search stops at the first change it knows on every path.
GetChangesAddedExact ==
    \A d, o \in Answering : /\ Range(GetChangesAdded(d, o)) = ChangesAdded(d, o)
                          /\ IsInjective(GetChangesAdded(d, o))

\* filter_changes leaves the hashes that are not below the heads a peer named,
\* whether or not the document knows all of these heads.
FilterChangesExact ==
    \A d \in Answering : \A H \in SUBSET Made :
        FilterChanges(d, H, Made) = Made \ AncestorsOf(H \cap History(d))

\* get_missing_deps asks for no change the document holds, and only for what the
\* heads or the queue depend on; and unless the document has all of the heads'
\* history it asks for something: changes that wait for each other's queue never
\* leave it with nothing to ask.
MissingDepsMakeProgress ==
    \A d \in Answering :
        \A heads \in SUBSET Made :
            LET wanted == AncestorsOf(heads \cup Range(queue[d])) \ History(d)
            IN  /\ GetMissingDeps(d, heads) \subseteq wanted \ Range(queue[d])
                /\ wanted # {} => GetMissingDeps(d, heads) # {}
=============================================================================
