# A TLA+ development of vgg_automerge

vgg_automerge is a C++ implementation of Automerge: documents that are edited independently, on several machines, and
merged without conflicts. This directory holds specifications of its parts, the instances TLC checks, and proofs that
TLAPS checks. Paths below are relative to `src/`; line numbers of `Automerge.cpp` and `Automerge.h` mean
`src/automerge/Automerge.cpp` and `.h`. `PROJECT.json` lists, for every definition, the lines it models.

## 1. The system

A program holds objects of type `Automerge`, each a **document** with its own actor id. Every edit is an operation in a
**transaction**; `commit` turns the transaction into a **change**, a set of operations with a hash, the actor's sequence
number and the hashes of the changes it depends on. Changes travel between documents as values (`apply_changes`), by
`merge`, as a saved file (`save`, `load`), or through the sync protocol. Nothing in the code is multi-threaded: the
concurrency is that of documents that edit and exchange changes in any order, and of messages that cross.

| component | state | operations | what makes it hard | what makes it correct |
|---|---|---|---|---|
| change history (`Automerge.cpp` 34-69, 215-297, 354-372, 532-567) | `histroy` (sic), `histroy_index`, `queue`, `deps` (the heads), `states`, `max_op` | `apply_changes_with`, `merge`, `fork`, `load`, commit | changes arrive in any order and several times; a queue that is searched while it shrinks; an exception in mid-batch | the history is a topological order, heads and counters are what the history says, nothing is lost or left waiting, sequence numbers have no gaps |
| transactions (`transaction/`, `Automerge.h` 284-402) | `_transaction`: document pointer, seq, start_op, deps, operations | `put`, `insert`, ..., `commit`; explicit `Transaction` objects | the automatic transaction stays open until `commit()` while the document goes on receiving; `fork` copies it; no rollback | operation ids are unique; the commit sees what the transaction saw |
| change graph queries (`ChangeGraph.cpp`, `Clock.h`, `Automerge.cpp` 381-522) | none of their own | `get_changes`, `get_changes_added`, `get_missing_deps`, `filter_changes` | depth-first walks in hash order; clocks that compare `max_op` | they answer what the definition by ancestors answers |
| sync protocol (`Automerge.cpp` 639-878, `Sync.cpp`, `sync/`) | a `State` per peer: shared heads, last sent heads, what the peer said, sent hashes, in_flight | `generate_sync_message`, `receive_sync_message`, `State::encode/decode` | messages cross; Bloom filters err; connections break; peers restart | both documents end up the same, and both peers silent |
| operation set (`OpSet.cpp`, `Op.cpp`, `query/`) | per object, a sequence of operations with predecessors and successors | insert an operation, seek its place, look up a key, the n-th element | operations arrive in any causal order; counters; deleted and conflicting values | every document that has the same changes shows the same values |
| operation tree (`OpTree.cpp`) | B-tree of operations with an index of visible elements per node | `insert`, `remove`, `update`, `search` | splits, and indexes that must follow every update | it is a sequence, and its indexes are exact |
| JSON mirror (`Automerge.cpp` 886-1468) | `json_doc` beside the operation set | `json_add`, `json_replace`, `json_delete`, `from_json`, `to_json` | two copies of one value | `json_doc` equals the document |
| encodings (`Change.cpp`, `Columnar.cpp`, `Encoder`, `Decoder`) | none | change and document formats, run-length, delta, boolean columns, LEB128 | widths, nulls, single values, grouping of operations into changes | decoding inverts encoding |
| caches (`IndexedCache.h`, `StringCache.cpp`) | actor ids and strings by index | `cache`, `lookup`, `encode_index` | indices differ between documents | order is by actor id, never by index |
| demo, benchmark, tests, docs | | | | evidence of intent only |

Interaction: a transaction writes to the operation set as it goes and to the change history when it commits;
`apply_change` writes to both; the queries read the change history; the sync protocol is built on the queries and on
`apply_changes`; `save` encodes the change history and the operation set, and `load` applies what it decodes.

`PROJECT.json` lists the hazards of this code, each at the line where it bites, with the properties that cover it.

## 2. Plan

In the order of importance; all steps are done but for what is named here as open.

1. **ChangeHistory** with the abstract specification **CausalStore** it implements, and its proofs.
2. **ChangeQueries**, on the states of ChangeHistory.
3. **Sync**, on sets of changes: what steps 1 and 2 show of a document is all the protocol relies on; with its proofs.
4. **OpTree**: the B-tree with a small B and its indexes, implementing the abstract **OpSequence**.
5. **OpSet**, on the tree of step 4: the queries, the operations of a map's keys and of a list's elements, local calls in
   a transaction, received operations in any causal order. Abstract view: what a document holds is a function of the set
   of operations it knows. On top of it **Document**: saving, and making the changes again.
6. **Encoding**: numbers, columns, changes, documents and files as bytes, against "decoding inverts encoding".
7. **JsonDoc**: the mirror beside the document, with the operations that refresh it and those that do not.

Open beyond that: `import_path` of the JSON functions, tables, texts and binary values there; transactions that are
rolled back by an exception.

Theorems, in the order of importance: the histories of step 1; the protocol of step 3; the queries of step 2, which step
3 relies on; the columns of step 6, on which every saved document rests, and the changes made of them. All are proved
(section 6). The next worth proving would be the documents of step 6, whose tables are made of the same columns, and the
tree of step 4, which has to be written without `RECURSIVE` operators first; steps 5 and 7 stay model-checked.

## 3. Modules

| module | what it is |
|---|---|
| `CausalStore` | abstract specification: documents are growing, causally closed sets of changes |
| `ChangeHistory` | the change history of several documents, with transactions |
| `ChangeQueries` | the change graph walks, as operators, and what they have to answer |
| `Sync` | two peers that sync |
| `ChangeHistoryProofs` | types, topological order, heads, `max_op`, implementation of `CausalStore` |
| `ChangeNumberingProofs` | sequence numbers, operation ids, no rejection; nothing received is lost, what waits in a queue cannot be applied |
| `ChangeQueriesProofs` | searches of the change graph end and find what they should: `filter_changes`, `get_changes_added`, `get_missing_deps`, the clock of a set of heads, and `get_changes` |
| `SyncProofs` | types of `Sync`, sent hashes arrive, shared heads are shared |
| `SyncProgressProofs` | documents stay closed, and two peers do not fall silent while they differ |
| `Op` | operations: order of their ids, keys, what overwrites what, visibility, counters |
| `OpNode` | nodes of the operation tree: insertion, splits, updates, indexes, iteration |
| `OpSequence`, `OpTree` | abstract specification: a sequence; the tree under the calls made of it |
| `OpQueries` | the queries, and the search that runs them |
| `OpSet` | one object in the documents of several actors |
| `Document` | what is saved of it and what is loaded |
| `Leb128`, `Columns` | numbers and columns as bytes |
| `ChangeOps`, `ChangeChunk`, `DocumentChunk` | operations as columns, changes and documents as chunks, files of chunks |
| `Encoding` | columns and changes of any content, and that they are read as they were written |
| `EncodingProofs` | numbers and columns are read as they were written |
| `ChangeOpsProofs` | the operations of a change are read from its columns as they were written |
| `ChangeChunkProofs` | a change is read from its bytes as it was written, and made again with the same hash; of a file that is cut the complete changes are loaded |
| `JsonDoc` | a document as JSON, and its copy |
| `MC...` | values of the constants, symmetry and constraints for TLC |

`ChangeQueries` extends `ChangeHistory`; `OpTree` and `OpQueries` extend `OpNode`, which extends `Op`; `OpSet` extends
`OpQueries`, and `Document` extends `OpSet`; `Encoding` stands on the chain from `Leb128` to `DocumentChunk`.

### ChangeHistory and the code

The variables `histroy`, `queue`, `deps`, `states` and `max_op` are the members of those names, per document.
`histroy_index` is the set of the elements of `histroy`. `changes` holds what was ever committed, the header of a change
by its hash; `live` the documents that exist; `tx` the `_transaction` member with the document it points to; `call`
where the loop of `apply_changes_with` is.

| action | code |
|---|---|
| `Edit` | `ensure_transaction_open` and a `put`, `insert`, `increment` or `delete_` that records an operation or, when it would change nothing, none |
| `Commit` | `commit`, `TransactionInner::commit`, `export_change`, `update_history` |
| `ApplyChanges`, `Merge`, `Load` | a call of `apply_changes_with`, with any changes, with what the other document has more, with a saved history on a new document |
| `SkipKnown`, `RejectDuplicateSeq`, `ApplyReady`, `Enqueue` | one iteration of its first loop, by outcome |
| `StartDrain`, `DrainApply`, `DrainSkip`, `DrainDone` | its second loop, over `pop_next_causally_ready_change` |
| `Fork` | `fork`, which copies every member, the open transaction with its pointer included |

Abstractions. A hash is a value nobody used before: SHA-256 collisions are left out, and so is that two documents with
one actor id that make exactly the same change get the same hash. Operations are counted, not represented. A document
has at most the automatic transaction open. A loop's iterations are steps so that an exception in mid-batch leaves what
the code leaves, and so that the drain loop's termination is a question; no other operation of the document may come in
between, as the code has one thread. `Merge` may hand over the changes in any order, of which the code's is one. `load`
gives the new document an actor id of its own.

### ChangeQueries and the code

Here hashes are numbers, since `get_heads` and `from_old_change` sort them and the walks depend on that order. Heads are
given to a query as a set: vectors of them were sorted when they left a document. A loop of the code is a function of
the state it keeps (`Turn`: the stack and what was found; `IncludeNext`: what is left and the clock), and `Iterate` is
its state after any number of turns. A search is looked at after `MaxTurns` turns; that its stack is empty by then, so
that the code's loop has ended with the same result, is proved (`TurnsSuffice`). `ClockForHeads` is compared with the set of
ancestors, `GetChanges` with its complement, and so on.

### Sync and the code

A peer has a document, as the set `applied` and the set `queue`, and a State, as a record with the members of `State`.
The order of `histroy` and of the queue is dropped: steps 1 and 2 show that heads are the maximal elements of the set,
that `get_changes` gives what is not an ancestor (as long as no change is empty, see section 5), that
`apply_changes` takes in everything that can be, and that nothing is rejected where every document has its own actor.
`their_heads`, `their_need` and `their_have` are one record, since they are always set together; the empty `their_have`
of `State::decode` has the same effect as none. Vectors of hashes are sorted wherever they are compared, hence sets.

A Bloom filter is the set of hashes it answers "yes" for: those it was built from and up to `MaxFalsePositives` others,
hashes of changes not made yet included; the filter of no hashes contains none. The real filter is a function of the
hashes; choosing anew each time gives more behaviours.

| action | code |
|---|---|
| `SendReset`, `SendMessage` | the two places where `generate_sync_message` returns a message; where it returns none, it changes nothing |
| `ReceiveSyncMessage` | `receive_sync_message_with` on the next message |
| `Edit`, `OtherEdit`, `ApplyOther` | a transaction of a peer; a change made elsewhere; its arrival by `apply_changes`, possibly before what it depends on |
| `Reconnect` | the connection breaks, its messages are lost; each peer resumes with its encoded State or a new one, its document as it is, loaded from a save or empty |

A connection delivers in order and loses nothing until it breaks; the protocol has no means to notice a lost message.
A peer that lost its document has lost its State too: a State that outlives its document asks for ever for what nobody
has, if the other peer lost it as well.

### The operation tree and the code

A node is a record with the members of `OpTreeNode`: `elements`, `children`, `length` and `index`. An `Index` is the
record of the number of visible elements and how often each has a visible operation. `TreeInsert`, `TreeUpdate` and `Get` are the
methods of `OpTreeInternal`, `SplitChild`, `InsertIntoNonFullNode` and `Reindex` those of `OpTreeNode`; `Iterate` runs
`OpTreeIter::next` with its stack of ancestors. An operation has the id, key, action, predecessors, successors and, for
a counter, the increments applied. `OpTree` has one action per call that changes the tree, `Insert` and `Mark` (`update`
with `add_succ`, which hides a value, or adds to a counter). `OpSequence` is what they promise.

### The operation set and the code

`OpSet` keeps per actor the tree `root` of one object; `log` and `clock` are the change history as steps 1 and 2 show
it; `tx` is `_transaction`. The queries are records with the members of the C++ classes, their `query_node` and
`query_element` are operators from a query to a query with an answer, and `SearchNode` is `OpTreeNode::search`.

| action | code |
|---|---|
| `Edit` | `put`, `insert`, `increment`, `delete_` of `TransactionInner` through `local_map_op`, `local_list_op`, `do_insert`, `insert_local_op`; the first one opens the transaction |
| `Commit` | `commit` |
| `Receive` | `apply_change`: `insert_op` for each operation of the next change of another actor |

The reference is `Reference`: all operations known, in the order of keys and ids for a map, in the order of the
insertion tree for a list, each with the marks of those that name it as predecessor. It does not mention trees,
searches or the order of arrival. `ChangeRows` and `OpRows` are what `ChangeEncoder` and `DocOpEncoder` write,
`Rebuild` is `group_doc_change_and_doc_ops` with the checks after it; that the bytes between them are read as they were
written is `DocumentRoundTrip`. A hash is compared by what is hashed.

Abstractions. One object: objects do not share operations. A value is a number. The sort of the results of `get_all` is
left out, values of a key being in order already. Every document writes under its own actor id. The history variable
`disturbed` collects the keys of which an operation came after they had been hidden: the finding `SeekSkips` is about
those, and `OpsExact` and `SavedDocumentLoads` about all others.

### The encodings and the code

Bytes are numbers, and positions count from 0 as in the code. `Leb128` has the numbers: groups of `GroupBits` bits in
place of 7, at most `MaxSize` of them in place of 10, of the last of which one bit is left, as of 64 bits. With few bits
per group small numbers take several bytes. The loops of the code are recursive functions of the number of turns
(`DecodeRle`, `NextRun`), and what a writing loop ends with is the least size that will do (`UnsignedSizes`). `SortedSeq` is
`std::sort`; an order is a set of pairs. `Columns` has the run-length encoder as a state machine over `RleState`, the delta and the
boolean encoder, and their decoders. `ChangeOps` has the columns of a change's operations; `ChangeChunk` has the whole
chunk: header, checksum, body, the ranges `encode_chunk` and `from_old_change` compute, compression, `decode_change`,
`load_blocks`; `DocumentChunk` has `encode_document`, the tables of changes and of operations, deflated columns, and `decode_document`.
The variables of `Encoding` are a column, extended by a cell at a time, and a change, extended by an operation at a time.
What its constants may be is said by types: `OperationType` and `DraftType` are what the members of `OldOp` and `OldChange` can hold,
with the invariants their makers keep (predecessors in order, a value only where there is one), and `ChangeFits` is that what is counted in a change fits in the numbers that count it.

Abstractions. A hash is what is hashed, and its first four bytes are four parts of it; the hash of a dependency and an
actor id take one byte. `Change::compress` is called where `Sync.cpp` 25 calls it, before a change is sent. Bytes that no
encoder wrote are not decoded, but for files that were cut.

The library that deflates and inflates is not part of the repository. Each byte it makes tells what was deflated; how many it
makes is the constant `DeflatedSize`, any function of the bytes. What the code puts around it is modelled (`Deflate`,
`Inflate`, after `helper.cpp` 49-69): sizes are cast to `int` (`ToInt`), and there is room to inflate 128 bytes
for each (`InflateRatio`, `Capacity`). What does not fit is left out, so that inflating undoes deflating only where there is room
(`Inflates`): deflate makes more than 128 equal bytes into one when there are tens of thousands of them.

### The JSON mirror and the code

`objects` is what the document shows: by object id, a map or a list of scalars and references; a deleted object stays.
`json_doc` is the member of that name. An operator for a call yields the set of its outcomes: the objects and the copy
it leaves, and whether it returned; an exception leaves what was done before it. A set, because the order in which a map
of JSON is imported is that of a hash table.

| action | code |
|---|---|
| `AddItem`, `ReplaceItem`, `DeleteItem` | `json_add`, `json_replace`, `json_delete`, with `json_pointer_parse` and `json_to_value` |
| `Edit` | `put`, `put_object`, `insert`, `insert_object`, `delete_`, which leave `json_doc` alone |
| `ApplyChanges` | `apply_changes_with`, with any effect of one edit, and the refresh at its end |

`FromJson` is `json_to_automerge`. The JSON library is external: what its pointers and its element access do, null
turned into a container, lists padded, exceptions, is `ChangedAt`, `ChangedHere` and `Converted`. `apart` remembers that
`json_doc` cannot be expected to equal the document: after a direct edit, after a call that threw half-way, after a value or a
path the two sides read differently (`Usual`, `Fits`); a refresh ends it.

## 4. Runs

| run | instance | asks |
|---|---|---|
| `History` | a document and one that comes of fork or load, 3 changes, batches of 2, queue of 2, transactions open while changes come; 440,000 states | topological histories, exact heads, `states` and `max_op`, unique operation ids, queue blocked, nothing rejected, nothing lost, implementation of `CausalStore` |
| `HistorySharedActor` | a document and one that comes of fork or load, under one actor id, 3 changes without operations, transactions open while documents are forked and changes come; 140,000 states | well-formed histories in spite of exceptions and of transactions that two documents share; every call returns |
| `Queries` | 2 documents, 3 changes, all queries for all sets of hashes in every reachable state, 86,000 of them | the queries' answers |
| `Sync` | 2 changes, 1 taken from elsewhere, 1 reconnection, 2 messages each way, 1 false positive per filter | types, sent hashes arrive, shared heads are shared, no stall, convergence, silence |
| `OpTree` | `B` = 2, 10 insertions at the end or a third from the front, 1 mark anywhere; 85,000 states | sound lengths and indexes, access and iteration agree, implementation of `OpSequence` |
| `OpSet` | `B` = 2, 2 actors, a map of 2 keys or a list of 3 elements called at the indexes 0, 1 and 3, 3 operations by anyone, 2 in a transaction, a counter among the values; 60,000 states | the operations are what the changes say, the queries find them, the saved document loads |
| `Encoding` | numbers of 6 groups of 2 bits; columns of 5 cells out of nulls and 5 numbers; changes of 3 operations out of 9, by 3 actors, with 3 messages; room to inflate 2 bytes for each; 12,000 states | everything is read as it was written, from files cut anywhere, too, or refused where there is no room to inflate it |
| `JsonDoc` | 9 paths to depth 3, 5 values, 3 keys, 3 objects of 2 items; 8,000 states | the copy equals the document, failed calls change nothing, import inverts export |
| `SyncStall`, `SeekSkips`, `ReceiveIntoOpenTransaction`, `CommitAssertion` | as small as shows it | section 5 |

**Bounds.** Three changes give chains, forks and joins: a change with two parents, two changes that wait for each other's
dependency, a queued change that becomes ready through another queued one. A change may hold no operation or one:
counters differ by the number, and none is the special case. A queue of two holds a
change twice, or two changes of which one makes the other ready; a batch of two has a change before its dependency. Two documents are
enough for these, and the second comes of `fork` or `load`, of the empty document too, which is the same as a new one. In
`HistorySharedActor` it keeps the actor id of the first, as `set_actor` may have it and `json_to_automerge` does. `SpecOneCallAtATime` leaves out interleavings of
calls on different documents, which touch different variables; `HistorySharedActor` does without it. `Queries`, which
asks everything in every state, also keeps transactions of one document out of the calls of the other (`SpecOneAtATime`). In `Sync` two
changes are enough for one to depend on the other or not, for one to be hidden by a filter and for each peer to be
ahead; two messages each way let them cross.  `MaxQueue` and the like only bound the model: the code has no limit.

With `B` = 2 a node holds at most three operations, so that ten make three levels, and a split reaches leaves, inner
nodes and the root; three keys in turn put operations of one key into different nodes. In `OpSet` three operations
beyond what the object starts with are enough for concurrent insertions at one place, a change of an element that the
other document deletes, concurrent increments of a counter and its deletion, an element whose operations are spread
over two nodes, and for one of them to arrive last. Of a list's
indexes 0 is its front, 1 the counter, and 3 its end as long as it has three elements, where an insertion is possible
and nothing else is. A column of five cells has every change between runs, literal
values and nulls, back and forth; its numbers are 0 and the largest and those next to where another byte is needed. The operations of
`MCEncoding` are of every kind; the third message takes two bytes for its length. The compressor of `MCEncoding` (`RunsOf`) makes one byte of
a run of equal bytes: there is room to inflate the first of its long texts, none for the second, and two of the first make the
capacity overflow an `int` (`IntHalf`), which then is negative. In `JsonDoc` paths reach through maps into lists and back, one token
is an index and a key, one is an index the JSON library refuses, and keys are empty or numbers; of the
documents the copy does not follow only those below the bound on objects are continued (`Continued`).

**Deadlock** is checked in all runs of ChangeHistory and ChangeQueries: a document that is not inside a call can
always start an edit that records nothing; and in `JsonDoc`, where a call may always be refused. It is not in `Sync`,
where the system comes to rest, as it should, nor in the runs of `OpTree`, `OpSet` and `Encoding`, which end at their bounds.

**Fairness.** `HistorySharedActor` assumes that a call of `apply_changes_with` keeps running: there is no wait in
it. `Sync` assumes that each peer again and again asks for a message when there is one and that messages are delivered,
which is what a sync loop does (`sync` in `test/automerge_test.cpp`); nothing is assumed of edits, other documents or
breaks, and the bounds make them stop, without which nothing could converge.

**False positives.** In a behaviour of the run `Sync` either all filters happen to be exact (`exact`), and then
documents change whenever they like, or they may err, and then documents change only between connections. The
combination stalls (`SyncStall`). `Resumed` at the next connection undoes the stall. Exact filters do not stall between two
peers for any number of changes (`ExactPairNeverStalls`, a theorem); with changes of a third document in both queues they
can, but that takes more changes than the run has (section 5), and `Converges` holds in the run within this bound only.

**Mutants.** Next to some definitions stands a `Bad...` operator: a mistake that would be easy to make in the code
modelled there, such as a queue that is drained in one pass, or sent hashes that are kept across connections. No
behaviour uses them. Put in the place of the definition, each makes the property it is listed with in `PROJECT.json`
fail, which shows that the property depends on the code being right at that point.

## 5. Where the code and what is said of it differ

Shown by a run that fails:

- `SyncStall`. Peer A is sent h1 together with a filter; A makes h2, which that filter happens to contain; A's
  message announces h2 and does not carry it. B needs h2, but h1 is not acknowledged, for B does not know h2 and so not
  that it includes h1; B's `in_flight` stays set, and so does A's. Both return no message from then on.
- `SeekSkips`. `SeekOp` looks for the place of a received operation on a map key and skips a node in which no
  operation of the key is visible (`query/SeekOp.cpp` 26-30). An operation for a key that was deleted in the meantime comes to stand
  behind all others of the key whatever its id, and what it overwrites is not marked: documents with the same changes
  show different values, and one saved then does not load (`MismatchedHeads`).
- `ReceiveIntoOpenTransaction`. The operation ids of a transaction go on from where they were when it was opened, also
  when the document received changes since. An element inserted then may have a smaller id than the one it was put in
  front of, and other documents put it behind.
- `CommitAssertion`. The dependencies of a transaction are the heads when it was opened. A change received before `commit`
  stays a head beside the new one, and `assert(doc.get_heads() == std::vector<ChangeHash>(1, hash))`
  (`transaction/Transaction.cpp` 29) fails. Where assertions are off nothing is wrong with the document, which has two heads.

Shown by changing an instance:

- With `ForkWhileOpen = TRUE` in `History.cfg`, `StatesExact` fails: the fork of a document with an open transaction commits into the original.
- With a third document, `MaxQueue = 2` and `StatesExact` in `HistorySharedActor.cfg`, that property fails:
  `DuplicateSeqNumber` guards changes ready on arrival, not those that leave the queue, and two documents under one actor
  id (which `from_json` makes, `Automerge.cpp` 1214) send a third one two changes of one number.
- `GetChangesExactIfNoneEmpty` fails without its condition: a change without operations has the `max_op` of its
  predecessor, and `Clock::include` may then keep the older entry: `get_changes` returns changes the asker has.
- `QuietMeansInSync` fails with exact filters, too, once both peers have a queued change of a third document. Peer A has w1,
  w2, w3, each on the one before it, and in its queue x, which depends on B's y1; B has y1, y2, y3, and in its queue u, which
  depends on w1. What each asks for is below the other's heads, so that messages carry no filter (`our_have` is empty) but
  only the hashes asked for; with these under way in both directions each ends up with a head of the other it cannot apply, waiting with `in_flight`
  set. (`Sync.cfg` with these eight hashes, `exact`, and this as the first state.)
- `SharedHeadsKnown` in place of `SharedHeadsKnownToPair` fails in `Sync.cfg`: a head that a queued change of a third
  document became is taken for shared.

Written into the properties of passing runs, as the condition under which they hold:

- `ChangeRoundTrip`, `RebuiltUnchanged`: `encode_chunk` takes the length of a message to be one byte (`Change.cpp` 170). With 128 bytes or more,
  `get_message` of the maker begins with a byte of the length, and a document saved by the maker does not load.
- `ChangeRoundTrip`, `TornFileKeepsPrefix`, `DocumentRoundTrip`: a change that `compress` made less than a 128th of, which takes tens of
  thousands of equal bytes, is cut when it is inflated (`helper.cpp` 63): its checksum does not fit, and the peer it is sent to refuses it.
  A column of a document that does so comes back cut. The test `TestCompressedChanges` reads back what it compressed (`test/automerge_test.cpp` 1352-1353), but 300 equal
  bytes are too few to show it. The properties say where it happens (`Inflates`), and that such a change is refused and not taken for another.
- `SavedDocumentLoads`: `save` while a transaction is open writes operations that belong to no change, and `load`
  throws (`Doc MaxOp Invalid`).
- `MirrorExact`: `json_doc` is said to be "updated by every operation, always equals to the result of to_json()"
  (`Automerge.h` 394), and direct edits do not update it; it is null, not `{}`, in a new document; numbers from 2^63 on turn negative in
  the document and not in the copy; the first key of a new document makes the copy a list if it is a number.
- `FailedCallLeavesDocument`: indices with leading zeros and values with empty keys make calls throw after the document has been changed.
- `MissingDepsMakeProgress`: `get_missing_deps` is said to give "the hashes of the changes in this document that aren't transitive
  dependencies of the given `heads`" (`Automerge.h` 220-221); it gives hashes of changes that are *not* in the document, and the property is about these.
- Not in the model: `json_add` at an index the copy's list does not reach, after direct edits, uses an iterator past its
  end (`Automerge.cpp` 1328).

## 6. Theorems

All are for any set of documents, actors and changes (and any two peers), any batches and bounds, under
`ConstantsAssumption` alone; the queries also need `HashAssumption`, that hashes are ordered as numbers are. Those about
the encoding are for any size of groups and numbers (`Leb128Assumption`: two bits and two bytes, or more) and any values
and number of cells, under `CellsAssumption`: values fit in an unsigned number, their differences (from each other and from 0, as signed
numbers) in a signed one, and so does the length of a column. Those about changes are for any operations of `OperationType`, any
drafts of `DraftType` and any number of operations, under `ChangesAssumption`: counters are below 2^63 and each change fits
(`ChangeFits`), that is the lengths of its parts, of its columns and of all of its bytes, with room for the length of one more
number, are below 2^64; and the compressor makes at least one byte of a change, and no more than an `int` can count (`ChangeDeflates`). That
excludes no change a computer can hold below 2 GB; the instance of the run meets it with 12 bits in place of 64. Of the compressor nothing
else is assumed, nor that there is room to inflate what it makes (`DeflateAssumption`: there is room for a byte or more): the
theorems say what happens with room and without.

**ChangeHistoryProofs.** `TypeCorrect`, `HistoryIsTopological`, `HeadsAreExact`, `MaxOpIsExact` and `Implementation`
(ChangeHistory implements CausalStore) rest on one inductive invariant, `HistoryInv`: the four properties; `Unborn` (a
document that does not exist is blank, so that fork and load write on nothing); `TxDepsHeld` (what an open transaction
depends on is in the history of the document it points to: without it a commit, which may go to another document after
a fork, could append a change before its dependencies). The steps that append a change to a document share the lemmas about
`UpdateHistory`; the other steps leave the histories alone.

**ChangeNumberingProofs.** `StatesAreExact`, `OperationIdsAreUnique` and `NothingIsRejected` hold where no two documents
share an actor id and none is forked with its transaction open (`Disciplined`); section 5 names
instances that show that both are needed. `NumberingInv` adds to `HistoryInv`: `StatesExact`; `KeptByMaker` (the
document of an actor holds all changes of that actor); `Chained` (each change of an actor depends on the one before it, so
that whoever can apply number k has number k - 1); `TxCurrent` (an open transaction's number and first operation id are
still above those of its actor, whatever came in since it was opened); `OpIdsUnique`. A document that had as many
changes of an actor as the number of a change it lacks would, by `StatesExact`, have another change of that number, and
the maker of both would have it twice.

*Queues.* `NothingIsLost` is an action property: a step of a document keeps what was in its history, its queue
and the rest of its batch, `RejectDuplicateSeq` apart. It holds without any discipline, from `HistoryInv` and
`QueueShape` (the batch is used up before the queue is drained; a document that does not exist has no queue: `fork` and
`load` overwrite nothing). `QueueIsBlocked` is inductive relative to `NumberingInv` where documents are `Disciplined`:
`DrainDone` ends a call only when no queued change is ready, and nothing that becomes part of a history outside a call
can make one ready. Here `MadeIsHeld` is needed: every change made is in some history, so that the dependencies of
a queued change were made before it, and a new commit, whose hash nobody had, is no dependency of it.

**ChangeQueriesProofs.** `FilterChangesIsExact`, `GetChangesAddedIsExact` and `MissingDepsProgress` compare what the
code's searches find with `AncestorsOf`, the least closed set of changes. They rest on `GraphInv`: `HistoryInv`, and all that
was made is held and finite. What a loop computes is a matter of induction, and the library's induction
theorems take a predicate as a parameter, which the provers here cannot instantiate; `NatInduct` states induction about
a *set* of numbers instead, and is proved from the well-foundedness of `<`. From it come `IterateFacts` (there is one
function of states, and it makes a turn at every step) and `SortedFacts`. A search keeps `SearchInv`: every dependency
of a change found is found, known or on the stack, and all that is found or on the stack is an ancestor of the heads. It ends, because each turn
takes a hash off the stack or finds one more change, whose dependencies are pushed that once (`TurnCount`, `TurnsSuffice`).
With an empty stack the found and the known are closed, which gives one inclusion; the invariant gives the other.
`get_missing_deps` always asks for something when something is missing, because among the missing changes there is one none of whose
dependencies is missing (`DependencyMinimal`): were it in the queue it would be ready, against `QueueIsBlocked`; that is
where `Disciplined` comes in.

*Clocks.* `GetChangesIsComplete`: the clock of `have_deps` has, per actor, the number of a change found by
the search (`FoldInv`); what the search finds holds with a change all earlier ones of its actor (`AncestorsHaveEarlier`, from
`Chained`), so whatever is not an ancestor has a larger number, and `states` lists it behind (`StatesExact`).
`GetChangesIsExact`: an entry is that of the change with the largest `max_op`, which is the one with the largest number only if
operation counters strictly grow along an actor's changes. `OpsFollowNumbers` gives that: a change starts above the last
operation of each earlier one of its actor; an empty change ends where the one before it ended, hence the condition of the property.

**SyncProofs.** `SyncTypeCorrect` is inductive by itself. `SentHashesArrive` is inductive relative to it: `sent_hashes`
grows only with what goes into a message, a message's changes end in the document or its queue, and what a broken
connection loses `Resumed` forgets. `SharedHeadsAreShared` needs the strengthening `PairInv`: whatever waits in a
peer's queue, is mentioned by a message on its way to it or is in its `shared_heads` is in the other's document. The step that
matters is the receipt of changes: a head gained is not one held before (`ReceivedShared`: a held change that was no
head has a held successor, so it does not become one), hence it came from the other peer. With changes from a
third document this is false (section 5).

**SyncProgressProofs.** `DocInv` needs no restriction: documents are closed (`DocumentsAreClosed`); `Topmost`, which says that
dependencies are well-founded, so that a closed set that has the heads of a document has all of it (`AllBelowHeads`); what is announced, taken for shared or
continued by a peer is in its document. `ExactPairsNeverStall` is about two peers with filters that do not err and no third
document; edits come at any time, messages cross in any number, connections break, documents are lost. Its inductive invariant
`ProgressInv` says: no queue holds anything, for messages bring changes in causal order (`Arrives`); what a message tells of
its sender is true (`Tells`); a peer that has heard nothing has sent no change (`Hears`, which is why `in_flight` does not outlast the first
answer to a message made without knowledge of the other); and `WaitsRightly`: a peer in flight, whose heads are those
it announced last, did announce them and, if it had heard of the other, has all that the other lacks under way to it.
When both are silent, either one has seen its own heads in the other's message or both wait rightly; with nothing under
way their documents are equal. The heads tell whether a document has grown since (`HeadsTellGrowth`), which is what the code relies on
in comparing `last_sent_heads`. `exact` and `others = 0` are needed: `SyncStall`, and the stall with queued changes in section 5.

**EncodingProofs.** `ColumnsAlwaysRoundTrip` is about the four kinds of columns. In itself the invariant `ColumnInv`, that a column has
cells of the right values, is plain; all the work is in that decoding inverts encoding for every such column
(`RleRoundTrip`, `DeltaRoundTrip`, `BooleanRoundTrip`, and `UnsignedRoundTrip` and `SignedRoundTrip` below them).

- *Loops.* The code's loops are recursive functions here. `LoopHasStates` shows that there is a function that makes one
  step after the other, `Throughout` that what each step preserves holds to the end. As in `ChangeQueriesProofs`, both come from the
  well-foundedness of `<`, with induction stated about a set of numbers.
- *Numbers.* `Rest(n, i)`, what is left of n after i groups, relates the writing loop to the reading one: the groups read so far plus
  the rest, shifted, are n (`BitsOfGroups`). Only the last group has no continuation bit (`FirstGroupsAreThose`), so that what follows
  is not touched. The sign is in the last group (`LastGroup`), or, with all the bytes a number may have,
  in its highest bit, and then the last byte is one of the two the decoder lets pass (`SignAtTop`).
- *Runs.* `Yields(kind, bytes, read)`: wherever a run may begin, a decoder that comes to these bytes reads these cells and stands
  behind them, where a run may begin. Bytes that yield cells can be joined (`YieldsBoth`); a run, a run of nulls and a literal run
  each yield theirs. The encoder keeps `Encoded`: what it wrote yields all cells but those of the run it holds, and it holds
  them as its tag says, never an empty run (`Holds`, `ValueAppended`: one case per transition of `RleState`). A run that
  is not written yet cannot become so long that its length does not fit (`NotLonger`), which is where the bound on a column's length is needed.
- *Differences.* The decoder adds up modulo 2^64 what the encoder took as a difference of signed numbers; that the sum is the
  value again although both are cast is `DifferenceAdded`.
- *Booleans.* The value of a run is that its number is odd or even, so the decoder must meet every run, the empty one at the
  start included. `EncodedBoolean` says what the encoder wrote leaves a decoder ready (`Ready`) for the run it holds.

**ChangeOpsProofs.** `OperationsRead`: the operations read from the columns of any operations are these operations.

- *Rows.* Every column of an operation is read back by `ColumnsRead`, which puts the theorems about the kinds of columns together; that
  a column left out because it has no bytes is read as nulls is the same as reading past the end (`ReadAnyNumber`), and how many operations there are is found by
  reading until there is none (`RowsCounted`).
- *What stands side by side.* Raw values and predecessors of all operations are joined, and taken apart by their lengths: `PartOfJoined`, where the parts before
  one add up to where it starts (`Flats`, `SumsFacts`).
- *Actors.* An id is written with the index of its actor among the sorted others, which is found again as long as every actor is named (`ActorsNamed`, `IndexFacts`).
  `KeyRead` is the case that needs care: of the three kinds of keys two have no actor and two no string, and the head of a list is the counter 0 without an actor, which no other key is.
- *Sorting.* The reader sorts predecessors; they were sorted (`SortedAlready`).

**ChangeChunkProofs.** `ChangesRoundTrip` and `ChangesRebuilt`, about all changes there may be, and below them `ChangeIsRead` and
`ChangeIsRebuilt`, about one. Again the invariant, that a change is a draft with some operations, is plain, and the work is in the format.

- *Positions.* `Stands(bytes, at, part)` says what stands where. Parts that stand one after the other are taken apart (`StandsBoth`), and numbers, strings, hashes,
  actors and the ids and lengths of columns are read where they stand (`NumberStands`, `HashesRead`, ...), so that `BodyRead` reads the
  body field by field. The loops of the reader and those of the proof are compared state by state (`SameLoop`).
- *Columns.* Those without bytes are left out, and the others keep their order (`KeptColumns`), which is what the reader checks (`IdsInOrder`). A column's
  range is the sum of the lengths before it (`RangesAre`), and moving all of them by what is before the operations is moving where the first starts
  (`RangesMove`): the arithmetic of `encode_chunk` and `from_old_change` done before the parts are put together agrees with that of the reader, who has only the bytes.
- *Blocks.* Header, checksum and length of a block are what the decoder looks at (`BlockIs`, `PackedIs`). What is inflated is what was deflated, or shorter
  if there is no room (`InflateIs`); the block made of less has another hash than the one its checksum was taken of, so it is refused (`DeflatedRead`).
- *The message.* Its range is the reader's if its length takes one byte, and another otherwise (`PlaceTells`). Made again from what the reader has, a change is the same
  (`RebuiltIs`, `SortedIsMade`). From what the maker of a long message has, the message is longer by the rest of its length, the change still fits, and by the first half (`ChangeIsRead` for both)
  its hash, which tells the message, is another (`LongMessage`, `HashTells`): the error in section 5 does not heal by chance.
- *Files.* `TornFilesKeepPrefix`, and below it `TwoChangesKept`, about any two changes and any place to cut. A block of which the first bytes are there is taken
  for the whole one if it is complete, and otherwise for none or for an error: a number of which the last byte is missing is no number
  (`NumberTorn`), and one of which all bytes are there is read whatever follows (`NumberBegins`, `Popped`). The loop that splits the file ends with the blocks it has found
  (`SplitEnds`), and each of them, compressed or not, is a change by the theorem above or, for lack of room to inflate it, none (`CutFileLoads`, `WrittenAreBlocks`).

Only model-checked:

- Liveness (`CallReturns`, `Converges`, `FallsQuiet`), which is beyond the proof system.
- Documents as bytes: `DocumentRoundTrip`, which puts the proved columns together as two tables, each column of which may be deflated, and comes back cut if it is too repetitive.
- The operation tree, the operation set, saved documents and the JSON mirror: `Sound`, `AccessAgrees`, `ImplementsSequence`, `OpsExact`,
  `QueriesExact`, `SavedDocumentLoads`, `MirrorExact`, `FailedCallLeavesDocument`, `ReimportShowsTheSame`. These recurse over trees of any depth, with `RECURSIVE`
  operators in `OpNode`, `OpQueries`, `OpSet` and `JsonDoc`, which the proof system cannot reason about.

## 7. Not modelled

- What is never called: removal from the tree (`OpTreeNode::remove` and what it uses, `OpSet::remove`), `OpTreeNode::nth`,
  `OpTreeIter::nth`, `insert_op_with_observer` and `SeekOpWithPatch`, `OpIdSearch`, `QueryKeysAt`, `SuccEncoder::append_old`,
  `Change::decode`; and `length_at` and `text()`, which return 0 and an empty string.
- Transactions that end otherwise than by `commit`: an exception out of the function of `transact_with`, a dropped
  `Transaction`, a second `Transaction` beside the automatic one. They leave operations that belong to no change.
- Objects within objects in the operation set: `OpSet` has one object, `JsonDoc` has their nesting and not their operations. `B` is 2 there, 16 in the code.
- `import_path`, tables, texts and binary values in JSON. When `import_path` fails it executes `throw;` with no exception to throw
  again (`Automerge.cpp` 1474-1480), which ends the program.
- SHA-256; the format deflate writes, and where exactly inflating stops for lack of room; the decoding of bytes that no encoder wrote; the bytes of sync messages and of Bloom filters.
- The caches (`IndexedCache.h`, `StringCache.cpp`): models use actors and keys themselves, and order by them as the code
  does after looking them up.
- Overflow of counters, of operation ids and of the differences in delta columns (`CellsAssumption`).
- Logging, error texts, observers (`OpObserver`), which the README of the repository lists as unfinished, the demo and the benchmark.
- Places where an error is swallowed: `OpSet::insert`, `replace` and `add_succ` ignore an object that is not there;
  `increment` and `delete_` do not check that a key fits the object. The models use objects that are there, with keys that fit.
