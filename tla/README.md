# A verification development for DTR

DTR is a small distributed text index written in C. A client sends documents
and searches to a *server*; the server hands the work to *calculation nodes*
(cnodes), which register with it, and it keeps the index and distributes it to
them. This directory holds TLA+ models of that program, the TLC configurations
that check them, and theorems about them that TLAPS proves.

How to run it, with tlc and tlapm installed:

    tlc -config pool.cfg MCWorkerPool.tla      # one run; see the table below
    tlapm WorkerPool_proofs.tla                # one proof module

Contents: 1 inventory, 2 modules, 3 runs, 4 fairness, 5 proofs, 6 where code
and documentation disagree, 7 what is not modelled, 8 plan.

## 1. Inventory

### Components

**Worker pool** (`server.c`: `do_reg`, `get_workers`, `get_workers_n`,
`free_workers`). State: the list `clist.list` of registered nodes, each `IDLE`
or `WORKING`; the counters `num_node` and `ava_node`; the mutex `M_clist`; the
named semaphore `S_num_node`. Operations: a registration pushes a node; a
request takes n permits one by one and then walks the list, making idle nodes
its own; at its end it gives nodes and permits back. One thread per connection.
Hard: counters are read without the mutex; permits, counters and statuses are
three accounts of the same thing, kept up to date at different moments; permits
are acquired one at a time; the semaphore outlives the server.
Correct if: no node works for two requests; the accounts agree; each permit
stands for an idle node; the walk never leaves the list; requests end.

**Index distribution** (`server.c: do_update`, `cnode.c: work` and `main`).
State: the server's `Dindex`, each node's `Dindex`, connections under way.
Operations: after every registration and every indexed document the whole index
is dumped and sent to every node of the list; a node replaces its index by each
dump it receives, in a thread per connection. Hard: dumps are ordered by
`M_index`, but sends and loads are not; documents are added without that mutex,
so that a dump can be torn; a node accepts nothing until its registration is
answered, and the registration is answered after the dump was sent; nodes die.
Correct if: each node is sent each document; where nothing was torn, a node only
ever has an index the server once had; registrations, updates and searches end.

**Term counting** (`data_operation.c`: `split_doc`, `count_doc`,
`count_doc_part`, `add_count_term`, `combine_count`). State: sorted, doubly
linked lists of terms with counts, and their lengths. Operations: split a
document at newlines, count words of each part, merge the lists into one by
relinking their nodes. Hard: pointer surgery in a merge that owns both lists;
boundaries of parts. Correct if: the lists stay sorted and linked alike both
ways; lengths are exact; no count is lost, invented or doubled.

**Searching** (`client.c`, `server.c: split_query, do_retr`, `data_operation.c:
retrieve_f_index, combine_query_rsl`). State: the query's terms, each worker's
share of them, result lists. Operations: split the terms over the workers, look
each up, join the lists on both sides. Hard: order of insertion and of joining;
what `n` cuts; which list is walked. Correct if: nothing that matches is
missed, nothing is answered twice, and what is answered matches.

**The server's index under concurrency** (`server.c:117`, `data_operation.c:
add_count_to_index, insert_doc_to_term`, `data_serialization.c: dump_index`).
State: `Dindex`, a sorted, doubly linked list of terms, each with such a list of
documents, and their lengths. Every `do_index` thread changes it without
`M_index`, while `dump_index` of another thread walks it twice under `M_index`:
to measure, and to write. Hard: what a walk sees of a half-made link; lengths
that change at other moments than the lists; the same file sent again. Correct
if: the lists stay in order and their lengths right; each document counts as
often as it was sent; what is dumped can be loaded.

**Communication** (`syn_communication.c`): `open_clientfdi`, `send_data`,
`receive_data` with a four-byte length ahead of the data. State: what each side
has still to send or to receive. Hard: TCP cuts the stream anywhere; a process
dies in the middle; errors go unnoticed. Correct if: what is received is what
was sent, and nobody waits for ever.

**Serialization** (`data_serialization.c`): flat formats of documents, counts,
indexes, queries and results. Hard: the loaders trust every length they read,
and share a buffer between strings. Correct if: what is loaded is what was
dumped, and no load leaves the message.

**Calculation node** (`cnode.c`): registers, then serves updates, counts and
searches. **Output buffer** (`data_operation.c: create_out_buf, write_buf*`): the
text of an answer, in a buffer that grows by 100 bytes. **Client shell**
(`client.c`), **name server info**, **tests** (`test.c` and the `test_*`
functions).

### Interactions

    client --INDEX/RETRIEVE--> server.dispatch --> do_index / do_retr
                                  |  get_workers_n    (pool: permits, mutex)
                                  |  one agent thread per worker --> cnode.work
                                  |  join, combine_count / combine_query_rsl
                                  |  free_workers     (pool)
                                  |  add_count_to_index, do_update (INDEX)
    cnode  --REGISTER--> server.dispatch --> do_reg --> do_update --> all cnodes

Pool and distribution meet in two places: `do_reg` updates the pool before its
`do_update`, and a request talks to nodes of the pool, which load updates at
the same time. `add_count_to_index` lies between the two. Every arrow above is
a conversation of its own, in `Message`. Counting and searching run inside a
request; concurrency reaches
them only through the number of workers and the index they search, which their
models choose freely.

## 2. Modules

| module | models | size of the state |
|---|---|---|
| `WorkerPool` | the pool: every thread step that others can interleave with | 14 variables |
| `IndexUpdate` | `do_update`, registration, adds that tear dumps, loading, searching a node | 13 variables |
| `SharedIndex` | `add_count_to_index` beside `dump_index`, statement by statement | 16 variables |
| `Serialization` | the `dump_*` and `load_*` functions, as operators | |
| `Message` | one conversation over a connection, and what its ends make of it | 9 variables |
| `Exchange` | abstract: a request is taken in and answered, once at most | 5 variables |
| `SnapshotReplica` | abstract: a replica holds one of the index's past values | 6 variables |
| `TermCount` | split, count and merge on a heap of linked nodes | 17 variables |
| `Tally` | abstract: tallies of parts are added to a total, each once | 2 variables |
| `Search` | a search, from the client's typing to the text of the answer | 13 variables |
| `Links` | `Chain`: the linked lists of `data_operation.c`, followed along `next` | |
| `MC...` | constants and symmetry for TLC | |
| `..._proofs` | the theorems of section 5 | |
| `Inductions` | lemmas only: induction, sums over sets, sequences put together | |

Between modules: `Message` EXTENDS `Serialization`; `TermCount` and
`SharedIndex` EXTEND `Links`; `IndexUpdate`, `TermCount` and `Message`
instantiate the abstract modules `SnapshotReplica`, `Tally` and `Exchange`.
`IndexUpdate`, `TermCount` and `Search` take a whole message as one step, which
`Exchange` says of a conversation and `Message` implements. `IndexUpdate` keeps
of an add and of a dump its beginning and its end, and whether they overlapped;
`SharedIndex` has the statements in between.

In each module a short block, *Faulty variants*, holds altered forms of some of
its definitions: plausible bugs. No action uses them; putting one in the place
of its definition shows that a property notices the bug. `PROJECT.json` pairs
each property with the variant that breaks it.

### WorkerPool and the code

One value of `pc` per place where a thread can be interrupted with effect:

| code | actions |
|---|---|
| `do_reg`, under `M_clist` | `RegPush` (push, `sem_post`), `RegCountNode`, `RegCountAvailable` (unlock) |
| `get_workers`, `split_query` choosing n | `StartIndex`, `StartRetr` |
| `num_node < 1`: returns 0 with `*wl` unset | `NoNode`, to `server = "undefined"` |
| `n > num_node`, `n > ava_node`, each read and assignment | `CompareNum`, `SetNum`, `CompareAva`, `SetAva` |
| `sem_wait` in its loop | `SemWait` |
| the walk along the list, a slot a step | `LockPool`, `ScanSlot`, `ScanDone` |
| `split_query` past the end of the workers | `ShortChain`, to undefined |
| an agent with a blank record | `BlankAgent`, to undefined |
| `free_workers` | `FreeLocked`, then `FreePost` per permit, `Finish` |
| the process dies; the semaphore stays | `Restart` |

`RegPush` is one step although list and semaphore change one after the other:
other threads read the list under `M_clist` only (`do_update`'s read of the
head is in `IndexUpdate`), and a `sem_wait` that comes after the post finds
what it would find here. The two counters are steps of their own since requests
read them without the mutex. What agents say to nodes does not touch the pool
and is left out: a request in `"run"` frees its workers at any later time.
`"undefined"` stands for everything C leaves undefined: no action leads out of
it but a restart, and the module claims nothing of it.

`Addr` gives each registration its ip and port, by which `free_workers` finds the
nodes to give back (`SameNode`). Two registrations of one address are a cnode that
was killed and started again (section 6). `PermitsBacked` is one direction of an
account: an idle node for each permit. The other one, a permit for each idle node,
the code does not keep: a request posts as many permits as it found nodes, which
can be fewer than it took. `NoneStuckWhileIdle` is about what comes of it.

### IndexUpdate and the code

An index is the set of documents counted in it. `do_index` calls
`add_count_to_index` without `M_index` (`server.c:117`), so an add has a beginning
and an end (`BeginAdd`, `EndAdd`), and so has a dump (`BeginDump` under
`M_index`, `EndDump`). Where the two overlap the dump joins `torn`: its contents
are then unknown (`EndDump` gives it the smallest or the greatest size it can
have, since only the size matters to a send), it may have outgrown its memory
(`DumpOverruns`), and a node that loads it has the index `Unknown`, which a
search may fault on. Two adds that overlap may spoil the server's own index for
good: `crossed` says that they did, every later dump is torn then, and no safety
property speaks of what follows. `SharedIndex` shows statement by statement why.

`do_update` is five places: the head of the list is read (`ReadHead`, without
`M_clist`), the index dumped, then per node a connect (`OpenConnection`, or
`SkipDeadNode` when it fails) and a send (`SendDump`, or `SendToDead`); `Reply` is
the answer that `dispatch` sends afterwards, and lets a new node go on to
`accept`. The list is pushed at its head and nothing is ever removed, so the
nodes a walk will reach are fixed by the head it read: `pnode` is that sequence. A
send blocks unless the dump fits into the buffers of a socket (`SockBuf`
documents) or the node accepts connections. The node's threads are `LoadUpdate`,
`Answer` and `SearchFaults` (a search that reaches a node before its first update
reads through NULL). `cnode.c` never sets `resp` for an update but frees it:
`LoadUpdate` therefore ends with the node alive or dead, whichever the stack
decides.

### TermCount and the code

Nodes live on a heap: `next`, `pre`, `count`. The name of a node is the part
that allocates it and its term; each part has at most one node per term, which
`WellLinked` confirms. A word is a step (`CountWord` and its three cases, those
of `add_count_term`), and so is an iteration of `combine_count`'s loop
(`SameTerm`, `MainIsBigger`, `MainIsSmaller`, `CombineTail`). The two callers
are `do_index`, whose main count starts empty and whose worker records all have
index 0, and the tests, which count part i for each i. A document is a sequence
of words and newlines: blanks matter to no property. `split_doc` looks for a
newline without a bound, and `CutPastEnd` is where it finds none.

`split_doc` ends the last part at `data + size`, and `count_doc_part` reads up to
and with its end. `text` is what is read: the document, or, when the byte behind
it happens to be a letter, the document with one word more or with a longer last
word (`Overread`). A document that came over a socket ends with a '\0' that is
counted in its size, so for `do_index` that byte stops the reading before the one
behind; for the tests, which give the length of the text, nothing does.

### Search and the code

`SecondPlace` is the way this code builds lists everywhere: a new element goes
after the first. `CombineQueryRsl` is translated with the assignment that
overwrites the choice of the shorter list, so that a list which is at least as
long as the other is combined with itself. `Retrieve` is an iteration of
`retrieve_f_index`, whose `i` is never reset, so that `n` is what all terms of a
worker have together; `Share` is `split_query`. The nodes search the same index
(that they may not is a matter of `IndexUpdate`).
Of the output buffer and the strings in it `Search` keeps the lengths: each
`write_buf` is a step (`WriteBuf`), with the four that make a line of the
answer. A name has at most 100 letters: `load_index` has room for 50 of them in
its `buf`, so a longer one was undefined before it comes here.

### SharedIndex and the code

The heap is two functions on nodes, `tn` for terms and `dn` for documents; a
node is named for the document and the term it is made for. A step of an
insertion is one statement that writes to what others can reach; making a node
is part of the step that publishes it. The places:

| code (`data_operation.c`) | actions |
|---|---|
| `itnp = index->list`, and an empty index | `DoIndex`, `FirstTerm` |
| index term is bigger: publish, own next, back link | `InsertTerm`, `SetNext`, `SetPre` |
| index term is smaller: go on, or append and link back | `NextTerm`, `AppendTerm`, `SetBack` |
| `index->len_list += 1` | `CountTerm` |
| the same term: `insert_doc_to_term` | `SameTerm`, then `CountAgain`, or `NextDoc`, `CountDoc` and the links (`InsertDoc`, `SetDocPre`, `AppendDoc`, `SetDocBack`) |
| `dump_index`, first pass | `MeasureTerm`, `MeasureDoc` |
| second pass | `WriteLength`, `ListAgain`, `WriteTerm`, `FirstDoc`, `WriteDoc`, `AfterDoc`, `AfterTerm` |
| `M_index` | `LockIndex`, `Dumped` |

A record of the dump is a string and a number, and strings take the same space:
sizes are numbers of records. `Put` is a write; past the size that was measured
it is undefined. `LoadIndex` is what the loader makes of a dump: to it the
records of terms and of documents look the same, and only the lengths tell how
many of which come. `Before` says which documents a client sends first, since
it waits for each answer; with `Before` empty the module has as many clients as
documents, and then lists do not stay in order and documents get lost (TLC
refutes `ListsInOrder` and `SumOfDocuments`): two insertions at one place write
the same `next`. The runs have one client.

### Serialization, Message and the code

A message is a sequence of cells: bytes, and ints, which are a cell each. The
dumps are concatenations. A load is a record that follows the code's `data`
pointer (`at`), with the shared `buf` of its stack, the nodes made so far, and
whether the memory used was ever written. `Message` is the conversation: a `pc`
for each end, a wire in each direction, and the loops of `send_data`
(`SendLength`, `SendSome`: any number of cells a call) and `receive_data`
(`RecvLength`, `RecvSome`, `RecvEnd`, `RecvNoLength`). `caller` names the
function that asks: it decides what is sent, with which flag, what the answerer
(`Handle`: `work` or `dispatch`) loads and answers, and how the answer is read
(`LoadAnswer`); `do_update` alone asks for none. `Die` ends a process at any
moment: what it sent arrives up to some cell, and what is sent to it is gone.
What happens after an error nobody looks at is as the code has it: the length
of a message may be half received (`"short"`), an agent reads from NULL and
takes its process along (`"dead"`), a pointer was never set (`"undefined"`). An end
that is `"short"` computes a length from bytes nobody wrote; the module ends it
there. That it comes to that is in section 6.

## 3. Runs

| run | cfg | checks | shows |
|---|---|---|---|
| `pool` | 2 requests of up to 3 terms beside 3 registrations, and 3 requests on 3 nodes that have registered; restarts that find 0 or 1 permits | `TypeOK NodeHeldOnce CountersMatchList PermitsBacked WalkStaysInList RequestsFinish` | exclusion and agreement of list, counters and permits, in all interleavings; requests end unless the permits run out altogether |
| `pool_stuck` | 3 requests, 3 nodes | `NoneStuckWhileIdle` | violated |
| `update` | 2 nodes, 2 documents | `TypeOK EveryNodeIsSentEveryDoc LatestIndexSent SnapshotsOnly` | no document falls between a registration and an indexing, torn dumps or not; when all is quiet each node was sent the index as it is, whole; without a clash nodes only have snapshots |
| `update_live` | 2 nodes, 1 document, 1 search, dumps fit a socket | `RegistrationCompletes UpdatesAreLoaded SearchesEnd` | registrations, updates and searches go on unless a node that died takes the server with it, or adds overlap; also a search that was sent before the registration is answered |
| `update_deadlock` | 2 nodes, 1 document, dumps do not fit | `RegistrationCompletes` | violated |
| `shared` | 3 documents of one client, 7 orders of their names, 3 terms, 1 registration | `TypeOK ListsInOrder SumOfDocuments AnsweredIsPublished HiddenOnlyInSetNext ThreadsEnd` | what one client can rely on while others register |
| `shared_torn` | the same | `DumpsLoadBack` | violated |
| `message` | all 6 askers, 12 requests, 11 answers of 0 to 2 elements | `TypeOK Delivered LoadedIsSent ReadsWithin OnlyLossConfuses ConversationEnds ExchangeOnly` | a message arrives as it was sent or cut off, and is loaded as that; `Message` implements `Exchange` |
| `count` | all documents of up to 6 words over 3 terms and newlines, 1 to 3 parts, both callers, every byte past the data | `TypeOK WellLinked TermCountsExact TestsCountDocument SumOfParts CombineEnds` | linked lists and sums are right; `TermCount` implements `Tally` |
| `count_server` | up to 4 words, 2 parts, `do_index` | `ServerCountsDocument` | violated |
| `search` | 3 terms, 3 documents, every index, every query, 1 to 3 nodes, n = 4, limit = 2 | `TypeOK NoDocTwice AllMatchesFound FirstTermFound ExactIfAscending TextEnds` | what a search can be relied on for |
| `search_terms` | the same | `ResultsHaveAllTerms` | violated |

**Bounds, and why they are enough.** *Pool:* three nodes
are the fewest with which a permit is lost while a node works: the other request
takes two permits, and of the two slots it looks at the first is wasted on the
working node and the second gives it a node, so that its list ends in no blank
record. Two requests interleave every pair of walks, releases and
registrations; `MaxTerms = 3` lets a request ask for all nodes. `MaxStale = 2` lets
a restart find a stale permit, which is the fewest that can outnumber the idle
nodes. Three requests beside the registrations are too many states for TLC's
liveness check, so the run starts from two states (`MCWorkerPool`): `Init` with a
third request that never comes, and `ThreeRequests`, which `Spec` reaches, where all
nodes are registered and one request works with the head of the list. From there
the second one loses a permit as told, and the third, which asks for every node,
waits alone while all nodes are idle: `OutOfPermits` without hold and wait. The
safety properties are proved for all sizes (section 5). *Update:*
two updates meet at each of two nodes, so every pair of registration with
registration, registration with indexing, and indexing with indexing overlaps,
and each dump can be torn by each add; the constraint `Sound` leaves out what
follows an overlap of two adds, of which the properties say nothing. Proved for
all sizes. The live runs are smaller: one document and one search suffice for
each kind of thread to wait for each other kind, and with two nodes one of them
registers when the index has the document already. *Count:* three terms give
a merge that inserts ahead, between and behind; six words fill three parts with
two words each, or four
and their newlines; longer documents repeat these cases; `Texts` has every
letter that can follow the data. *Search:* with three
documents lists of all lengths 0 to 3 meet, so `OtherList` sees shorter, equal
and longer; three terms are the fewest where a joined list is joined again;
`n = 4` is reached in the second list of a worker and not in the first; the
code's 100 and 10 are the constants `n` and `limit`. `Count` gives each term
and document a count of its own, so that sums tell them apart. `NameLens` makes
a line of one answer end with the buffer to the byte. *Shared:* three documents
are put ahead of, between and behind the others or share a name, and their sets
of terms make a term be inserted ahead, between, behind and met again; the
registration's dump can be at any point of any of it. *Message:* messages have
up to 24 cells; lists of 0, 1 and 2 elements, strings of two lengths, the longer
one first, so that `buf` has something left over, and a text that goes on behind
its '\0'.

`CHECK_DEADLOCK FALSE` in every run: a server nobody connects to, a server in
an undefined state, a finished count, an answered search and a conversation
that is over take no step, and rightly so. Hanging is what the
liveness properties and `NoneStuckWhileIdle` are
about.

## 4. Fairness

A thread that was started is scheduled: weak fairness of each request's `Run` and
of the rest of each registration that has begun, `RegCountNode` and
`RegCountAvailable` (`pool`); of `EndAdd`, each `DoUpdate`, each `Work` of a
node's thread and each query that was sent (`update_live`); of
each thread that adds a document or dumps (`shared`), of each end of a
conversation (`message`), and of the one thread that counts (`count`). pthreads on
the systems the README names promise no more than that; in particular `sem_wait`
and the mutexes are not assumed to be fair among waiters. No connection, of a
client or of a cnode, has to arrive: `Start`, `RegPush`, `DoReg`, `BeginAdd`,
`AskNode` and the actions of `SharedIndex` and `Message` that begin a thread are
not fair, and neither is `Restart`. Once two adds have overlapped (`crossed`)
nothing of the server is fair any more, since a walk along spoiled links need not
come to an end. Leaving the server in an undefined state is part of `DoUpdate`
and `Search`, so a property that holds holds up to there and says so
(`Spoiled`, or `server = "undefined"`).

`RequestsFinish` ends in being answered, in `OutOfPermits`, or in an undefined
call. `OutOfPermits` is the one way to hang: the semaphore is empty, nobody holds
the mutex, and every request that runs is in `sem_wait`. That this does happen is
`pool_stuck`, by hold and wait; in `pool` it happens by the loss of a permit as well,
after which a request that wants every node waits alone. Weak fairness is enough for a
waiter because an instance has finitely many requests, each of which gives
permits back: an endless stream of requests could starve one. In the same way
finitely many insertions lengthen the lists under a dump (`ThreadsEnd`).

`RequestsFinish`, the properties of `update_live` and `ThreadsEnd` have the form
`[]<>(nothing is under way)`: an instance has finitely many connections, so that
says of each that it ends, and spares TLC the tableau of `~>`.

In `Message` a load is always possible when its end comes to it, so that
`[]<>(pc[e] # "load")` is weak fairness of it, in a form that spares TLC the
evaluation of ENABLED. A process that dies is not fair, and neither is loss.
`ConversationEnds` excludes the two states in which C says nothing more:
`"short"`, which `LengthIsReceived` is about, and `"undefined"`, of which
`OnlyLossConfuses` says when it comes about.

## 5. Proofs

`WorkerPool_proofs`, for any sets of requests and nodes, any number of terms,
and any number of restarts, from `PoolAssumption` and `DistinctAddrs`: no
address is registered twice. That one is a fact about the cnodes and not about
the server: a cnode that comes back on its old port is put in the list again,
and `free_workers` then makes both entries idle (section 6). No
theorem says that a request gives back its own nodes only: under
`DistinctAddrs` that would be the hypothesis over again. The inductive invariant `IInv`
is needed because each property alone says too little about the moment between
two steps:

- `CountInv` says what the counters are *during* a registration, which
  `CountersMatchList` leaves open, and equates the list's length with the
  number of registered nodes;
- `LimitInv` carries a comparison with `num_node`, made without the mutex, over
  to the walk: `num_node` may be behind the list but never ahead, and the list
  never shrinks, hence n is at most its length. `WalkStaysInList` follows;
- `PermitsBacked` counts the permits in the semaphore and, as pairs in
  `Claims`, those that requests hold without a node, against the idle nodes.
  Each step moves a permit, a claim or a node and keeps the inequality;
  `ClaimsGrow`, `ClaimsShrink` and `ClaimsNew` are the lemmas about sizes;
- `LockInv`, `HoldInv`, `FreshInv`, `IndexInv` tie program counters to the
  mutex, the worker lists and the loops.

Theorems: `TypeCorrect`, `Exclusion`, `CountersCorrect`, `PermitsCorrect`
and `WalkCorrect`.

`IndexUpdate_proofs`, for any sets of documents, nodes and searches and any
socket buffer, from `UpdateAssumption`. The point of the argument is
`CarrierInv`: as long as no two adds overlapped, each document of the index has,
for each node, a thread that carries it there: its dump is whole and has the
document or will have it, and the thread has connected to the node or will. For a
document whose add is over this is the registration of the node or an indexing,
by the order of the code: `do_reg` pushes before it dumps, and `do_index` adds
before it reads the head, which nothing enforces and no comment mentions. A
registration's dump that an add tears, and that therefore carries nothing, is
made up for by the indexing whose add tore it: that one reads the head later, so
it covers the node, and dumps later, so it has all documents that were added
before; its own dump is whole, for only another add could tear it. `DumpInv` and
`ThreadInv` say where a torn dump can be. Theorems: `TypeCorrect`, `NoDocumentMissed`,
`LatestIsSent`, which needs that of the carriers the last one to change the index
is up to date with it, and `Refinement`, that `IndexUpdate` implements
`SnapshotReplica` (with `PastInv`: every whole dump is an index the server once
had). Both abstract and detailed module say nothing of an index that was
replaced while `clash` holds: the dumps of `shared_torn` are such.

`Message_proofs`, for any values of the structs that are sent, of any size, from
`MessageAssumption`: each asker dumps the struct its code has (`RequestsOf`),
strings have no '\0' within, and answers are counts, results or texts with an
end. It has three parts.

*Where the message is.* `Delivered` speaks of what has come; the invariant
`IInv` says of each direction, cell by cell, where
the message is: what has come, then what is on the way, then what is still to be
sent make up the message, in `Announced` before its length has come and in
`Following` afterwards, and `Quiet` says that nothing is there before it is sent.
Each step moves a cell over one of the borders: `AppendPart` and `DropCells` are
the lemmas about pieces of sequences, `ReceiverMoves` and `SenderMoves` say what
leaves a direction as it is, and `LabelStep`, `SendFrame` and `ReceiveFrame`
gather the steps of a kind. A death cuts what is on the way and keeps the rest
of the argument, since a cut is a prefix. Theorem: `MessageIsDelivered`.

*What is loaded.* The lemmas about `Serialization` run a loader on
`Truncated(mes, full, k)`: a message of which only the first k cells came, with
zeros from there on, which is what `receive_data` returns. `Has` says where the
dump of a part lies in `full`; `On(x, k, at)`, that a load that
should be at cell `at` is there, or has met the zeros and is no further. A step
through a string, a node or a list keeps `On`, because a zero for a length moves
the load on by less than the part is long, and if the load has not met the zeros
it has made just what was dumped. `LoadStringOn`, `LoadNodesOn` and
`LoadTermOn` say so of the parts, `RoundsOn` of a loop over parts by induction on
its rounds, `LoadDocOn`, `LoadCountOn`, `LoadIndexOn`, `LoadQueryOn` and
`LoadQueryRslOn` of the structs. `LoadReceived` gathers them: the load of any cut
stays within the message, and the load of the whole finds the end of each string
in `buf` and gives the value that was dumped. The empty query is the one exception,
and `EmptyQueryLoad` proves that its load does leave the message.

*What the ends make of it.* `LoadInv`, on top of `IInv`, is what lets a load be
applied to that: `Complete`, once an end has sent all, whatever the other end
still waits for is on its way, unless that one is dead; hence
an end that finds nothing on the wire and a closed connection has lost a dead
peer (`Waiting`), and the two error paths of `receive_data` are
taken only then. `Spoken` types request and answer by the asker, from which
`TypesAgree` follows: the flag, which `index_agent` takes from another enum,
leads the answerer to the loader of what was dumped. `HasLoaded` and
`Excused` are the properties. Theorems: `TypeCorrect`, `LoadedIsSentHolds`,
`ReadsWithinHolds`, `OnlyLossHolds`.

*Refinement* says that `Message` implements `Exchange`, in which a request and
its answer are values, each taken in by one step, in full, and once at most.
`Handle` is `Serve`, `LoadAnswer` is `Receive`, and all of `send_data` and
`receive_data` are stutters, but where an end dies (also of its own NULL pointer, in
`RecvNoLength`). The mapping takes as loaded only what was received to its last
cell (`Whole`): what an answerer loads of a request that was cut off is the
business of `ServeTheDead`, as its asker died, and no one will read that answer.
`Unanswered` is the one thing the invariants lacked: there is no answer
before the request is loaded. From `Exchange` alone follows `AnswerIsToRequest`:
who gets an answer in full has been heard in full, and a count is of
the document that was sent, which `combine_count` takes on trust.

**Induction.** The library's induction theorems take an operator, which no
installed prover instantiates. `Inductions` proves induction once more for a
*set* (`Induction`: a set that has 0 and with each k also k + 1 has all of Nat;
`SubsetInduction`, the same for the subsets of a finite set); a proof defines
the set of numbers for which the claim holds. What the recursive functions and
folds of the models compute follows from it: `FlattenPlaces` says where
`FlattenSeq` puts each element, `SumOverSet` that a sum over a set depends on no
order, `ChainIs` in `Links_proofs` what `Chain` finds.

`Search_proofs`, for any terms, documents, counts, limits and queries, from
`SearchAssumption`. `Base` (types, and where each worker is in its queue) comes
first. Then each property has an invariant of its own beside it:

- `NoDocTwice` holds with it alone: `PairsKept` says that the pairs of two lists
  without repetition have none, and `SecondPlaceKeeps` that the insertion after
  the first only reorders;
- `BufInv` bounds the string that is under way, at most `Chunk`, by what
  `create_out_buf` and one growth leave (`TextEnds`);
- `FirstInv` follows the first term: its worker's list, then the joined one,
  only ever have documents with it, since `combine_query_rsl` keeps documents of
  its first list only (`FirstTermFound`);
- `MatchInv`: as long as no limit has cut a list, each worker's list, and the
  joined one, has every document with all the terms looked up so far
  (`AllMatchesFound`);
- `ExactInv`: while lists grow from term to term, the joined list is shorter
  than the next, so `combine_query_rsl` happens to take the right one, and has
  exactly the sums (`ExactIfAscending`).

`TermCount_proofs`, for any document, terms and number of parts, both callers,
from `CountAssumption`, in which the set of terms is finite, as memory is.
`Links_proofs` describes a linked list by the *set* of its nodes: `Forward` says
that `next` leads from each node to the one with the next bigger key, `Backward`
that `pre` leads back, `Linked` both. Inserting, appending, joining and taking
off the head are operations on that set (`InsertedBefore`, `Joined`,
`WithoutHead`). The invariant `IInv` names those sets: of each part (`own`), of the
main list (`M`), and of what `combine_count` has still to take over (`A`); they
are disjoint, the lengths are their sizes, and what is before `pn_main` in M is
before all of A (`Combining`), which is what makes an insertion at `pn_main`
keep the order. `A` need not be linked back: the `pre` of its head is stale
during a merge. Theorems: `TypeCorrect`, `WellLinkedHolds`,
`TermCountsExactHolds`. `SumOfPartsHolds` is the refinement: `TallyMoves` maps
each step to one of `Tally` or to a stutter, the sum over a set being the sum
over its parts. `TestsCountDocumentHolds` adds `WInv`: the parts cut so far cover
the words ahead of the next cut, each once, and the tallies are those of the
words that were passed; the last part is the rest of `text`, so that the count is
that of `text`. It does not say that `text` is the document, which is false
(`PartsCountDocument`, section 6).

`SharedIndex_proofs`, for any documents, terms, counts and names, any order in
which one client sends the documents, and any registrations that dump
meanwhile, from `SharedAssumption` (sets of documents and terms are finite; a
count has a term, since `add_count_to_index` reads through NULL otherwise) and
`SingleClient`, a hypothesis of each theorem: of two documents one is sent after
the answer to the other. Without it the properties are false (section 2).
The invariant `IInv` again names sets of nodes and not walks: `TNodes` are the
term nodes that were put in, `DNodes(x)` the documents under x. Between two
statements of an insertion the lists are *not* linked, so `Order` says that they
would be once the insertion under way had written what it has still to write:
`NextOf`, `PreOf` and `DPreOf` are the links with these writes made, and
`Behind` and `Ahead` what the lengths lack or have too much, as the length of
the terms is counted after the links and that of the documents before them.
`AtTerm` and `AtDoc` say that the walk has passed only what is smaller; `Left`
and `Fresh` that the nodes of terms to come are not made yet. `TypeCorrect` and
`ListsInOrderHolds` follow.

- `SumOfDocumentsHolds` adds `Summed`: the count of each node is the sum, over
  the documents of its name that have counted its term so far, of their counts
  (`Counted`, `Of`). It needs `OneEach`, that a term and a name have one node at
  most, so that a file that is sent again finds the node of its first time.
- `HiddenOnlyInSetNextHolds`: but in `"setNext"`, where the list ends early, a
  walk finds every node of `TNodes` (`ListsCover`), and by `Summed` what is found
  has at least what was answered.
- `AnsweredIsPublishedHolds` follows the second pass of a dump record by record.
  While the dump of a document's own `do_update` runs, nothing is being added
  (`OwnDump`): the one client waits. `Reading` says what `load_index`
  would have made of what is written so far: the entries of all nodes passed, and
  as many terms and documents announced as are still ahead in the lists
  (`From`, `After`). At the end nothing is ahead, and what was loaded is the
  index. The fold in `LoadIndex` is unrolled by `LoadIndexIs` and
  `OneMoreLoaded`.

**Only model-checked:** all liveness under fairness, which the prover cannot do:
`RequestsFinish`, `RegistrationCompletes`, `UpdatesAreLoaded`, `SearchesEnd`,
`CombineEnds`, `ThreadsEnd`, `ConversationEnds`. Every other property of a run
that passes is a theorem.

## 6. Where code and documentation disagree

Each of these is a run that TLC refutes; `PROJECT.json` quotes the lines.

- `pool_stuck` (`server.c:275`): two requests hold a permit each and wait
  for one more, for ever, with all nodes idle.
- `update_deadlock` (`server.c:345`): the server sends the index to a new node
  before it answers the registration, which the node waits for before it reads.
- `count_server` (`server.c:288`): all workers have index 0 and count the first
  part of the document.
- `search_terms` (`data_operation.c:754`): a result list is combined with
  itself, and documents without the later terms stay in the answer.
- `shared_torn` (`data_operation.c:501`): a term is reachable (line 499) before it
  is counted in `len_list` (line 501), and no lock keeps `dump_index` out; the
  dump of a registration in between announces no term and has one. Later in an
  insertion a dump can lack the rest of the index as well (line 518, a node that
  is in the list before its own `next` is set), or outgrow the memory of its first
  pass. That the dump of a document's own `do_update` comes out right, with one
  client, is `AnsweredIsPublished`, and that no other step hides a term is
  `HiddenOnlyInSetNext`.

The modules state more of what the repository says and the code does not keep.
TLC refutes each of them with the cfg that is named when it is put in the place
of that cfg's properties (`INVARIANT`, or `PROPERTY` for the two of `IndexUpdate`):

| statement | cfg | what the code does |
|---|---|---|
| `AvailableIsIdle` (also `NodeHeldOnce`) | `pool`, `Addr <- AddrAgain` | a cnode that was started again registers its old address; when a request gives one of the two records back, the other, which another request works with, becomes idle too (`server.c:315`) |
| `NeverOlder` | `update` | dumps are sent without `M_index` and loaded by a thread each: a node ends with an older index than it had (`server.c:341`, `cnode.c:62`) |
| `SearchIsHarmless` | `update_live` | a search that is served before the first update kills the node (`cnode.c:46`) |
| `PartsCountDocument` | `count` | the byte past the document is counted as a word of it (`data_operation.c:86`, 228) |
| `TopOfEveryTerm` | `search` | `i` counts on from term to term: the third term gets nothing of its short list, and the one document that has all terms is missed (`data_operation.c:645`) |
| `LengthIsReceived` | `message` | `recv` gives a part of the length, and the rest of `len` is what the stack held (`syn_communication.c:104`) |

Further behaviour the models show, and no property forbids:

- The walk of `get_workers_n` uses up a slot for every node that works
  (`server.c:287`); when the last slot is one, the chain ends in a blank record,
  and an agent is started for ip 0, port 0 (`BlankAgent`).
- A node can load a torn dump and have an index the server never had (`Unknown`);
  a search may then kill it.
- A message that is cut off is returned with its full length and loaded as if it
  were whole (`syn_communication.c:113`): the zeros for its rest keep the
  loaders within it (`ReadsWithin`), and a count or an index that lost its rest
  is taken for the real one.
- A search without terms is sent, and read past its end (`EmptyQuery`), by the
  server and the cnode alike; after an update a cnode frees what the stack holds
  (`FreeResp`).
- Documents of clients that do not wait for each other can be lost from the
  index (section 2, `SharedIndex`).

## 7. Not modelled

- *Sizes of fixed buffers.* `word` of `count_doc_part` and `buf` of the loaders
  have 50 or 100 bytes, which no length is compared with. Strings are taken to
  fit.
- *Sizes in bytes in `SharedIndex`*: strings of different lengths would let a
  dump outgrow its memory in more ways than records of one size do.
- *The bytes of an int.* A length is a cell of the stream; that `recv` may return
  part of it is `"short"`.
- *Death of a node inside a request.* The server dies of the agent that waits for
  it, as `IndexUpdate` and `Message` have it, so no request goes on without one
  of its nodes, and a composition of `WorkerPool` with its agents would add
  nothing to the restart.
- *Memory and descriptors.* Leaks and running out of them.
- *The client's address* (`server.c:371`), which is what `accept` returns.
- *Layout and printing*: `name_server_info`, the shell of the client, reading
  files, the printing functions, the choice of a port in `cnode.c: main`, and
  `test.c` beyond how it calls the counting functions. `write_buf_c`, `free_buf`,
  `free_index` and `get_count_term` have no caller in the three programs.

## 8. Plan

Done, in this order: `WorkerPool`, `IndexUpdate` with `SnapshotReplica`, their
proofs, `TermCount` with `Tally`, `Search`; then `SharedIndex`,
`Serialization` and `Message` with the proof of delivery, `LatestIndexSent` with
its proof, liveness of the pool, and the output buffer.

Then all safety properties of `Search`, `TermCount` and `SharedIndex` were
proved, with the lemmas about lists, sums and induction.

Last, the loaders as inverses of the dumps, on whole messages and on cut ones:
the types of `Message`, `ReadsWithin`, `LoadedIsSent` and `OnlyLossConfuses`;
and `Exchange`, the atomic message that the other modules rely on, with the proof
that `Message` implements it. Then the overlap of adds and dumps was brought into
`IndexUpdate`, the byte past the data into `TermCount`, and the pool got a third
node and request; the statements of the repository that this refutes are in section 6.

What is left:

1. Several clients: which guarantees of `SharedIndex` remain when the terms of
   the documents do not meet.
2. `do_index` and `do_retr` as compositions: `WorkerPool` for the nodes,
   `Exchange` for each agent, `Tally` for what comes of their answers.
