----------------------------- MODULE IndexUpdate ----------------------------
(***************************************************************************)
(* How the server's index reaches the calculation nodes: do_update, called *)
(* by do_reg and by do_index in server.c, and the CMD_UPDATE and           *)
(* CMD_RETRIEVE branches of work in cnode.c, which run in a thread per     *)
(* connection.  A node listens before it registers, and accepts nothing    *)
(* until its registration is answered.                                     *)
(*                                                                         *)
(* An index is the set of documents counted in it.  dump_index runs under  *)
(* the mutex M_index, add_count_to_index without it: a dump that overlaps  *)
(* an add is torn, and two adds that overlap may spoil the server's index  *)
(* for good.  What is in an index that came of either is left open here;   *)
(* SharedIndex has their steps.                                            *)
(***************************************************************************)
EXTENDS Naturals, Sequences, FiniteSets

CONSTANTS
  Doc,      \* connections with an INDEX command, one document each
  Node,     \* connections with a REGISTER command, one cnode each
  Query,    \* connections with a RETRIEVE command of one term
  SockBuf,  \* documents of an index that fit into a socket nobody reads
  NoIndex,  \* Dindex of a cnode before its first update: NULL
  Unknown   \* Dindex of a cnode that loaded a torn dump: any index

ASSUME UpdateAssumption ==
  /\ Doc \cap Node = {}
  /\ Query \cap (Doc \cup Node) = {}
  /\ SockBuf \in Nat

VARIABLES
  Dindex,  \* the server's index
  past,    \* history: every value Dindex has had
  list,    \* clist.list, head first
  pc,      \* where each thread of the server is
  pnode,   \* nodes the thread's do_update has still to connect to
  snap,    \* the dump that the thread's do_update sends
  torn,    \* threads whose dump overlapped an add, or came after crossed
  crossed, \* did two adds overlap?
  main,    \* main of each cnode: "off", "regis", "accept" or "dead"
  cindex,  \* Dindex of each cnode
  conn,    \* conn[t][c]: the connection of server thread t to cnode c
  asked,   \* the cnode that a query's agent talks to
  server   \* "running", or "undefined" once nothing is known of it

nodeVars == <<main, cindex>>
updVars == <<pnode, snap, torn, crossed>>
vars == <<Dindex, past, list, pc, updVars, nodeVars, conn, asked, server>>

Update == Doc \cup Node
Thread == Update \cup Query
At(t, label) == server = "running" /\ pc[t] = label
Adding == {d \in Doc : pc[d] = "add"}
Dumping == {t \in Update : pc[t] = "dumping"}
Goto(t, label) == pc' = [pc EXCEPT ![t] = label]
Connect(t, c) == conn' = [conn EXCEPT ![t][c] = "queued"]
ToSet(s) == {s[k] : k \in DOMAIN s}

Init ==
  /\ Dindex = {}
  /\ past = {{}}
  /\ list = <<>>
  /\ pc = [t \in Thread |-> "new"]
  /\ pnode = [t \in Update |-> <<>>]
  /\ snap = [t \in Update |-> {}]
  /\ torn = {}
  /\ crossed = FALSE
  /\ main = [c \in Node |-> "off"]
  /\ cindex = [c \in Node |-> NoIndex]
  /\ conn = [t \in Thread |-> [c \in Node |-> "none"]]
  /\ asked \in [Query -> Node]
  /\ server = "running"

-----------------------------------------------------------------------------
(* Faulty variants of definitions below; no action uses them. *)

PushedTwice(c) == <<c, c>> \o list
SkipNewest(t) == IF list = <<>> THEN <<>> ELSE Tail(list)
OwnPart(t) == Dindex \cap {t}
BufferLess(t, c) == Cardinality(snap[t]) < SockBuf \/ main[c] = "accept"

-----------------------------------------------------------------------------
(* The server's threads. *)

Pushed(c) == <<c>> \o list

\* main of a cnode listens and calls regis; do_reg, up to its do_update.
DoReg(c) ==
  /\ At(c, "new")
  /\ main' = [main EXCEPT ![c] = "regis"]
  /\ list' = Pushed(c)
  /\ Goto(c, "head")
  /\ UNCHANGED <<Dindex, past, updVars, cindex, conn, asked, server>>

\* do_index, its agents done by nodes that accepted, calls add_count_to_index.
BeginAdd(d) ==
  /\ At(d, "new")
  /\ \E c \in ToSet(list) : main[c] \in {"accept", "dead"}
  /\ torn' = torn \cup Dumping
  /\ crossed' = (crossed \/ Adding # {})
  /\ Goto(d, "add")
  /\ UNCHANGED <<Dindex, past, list, pnode, snap, nodeVars, conn, asked, server>>

\* The document is in all its terms' lists.
EndAdd(d) ==
  /\ At(d, "add")
  /\ Dindex' = Dindex \cup {d}
  /\ past' = past \cup {Dindex'}
  /\ Goto(d, "head")
  /\ UNCHANGED <<list, updVars, nodeVars, conn, asked, server>>

Targets(t) == list

\* do_update reads the head of the list first, and without M_clist.
ReadHead(t) ==
  /\ At(t, "head")
  /\ pnode' = [pnode EXCEPT ![t] = Targets(t)]
  /\ Goto(t, "dump")
  /\ UNCHANGED <<Dindex, past, list, snap, torn, crossed, nodeVars, conn, asked,
                 server>>

\* M_index is free, and dump_index begins to measure the index.
BeginDump(t) ==
  /\ At(t, "dump")
  /\ Dumping = {}
  /\ torn' = IF Adding = {} /\ ~crossed THEN torn ELSE torn \cup {t}
  /\ Goto(t, "dumping")
  /\ UNCHANGED <<Dindex, past, list, pnode, snap, crossed, nodeVars, conn, asked,
                 server>>

Dumped(t) == Dindex

Added == {d \in Doc : pc[d] # "new"}

\* Of a torn dump nothing is told by its contents, only by its size: that of an
\* empty index, or up to that of all that was added.
EndDump(t) ==
  /\ At(t, "dumping")
  /\ \E part \in IF t \in torn THEN {{}, Added} ELSE {Dumped(t)} :
       snap' = [snap EXCEPT ![t] = part]
  /\ Goto(t, "connect")
  /\ UNCHANGED <<Dindex, past, list, pnode, torn, crossed, nodeVars, conn, asked,
                 server>>

\* An index that grew since it was measured is written past its dump's memory.
DumpOverruns(t) ==
  /\ At(t, "dumping")
  /\ t \in torn
  /\ server' = "undefined"
  /\ UNCHANGED <<Dindex, past, list, pc, updVars, nodeVars, conn, asked>>

OpenConnection(t) ==
  /\ At(t, "connect")
  /\ pnode[t] # <<>>
  /\ main[Head(pnode[t])] \in {"regis", "accept"}
  /\ Connect(t, Head(pnode[t]))
  /\ Goto(t, "send")
  /\ UNCHANGED <<Dindex, past, list, updVars, nodeVars, asked, server>>

\* connect fails: send_data counts its length up from the size to 2^32 by
\* sends on the descriptor -1, and do_update goes on with the next node.
SkipDeadNode(t) ==
  /\ At(t, "connect")
  /\ pnode[t] # <<>>
  /\ main[Head(pnode[t])] = "dead"
  /\ pnode' = [pnode EXCEPT ![t] = Tail(@)]
  /\ UNCHANGED <<Dindex, past, list, pc, snap, torn, crossed, nodeVars, conn,
                 asked, server>>

\* Can send_data hand over the whole dump: to the kernel, or to a thread of a
\* cnode that accepts connections?
Sendable(t, c) == Cardinality(snap[t]) <= SockBuf \/ main[c] = "accept"

SendDump(t) ==
  LET c == Head(pnode[t]) IN
  /\ At(t, "send")
  /\ main[c] # "dead"
  /\ Sendable(t, c)
  /\ pnode' = [pnode EXCEPT ![t] = Tail(@)]
  /\ Goto(t, "connect")
  /\ UNCHANGED <<Dindex, past, list, snap, torn, crossed, nodeVars, conn, asked,
                 server>>

\* The node died after the connect: send_data sends twice on a connection
\* that was reset, and the second send raises SIGPIPE, which kills the server.
SendToDead(t) ==
  /\ At(t, "send")
  /\ main[Head(pnode[t])] = "dead"
  /\ server' = "undefined"
  /\ UNCHANGED <<Dindex, past, list, pc, updVars, nodeVars, conn, asked>>

\* do_update is over: dispatch answers; a node that registered goes on.
Reply(t) ==
  /\ At(t, "connect")
  /\ pnode[t] = <<>>
  /\ Goto(t, "done")
  /\ main' = [c \in Node |->
                IF c = t /\ main[c] = "regis" THEN "accept" ELSE main[c]]
  /\ UNCHANGED <<Dindex, past, list, updVars, cindex, conn, asked, server>>

\* retr_agent sends a query to the node that its worker record names.
AskNode(q) ==
  /\ At(q, "new")
  /\ asked[q] \in ToSet(list)
  /\ main[asked[q]] # "dead"
  /\ Connect(q, asked[q])
  /\ Goto(q, "asked")
  /\ UNCHANGED <<Dindex, past, list, updVars, nodeVars, asked, server>>

\* The node is gone: retr_agent reads from the descriptor -1, or gets no data
\* and passes NULL to load_query_rsl.
AgentFails(q) ==
  /\ \/ At(q, "new") /\ asked[q] \in ToSet(list)
     \/ At(q, "asked") /\ conn[q][asked[q]] # "answered"
  /\ main[asked[q]] = "dead"
  /\ server' = "undefined"
  /\ UNCHANGED <<Dindex, past, list, pc, updVars, nodeVars, conn, asked>>

AgentDone(q) ==
  /\ At(q, "asked")
  /\ conn[q][asked[q]] = "answered"
  /\ Goto(q, "done")
  /\ UNCHANGED <<Dindex, past, list, updVars, nodeVars, conn, asked, server>>

-----------------------------------------------------------------------------
(* The cnodes: once main accepts, one thread per connection, which run in no *)
(* particular order.                                                         *)

Sending(t, c) == pc[t] = "send" /\ Head(pnode[t]) = c

Loaded(t) == IF t \in torn THEN Unknown ELSE snap[t]

\* work, CMD_UPDATE: the whole dump was received, and replaces the index.  At
\* its end the thread frees resp, which no one has set: what earlier threads
\* left on the stack is NULL, or a pointer that was freed, and the node dies.
LoadUpdate(t, c) ==
  /\ t \in Update
  /\ main[c] = "accept"
  /\ conn[t][c] = "queued"
  /\ ~Sending(t, c)
  /\ cindex' = [cindex EXCEPT ![c] = Loaded(t)]
  /\ conn' = [conn EXCEPT ![t][c] = "loaded"]
  /\ \E after \in {"accept", "dead"} : main' = [main EXCEPT ![c] = after]
  /\ UNCHANGED <<Dindex, past, list, pc, updVars, asked, server>>

\* work, CMD_RETRIEVE.
Answer(q, c) ==
  /\ q \in Query
  /\ main[c] = "accept"
  /\ conn[q][c] = "queued"
  /\ cindex[c] # NoIndex
  /\ conn' = [conn EXCEPT ![q][c] = "answered"]
  /\ UNCHANGED <<Dindex, past, list, pc, updVars, nodeVars, asked, server>>

\* retrieve_f_index reads through the NULL index, or through whatever pointers
\* load_index made of a torn dump.
SearchFaults(q, c) ==
  /\ q \in Query
  /\ main[c] = "accept"
  /\ conn[q][c] = "queued"
  /\ cindex[c] \in {NoIndex, Unknown}
  /\ main' = [main EXCEPT ![c] = "dead"]
  /\ UNCHANGED <<Dindex, past, list, pc, updVars, cindex, conn, asked, server>>

-----------------------------------------------------------------------------
\* What a thread in do_update does.
DoUpdate(t) ==
  \/ ReadHead(t)
  \/ BeginDump(t)
  \/ EndDump(t)
  \/ DumpOverruns(t)
  \/ OpenConnection(t)
  \/ SkipDeadNode(t)
  \/ SendDump(t)
  \/ SendToDead(t)
  \/ Reply(t)

Search(q) ==
  \/ AskNode(q)
  \/ AgentFails(q)
  \/ AgentDone(q)

Work(t, c) ==
  \/ LoadUpdate(t, c)
  \/ Answer(t, c)
  \/ SearchFaults(t, c)

Next ==
  \/ \E c \in Node : DoReg(c)
  \/ \E d \in Doc : BeginAdd(d) \/ EndAdd(d)
  \/ \E t \in Update : DoUpdate(t)
  \/ \E q \in Query : Search(q)
  \/ \E t \in Thread, c \in Node : Work(t, c)

Spec == Init /\ [][Next]_vars

\* A thread that was started is scheduled, and so are those of a cnode.  A walk
\* along links that two adds have spoiled need not come to an end.
FairSpec ==
  /\ Spec
  /\ \A d \in Doc : WF_vars(~crossed /\ EndAdd(d))
  /\ \A q \in Query : WF_vars(pc[q] = "asked" /\ Search(q))
  /\ \A t \in Update : WF_vars(~crossed /\ DoUpdate(t))
  /\ \A t \in Thread, c \in Node : WF_vars(Work(t, c))

-----------------------------------------------------------------------------
(* Properties. *)

\* Every variable stays in its domain; no node is in the list twice.
TypeOK ==
  /\ Dindex \subseteq Doc
  /\ past \subseteq SUBSET Doc
  /\ list \in Seq(Node)
  /\ \A j, k \in DOMAIN list : list[j] = list[k] => j = k
  /\ pc \in [Thread -> {"new", "add", "head", "dump", "dumping", "connect",
                        "send", "asked", "done"}]
  /\ pnode \in [Update -> Seq(Node)]
  /\ snap \in [Update -> SUBSET Doc]
  /\ torn \subseteq Update
  /\ crossed \in BOOLEAN
  /\ main \in [Node -> {"off", "regis", "accept", "dead"}]
  /\ cindex \in [Node -> {NoIndex, Unknown} \cup SUBSET Doc]
  /\ conn \in [Thread -> [Node -> {"none", "queued", "loaded", "answered"}]]
  /\ asked \in [Query -> Node]
  /\ server \in {"running", "undefined"}

\* A whole dump with document d was sent, or is being sent, to node c by t.
SentTo(t, c, d) == conn[t][c] # "none" /\ t \notin torn /\ d \in snap[t]

\* The indexing of e, still under way, will send such a dump to node c.
WillSend(e, c, d) ==
  \/ pc[e] \in {"add", "head"}
  \/ /\ c \in ToSet(pnode[e])
     /\ e \notin torn
     /\ pc[e] \in {"dump", "dumping"} \/ d \in snap[e]

\* No document falls between a registration and the indexings that run at the
\* same time, though do_update reads the list without M_clist, before it dumps
\* the index, and adds tear its dump: once the registration of c and the
\* indexing of d are answered, c has been sent a whole index with d, or is going
\* to be by an indexing still under way.
EveryNodeIsSentEveryDoc ==
  ~crossed =>
    \A c \in Node, d \in Doc :
      pc[c] = "done" /\ pc[d] = "done" /\ main[c] # "dead" =>
        \/ \E t \in Doc \cup {c} : SentTo(t, c, d)
        \/ \E e \in Doc : WillSend(e, c, d)

\* Whenever no indexing is under way, each node that is registered has been
\* sent the index as it is now, whole, by whatever thread: of the updates that
\* overlap, are made from older indexes or are torn, one at least is up to date
\* at every node.
LatestIndexSent ==
  ~crossed /\ (\A d \in Doc : pc[d] \in {"new", "done"}) =>
    \A c \in Node : pc[c] = "done" /\ main[c] # "dead" =>
      \E t \in Doc \cup {c} :
        conn[t][c] # "none" /\ t \notin torn /\ snap[t] = Dindex

\* As long as no add overlapped a dump or another add, a cnode searches a whole
\* index that the server once had, or none: what SnapshotReplica promises.
Promise == INSTANCE SnapshotReplica
             WITH Replica <- Node, master <- Dindex, replica <- cindex,
                  changing <- Adding, copying <- Dumping # {},
                  clash <- torn # {} \/ crossed
SnapshotsOnly == Promise!Spec

\* Nothing is known of the server, or of what its threads still do.
Spoiled == server = "undefined" \/ crossed

\* All registrations that have begun are answered, and their cnodes go on to
\* accept, unless a cnode that died takes the server with it, or adds overlap.
RegistrationCompletes ==
  []<>(Spoiled \/ \A c \in Node : pc[c] \in {"new", "done"})

\* All nodes catch up with the updates that were sent to them, whatever threads
\* sent them and however busy the nodes are with their own registrations, but
\* those that die, unless nothing is known of the server.
UpdatesAreLoaded ==
  []<>(\/ Spoiled
       \/ \A c \in Node : \/ main[c] = "dead"
                           \/ \A t \in Update : conn[t][c] # "queued")

\* All searches that were sent to a node end, though the node may still be in its
\* registration then, or die of the search.
SearchesEnd ==
  []<>(Spoiled \/ \A q \in Query : pc[q] # "asked")

-----------------------------------------------------------------------------
(* Statements of the repository that the code does not keep. *)

\* cnode.c:60 "update index": what CMD_UPDATE replaces an index by is never
\* older than that index, in whatever order the updates arrive.
NeverOlder ==
  [][\A c \in Node :
       cindex[c] \notin {NoIndex, Unknown} /\ cindex'[c] # Unknown
         => cindex[c] \subseteq cindex'[c]]_vars

\* README.md:44 "cnode.h/c : indexing or retrieving data": a search does not
\* kill a cnode that no update has reached yet.
SearchIsHarmless ==
  [][\A c \in Node :
       main[c] = "accept" /\ main'[c] = "dead" => cindex'[c] # NoIndex]_vars

=============================================================================
