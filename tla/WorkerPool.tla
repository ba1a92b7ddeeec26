----------------------------- MODULE WorkerPool -----------------------------
(***************************************************************************)
(* The pool of calculation nodes kept by the server (server.c): the list   *)
(* clist of registered nodes, its two counters, the mutex M_clist and the  *)
(* counting semaphore S_num_node.  A registration thread runs do_reg; a    *)
(* request thread runs get_workers / get_workers_n, lets its agents talk   *)
(* to the nodes it got, and runs free_workers.                             *)
(*                                                                         *)
(* Every read of clist outside the mutex is a step of its own, and so is   *)
(* every sem_wait, every slot of the walk along the list, and every        *)
(* sem_post: those are the places where other threads can come in between. *)
(***************************************************************************)
EXTENDS Naturals, FiniteSets, Sequences

CONSTANTS
  Req,       \* connections that carry an INDEX or a RETRIEVE command
  Regs,      \* connections that carry a REGISTER command, one cnode each
  Addr,      \* Addr[g]: the <<ip, port>> that g registers
  MaxTerms,  \* bound: terms in one search
  MaxStale,  \* bound: a restart finds fewer permits than this (0: no restart)
  None       \* M_clist is not locked

ASSUME PoolAssumption ==
  /\ Req \cap Regs = {}
  /\ None \notin Req \cup Regs
  /\ MaxTerms \in Nat \ {0}
  /\ MaxStale \in Nat
  /\ Addr = [g \in Regs |-> Addr[g]]

VARIABLES
  list,        \* clist.list, head first
  status,      \* node status; "absent" before the node is in the list
  num_node,    \* clist.num_node
  ava_node,    \* clist.ava_node
  S_num_node,  \* the semaphore's value
  M_clist,     \* the thread that holds the mutex, or None
  pc,          \* where each thread is
  kind,        \* the command of each request
  n,           \* n of get_workers_n, then of free_workers
  i,           \* the loop counter i of those two
  workers,     \* nodes named by the request's worker list
  blank,       \* does that list end in a record no node was written to?
  server,      \* "running", or "undefined": nothing is known after it
  stale        \* history: permits the semaphore had at the last restart

poolVars == <<list, status, num_node, ava_node, S_num_node, M_clist>>
callVars == <<kind, n, i, workers, blank>>
vars == <<poolVars, callVars, pc, server, stale>>

Threads == Req \cup Regs
Idle == {g \in Regs : status[g] = "IDLE"}
Registered == {g \in Regs : status[g] # "absent"}

\* Every step is taken by a thread of a server that still runs.
At(t, label) == server = "running" /\ pc[t] = label

Goto(t, label) == pc' = [pc EXCEPT ![t] = label]

Init ==
  /\ list = <<>>
  /\ status = [g \in Regs |-> "absent"]
  /\ num_node = 0
  /\ ava_node = 0
  /\ S_num_node = 0
  /\ M_clist = None
  /\ pc = [t \in Threads |-> "new"]
  /\ kind = [r \in Req |-> "index"]
  /\ n = [r \in Req |-> 0]
  /\ i = [r \in Req |-> 0]
  /\ workers = [r \in Req |-> {}]
  /\ blank = [r \in Req |-> FALSE]
  /\ server = "running"
  /\ stale = 0

-----------------------------------------------------------------------------
(* Faulty variants of definitions below; no action uses them. *)

AnyNode(g) == TRUE
RequestedMany(r) == n[r]
OneTooMany(r) == Cardinality(workers[r]) + 1
HeadOnly(g) == <<g>>
StillLocked(r) == r
WaitAgain(r) == S_num_node - 1

-----------------------------------------------------------------------------
(* do_reg.  The list and the semaphore change under the mutex, before the  *)
(* two counters that requests read without it.                             *)

Pushed(g) == <<g>> \o list

RegPush(g) ==
  /\ At(g, "new")
  /\ M_clist = None
  /\ M_clist' = g
  /\ list' = Pushed(g)
  /\ status' = [status EXCEPT ![g] = "IDLE"]
  /\ S_num_node' = S_num_node + 1
  /\ Goto(g, "num")
  /\ UNCHANGED <<num_node, ava_node, callVars, server, stale>>

RegCountNode(g) ==
  /\ At(g, "num")
  /\ num_node' = num_node + 1
  /\ Goto(g, "ava")
  /\ UNCHANGED <<list, status, ava_node, S_num_node, M_clist, callVars, server,
                 stale>>

RegCountAvailable(g) ==
  /\ At(g, "ava")
  /\ ava_node' = ava_node + 1
  /\ M_clist' = None
  /\ Goto(g, "done")
  /\ UNCHANGED <<list, status, num_node, S_num_node, callVars, server, stale>>

-----------------------------------------------------------------------------
(* get_workers / get_workers_n up to the semaphore: how many workers to    *)
(* ask for, from counters read one at a time and without the mutex.        *)

AtLeastOne(k) == IF k = 0 THEN 1 ELSE k

\* do_index asks for as many workers as ava_node says are available.
StartIndex(r) ==
  /\ At(r, "new")
  /\ n' = [n EXCEPT ![r] = AtLeastOne(ava_node)]
  /\ Goto(r, "check")
  /\ UNCHANGED <<poolVars, kind, i, workers, blank, server, stale>>

\* do_retr asks for one worker per term of the query.
StartRetr(r, terms) ==
  /\ At(r, "new")
  /\ kind' = [kind EXCEPT ![r] = "retr"]
  /\ n' = [n EXCEPT ![r] = terms]
  /\ Goto(r, "check")
  /\ UNCHANGED <<poolVars, i, workers, blank, server, stale>>

CheckNode(r) ==
  /\ At(r, "check")
  /\ num_node >= 1
  /\ Goto(r, "cmpNum")
  /\ UNCHANGED <<poolVars, callVars, server, stale>>

\* Without a node get_workers_n returns 0 and leaves the worker list unset:
\* do_index divides by that 0, do_retr writes through the unset pointer.
NoNode(r) ==
  /\ At(r, "check")
  /\ num_node < 1
  /\ server' = "undefined"
  /\ UNCHANGED <<poolVars, callVars, pc, stale>>

MoreThanNodes(r) == n[r] > num_node

CompareNum(r) ==
  /\ At(r, "cmpNum")
  /\ Goto(r, IF MoreThanNodes(r) THEN "setNum" ELSE "cmpAva")
  /\ UNCHANGED <<poolVars, callVars, server, stale>>

SetNum(r) ==
  /\ At(r, "setNum")
  /\ n' = [n EXCEPT ![r] = AtLeastOne(num_node)]
  /\ Goto(r, "wait")
  /\ UNCHANGED <<poolVars, kind, i, workers, blank, server, stale>>

CompareAva(r) ==
  /\ At(r, "cmpAva")
  /\ Goto(r, IF n[r] > ava_node THEN "setAva" ELSE "wait")
  /\ UNCHANGED <<poolVars, callVars, server, stale>>

SetAva(r) ==
  /\ At(r, "setAva")
  /\ n' = [n EXCEPT ![r] = AtLeastOne(ava_node)]
  /\ Goto(r, "wait")
  /\ UNCHANGED <<poolVars, kind, i, workers, blank, server, stale>>

-----------------------------------------------------------------------------
(* get_workers_n from the semaphore on: n permits one by one, then one     *)
(* step per slot of the walk along the list, under the mutex.              *)

SemWait(r) ==
  /\ At(r, "wait")
  /\ i[r] < n[r]
  /\ S_num_node > 0
  /\ S_num_node' = S_num_node - 1
  /\ i' = [i EXCEPT ![r] = @ + 1]
  /\ UNCHANGED <<list, status, num_node, ava_node, M_clist, kind, n, workers,
                 blank, pc, server, stale>>

LockPool(r) ==
  /\ At(r, "wait")
  /\ i[r] = n[r]
  /\ M_clist = None
  /\ M_clist' = r
  /\ i' = [i EXCEPT ![r] = 0]
  /\ Goto(r, "scan")
  /\ UNCHANGED <<list, status, num_node, ava_node, S_num_node, kind, n,
                 workers, blank, server, stale>>

Available(g) == status[g] = "IDLE"

\* One slot of the walk.  A node that is not IDLE uses its slot up.  The walk
\* has no step at the end of the list, where the code prints "Error!" and
\* returns with the mutex locked: WalkStaysInList says no call gets there.
ScanSlot(r) ==
  /\ At(r, "scan")
  /\ i[r] < n[r]
  /\ i[r] < Len(list)
  /\ i' = [i EXCEPT ![r] = @ + 1]
  /\ LET g == list[i[r] + 1] IN
       IF Available(g)
       THEN /\ status' = [status EXCEPT ![g] = "WORKING"]
            /\ ava_node' = ava_node - 1
            /\ workers' = [workers EXCEPT ![r] = @ \cup {g}]
       ELSE UNCHANGED <<status, ava_node, workers>>
  /\ UNCHANGED <<list, num_node, S_num_node, M_clist, kind, n, blank, pc,
                 server, stale>>

\* A record is linked to the next one unless it was written in the last slot.
EndsInBlank(r) == list[n[r]] \notin workers[r]

ChainLength(r) == Cardinality(workers[r]) + (IF EndsInBlank(r) THEN 1 ELSE 0)

\* The owner of the mutex after r has unlocked it.
Unlocked(r) == None

ScanDone(r) ==
  /\ At(r, "scan")
  /\ i[r] = n[r]
  /\ kind[r] = "index" \/ n[r] <= ChainLength(r)
  /\ M_clist' = Unlocked(r)
  /\ blank' = [blank EXCEPT ![r] = EndsInBlank(r)]
  /\ Goto(r, "run")
  /\ UNCHANGED <<list, status, num_node, ava_node, S_num_node, kind, n, i,
                 workers, server, stale>>

\* split_query hands out n parameters along the chain: past its end, NULL.
ShortChain(r) ==
  /\ At(r, "scan")
  /\ i[r] = n[r]
  /\ kind[r] = "retr"
  /\ n[r] > ChainLength(r)
  /\ M_clist' = None
  /\ server' = "undefined"
  /\ UNCHANGED <<list, status, num_node, ava_node, S_num_node, callVars, pc,
                 stale>>

-----------------------------------------------------------------------------
(* The agents, and free_workers. *)

\* The agent of a blank record connects to 0.0.0.0:0, fails, and goes on with
\* the descriptor -1 until receive_data allocates an uninitialised length.
BlankAgent(r) ==
  /\ At(r, "run")
  /\ blank[r]
  /\ server' = "undefined"
  /\ UNCHANGED <<poolVars, callVars, pc, stale>>

SameNode(g, h) == Addr[g] = Addr[h]

Returned(r) == Cardinality(workers[r])

\* All agents joined: one critical section of free_workers.  It is one step,
\* for nothing reads a status but under this mutex, and nothing reads ava_node
\* and a status together.  It finds nodes by their addresses, so a node whose
\* cnode came back on its old port is released with its other record.
FreeLocked(r) ==
  /\ At(r, "run")
  /\ ~blank[r]
  /\ M_clist = None
  /\ status' = [g \in Regs |->
       IF /\ status[g] # "absent"
          /\ \E h \in workers[r] : SameNode(g, h)
       THEN "IDLE" ELSE status[g]]
  /\ ava_node' = ava_node + Returned(r)
  /\ n' = [n EXCEPT ![r] = Returned(r)]
  /\ i' = [i EXCEPT ![r] = 0]
  /\ workers' = [workers EXCEPT ![r] = {}]
  /\ Goto(r, "post")
  /\ UNCHANGED <<list, num_node, S_num_node, M_clist, kind, blank, server,
                 stale>>

OnePost(r) == S_num_node + 1

FreePost(r) ==
  /\ At(r, "post")
  /\ i[r] < n[r]
  /\ S_num_node' = OnePost(r)
  /\ i' = [i EXCEPT ![r] = @ + 1]
  /\ UNCHANGED <<list, status, num_node, ava_node, M_clist, kind, n, workers,
                 blank, pc, server, stale>>

Finish(r) ==
  /\ At(r, "post")
  /\ i[r] = n[r]
  /\ Goto(r, "done")
  /\ UNCHANGED <<poolVars, callVars, server, stale>>

-----------------------------------------------------------------------------
\* The server process is killed or dies, and is started again.  main never
\* reaches sem_unlink, and sem_open does not reset a semaphore that exists, so
\* the semaphore survives.  The cnodes in again are started anew as well.
Restart(again) ==
  /\ S_num_node < MaxStale
  /\ list' = <<>>
  /\ status' = [g \in Regs |-> "absent"]
  /\ num_node' = 0
  /\ ava_node' = 0
  /\ M_clist' = None
  /\ pc' = [t \in Threads |->
              IF pc[t] = "new" \/ t \in again THEN "new" ELSE "done"]
  /\ workers' = [r \in Req |-> {}]
  /\ blank' = [r \in Req |-> FALSE]
  /\ server' = "running"
  /\ stale' = S_num_node
  /\ UNCHANGED <<S_num_node, kind, n, i>>

-----------------------------------------------------------------------------
Register(g) ==
  \/ RegPush(g)
  \/ RegCountNode(g)
  \/ RegCountAvailable(g)

\* What a request thread does once it is started.
Run(r) ==
  \/ CheckNode(r)
  \/ NoNode(r)
  \/ CompareNum(r)
  \/ SetNum(r)
  \/ CompareAva(r)
  \/ SetAva(r)
  \/ SemWait(r)
  \/ LockPool(r)
  \/ ScanSlot(r)
  \/ ScanDone(r)
  \/ ShortChain(r)
  \/ BlankAgent(r)
  \/ FreeLocked(r)
  \/ FreePost(r)
  \/ Finish(r)

Start(r) ==
  \/ StartIndex(r)
  \/ \E terms \in 1..MaxTerms : StartRetr(r, terms)

Next ==
  \/ \E g \in Regs : Register(g)
  \/ \E r \in Req : Start(r)
  \/ \E r \in Req : Run(r)
  \/ \E again \in SUBSET Regs : Restart(again)

Spec == Init /\ [][Next]_vars

\* A started thread is scheduled; no connection, of a client or of a cnode, has
\* to arrive.
Fairness ==
  /\ \A r \in Req : WF_vars(Run(r))
  /\ \A g \in Regs : WF_vars(RegCountNode(g) \/ RegCountAvailable(g))

FairSpec == Spec /\ Fairness

-----------------------------------------------------------------------------
(* Properties. *)

\* Every variable of the pool and of its callers stays in its domain.
TypeOK ==
  /\ list \in Seq(Regs)
  /\ status \in [Regs -> {"absent", "IDLE", "WORKING"}]
  /\ num_node \in Nat
  /\ ava_node \in Nat
  /\ S_num_node \in Nat
  /\ M_clist \in Threads \cup {None}
  /\ pc \in [Threads -> {"new", "num", "ava", "check", "cmpNum", "setNum",
                         "cmpAva", "setAva", "wait", "scan", "run", "post",
                         "done"}]
  /\ kind \in [Req -> {"index", "retr"}]
  /\ n \in [Req -> Nat]
  /\ i \in [Req -> Nat]
  /\ workers \in [Req -> SUBSET Regs]
  /\ blank \in [Req -> BOOLEAN]
  /\ server \in {"running", "undefined"}
  /\ stale \in Nat

\* Each address is registered once: no cnode came back on an old port.
DistinctAddrs == \A g, h \in Regs : Addr[g] = Addr[h] => g = h

\* Two requests never work with the same node, and a node some request works
\* with is never IDLE, whatever other requests take and give back meanwhile.
NodeHeldOnce ==
  \A r \in Req : \A g \in workers[r] :
    /\ status[g] = "WORKING"
    /\ \A q \in Req \ {r} : g \notin workers[q]

\* Whenever no registration is half done, the counters that requests read
\* without the mutex tell the truth about the list: num_node its length, and
\* ava_node how many of its nodes are IDLE, even in the middle of a walk.
CountersMatchList ==
  M_clist \notin Regs => /\ num_node = Len(list)
                         /\ ava_node = Cardinality(Idle)

\* Permits that r holds, or still has to give back, and no node stands for.
Claim(r) ==
  IF pc[r] = "wait" THEN i[r]
  ELSE IF pc[r] \in {"scan", "post"} THEN n[r] - i[r] ELSE 0

Claims == UNION {{r} \X (1..Claim(r)) : r \in Req}

\* Every permit, in the semaphore or in a request's hands, is backed by an
\* IDLE node of its own, but for those the semaphore kept over a restart:
\* sem_wait never lets a request in while too few nodes are idle, and a worker
\* record stays blank only because the walk gave up.
PermitsBacked == S_num_node + Cardinality(Claims) <= Cardinality(Idle) + stale

\* The "Error!" branch of get_workers_n, which returns with M_clist locked, is
\* never taken: the walk meets no end of the list before its n-th slot.
WalkStaysInList ==
  \A r \in Req : pc[r] = "scan" /\ i[r] < n[r] => i[r] < Len(list)

\* The server is out of permits: none is left, no one holds the mutex, and all
\* requests that run are in sem_wait, short of some.
OutOfPermits ==
  /\ S_num_node = 0
  /\ M_clist = None
  /\ \E r \in Req : pc[r] = "wait"
  /\ \A r \in Req : \/ pc[r] \in {"new", "done"}
                    \/ pc[r] = "wait" /\ i[r] < n[r]

\* Whatever nodes are taken, given back or pushed meanwhile, all requests that
\* were started come to their end, unless a call is undefined or the server runs
\* out of permits altogether: none is left behind while others, or a mutex that
\* no one unlocks, keep it waiting.
RequestsFinish ==
  []<>(\/ \A r \in Req : pc[r] \in {"new", "done"}
       \/ OutOfPermits
       \/ server = "undefined")

-----------------------------------------------------------------------------
(* Statements of the repository that the code does not keep. *)

\* README.md:36 "N which is the number of index_agent ... are depended on the
\* total cnode and availbe cnode(IDLE cnode)": requests are not all stuck in
\* sem_wait while every node is IDLE, be it that they hold the permits of these
\* nodes among them, or that permits were taken and not posted any more.
NoneStuckWhileIdle ==
  ~(OutOfPermits /\ Registered # {} /\ Registered = Idle)

\* The same line calls a node available if it is IDLE: ava_node, by which a
\* request chooses N, is the number of IDLE nodes, also when a cnode was killed
\* and has registered again from its old port.
AvailableIsIdle == M_clist \notin Regs => ava_node = Cardinality(Idle)

=============================================================================
