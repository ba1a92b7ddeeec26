---------------------------- MODULE MCWorkerPool ----------------------------
(* Values of the constants of WorkerPool for TLC. *)
EXTENDS WorkerPool, TLC

CONSTANTS r1, r2, r3, c1, c2, c3

\* Nodes of one host are told apart by their ports.
AddrThreeNodes ==
  (c1 :> <<"ip1", 9140>>) @@ (c2 :> <<"ip1", 9141>>) @@ (c3 :> <<"ip1", 9142>>)

\* c2 is c1's cnode, started again after a kill: cnode.c looks for a port from
\* 9140 up, so it finds the port it had before.
AddrAgain ==
  (c1 :> <<"ip1", 9140>>) @@ (c2 :> <<"ip1", 9140>>) @@ (c3 :> <<"ip1", 9141>>)

Symmetry == Permutations(Req)

\* The server with these nodes in its list, of which each request r that works
\* has the set held[r], and threads where label says.
StartFrom(nodes, held, label) ==
  LET working == UNION {held[r] : r \in Req} IN
  /\ list = nodes
  /\ status = [g \in Regs |->
       IF g \in working THEN "WORKING"
       ELSE IF \E k \in DOMAIN nodes : nodes[k] = g THEN "IDLE" ELSE "absent"]
  /\ num_node = Len(nodes)
  /\ ava_node = Len(nodes) - Cardinality(working)
  /\ S_num_node = ava_node
  /\ M_clist = None
  /\ pc = label
  /\ kind = [r \in Req |-> IF held[r] = {} THEN "index" ELSE "retr"]
  /\ n = [r \in Req |-> Cardinality(held[r])]
  /\ i = n
  /\ workers = held
  /\ blank = [r \in Req |-> FALSE]
  /\ server = "running"
  /\ stale = 0

\* Two requests, beside the registrations: r3 never comes.
TwoRequests ==
  StartFrom(<<>>, [r \in Req |-> {}],
            [t \in Threads |-> IF t = r3 THEN "done" ELSE "new"])

\* Three requests, once all nodes have registered: r1 searches for one term, and
\* works with the node at the head of the list.  Spec reaches this state.
ThreeRequests ==
  StartFrom(<<c1, c2, c3>>, [r \in Req |-> IF r = r1 THEN {c1} ELSE {}],
            [t \in Threads |-> IF t \in Regs THEN "done"
                               ELSE IF t = r1 THEN "run" ELSE "new"])

\* Three requests beside registrations are too many states for TLC's liveness.
PoolSpec == (TwoRequests \/ ThreeRequests) /\ [][Next]_vars /\ Fairness
=============================================================================
