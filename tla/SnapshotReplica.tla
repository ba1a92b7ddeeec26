--------------------------- MODULE SnapshotReplica --------------------------
(***************************************************************************)
(* What replicating the index promises: a replica holds no index at all or *)
(* one the server's index once was, in full, as long as no change of it    *)
(* overlapped a copy or another change.  It says nothing of which one of   *)
(* them, nor of going forward only.                                        *)
(***************************************************************************)
CONSTANTS
  Replica,  \* the calculation nodes
  Doc,      \* the documents
  NoIndex,  \* a replica that was never sent an index
  Unknown   \* an index of which nothing is known

VARIABLES
  master,    \* the documents in the server's index
  past,      \* every value master has had
  changing,  \* documents that are being added to it
  copying,   \* is it being copied?
  clash,     \* has a change overlapped a copy or another change?
  replica    \* replica[c]: the documents in the index of c, or NoIndex

vars == <<master, past, changing, copying, clash, replica>>

Init ==
  /\ master = {}
  /\ past = {{}}
  /\ changing = {}
  /\ copying = FALSE
  /\ clash = FALSE
  /\ replica = [c \in Replica |-> NoIndex]

BeginChange(d) ==
  /\ changing' = changing \cup {d}
  /\ clash' = (clash \/ copying \/ changing # {})
  /\ UNCHANGED <<master, past, copying, replica>>

EndChange(d) ==
  /\ d \in changing
  /\ changing' = changing \ {d}
  /\ master' = master \cup {d}
  /\ past' = past \cup {master'}
  /\ UNCHANGED <<copying, clash, replica>>

BeginCopy ==
  /\ ~copying
  /\ copying' = TRUE
  /\ clash' = (clash \/ changing # {})
  /\ UNCHANGED <<master, past, changing, replica>>

EndCopy ==
  /\ copying
  /\ copying' = FALSE
  /\ UNCHANGED <<master, past, changing, clash, replica>>

Install(c) ==
  /\ \E value \in past \cup (IF clash THEN {Unknown} ELSE {}) :
       replica' = [replica EXCEPT ![c] = value]
  /\ UNCHANGED <<master, past, changing, copying, clash>>

Next ==
  \/ \E d \in Doc : BeginChange(d) \/ EndChange(d)
  \/ BeginCopy
  \/ EndCopy
  \/ \E c \in Replica : Install(c)

Spec == Init /\ [][Next]_vars
=============================================================================
