-------------------------- MODULE IndexUpdate_proofs ------------------------
(***************************************************************************)
(* Proofs about IndexUpdate, for any number of documents, nodes, queries   *)
(* and any socket buffer: its types, that every document is sent to every  *)
(* node whatever registrations and indexings overlap, and that the nodes   *)
(* hold what SnapshotReplica promises.                                     *)
(***************************************************************************)
EXTENDS IndexUpdate, TLAPS

\* How far the thread t has come in do_update.
HasRead(t) == pc[t] \notin {"new", "add", "head"}
HasDumped(t) == HasRead(t) /\ pc[t] \notin {"dump", "dumping"}

Begun(t) == pc[t] # "new"

\* The thread t has connected to node c, has still to, or need not.
Covers(t, c) ==
  \/ conn[t][c] # "none"
  \/ c \in ToSet(pnode[t])
  \/ main[c] = "dead"

\* The list holds the nodes whose registration has begun.
ListInv ==
  /\ \A c \in Node : c \in ToSet(list) <=> pc[c] # "new"
  /\ \A c \in Node : pc[c] = "new" => main[c] = "off"

\* Where a thread is tells what it has left to do.
ThreadInv ==
  /\ \A t \in Update :
       /\ pc[t] # "asked"
       /\ pc[t] = "send" => pnode[t] # <<>> /\ conn[t][Head(pnode[t])] # "none"
       /\ pc[t] = "done" => pnode[t] = <<>>
       /\ ~HasDumped(t) => \A c \in Node : conn[t][c] = "none"
  /\ \A c \in Node : HasRead(c) => Covers(c, c)
  /\ \A d \in Doc : Begun(d) /\ pc[d] # "add" => d \in Dindex

\* Dumps are torn one at a time, and not before they begin.
DumpInv ==
  /\ \A t \in torn : HasDumped(t) \/ pc[t] = "dumping"
  /\ \A t, u \in Dumping : t = u
  /\ torn # {} \/ crossed => Adding # {} \/ Dindex # {}

\* A whole dump is the index as it once was.
PastInv ==
  /\ Dindex \in past
  /\ \A t \in Update \ torn : snap[t] \in past

\* The thread t sends, has sent or will send node c a whole dump with d.
Carries(t, c, d) ==
  /\ Begun(t)
  /\ t \notin torn
  /\ HasRead(t) => Covers(t, c)
  /\ HasDumped(t) => d \in snap[t]

\* Each document of the index has someone to carry it to each node.
CarrierInv ==
  ~crossed =>
    \A c \in Node, d \in Dindex :
      Begun(c) => \E t \in Doc \cup {c} : Carries(t, c, d)

\* The indexing of d dumps the index as it is now, and covers all nodes but
\* those whose registration dumps it as it is now.
UpToDate(d) ==
  /\ d \notin torn
  /\ HasDumped(d) => snap[d] = Dindex
  /\ \A c \in Node : HasRead(d) =>
       \/ Covers(d, c)
       \/ c \notin torn /\ (HasDumped(c) => snap[c] = Dindex)

\* Between two adds one of the indexings is up to date: the last one to change
\* the index.
LatestInv ==
  /\ \A t \in Update \ torn : snap[t] \subseteq Dindex
  /\ \A d \in Dindex : Begun(d)
  /\ ~crossed /\ Adding = {} => Dindex = {} \/ \E d \in Dindex : UpToDate(d)

IInv ==
  /\ TypeOK
  /\ ListInv
  /\ ThreadInv
  /\ DumpInv
  /\ PastInv
  /\ CarrierInv
  /\ LatestInv

-----------------------------------------------------------------------------
(* Lists of nodes. *)

\* do_reg's push puts one node in the list.
LEMMA ToSetPush ==
  ASSUME NEW s \in Seq(Node), NEW c \in Node
  PROVE  /\ <<c>> \o s \in Seq(Node)
         /\ ToSet(<<c>> \o s) = ToSet(s) \cup {c}
<1> DEFINE p == <<c>> \o s
<1>1. p \in Seq(Node) /\ Len(p) = Len(s) + 1
  OBVIOUS
<1>2. p[1] = c /\ \A k \in 1..Len(s) : p[k + 1] = s[k]
  OBVIOUS
<1>3. \A k \in 1..Len(p) : k = 1 \/ (k - 1 \in 1..Len(s) /\ p[k] = s[k - 1])
  BY <1>1
<1>4. ToSet(p) \subseteq ToSet(s) \cup {c}
  BY <1>1, <1>2, <1>3 DEF ToSet
<1>5. ToSet(s) \cup {c} \subseteq ToSet(p)
  <2>1. \A k \in 1..Len(s) : k + 1 \in 1..Len(p) /\ p[k + 1] = s[k]
    BY <1>1, <1>2
  <2>2. 1 \in 1..Len(p)
    BY <1>1
  <2>3. DOMAIN p = 1..Len(p) /\ DOMAIN s = 1..Len(s)
    BY <1>1
  <2> HIDE DEF p
  <2>4. c \in ToSet(p)
    BY <1>2, <2>2, <2>3 DEF ToSet
  <2>5. ASSUME NEW k \in 1..Len(s)
        PROVE  s[k] \in ToSet(p)
    BY <2>1, <2>3 DEF ToSet
  <2> QED
    BY <2>3, <2>4, <2>5 DEF ToSet
<1> QED
  BY <1>1, <1>4, <1>5

\* A push of a new node repeats none.
LEMMA PushInjective ==
  ASSUME NEW s \in Seq(Node), NEW c \in Node, c \notin ToSet(s),
         \A j, k \in DOMAIN s : s[j] = s[k] => j = k
  PROVE  LET p == <<c>> \o s
         IN  \A j, k \in DOMAIN p : p[j] = p[k] => j = k
<1> DEFINE p == <<c>> \o s
<1>1. /\ Len(s) \in Nat /\ Len(p) = Len(s) + 1
      /\ DOMAIN p = 1..Len(p) /\ DOMAIN s = 1..Len(s)
  OBVIOUS
<1>2. p[1] = c /\ \A k \in 1..Len(s) : p[k + 1] = s[k]
  OBVIOUS
<1> HIDE DEF p
<1>3. \A k \in 1..Len(p) : k = 1 \/ (k - 1 \in 1..Len(s) /\ p[k] = s[k - 1])
  BY <1>1, <1>2
<1>4. \A k \in 1..Len(s) : s[k] # c
  BY <1>1 DEF ToSet
<1>5. ASSUME NEW j \in 1..Len(p), NEW k \in 1..Len(p), p[j] = p[k]
      PROVE  j = k
  <2>1. CASE j = 1 \/ k = 1
    BY <1>1, <1>2, <1>3, <1>4, <1>5, <2>1
  <2>2. CASE j # 1 /\ k # 1
    <3>1. /\ j - 1 \in DOMAIN s /\ k - 1 \in DOMAIN s
          /\ s[j - 1] = s[k - 1]
      BY <1>1, <1>3, <1>5, <2>2
    <3> QED
      BY <3>1
  <2> QED
    BY <2>1, <2>2
<1> QED
  BY <1>1, <1>5 DEF p

\* A list has its head and what is behind it.
LEMMA ToSetTail ==
  ASSUME NEW s \in Seq(Node), s # <<>>
  PROVE  /\ Head(s) \in Node /\ Tail(s) \in Seq(Node)
         /\ ToSet(s) = ToSet(Tail(s)) \cup {Head(s)}
<1>1. Len(s) \in Nat /\ Len(s) >= 1 /\ Tail(s) \in Seq(Node)
      /\ Len(Tail(s)) = Len(s) - 1 /\ Head(s) = s[1] /\ Head(s) \in Node
  OBVIOUS
<1>2. \A k \in 1..Len(Tail(s)) : Tail(s)[k] = s[k + 1]
  BY <1>1
<1>3. \A k \in 1..Len(s) : k = 1 \/ k - 1 \in 1..Len(Tail(s))
  BY <1>1
<1>4. ToSet(s) \subseteq ToSet(Tail(s)) \cup {Head(s)}
  <2> SUFFICES ASSUME NEW k \in 1..Len(s)
               PROVE  s[k] \in ToSet(Tail(s)) \cup {Head(s)}
    BY DEF ToSet
  <2>1. CASE k = 1
    BY <1>1, <2>1
  <2>2. CASE k - 1 \in 1..Len(Tail(s))
    <3>1. Tail(s)[k - 1] = s[k]
      BY <1>2, <2>2
    <3>2. DOMAIN Tail(s) = 1..Len(Tail(s))
      BY <1>1
    <3> QED
      BY <2>2, <3>1, <3>2 DEF ToSet
  <2> QED
    BY <1>3, <2>1, <2>2
<1>5. ToSet(Tail(s)) \cup {Head(s)} \subseteq ToSet(s)
  BY <1>1, <1>2 DEF ToSet
<1> QED
  BY <1>1, <1>4, <1>5

-----------------------------------------------------------------------------
(* The initial state. *)

\* The invariant holds before anyone has registered.
LEMMA InitIInv == Init => IInv
<1> SUFFICES ASSUME Init
             PROVE  IInv
  OBVIOUS
<1> USE UpdateAssumption DEF Init, Update, Thread
<1>1. TypeOK
  <2>1. /\ <<>> \in Seq(Node)
        /\ \A j, k \in DOMAIN <<>> : <<>>[j] = <<>>[k] => j = k
    OBVIOUS
  <2>2. /\ pc \in [Thread -> {"new"}]
        /\ conn \in [Thread -> [Node -> {"none"}]]
        /\ main \in [Node -> {"off"}]
        /\ cindex \in [Node -> {NoIndex}]
    OBVIOUS
  <2>3. pnode \in [Update -> Seq(Node)] /\ snap \in [Update -> SUBSET Doc]
    OBVIOUS
  <2> QED
    BY <2>1, <2>2, <2>3 DEF TypeOK
<1>2. ToSet(<<>>) = {}
  BY DEF ToSet
<1>3. ListInv /\ ThreadInv /\ PastInv
  BY <1>2 DEF ListInv, ThreadInv, PastInv, HasRead, HasDumped, Begun
<1>4. DumpInv /\ CarrierInv /\ LatestInv
  BY DEF DumpInv, Dumping, CarrierInv, LatestInv
<1> QED
  BY <1>1, <1>3, <1>4 DEF IInv

-----------------------------------------------------------------------------
(* The server's threads. *)

\* DoReg keeps the invariant.
LEMMA DoRegKeeps ==
  ASSUME IInv, NEW c \in Node, DoReg(c)
  PROVE  IInv'
<1> USE UpdateAssumption DEF DoReg, At, Goto, updVars, Update, Thread
<1>1. /\ TypeOK /\ ListInv /\ ThreadInv /\ DumpInv
      /\ PastInv /\ CarrierInv /\ LatestInv
  BY DEF IInv
<1>2. list' \in Seq(Node) /\ ToSet(list') = ToSet(list) \cup {c}
  BY <1>1, ToSetPush DEF TypeOK, Pushed
<1>3. c \notin ToSet(list) /\ main[c] = "off"
  BY <1>1 DEF ListInv
<1>4. \A j, k \in DOMAIN list' : list'[j] = list'[k] => j = k
  BY <1>1, <1>3, PushInjective DEF TypeOK, Pushed
<1>5. TypeOK'
  BY <1>1, <1>2, <1>4 DEF TypeOK
<1>6. ListInv'
  BY <1>1, <1>2 DEF TypeOK, ListInv
<1>7. /\ pc'[c] = "head" /\ pc[c] = "new"
      /\ \A t \in Thread \ {c} : pc'[t] = pc[t]
  BY <1>1 DEF TypeOK
<1>8. \A t \in Update : /\ HasRead(t)' = HasRead(t)
                        /\ HasDumped(t)' = HasDumped(t)
                        /\ Begun(t) => Begun(t)'
  BY <1>7 DEF HasRead, HasDumped, Begun
<1>9. \A t \in Update, b \in Node : Covers(t, b) => Covers(t, b)'
  BY <1>1, <1>3 DEF TypeOK, Covers
<1>10. Adding' = Adding /\ Dumping' = Dumping
  BY <1>7 DEF Adding, Dumping
<1>11. ThreadInv'
  <2>1. \A d \in Doc : pc'[d] = pc[d]
    BY <1>7
  <2> QED
    BY <1>1, <1>7, <1>8, <1>9, <2>1 DEF ThreadInv, Begun
<1>12. DumpInv' /\ PastInv'
  <2>1. torn \subseteq Update
    BY <1>1 DEF TypeOK
  <2> QED
    BY <1>1, <1>7, <1>8, <1>10, <2>1 DEF DumpInv, PastInv
<1>13. CarrierInv'
  <2> SUFFICES ASSUME ~crossed, NEW b \in Node, NEW d \in Dindex, Begun(b)'
               PROVE  \E t \in Doc \cup {b} : Carries(t, b, d)'
    BY DEF CarrierInv
  <2>1. CASE b = c
    BY <1>1, <1>7, <2>1 DEF DumpInv, Carries, Begun, HasRead, HasDumped
  <2>2. CASE b # c
    <3>1. Begun(b)
      BY <1>7, <2>2 DEF Begun
    <3>2. PICK t \in Doc \cup {b} : Carries(t, b, d)
      BY <1>1, <3>1 DEF CarrierInv
    <3>3. Carries(t, b, d)'
      BY <1>8, <1>9, <3>2 DEF Carries
    <3> QED
      BY <3>3
  <2> QED
    BY <2>1, <2>2
<1>14. LatestInv'
  <2>1. Dindex \subseteq Update
    BY <1>1 DEF TypeOK
  <2>2. ASSUME NEW d \in Dindex, UpToDate(d)
        PROVE  UpToDate(d)'
    BY <1>8, <1>9, <2>1, <2>2 DEF UpToDate
  <2> QED
    BY <1>1, <1>8, <1>10, <2>1, <2>2 DEF LatestInv
<1> QED
  BY <1>5, <1>6, <1>11, <1>12, <1>13, <1>14 DEF IInv

\* A thread that adds its document will carry the whole index to every node.
LEMMA AdderCarries ==
  ASSUME TypeOK, DumpInv, NEW e \in Adding, NEW c, NEW d
  PROVE  Carries(e, c, d)
BY DEF DumpInv, Adding, Carries, Begun, HasRead, HasDumped

\* BeginAdd keeps the invariant.
LEMMA BeginAddKeeps ==
  ASSUME IInv, NEW d \in Doc, BeginAdd(d)
  PROVE  IInv'
<1> USE UpdateAssumption DEF BeginAdd, At, Goto, nodeVars, Update, Thread
<1>1. /\ TypeOK /\ ListInv /\ ThreadInv /\ DumpInv
      /\ PastInv /\ CarrierInv /\ LatestInv
  BY DEF IInv
<1>2. /\ pc'[d] = "add" /\ pc[d] = "new"
      /\ \A t \in Thread \ {d} : pc'[t] = pc[t]
  BY <1>1 DEF TypeOK
<1>3. d \in Adding' /\ Dumping' = Dumping /\ Dumping \subseteq Update
  BY <1>2 DEF Adding, Dumping
<1>4. TypeOK'
  BY <1>1, <1>3 DEF TypeOK
<1>5. \A t \in Update : /\ HasRead(t)' = HasRead(t)
                        /\ HasDumped(t)' = HasDumped(t)
                        /\ Begun(t) => Begun(t)'
  BY <1>2 DEF HasRead, HasDumped, Begun
<1>6. ListInv'
  BY <1>1, <1>2 DEF ListInv
<1>7. ThreadInv'
  BY <1>1, <1>2, <1>5 DEF ThreadInv, Covers, Begun
<1>8. DumpInv'
  <2>1. ASSUME NEW t \in torn'
        PROVE  HasDumped(t)' \/ pc'[t] = "dumping"
    <3>1. t \in Update /\ (HasDumped(t) \/ pc[t] = "dumping")
      BY <1>1, <2>1 DEF TypeOK, DumpInv, Dumping
    <3> QED
      BY <1>2, <1>5, <3>1
  <2> QED
    BY <1>1, <1>3, <2>1 DEF DumpInv
<1>9. PastInv'
  BY <1>1 DEF PastInv
<1>10. CarrierInv'
  BY <1>3, <1>4, <1>8, AdderCarries DEF CarrierInv, Adding, Carries, Begun,
     HasRead, HasDumped, DumpInv
<1>11. LatestInv'
  <2>1. Dindex \subseteq Update
    BY <1>1 DEF TypeOK
  <2> QED
    BY <1>1, <1>3, <1>5, <2>1 DEF LatestInv
<1> QED
  BY <1>4, <1>6, <1>7, <1>8, <1>9, <1>10, <1>11 DEF IInv

\* EndAdd keeps the invariant.
LEMMA EndAddKeeps ==
  ASSUME IInv, NEW d \in Doc, EndAdd(d)
  PROVE  IInv'
<1> USE UpdateAssumption DEF EndAdd, At, Goto, updVars, nodeVars, Update, Thread
<1>1. /\ TypeOK /\ ListInv /\ ThreadInv /\ DumpInv
      /\ PastInv /\ CarrierInv /\ LatestInv
  BY DEF IInv
<1>2. /\ pc'[d] = "head" /\ pc[d] = "add"
      /\ \A t \in Thread \ {d} : pc'[t] = pc[t]
  BY <1>1 DEF TypeOK
<1>3. Dindex' = Dindex \cup {d} /\ Dumping' = Dumping
  BY <1>2 DEF Dumping
<1>4. TypeOK'
  BY <1>1 DEF TypeOK
<1>5. \A t \in Update : /\ HasRead(t)' = HasRead(t)
                        /\ HasDumped(t)' = HasDumped(t)
                        /\ Begun(t)' = Begun(t)
  BY <1>2 DEF HasRead, HasDumped, Begun
<1>6. ListInv' /\ PastInv'
  BY <1>1, <1>2 DEF ListInv, PastInv
<1>7. ThreadInv'
  BY <1>1, <1>2, <1>5 DEF ThreadInv, Covers
<1>8. torn \subseteq Update
  BY <1>1 DEF TypeOK
<1>9. DumpInv'
  BY <1>1, <1>2, <1>3, <1>5, <1>8 DEF DumpInv
<1>10. d \notin torn /\ ~HasRead(d)' /\ ~HasDumped(d)' /\ Begun(d)'
  BY <1>1, <1>2 DEF DumpInv, HasRead, HasDumped, Begun
<1>11. CarrierInv'
  <2> SUFFICES ASSUME ~crossed, NEW c \in Node, NEW e \in Dindex', Begun(c)'
               PROVE  \E t \in Doc \cup {c} : Carries(t, c, e)'
    BY DEF CarrierInv
  <2>1. Carries(d, c, e)'
    BY <1>10 DEF Carries
  <2> QED
    BY <2>1
<1>12. LatestInv'
  <2>1. UpToDate(d)'
    BY <1>10 DEF UpToDate
  <2>2. Dindex \subseteq Update
    BY <1>1 DEF TypeOK
  <2>3. \A e \in Dindex' : Begun(e)'
    BY <1>1, <1>5, <1>10, <2>2 DEF LatestInv
  <2>4. \A t \in Update \ torn : snap[t] \subseteq Dindex'
    BY <1>1 DEF LatestInv
  <2> QED
    BY <1>3, <2>1, <2>3, <2>4 DEF LatestInv
<1> QED
  BY <1>4, <1>6, <1>7, <1>9, <1>11, <1>12 DEF IInv

\* ReadHead keeps the invariant.
LEMMA ReadHeadKeeps ==
  ASSUME IInv, NEW t \in Update, ReadHead(t)
  PROVE  IInv'
<1> USE UpdateAssumption DEF ReadHead, Targets, At, Goto, nodeVars, Update, Thread
<1>1. /\ TypeOK /\ ListInv /\ ThreadInv /\ DumpInv
      /\ PastInv /\ CarrierInv /\ LatestInv
  BY DEF IInv
<1>2. /\ pc'[t] = "dump" /\ pc[t] = "head"
      /\ \A u \in Thread \ {t} : pc'[u] = pc[u]
  BY <1>1 DEF TypeOK
<1>3. TypeOK'
  BY <1>1 DEF TypeOK
<1>4. ListInv' /\ PastInv'
  BY <1>1, <1>2 DEF ListInv, PastInv
<1>5. \A c \in Node : Covers(t, c)' \/ ~Begun(c)
  BY <1>1 DEF TypeOK, ListInv, Covers, Begun
<1>6. \A u \in Update \ {t}, c \in Node : Covers(u, c)' = Covers(u, c)
  BY <1>1 DEF TypeOK, Covers
<1>7. \A u \in Update : /\ HasDumped(u)' = HasDumped(u)
                        /\ Begun(u)' = Begun(u)
                        /\ u # t => HasRead(u)' = HasRead(u)
  BY <1>2 DEF HasRead, HasDumped, Begun
<1>8. Adding' = Adding /\ Dumping' = Dumping
  BY <1>2 DEF Adding, Dumping
<1>9. torn \subseteq Update /\ Dindex \subseteq Update
  BY <1>1 DEF TypeOK
<1>10. ThreadInv'
  <2>1. t \in Node => Begun(t)
    BY <1>2 DEF Begun
  <2>2. \A u \in Update : u # t => pnode'[u] = pnode[u]
    BY <1>1 DEF TypeOK
  <2> QED
    BY <1>1, <1>2, <1>5, <1>6, <1>7, <2>1, <2>2 DEF ThreadInv
<1>11. DumpInv'
  BY <1>1, <1>2, <1>7, <1>8, <1>9 DEF DumpInv
<1>12. CarrierInv'
  <2> SUFFICES ASSUME ~crossed, NEW c \in Node, NEW d \in Dindex, Begun(c)
               PROVE  \E u \in Doc \cup {c} : Carries(u, c, d)'
    BY <1>7 DEF CarrierInv
  <2>1. PICK u \in Doc \cup {c} : Carries(u, c, d)
    BY <1>1 DEF CarrierInv
  <2>2. Carries(u, c, d)'
    BY <1>5, <1>6, <1>7, <2>1 DEF Carries
  <2> QED
    BY <2>2
<1>13. LatestInv'
  <2>1. ASSUME NEW d \in Dindex, UpToDate(d)
        PROVE  UpToDate(d)'
    <3>1. CASE d = t
      <4>1. \A c \in Node : ~Begun(c) => c \notin torn /\ ~HasDumped(c)'
        BY <1>1, <1>7 DEF DumpInv, Begun, HasRead, HasDumped
      <4> QED
        BY <1>5, <1>7, <1>9, <2>1, <3>1, <4>1 DEF UpToDate
    <3>2. CASE d # t
      BY <1>6, <1>7, <1>9, <2>1, <3>2 DEF UpToDate
    <3> QED
      BY <3>1, <3>2
  <2> QED
    BY <1>1, <1>7, <1>8, <1>9, <2>1 DEF LatestInv
<1> QED
  BY <1>3, <1>4, <1>10, <1>11, <1>12, <1>13 DEF IInv

\* BeginDump keeps the invariant.
LEMMA BeginDumpKeeps ==
  ASSUME IInv, NEW t \in Update, BeginDump(t)
  PROVE  IInv'
<1> USE UpdateAssumption DEF BeginDump, At, Goto, nodeVars, Update, Thread
<1>1. /\ TypeOK /\ ListInv /\ ThreadInv /\ DumpInv
      /\ PastInv /\ CarrierInv /\ LatestInv
  BY DEF IInv
<1>2. /\ pc'[t] = "dumping" /\ pc[t] = "dump"
      /\ \A u \in Thread \ {t} : pc'[u] = pc[u]
  BY <1>1 DEF TypeOK
<1>3. TypeOK'
  BY <1>1 DEF TypeOK
<1>4. ListInv' /\ PastInv'
  BY <1>1, <1>2 DEF ListInv, PastInv
<1>5. \A u \in Update, c \in Node : Covers(u, c)' = Covers(u, c)
  BY DEF Covers
<1>6. \A u \in Update : /\ HasRead(u)' = HasRead(u)
                        /\ HasDumped(u)' = HasDumped(u)
                        /\ Begun(u)' = Begun(u)
  BY <1>2 DEF HasRead, HasDumped, Begun
<1>7. Adding' = Adding /\ Dumping' = {t}
  BY <1>2 DEF Adding, Dumping
<1>8. torn' \subseteq torn \cup {t} /\ torn \subseteq torn'
  OBVIOUS
<1>9. torn \subseteq Update /\ Dindex \subseteq Update
  BY <1>1 DEF TypeOK
<1>10. ThreadInv'
  BY <1>1, <1>2, <1>5, <1>6 DEF ThreadInv
<1>11. DumpInv'
  <2>1. \A u \in torn' : HasDumped(u)' \/ pc'[u] = "dumping"
    BY <1>1, <1>2, <1>6, <1>8, <1>9 DEF DumpInv
  <2>2. torn' # {} \/ crossed => Adding # {} \/ Dindex # {}
    BY <1>1 DEF DumpInv
  <2> QED
    BY <1>7, <2>1, <2>2 DEF DumpInv
<1>12. CarrierInv'
  <2> SUFFICES ASSUME ~crossed, NEW c \in Node, NEW d \in Dindex, Begun(c)
               PROVE  \E u \in Doc \cup {c} : Carries(u, c, d)'
    BY <1>6 DEF CarrierInv
  <2>1. CASE Adding = {}
    <3>1. PICK u \in Doc \cup {c} : Carries(u, c, d)
      BY <1>1 DEF CarrierInv
    <3>2. Carries(u, c, d)'
      BY <1>5, <1>6, <2>1, <3>1 DEF Carries
    <3> QED
      BY <3>2
  <2>2. CASE Adding # {}
    <3>1. PICK e \in Adding : TRUE
      BY <2>2
    <3>2. e \in Doc /\ pc[e] = "add" /\ e # t
      BY <1>2, <3>1 DEF Adding
    <3>3. Carries(e, c, d) /\ e \notin torn'
      BY <1>1, <1>8, <3>1, <3>2, AdderCarries DEF Carries
    <3>4. Carries(e, c, d)'
      BY <1>5, <1>6, <3>2, <3>3 DEF Carries
    <3> QED
      BY <3>2, <3>4
  <2> QED
    BY <2>1, <2>2
<1>13. LatestInv'
  <2>1. ASSUME ~crossed, Adding = {}, NEW d \in Dindex, UpToDate(d)
        PROVE  UpToDate(d)'
    BY <1>5, <1>6, <1>9, <2>1 DEF UpToDate
  <2> QED
    BY <1>1, <1>6, <1>7, <1>8, <1>9, <2>1 DEF LatestInv
<1> QED
  BY <1>3, <1>4, <1>10, <1>11, <1>12, <1>13 DEF IInv

\* EndDump keeps the invariant.
LEMMA EndDumpKeeps ==
  ASSUME IInv, NEW t \in Update, EndDump(t)
  PROVE  IInv'
<1> USE UpdateAssumption DEF EndDump, At, Goto, nodeVars, Update, Thread
<1>1. /\ TypeOK /\ ListInv /\ ThreadInv /\ DumpInv
      /\ PastInv /\ CarrierInv /\ LatestInv
  BY DEF IInv
<1>2. /\ pc'[t] = "connect" /\ pc[t] = "dumping"
      /\ \A u \in Thread \ {t} : pc'[u] = pc[u]
  BY <1>1 DEF TypeOK
<1>3. /\ snap' \in [Update -> SUBSET Doc]
      /\ t \notin torn => snap'[t] = Dindex
      /\ \A u \in Update \ {t} : snap'[u] = snap[u]
  BY <1>1 DEF TypeOK, Added, Dumped
<1>4. TypeOK'
  BY <1>1, <1>3 DEF TypeOK
<1>5. ListInv' /\ PastInv'
  BY <1>1, <1>2, <1>3 DEF ListInv, PastInv
<1>6. \A u \in Update, c \in Node : Covers(u, c)' = Covers(u, c)
  BY DEF Covers
<1>7. \A u \in Update : /\ HasRead(u)' = HasRead(u)
                        /\ u # t => HasDumped(u)' = HasDumped(u)
                        /\ Begun(u)' = Begun(u)
  BY <1>2 DEF HasRead, HasDumped, Begun
<1>8. HasDumped(t)'
  BY <1>2 DEF HasRead, HasDumped
<1>9. Adding' = Adding /\ Dumping' \subseteq Dumping
  BY <1>2 DEF Adding, Dumping
<1>10. torn \subseteq Update /\ Dindex \subseteq Update
  BY <1>1 DEF TypeOK
<1>11. ThreadInv'
  BY <1>1, <1>2, <1>6, <1>7, <1>8 DEF ThreadInv
<1>12. DumpInv'
  BY <1>1, <1>2, <1>7, <1>8, <1>9, <1>10 DEF DumpInv
<1>13. CarrierInv'
  <2> SUFFICES ASSUME ~crossed, NEW c \in Node, NEW d \in Dindex, Begun(c)
               PROVE  \E u \in Doc \cup {c} : Carries(u, c, d)'
    BY <1>7 DEF CarrierInv
  <2>1. PICK u \in Doc \cup {c} : Carries(u, c, d)
    BY <1>1 DEF CarrierInv
  <2>2. Carries(u, c, d)'
    BY <1>3, <1>6, <1>7, <2>1 DEF Carries
  <2> QED
    BY <2>2
<1>14. LatestInv'
  <2>1. ASSUME NEW d \in Dindex, UpToDate(d)
        PROVE  UpToDate(d)'
    BY <1>3, <1>6, <1>7, <1>10, <2>1 DEF UpToDate
  <2>2. \A u \in Update \ torn : snap'[u] \subseteq Dindex
    BY <1>1, <1>3 DEF LatestInv
  <2> QED
    BY <1>1, <1>7, <1>9, <1>10, <2>1, <2>2 DEF LatestInv
<1> QED
  BY <1>4, <1>5, <1>11, <1>12, <1>13, <1>14 DEF IInv

\* A step that takes threads from one place after their dump to another, or
\* leaves them where they are, and uncovers no node, keeps what overlaps.
LEMMA OverlapSame ==
  ASSUME IInv, UNCHANGED <<Dindex, snap, torn, crossed>>,
         \A t \in Update : \/ pc'[t] = pc[t]
                           \/ {pc[t], pc'[t]} \subseteq {"connect", "send", "done"},
         \A t \in Update, c \in Node : Covers(t, c) => Covers(t, c)'
  PROVE  DumpInv' /\ CarrierInv' /\ LatestInv'
<1> USE DEF Update
<1>1. DumpInv /\ CarrierInv /\ LatestInv
  BY DEF IInv
<1>2. torn \subseteq Update /\ Dindex \subseteq Update
  BY DEF IInv, TypeOK
<1>3. \A u \in Update : /\ HasRead(u)' = HasRead(u)
                        /\ HasDumped(u)' = HasDumped(u)
                        /\ Begun(u)' = Begun(u)
                        /\ (pc'[u] = "dumping") = (pc[u] = "dumping")
                        /\ (pc'[u] = "add") = (pc[u] = "add")
  BY DEF HasRead, HasDumped, Begun
<1>4. Adding' = Adding /\ Dumping' = Dumping
  BY <1>3 DEF Adding, Dumping
<1>5. DumpInv'
  BY <1>1, <1>2, <1>3, <1>4 DEF DumpInv
<1>6. CarrierInv'
  <2> SUFFICES ASSUME ~crossed, NEW c \in Node, NEW d \in Dindex, Begun(c)
               PROVE  \E u \in Doc \cup {c} : Carries(u, c, d)'
    BY <1>3 DEF CarrierInv
  <2>1. PICK u \in Doc \cup {c} : Carries(u, c, d)
    BY <1>1 DEF CarrierInv
  <2>2. Carries(u, c, d)'
    BY <1>3, <2>1 DEF Carries
  <2> QED
    BY <2>2
<1>7. LatestInv'
  <2>1. ASSUME NEW d \in Dindex, UpToDate(d)
        PROVE  UpToDate(d)'
    BY <1>2, <1>3, <2>1 DEF UpToDate
  <2> QED
    BY <1>1, <1>2, <1>3, <1>4, <2>1 DEF LatestInv
<1> QED
  BY <1>5, <1>6, <1>7

\* OpenConnection keeps the invariant.
LEMMA OpenConnectionKeeps ==
  ASSUME IInv, NEW t \in Update, OpenConnection(t)
  PROVE  IInv'
<1> USE UpdateAssumption
    DEF OpenConnection, Connect, At, Goto, updVars, nodeVars, Update, Thread
<1>1. TypeOK /\ ListInv /\ ThreadInv /\ PastInv
  BY DEF IInv
<1>2. Head(pnode[t]) \in Node
  BY <1>1, ToSetTail DEF TypeOK
<1>3. TypeOK'
  BY <1>1, <1>2 DEF TypeOK
<1>4. /\ pc[t] = "connect" /\ pc'[t] = "send"
      /\ \A u \in Thread \ {t} : pc'[u] = pc[u]
  BY <1>1 DEF TypeOK
<1>5. ListInv' /\ PastInv'
  BY <1>1, <1>4 DEF ListInv, PastInv
<1>6. /\ conn'[t][Head(pnode[t])] # "none"
      /\ \A u \in Update \ {t} : conn'[u] = conn[u]
      /\ \A u \in Update, c \in Node : conn[u][c] # "none" => conn'[u][c] # "none"
  BY <1>1, <1>2 DEF TypeOK
<1>7. \A u \in Update, c \in Node : Covers(u, c) => Covers(u, c)'
  BY <1>6 DEF Covers
<1>8. ThreadInv'
  BY <1>1, <1>4, <1>6, <1>7 DEF ThreadInv, HasRead, HasDumped, Begun
<1>9. DumpInv' /\ CarrierInv' /\ LatestInv'
  BY <1>4, <1>7, OverlapSame
<1> QED
  BY <1>3, <1>5, <1>8, <1>9 DEF IInv

\* SkipDeadNode keeps the invariant.
LEMMA SkipDeadNodeKeeps ==
  ASSUME IInv, NEW t \in Update, SkipDeadNode(t)
  PROVE  IInv'
<1> USE UpdateAssumption DEF SkipDeadNode, At, nodeVars, Update, Thread
<1>1. TypeOK /\ ListInv /\ ThreadInv /\ PastInv
  BY DEF IInv
<1>2. /\ Tail(pnode[t]) \in Seq(Node)
      /\ ToSet(pnode[t]) = ToSet(Tail(pnode[t])) \cup {Head(pnode[t])}
  BY <1>1, ToSetTail DEF TypeOK
<1>3. TypeOK'
  BY <1>1, <1>2 DEF TypeOK
<1>4. ListInv' /\ PastInv'
  BY <1>1 DEF ListInv, PastInv
<1>5. \A u \in Update, c \in Node : Covers(u, c) => Covers(u, c)'
  BY <1>1, <1>2 DEF TypeOK, Covers
<1>6. \A u \in Update \ {t} : pnode'[u] = pnode[u]
  BY <1>1 DEF TypeOK
<1>7. ThreadInv'
  BY <1>1, <1>5, <1>6 DEF ThreadInv, HasRead, HasDumped, Begun
<1>8. DumpInv' /\ CarrierInv' /\ LatestInv'
  BY <1>5, OverlapSame
<1> QED
  BY <1>3, <1>4, <1>7, <1>8 DEF IInv

\* SendDump keeps the invariant.
LEMMA SendDumpKeeps ==
  ASSUME IInv, NEW t \in Update, SendDump(t)
  PROVE  IInv'
<1> USE UpdateAssumption DEF SendDump, At, Goto, nodeVars, Update, Thread
<1>1. TypeOK /\ ListInv /\ ThreadInv /\ PastInv
  BY DEF IInv
<1>2. pnode[t] # <<>> /\ conn[t][Head(pnode[t])] # "none"
  BY <1>1 DEF ThreadInv
<1>3. /\ Tail(pnode[t]) \in Seq(Node)
      /\ ToSet(pnode[t]) = ToSet(Tail(pnode[t])) \cup {Head(pnode[t])}
  BY <1>1, <1>2, ToSetTail DEF TypeOK
<1>4. TypeOK'
  BY <1>1, <1>3 DEF TypeOK
<1>5. /\ pc[t] = "send" /\ pc'[t] = "connect"
      /\ \A u \in Thread \ {t} : pc'[u] = pc[u]
  BY <1>1 DEF TypeOK
<1>6. ListInv' /\ PastInv'
  BY <1>1, <1>5 DEF ListInv, PastInv
<1>7. \A u \in Update, c \in Node : Covers(u, c) => Covers(u, c)'
  BY <1>1, <1>2, <1>3 DEF TypeOK, Covers
<1>8. \A u \in Update \ {t} : pnode'[u] = pnode[u]
  BY <1>1 DEF TypeOK
<1>9. ThreadInv'
  BY <1>1, <1>5, <1>7, <1>8 DEF ThreadInv, HasRead, HasDumped, Begun
<1>10. DumpInv' /\ CarrierInv' /\ LatestInv'
  BY <1>5, <1>7, OverlapSame
<1> QED
  BY <1>4, <1>6, <1>9, <1>10 DEF IInv

\* Steps after which nothing is known of the server keep the invariant.
LEMMA ServerDiesKeeps ==
  ASSUME IInv, NEW t \in Update, SendToDead(t) \/ DumpOverruns(t)
  PROVE  IInv'
<1>1. /\ UNCHANGED <<Dindex, past, list, pc, updVars, nodeVars, conn, asked>>
      /\ server' = "undefined"
  BY DEF SendToDead, DumpOverruns
<1> USE <1>1 DEF updVars, nodeVars
<1>2. TypeOK' /\ ListInv' /\ ThreadInv' /\ PastInv'
  BY DEF IInv, TypeOK, ListInv, ThreadInv, PastInv, HasRead, HasDumped, Covers, Begun
<1>3. DumpInv' /\ CarrierInv' /\ LatestInv'
  BY OverlapSame DEF Covers
<1> QED
  BY <1>2, <1>3 DEF IInv

\* Reply keeps the invariant.
LEMMA ReplyKeeps ==
  ASSUME IInv, NEW t \in Update, Reply(t)
  PROVE  IInv'
<1> USE UpdateAssumption DEF Reply, At, Goto, updVars, Update, Thread
<1>1. TypeOK /\ ListInv /\ ThreadInv /\ PastInv
  BY DEF IInv
<1>2. main' \in [Node -> {"off", "regis", "accept", "dead"}]
  BY <1>1 DEF TypeOK
<1>3. TypeOK'
  BY <1>1, <1>2 DEF TypeOK
<1>4. /\ pc[t] = "connect" /\ pc'[t] = "done"
      /\ \A u \in Thread \ {t} : pc'[u] = pc[u]
  BY <1>1 DEF TypeOK
<1>5. ListInv' /\ PastInv'
  BY <1>1, <1>4 DEF ListInv, PastInv
<1>6. \A u \in Update, c \in Node : Covers(u, c) => Covers(u, c)'
  BY <1>1 DEF TypeOK, Covers
<1>7. ThreadInv'
  BY <1>1, <1>4, <1>6 DEF ThreadInv, HasRead, HasDumped, Begun
<1>8. DumpInv' /\ CarrierInv' /\ LatestInv'
  BY <1>4, <1>6, OverlapSame
<1> QED
  BY <1>3, <1>5, <1>7, <1>8 DEF IInv

\* A step that changes no more than the connection of a query to a node keeps
\* what is said of updates.
LEMMA QueryStep ==
  ASSUME IInv, NEW q \in Query, NEW c \in Node, NEW state,
         UNCHANGED <<Dindex, past, list, pnode, snap, torn, crossed, cindex>>,
         conn' = conn \/ conn' = [conn EXCEPT ![q][c] = state],
         pc' = pc \/ \E to \in {"asked", "done"} : pc' = [pc EXCEPT ![q] = to],
         main' = main \/ (main[c] = "accept" /\ main' = [main EXCEPT ![c] = "dead"])
  PROVE  ListInv' /\ ThreadInv' /\ DumpInv' /\ PastInv' /\ CarrierInv' /\ LatestInv'
<1> USE UpdateAssumption DEF Update, Thread
<1>1. TypeOK /\ ListInv /\ ThreadInv /\ PastInv
  BY DEF IInv
<1>2. \A u \in Update : pc'[u] = pc[u] /\ conn'[u] = conn[u]
  BY <1>1 DEF TypeOK
<1>3. \A b \in Node : main'[b] = main[b] \/ (main[b] = "accept" /\ main'[b] = "dead")
  BY <1>1 DEF TypeOK
<1>4. ListInv' /\ PastInv'
  BY <1>1, <1>2, <1>3 DEF ListInv, PastInv
<1>5. \A u \in Update, b \in Node : Covers(u, b) => Covers(u, b)'
  BY <1>2, <1>3 DEF Covers
<1>6. ThreadInv'
  BY <1>1, <1>2, <1>5 DEF ThreadInv, HasRead, HasDumped, Begun
<1>7. DumpInv' /\ CarrierInv' /\ LatestInv'
  BY <1>2, <1>5, OverlapSame
<1> QED
  BY <1>4, <1>6, <1>7

\* Search keeps the invariant.
LEMMA SearchKeeps ==
  ASSUME IInv, NEW q \in Query, Search(q)
  PROVE  IInv'
<1> USE UpdateAssumption DEF Connect, At, Goto, updVars, nodeVars, Update, Thread
<1>1. TypeOK /\ asked[q] \in Node
  BY DEF IInv, TypeOK
<1>2. CASE AskNode(q)
  <2>1. TypeOK'
    BY <1>1, <1>2 DEF AskNode, TypeOK
  <2> QED
    BY <1>1, <1>2, <2>1, QueryStep DEF AskNode, IInv
<1>3. CASE AgentFails(q)
  <2>1. TypeOK'
    BY <1>1, <1>3 DEF AgentFails, TypeOK
  <2> QED
    BY <1>1, <1>3, <2>1, QueryStep DEF AgentFails, IInv
<1>4. CASE AgentDone(q)
  <2>1. TypeOK'
    BY <1>1, <1>4 DEF AgentDone, TypeOK
  <2> QED
    BY <1>1, <1>4, <2>1, QueryStep DEF AgentDone, IInv
<1> QED
  BY <1>2, <1>3, <1>4 DEF Search

-----------------------------------------------------------------------------
(* The cnodes. *)

\* LoadUpdate keeps the invariant.
LEMMA LoadUpdateKeeps ==
  ASSUME IInv, NEW t \in Thread, NEW c \in Node, LoadUpdate(t, c)
  PROVE  IInv'
<1> USE UpdateAssumption DEF LoadUpdate, updVars, Update, Thread
<1>1. TypeOK /\ ListInv /\ ThreadInv /\ PastInv
  BY DEF IInv
<1>2. /\ conn' \in [Thread -> [Node -> {"none", "queued", "loaded", "answered"}]]
      /\ cindex' \in [Node -> {NoIndex, Unknown} \cup SUBSET Doc]
      /\ main' \in [Node -> {"off", "regis", "accept", "dead"}]
  BY <1>1 DEF TypeOK, Loaded
<1>3. TypeOK'
  BY <1>1, <1>2 DEF TypeOK
<1>4. \A b \in Node : main'[b] = main[b] \/ (main[b] = "accept" /\ main'[b] = "dead")
  BY <1>1 DEF TypeOK
<1>5. \A u \in Update, b \in Node : (conn[u][b] # "none") = (conn'[u][b] # "none")
  BY <1>1 DEF TypeOK
<1>6. ListInv' /\ PastInv'
  BY <1>1, <1>4 DEF ListInv, PastInv
<1>7. \A u \in Update, b \in Node : Covers(u, b) => Covers(u, b)'
  BY <1>4, <1>5 DEF Covers
<1>8. ThreadInv'
  <2>1. \A u \in Update : pnode[u] # <<>> => Head(pnode[u]) \in Node
    BY <1>1, ToSetTail DEF TypeOK
  <2> QED
    BY <1>1, <1>5, <1>7, <2>1 DEF ThreadInv, HasRead, HasDumped, Begun
<1>9. DumpInv' /\ CarrierInv' /\ LatestInv'
  BY <1>7, OverlapSame
<1> QED
  BY <1>3, <1>6, <1>8, <1>9 DEF IInv

\* Work keeps the invariant.
LEMMA WorkKeeps ==
  ASSUME IInv, NEW t \in Thread, NEW c \in Node, Work(t, c)
  PROVE  IInv'
<1> USE UpdateAssumption DEF updVars, nodeVars, Update, Thread
<1>1. TypeOK
  BY DEF IInv
<1>2. CASE LoadUpdate(t, c)
  BY <1>2, LoadUpdateKeeps
<1>3. CASE Answer(t, c)
  <2>1. TypeOK'
    BY <1>1, <1>3 DEF Answer, TypeOK
  <2> QED
    BY <1>1, <1>3, <2>1, QueryStep DEF Answer, IInv
<1>4. CASE SearchFaults(t, c)
  <2>1. TypeOK'
    BY <1>1, <1>4 DEF SearchFaults, TypeOK
  <2> QED
    BY <1>1, <1>4, <2>1, QueryStep DEF SearchFaults, IInv
<1> QED
  BY <1>2, <1>3, <1>4 DEF Work

-----------------------------------------------------------------------------
(* The theorems. *)

\* The invariant is kept by every step.
LEMMA NextKeepsIInv == IInv /\ [Next]_vars => IInv'
<1> SUFFICES ASSUME IInv, [Next]_vars
             PROVE  IInv'
  OBVIOUS
<1>1. ASSUME NEW c \in Node, DoReg(c)
      PROVE  IInv'
  BY <1>1, DoRegKeeps
<1>2. ASSUME NEW d \in Doc, BeginAdd(d) \/ EndAdd(d)
      PROVE  IInv'
  BY <1>2, BeginAddKeeps, EndAddKeeps
<1>3. ASSUME NEW t \in Update, DoUpdate(t)
      PROVE  IInv'
  BY <1>3, ReadHeadKeeps, BeginDumpKeeps, EndDumpKeeps, OpenConnectionKeeps,
     SkipDeadNodeKeeps, SendDumpKeeps, ServerDiesKeeps, ReplyKeeps
     DEF DoUpdate
<1>4. ASSUME NEW q \in Query, Search(q)
      PROVE  IInv'
  BY <1>4, SearchKeeps
<1>5. ASSUME NEW t \in Thread, NEW c \in Node, Work(t, c)
      PROVE  IInv'
  BY <1>5, WorkKeeps
<1>6. CASE UNCHANGED vars
  <2> USE <1>6 DEF vars, updVars, nodeVars
  <2>1. TypeOK' /\ ListInv' /\ ThreadInv' /\ PastInv'
    BY DEF IInv, TypeOK, ListInv, ThreadInv, PastInv, HasRead, HasDumped, Covers, Begun
  <2>2. DumpInv' /\ CarrierInv' /\ LatestInv'
    BY OverlapSame DEF Covers
  <2> QED
    BY <2>1, <2>2 DEF IInv
<1> QED
  BY <1>1, <1>2, <1>3, <1>4, <1>5, <1>6 DEF Next

\* IInv is an inductive invariant: it holds throughout, over all overlaps of
\* registrations, indexings and searches.
THEOREM UpdateInvariant == Spec => []IInv
BY InitIInv, NextKeepsIInv, PTL DEF Spec

\* The variables keep their domains; no registration lists a node twice.
THEOREM TypeCorrect == Spec => []TypeOK
<1>1. IInv => TypeOK
  BY DEF IInv
<1> QED
  BY <1>1, UpdateInvariant, PTL

\* The order of do_reg (list, then dump) and of do_index (index, then list)
\* makes up for do_update's two unlocked reads, and the dump of the document
\* that is being added for those that its add tears.
THEOREM NoDocumentMissed == Spec => []EveryNodeIsSentEveryDoc
<1>1. IInv => EveryNodeIsSentEveryDoc
  <2> SUFFICES ASSUME IInv, ~crossed, NEW c \in Node, NEW d \in Doc,
                      pc[c] = "done", pc[d] = "done", main[c] # "dead"
               PROVE  \/ \E t \in Doc \cup {c} : SentTo(t, c, d)
                      \/ \E e \in Doc : WillSend(e, c, d)
    BY DEF EveryNodeIsSentEveryDoc
  <2>1. Begun(c) /\ HasDumped(c) /\ d \in Dindex
    <3>1. d \in Dindex
      BY DEF IInv, ThreadInv, Begun
    <3> QED
      BY <3>1 DEF Begun, HasRead, HasDumped
  <2>2. PICK t \in Doc \cup {c} : Carries(t, c, d)
    BY <2>1 DEF IInv, CarrierInv
  <2>3. t \in Update /\ pc[t] \in {"add", "head", "dump", "dumping", "connect",
                                   "send", "done"}
    BY <2>2 DEF IInv, TypeOK, ThreadInv, Carries, Begun, Update, Thread
  <2>4. CASE ~HasRead(t)
    <3>1. t \in Doc
      BY <2>1, <2>4 DEF HasDumped
    <3> QED
      BY <2>3, <2>4, <3>1 DEF HasRead, WillSend
  <2>5. CASE HasRead(t) /\ conn[t][c] # "none"
    <3>1. HasDumped(t)
      BY <2>3, <2>5 DEF IInv, ThreadInv
    <3> QED
      BY <2>2, <2>5, <3>1 DEF Carries, SentTo
  <2>6. CASE HasRead(t) /\ conn[t][c] = "none"
    <3>1. c \in ToSet(pnode[t]) /\ t \notin torn
      BY <2>2, <2>6 DEF Carries, Covers
    <3>2. t \in Doc
      BY <3>1 DEF IInv, ThreadInv, ToSet, Update
    <3> QED
      BY <2>2, <2>6, <3>1, <3>2 DEF Carries, HasDumped, WillSend
  <2> QED
    BY <2>4, <2>5, <2>6
<1> QED
  BY <1>1, UpdateInvariant, PTL

\* However updates overlap and whichever are torn, the index as it is now has
\* been sent to every node, whole, as long as no two adds overlapped.
THEOREM LatestIsSent == Spec => []LatestIndexSent
<1>1. IInv => LatestIndexSent
  <2> SUFFICES ASSUME IInv, ~crossed, \A d \in Doc : pc[d] \in {"new", "done"},
                      NEW c \in Node, pc[c] = "done", main[c] # "dead"
               PROVE  \E t \in Doc \cup {c} :
                        conn[t][c] # "none" /\ t \notin torn /\ snap[t] = Dindex
    BY DEF LatestIndexSent
  <2>1. \A t \in Update : pc[t] = "done" /\ Covers(t, c) => conn[t][c] # "none"
    BY DEF IInv, ThreadInv, Covers, ToSet
  <2>2. conn[c][c] # "none"
    BY <2>1 DEF IInv, ThreadInv, HasRead, Update
  <2>3. Adding = {}
    BY DEF Adding
  <2>4. CASE Dindex = {}
    <3>1. c \notin torn /\ snap[c] = Dindex
      BY <2>3, <2>4 DEF IInv, DumpInv, LatestInv, Update
    <3> QED
      BY <2>2, <3>1
  <2>5. CASE Dindex # {}
    <3>1. PICK d \in Dindex : UpToDate(d)
      BY <2>3, <2>5 DEF IInv, LatestInv
    <3>2. d \in Doc /\ pc[d] = "done"
      BY DEF IInv, TypeOK, LatestInv, Begun
    <3>3. /\ d \notin torn /\ snap[d] = Dindex
          /\ Covers(d, c) \/ (c \notin torn /\ snap[c] = Dindex)
      BY <3>1, <3>2 DEF HasRead, HasDumped, UpToDate
    <3> QED
      BY <2>1, <2>2, <3>2, <3>3 DEF Update
  <2> QED
    BY <2>4, <2>5
<1> QED
  BY <1>1, UpdateInvariant, PTL

\* do_update and CMD_UPDATE implement the replication SnapshotReplica states:
\* each step begins or ends a change or a copy of the index, installs one it
\* once was, or an unknown one after a clash, or changes nothing of these.
THEOREM Refinement == Spec => SnapshotsOnly
<1> USE UpdateAssumption DEF Promise!vars
<1>1. Init => Promise!Init
  BY DEF Init, Promise!Init, Adding, Dumping, Update, Thread
<1>2. IInv /\ [Next]_vars => [Promise!Next]_(Promise!vars)
  <2> SUFFICES ASSUME IInv, [Next]_vars
               PROVE  Promise!Next \/ UNCHANGED Promise!vars
    OBVIOUS
  <2>1. pc \in [Thread -> {"new", "add", "head", "dump", "dumping", "connect",
                           "send", "asked", "done"}]
    BY DEF IInv, TypeOK
  <2>2. ASSUME NEW d \in Doc, BeginAdd(d)
        PROVE  Promise!Next
    <3>1. Adding' = Adding \cup {d} /\ Dumping' = Dumping
      BY <2>1, <2>2 DEF BeginAdd, At, Goto, Adding, Dumping, Update, Thread
    <3> QED
      BY <2>2, <3>1 DEF BeginAdd, nodeVars, Promise!Next, Promise!BeginChange
  <2>3. ASSUME NEW d \in Doc, EndAdd(d)
        PROVE  Promise!Next
    <3>1. /\ d \in Adding /\ Adding' = Adding \ {d}
          /\ Dumping' = Dumping
      BY <2>1, <2>3 DEF EndAdd, At, Goto, Adding, Dumping, Update, Thread
    <3> QED
      BY <2>3, <3>1 DEF EndAdd, nodeVars, updVars, Promise!Next, Promise!EndChange
  <2>4. ASSUME NEW t \in Update, BeginDump(t)
        PROVE  Promise!Next
    <3>1. Adding' = Adding /\ Dumping = {} /\ Dumping' # {}
      BY <2>1, <2>4 DEF BeginDump, At, Goto, Adding, Dumping, Update, Thread
    <3> QED
      BY <2>4, <3>1 DEF BeginDump, nodeVars, Promise!Next, Promise!BeginCopy
  <2>5. ASSUME NEW t \in Update, EndDump(t)
        PROVE  Promise!Next
    <3>1. t \in Dumping /\ \A u \in Dumping : u = t
      BY <2>5 DEF IInv, DumpInv, EndDump, At, Dumping
    <3>2. Adding' = Adding /\ Dumping # {} /\ Dumping' = {}
      BY <2>1, <2>5, <3>1 DEF EndDump, At, Goto, Adding, Dumping, Update, Thread
    <3> QED
      BY <2>5, <3>2 DEF EndDump, nodeVars, Promise!Next, Promise!EndCopy
  <2>6. ASSUME NEW t \in Thread, NEW c \in Node, LoadUpdate(t, c)
        PROVE  Promise!Next
    <3>1. Loaded(t) \in past \/ (t \in torn /\ Loaded(t) = Unknown)
      BY <2>6 DEF IInv, PastInv, LoadUpdate, Loaded
    <3>2. UNCHANGED <<Adding, Dumping>>
      BY <2>6 DEF LoadUpdate, Adding, Dumping
    <3> QED
      BY <2>6, <3>1, <3>2 DEF LoadUpdate, updVars, Promise!Next, Promise!Install
  <2>7. ASSUME UNCHANGED <<Dindex, past, torn, crossed, cindex>>,
               \A t \in Update : /\ (pc'[t] = "add") = (pc[t] = "add")
                                 /\ (pc'[t] = "dumping") = (pc[t] = "dumping")
        PROVE  UNCHANGED Promise!vars
    <3>1. Adding' = Adding /\ Dumping' = Dumping
      BY <2>7 DEF Adding, Dumping, Update
    <3> QED
      BY <2>7, <3>1
  <2>8. ASSUME UNCHANGED vars
        PROVE  UNCHANGED Promise!vars
    BY <2>7, <2>8 DEF vars, updVars, nodeVars
  <2>9. ASSUME NEW c \in Node, DoReg(c)
        PROVE  UNCHANGED Promise!vars
    BY <2>1, <2>7, <2>9 DEF DoReg, At, Goto, updVars, Update, Thread
  <2>10. ASSUME NEW t \in Update, ReadHead(t)
         PROVE  UNCHANGED Promise!vars
    BY <2>1, <2>7, <2>10 DEF ReadHead, At, Goto, nodeVars, Update, Thread
  <2>11. ASSUME NEW t \in Update,
                \/ OpenConnection(t)
                \/ SkipDeadNode(t)
                \/ SendDump(t)
                \/ Reply(t)
         PROVE  UNCHANGED Promise!vars
    BY <2>1, <2>7, <2>11 DEF OpenConnection, SkipDeadNode, SendDump, Reply, At,
       Goto, nodeVars, updVars, Update, Thread
  <2>12. ASSUME NEW t \in Update, SendToDead(t) \/ DumpOverruns(t)
         PROVE  UNCHANGED Promise!vars
    BY <2>7, <2>12 DEF SendToDead, DumpOverruns, nodeVars, updVars
  <2>13. ASSUME NEW q \in Query, Search(q)
         PROVE  UNCHANGED Promise!vars
    BY <2>1, <2>7, <2>13 DEF Search, AskNode, AgentFails, AgentDone, At, Goto,
       nodeVars, updVars, Update, Thread
  <2>14. ASSUME NEW t \in Thread, NEW c \in Node, Answer(t, c) \/ SearchFaults(t, c)
         PROVE  UNCHANGED Promise!vars
    BY <2>7, <2>14 DEF Answer, SearchFaults, nodeVars, updVars
  <2> QED
    BY <2>2, <2>3, <2>4, <2>5, <2>6, <2>8, <2>9, <2>10, <2>11, <2>12, <2>13, <2>14
       DEF Next, DoUpdate, Work
<1> QED
  BY <1>1, <1>2, UpdateInvariant, PTL DEF Spec, SnapshotsOnly, Promise!Spec
=============================================================================
