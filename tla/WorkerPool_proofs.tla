-------------------------- MODULE WorkerPool_proofs -------------------------
(***************************************************************************)
(* Proofs about WorkerPool, for any number of requests and nodes and over  *)
(* restarts: its types, and its safety invariants as parts of an inductive *)
(* invariant IInv.                                                         *)
(***************************************************************************)
EXTENDS WorkerPool, FiniteSetTheorems, TLAPS

\* Only finitely many nodes are registered, and permits claimed, at a time.
FiniteInv ==
  /\ IsFiniteSet(Registered)
  /\ IsFiniteSet(Claims)

\* A thread that has not started left no trace.
FreshInv ==
  /\ \A g \in Regs : pc[g] = "new" => status[g] = "absent"
  /\ \A r \in Req :
       pc[r] \in {"new", "check", "cmpNum", "setNum", "cmpAva", "setAva"}
         => i[r] = 0

\* Who is in a critical section holds the mutex.
LockInv ==
  server = "running" =>
    /\ \A g \in Regs : pc[g] \in {"num", "ava"} => M_clist = g
    /\ \A r \in Req : pc[r] = "scan" => M_clist = r

\* A request holds nodes from its walk until free_workers.
HoldInv == \A r \in Req : pc[r] \notin {"scan", "run"} => workers[r] = {}

\* CountersMatchList, and what a registration has still to count.
CountInv ==
  /\ Len(list) = Cardinality(Registered)
  /\ CountersMatchList
  /\ \A g \in Regs : M_clist = g =>
       /\ ava_node + 1 = Cardinality(Idle)
       /\ num_node = IF pc[g] = "num" THEN Len(list) - 1 ELSE Len(list)

\* What a request asks for, once compared, is no more than there are nodes.
LimitInv ==
  \A r \in Req :
    /\ pc[r] \in {"cmpNum", "setNum", "cmpAva", "setAva"} => Len(list) >= 1
    /\ pc[r] \in {"cmpAva", "wait", "scan"} => n[r] <= Len(list)

\* The loop counters stay within their loops.
IndexInv == \A r \in Req : pc[r] \in {"wait", "scan", "post"} => i[r] <= n[r]

IInv ==
  /\ TypeOK
  /\ FiniteInv
  /\ FreshInv
  /\ LockInv
  /\ HoldInv
  /\ NodeHeldOnce
  /\ CountInv
  /\ LimitInv
  /\ IndexInv
  /\ PermitsBacked

-----------------------------------------------------------------------------
(* Sets of nodes and of permits. *)

\* The sets whose sizes the counters are about are finite.
LEMMA NodeSetsFinite ==
  ASSUME TypeOK, FiniteInv
  PROVE  /\ IsFiniteSet(Idle) /\ Cardinality(Idle) \in Nat
         /\ Cardinality(Idle) <= Cardinality(Registered)
         /\ Cardinality(Registered) \in Nat
         /\ Cardinality(Claims) \in Nat
<1>1. Idle \subseteq Registered
  BY DEF Idle, Registered
<1>2. IsFiniteSet(Idle) /\ Cardinality(Idle) <= Cardinality(Registered)
  BY <1>1, FS_Subset DEF FiniteInv
<1> QED
  BY <1>2, FS_CardinalityType DEF FiniteInv

\* A claim is a number of permits.
LEMMA ClaimIsNat ==
  ASSUME TypeOK, IndexInv, NEW r \in Req
  PROVE  Claim(r) \in Nat
BY DEF TypeOK, IndexInv, Claim

\* No claim changes: neither do the claimed permits.
LEMMA ClaimsSame ==
  ASSUME \A q \in Req : Claim(q)' = Claim(q)
  PROVE  Claims' = Claims
BY DEF Claims

\* One request claims one permit more.
LEMMA ClaimsGrow ==
  ASSUME NEW r \in Req, TypeOK, IndexInv,
         Claim(r)' = Claim(r) + 1,
         \A q \in Req \ {r} : Claim(q)' = Claim(q)
  PROVE  /\ Claims' = Claims \cup {<<r, Claim(r) + 1>>}
         /\ <<r, Claim(r) + 1>> \notin Claims
<1>1. Claim(r) \in Nat
  BY ClaimIsNat
<1>2. 1..(Claim(r) + 1) = (1..Claim(r)) \cup {Claim(r) + 1}
  BY <1>1
<1> QED
  BY <1>1, <1>2 DEF Claims

\* One request claims one permit less.
LEMMA ClaimsShrink ==
  ASSUME NEW r \in Req, TypeOK, IndexInv,
         Claim(r) >= 1, Claim(r)' = Claim(r) - 1,
         \A q \in Req \ {r} : Claim(q)' = Claim(q)
  PROVE  /\ Claims' = Claims \ {<<r, Claim(r)>>}
         /\ <<r, Claim(r)>> \in Claims
<1>1. Claim(r) \in Nat
  BY ClaimIsNat
<1>2. 1..(Claim(r) - 1) = (1..Claim(r)) \ {Claim(r)}
  BY <1>1
<1>3. Claim(r) \in 1..Claim(r)
  BY <1>1
<1> QED
  BY <1>1, <1>2, <1>3 DEF Claims

\* The permits one request claims are as many as it claims.
LEMMA PairsCardinality ==
  ASSUME NEW r, NEW m \in Nat
  PROVE  /\ IsFiniteSet({r} \X (1..m))
         /\ Cardinality({r} \X (1..m)) = m
<1> DEFINE f == [k \in 1..m |-> <<r, k>>]
<1>1. f \in Injection(1..m, {r} \X (1..m))
  BY DEF Injection, IsInjective
<1>2. f \in Surjection(1..m, {r} \X (1..m))
  <2>1. \A t \in {r} \X (1..m) : t[2] \in 1..m /\ f[t[2]] = t
    OBVIOUS
  <2> QED
    BY <2>1 DEF Surjection
<1>3. ExistsBijection(1..m, {r} \X (1..m))
  BY <1>1, <1>2 DEF ExistsBijection, Bijection
<1> QED
  BY <1>3, FS_NatBijection, FS_CountingElements

\* A request that claimed nothing claims m permits.
LEMMA ClaimsNew ==
  ASSUME NEW r \in Req, NEW m \in Nat, IsFiniteSet(Claims),
         Claim(r) = 0, Claim(r)' = m,
         \A q \in Req \ {r} : Claim(q)' = Claim(q)
  PROVE  /\ IsFiniteSet(Claims')
         /\ Cardinality(Claims') = Cardinality(Claims) + m
<1> DEFINE P == {r} \X (1..m)
<1>1. Claims' = Claims \cup P
  BY DEF Claims
<1>2. Claims \cap P = {}
  BY DEF Claims
<1>3. IsFiniteSet(P) /\ Cardinality(P) = m
  BY PairsCardinality
<1> HIDE DEF P
<1>4. /\ IsFiniteSet(Claims \cup P)
      /\ Cardinality(Claims \cup P) = Cardinality(Claims) + m - Cardinality({})
  BY <1>2, <1>3, FS_Union
<1>5. Cardinality(Claims) \in Nat
  BY FS_CardinalityType
<1> QED
  BY <1>1, <1>4, <1>5, FS_EmptySet

-----------------------------------------------------------------------------
(* The initial state. *)

\* The invariant holds of a server that was just started.
THEOREM InitIInv == Init => IInv
<1> SUFFICES ASSUME Init
             PROVE  IInv
  OBVIOUS
<1> USE PoolAssumption DEF Init
<1>1. TypeOK
  BY DEF TypeOK, Threads
<1>2. Registered = {} /\ Idle = {}
  BY DEF Registered, Idle
<1>3. Claims = {}
  BY DEF Claims, Claim
<1>4. FiniteInv
  BY <1>2, <1>3, FS_EmptySet DEF FiniteInv
<1>5. FreshInv /\ LockInv /\ HoldInv /\ NodeHeldOnce /\ LimitInv /\ IndexInv
  BY DEF FreshInv, LockInv, HoldInv, NodeHeldOnce, LimitInv, IndexInv, Threads
<1>6. CountInv
  BY <1>2, FS_EmptySet DEF CountInv, CountersMatchList
<1>7. PermitsBacked
  BY <1>2, <1>3, FS_EmptySet DEF PermitsBacked
<1> QED
  BY <1>1, <1>4, <1>5, <1>6, <1>7 DEF IInv

-----------------------------------------------------------------------------
(* do_reg. *)

\* RegPush keeps the invariant.
LEMMA RegPushKeeps ==
  ASSUME IInv, NEW g \in Regs, RegPush(g)
  PROVE  IInv'
<1> USE PoolAssumption DEF RegPush, At, Goto, callVars, Threads
<1>1. TypeOK /\ FiniteInv /\ status[g] = "absent"
  BY DEF IInv, FreshInv
<1>2. TypeOK'
  BY <1>1 DEF TypeOK, Pushed
<1>3. Registered' = Registered \cup {g} /\ g \notin Registered
  BY <1>1 DEF TypeOK, Registered
<1>4. Idle' = Idle \cup {g} /\ g \notin Idle
  BY <1>1 DEF TypeOK, Idle
<1>5. Claims' = Claims
  BY <1>1, ClaimsSame DEF TypeOK, Claim
<1>6. /\ IsFiniteSet(Registered')
      /\ Cardinality(Registered') = Cardinality(Registered) + 1
      /\ Cardinality(Idle') = Cardinality(Idle) + 1
  BY <1>1, <1>3, <1>4, NodeSetsFinite, FS_AddElement DEF FiniteInv
<1>7. FiniteInv'
  BY <1>1, <1>5, <1>6 DEF FiniteInv
<1>8. FreshInv' /\ LockInv' /\ HoldInv' /\ IndexInv'
  BY DEF IInv, TypeOK, FreshInv, LockInv, HoldInv, IndexInv
<1>9. NodeHeldOnce'
  BY <1>1 DEF IInv, TypeOK, NodeHeldOnce
<1>10. Len(list') = Len(list) + 1
  BY <1>1 DEF TypeOK, Pushed
<1>11. CountInv'
  BY <1>1, <1>2, <1>6, <1>10, NodeSetsFinite
     DEF IInv, TypeOK, CountInv, CountersMatchList
<1>12. LimitInv'
  BY <1>1, <1>10 DEF IInv, TypeOK, LimitInv
<1>13. PermitsBacked'
  <2>1. /\ S_num_node \in Nat /\ S_num_node' = S_num_node + 1
        /\ stale \in Nat /\ stale' = stale
    BY <1>1 DEF TypeOK
  <2>2. Cardinality(Claims) \in Nat /\ Cardinality(Claims') = Cardinality(Claims)
    BY <1>1, <1>5, NodeSetsFinite
  <2>3. /\ Cardinality(Idle) \in Nat
        /\ Cardinality(Idle') = Cardinality(Idle) + 1
    BY <1>1, <1>6, NodeSetsFinite
  <2>4. S_num_node + Cardinality(Claims) <= Cardinality(Idle) + stale
    BY DEF IInv, PermitsBacked
  <2> HIDE DEF RegPush
  <2> QED
    BY <2>1, <2>2, <2>3, <2>4 DEF PermitsBacked
<1> QED
  BY <1>2, <1>7, <1>8, <1>9, <1>11, <1>12, <1>13 DEF IInv

\* RegCountNode keeps the invariant.
LEMMA RegCountNodeKeeps ==
  ASSUME IInv, NEW g \in Regs, RegCountNode(g)
  PROVE  IInv'
<1> USE PoolAssumption DEF RegCountNode, At, Goto, callVars, Threads
<1>1. TypeOK /\ FiniteInv /\ M_clist = g
  BY DEF IInv, LockInv
<1>2. TypeOK'
  BY <1>1 DEF TypeOK
<1>3. Registered' = Registered /\ Idle' = Idle
  BY DEF Registered, Idle
<1>4. Claims' = Claims
  BY <1>1, ClaimsSame DEF TypeOK, Claim
<1>5. FiniteInv'
  BY <1>1, <1>3, <1>4 DEF FiniteInv
<1>6. FreshInv' /\ LockInv' /\ HoldInv' /\ IndexInv' /\ LimitInv'
  BY DEF IInv, TypeOK, FreshInv, LockInv, HoldInv, IndexInv, LimitInv
<1>7. NodeHeldOnce'
  BY DEF IInv, NodeHeldOnce
<1>8. CountInv'
  BY <1>1, <1>3 DEF IInv, TypeOK, CountInv, CountersMatchList
<1>9. PermitsBacked'
  BY <1>3, <1>4 DEF IInv, PermitsBacked
<1> QED
  BY <1>2, <1>5, <1>6, <1>7, <1>8, <1>9 DEF IInv

\* RegCountAvailable keeps the invariant.
LEMMA RegCountAvailableKeeps ==
  ASSUME IInv, NEW g \in Regs, RegCountAvailable(g)
  PROVE  IInv'
<1> USE PoolAssumption DEF RegCountAvailable, At, Goto, callVars, Threads
<1>1. TypeOK /\ FiniteInv /\ M_clist = g
  BY DEF IInv, LockInv
<1>2. TypeOK'
  BY <1>1 DEF TypeOK
<1>3. Registered' = Registered /\ Idle' = Idle
  BY DEF Registered, Idle
<1>4. Claims' = Claims
  BY <1>1, ClaimsSame DEF TypeOK, Claim
<1>5. FiniteInv'
  BY <1>1, <1>3, <1>4 DEF FiniteInv
<1>6. FreshInv' /\ HoldInv' /\ IndexInv' /\ LimitInv'
  BY DEF IInv, TypeOK, FreshInv, HoldInv, IndexInv, LimitInv
<1>7. LockInv'
  BY <1>1 DEF IInv, TypeOK, LockInv
<1>8. NodeHeldOnce'
  BY DEF IInv, NodeHeldOnce
<1>9. CountInv'
  BY <1>1, <1>3 DEF IInv, TypeOK, CountInv, CountersMatchList
<1>10. PermitsBacked'
  BY <1>3, <1>4 DEF IInv, PermitsBacked
<1> QED
  BY <1>2, <1>5, <1>6, <1>7, <1>8, <1>9, <1>10 DEF IInv

-----------------------------------------------------------------------------
(* get_workers_n: up to the semaphore. *)

\* A step that moves no node and no permit keeps what is said of them.
LEMMA PoolSame ==
  ASSUME IInv,
         UNCHANGED <<list, status, num_node, ava_node, S_num_node, workers,
                     stale>>,
         \A q \in Req : Claim(q)' = Claim(q),
         \/ UNCHANGED M_clist /\ \A g \in Regs : pc'[g] = pc[g]
         \/ M_clist \notin Regs /\ M_clist' \notin Regs
  PROVE  FiniteInv' /\ NodeHeldOnce' /\ CountInv' /\ PermitsBacked'
<1>1. Registered' = Registered /\ Idle' = Idle
  BY DEF Registered, Idle
<1>2. Claims' = Claims
  BY ClaimsSame
<1>3. FiniteInv' /\ PermitsBacked'
  BY <1>1, <1>2 DEF IInv, FiniteInv, PermitsBacked
<1>4. NodeHeldOnce'
  BY DEF IInv, NodeHeldOnce
<1>5. CountInv'
  BY <1>1 DEF IInv, CountInv, CountersMatchList
<1> QED
  BY <1>3, <1>4, <1>5

\* Start keeps the invariant.
LEMMA StartKeeps ==
  ASSUME IInv, NEW r \in Req, Start(r)
  PROVE  IInv'
<1> USE PoolAssumption DEF At, Goto, poolVars, Threads
<1>1. /\ TypeOK /\ pc[r] = "new" /\ UNCHANGED poolVars
      /\ UNCHANGED <<i, workers, blank, server, stale>>
      /\ pc' = [pc EXCEPT ![r] = "check"]
  BY DEF IInv, Start, StartIndex, StartRetr
<1>2. n' \in [Req -> Nat] /\ kind' \in [Req -> {"index", "retr"}]
  <2>1. CASE StartIndex(r)
    BY <2>1 DEF IInv, TypeOK, StartIndex, AtLeastOne
  <2>2. CASE \E terms \in 1..MaxTerms : StartRetr(r, terms)
    BY <2>2 DEF IInv, TypeOK, StartRetr
  <2> QED
    BY <2>1, <2>2 DEF Start
<1>3. TypeOK'
  BY <1>1, <1>2 DEF TypeOK
<1>4. \A q \in Req \ {r} : n'[q] = n[q]
  BY DEF IInv, TypeOK, Start, StartIndex, StartRetr
<1>5. \A q \in Req : Claim(q)' = Claim(q)
  BY <1>1, <1>4 DEF TypeOK, Claim
<1>6. FiniteInv' /\ NodeHeldOnce' /\ CountInv' /\ PermitsBacked'
  BY <1>1, <1>5, PoolSame DEF TypeOK
<1>7. FreshInv' /\ LockInv' /\ HoldInv' /\ IndexInv' /\ LimitInv'
  BY <1>1, <1>4 DEF IInv, TypeOK, FreshInv, LockInv, HoldInv, IndexInv, LimitInv
<1> QED
  BY <1>3, <1>6, <1>7 DEF IInv

\* num_node and ava_node never exceed the length of the list.
LEMMA CountersBounded ==
  ASSUME IInv
  PROVE  num_node <= Len(list) /\ ava_node <= Len(list)
<1>1. CASE M_clist \in Regs
  BY <1>1, NodeSetsFinite DEF IInv, TypeOK, CountInv
<1>2. CASE M_clist \notin Regs
  BY <1>2, NodeSetsFinite DEF IInv, TypeOK, CountInv, CountersMatchList
<1> QED
  BY <1>1, <1>2

\* The steps between the start of a request and its first sem_wait.
Compare(r) ==
  \/ CheckNode(r)
  \/ CompareNum(r)
  \/ SetNum(r)
  \/ CompareAva(r)
  \/ SetAva(r)

\* Compare keeps the invariant.
LEMMA CompareKeeps ==
  ASSUME IInv, NEW r \in Req, Compare(r)
  PROVE  IInv'
<1> USE PoolAssumption DEF At, Goto, poolVars, callVars, Threads
<1>1. /\ TypeOK /\ server = "running" /\ UNCHANGED poolVars
      /\ UNCHANGED <<i, workers, kind, blank, server, stale>>
      /\ pc[r] \in {"check", "cmpNum", "setNum", "cmpAva", "setAva"}
      /\ \E to \in {"cmpNum", "setNum", "cmpAva", "setAva", "wait"} :
           pc' = [pc EXCEPT ![r] = to]
      /\ \E k \in Nat : n' = [n EXCEPT ![r] = k]
      /\ i[r] = 0
  BY DEF IInv, TypeOK, FreshInv, Compare, CheckNode, CompareNum, SetNum,
         CompareAva, SetAva, AtLeastOne
<1>2. TypeOK'
  BY <1>1 DEF TypeOK
<1>3. \A q \in Req : Claim(q)' = Claim(q)
  BY <1>1 DEF TypeOK, Claim
<1>4. FiniteInv' /\ NodeHeldOnce' /\ CountInv' /\ PermitsBacked'
  BY <1>1, <1>3, PoolSame DEF TypeOK
<1>5. FreshInv' /\ LockInv' /\ HoldInv' /\ IndexInv'
  BY <1>1 DEF IInv, TypeOK, FreshInv, LockInv, HoldInv, IndexInv
<1>6. LimitInv'
  BY CountersBounded
     DEF IInv, TypeOK, LimitInv, Compare, CheckNode, CompareNum, SetNum,
         CompareAva, SetAva, AtLeastOne, MoreThanNodes
<1> QED
  BY <1>2, <1>4, <1>5, <1>6 DEF IInv

\* NoNode keeps the invariant.
LEMMA NoNodeKeeps ==
  ASSUME IInv, NEW r \in Req, NoNode(r)
  PROVE  IInv'
<1> USE PoolAssumption DEF NoNode, At, poolVars, callVars, Threads
<1>1. TypeOK'
  BY DEF IInv, TypeOK
<1>2. \A q \in Req : Claim(q)' = Claim(q)
  BY DEF Claim
<1>3. FiniteInv' /\ NodeHeldOnce' /\ CountInv' /\ PermitsBacked'
  BY <1>2, PoolSame
<1>4. FreshInv' /\ LockInv' /\ HoldInv' /\ IndexInv' /\ LimitInv'
  BY DEF IInv, FreshInv, LockInv, HoldInv, IndexInv, LimitInv
<1> QED
  BY <1>1, <1>3, <1>4 DEF IInv

-----------------------------------------------------------------------------
(* get_workers_n: the permits and the walk. *)

\* SemWait keeps the invariant.
LEMMA SemWaitKeeps ==
  ASSUME IInv, NEW r \in Req, SemWait(r)
  PROVE  IInv'
<1> USE PoolAssumption DEF SemWait, At, Threads
<1>1. TypeOK /\ FiniteInv /\ IndexInv
  BY DEF IInv
<1>2. TypeOK'
  <2>1. S_num_node' \in Nat
    BY <1>1 DEF TypeOK
  <2>2. i' \in [Req -> Nat]
    BY <1>1 DEF TypeOK
  <2>3. UNCHANGED <<list, status, num_node, ava_node, M_clist, pc, kind, n,
                    workers, blank, server, stale>>
    OBVIOUS
  <2> HIDE DEF SemWait
  <2> QED
    BY <1>1, <2>1, <2>2, <2>3 DEF TypeOK
<1>3. Registered' = Registered /\ Idle' = Idle
  BY DEF Registered, Idle
<1>4. /\ Claim(r)' = Claim(r) + 1
      /\ \A q \in Req \ {r} : Claim(q)' = Claim(q)
  BY <1>1 DEF TypeOK, Claim
<1>5. /\ Claims' = Claims \cup {<<r, Claim(r) + 1>>}
      /\ <<r, Claim(r) + 1>> \notin Claims
  BY <1>1, <1>4, ClaimsGrow
<1>6. /\ IsFiniteSet(Claims')
      /\ Cardinality(Claims') = Cardinality(Claims) + 1
  BY <1>1, <1>5, FS_AddElement DEF FiniteInv
<1>7. FiniteInv'
  BY <1>1, <1>3, <1>6 DEF FiniteInv
<1>8. PermitsBacked'
  <2>1. /\ S_num_node \in Nat /\ S_num_node' = S_num_node - 1
        /\ stale \in Nat /\ stale' = stale
    BY <1>1 DEF TypeOK
  <2>2. /\ Cardinality(Claims) \in Nat
        /\ Cardinality(Idle) \in Nat /\ Cardinality(Idle') = Cardinality(Idle)
    BY <1>1, <1>3, NodeSetsFinite
  <2>3. S_num_node + Cardinality(Claims) <= Cardinality(Idle) + stale
    BY DEF IInv, PermitsBacked
  <2> HIDE DEF SemWait
  <2> QED
    BY <1>6, <2>1, <2>2, <2>3 DEF PermitsBacked
<1>9. NodeHeldOnce' /\ CountInv'
  BY <1>3 DEF IInv, NodeHeldOnce, CountInv, CountersMatchList
<1>10. FreshInv' /\ LockInv' /\ HoldInv' /\ IndexInv' /\ LimitInv'
  BY <1>1 DEF IInv, TypeOK, FreshInv, LockInv, HoldInv, IndexInv, LimitInv
<1> QED
  BY <1>2, <1>7, <1>8, <1>9, <1>10 DEF IInv

\* LockPool keeps the invariant.
LEMMA LockPoolKeeps ==
  ASSUME IInv, NEW r \in Req, LockPool(r)
  PROVE  IInv'
<1> USE PoolAssumption DEF LockPool, At, Goto, Threads
<1>1. TypeOK
  BY DEF IInv
<1>2. TypeOK'
  BY <1>1 DEF TypeOK
<1>3. \A q \in Req : Claim(q)' = Claim(q)
  BY <1>1 DEF TypeOK, Claim
<1>4. FiniteInv' /\ NodeHeldOnce' /\ CountInv' /\ PermitsBacked'
  BY <1>3, PoolSame
<1>5. FreshInv' /\ HoldInv' /\ IndexInv' /\ LimitInv'
  BY <1>1 DEF IInv, TypeOK, FreshInv, HoldInv, IndexInv, LimitInv
<1>6. LockInv'
  BY <1>1 DEF IInv, TypeOK, LockInv
<1> QED
  BY <1>2, <1>4, <1>5, <1>6 DEF IInv

\* ScanSlot keeps the invariant.
LEMMA ScanSlotKeeps ==
  ASSUME IInv, NEW r \in Req, ScanSlot(r)
  PROVE  IInv'
<1> USE PoolAssumption DEF ScanSlot, At, Threads
<1> DEFINE g == list[i[r] + 1]
<1>1. TypeOK /\ FiniteInv /\ IndexInv /\ M_clist = r /\ g \in Regs
  BY DEF IInv, TypeOK, LockInv
<1>2. /\ Claim(r) >= 1 /\ Claim(r)' = Claim(r) - 1
      /\ \A q \in Req \ {r} : Claim(q)' = Claim(q)
  BY <1>1 DEF TypeOK, Claim
<1>3. Claims' = Claims \ {<<r, Claim(r)>>} /\ <<r, Claim(r)>> \in Claims
  BY <1>1, <1>2, ClaimsShrink
<1>4. /\ IsFiniteSet(Claims')
      /\ Cardinality(Claims') = Cardinality(Claims) - 1
  BY <1>1, <1>3, FS_RemoveElement DEF FiniteInv
<1>5. FreshInv' /\ LockInv' /\ HoldInv' /\ IndexInv' /\ LimitInv'
  <2>1. \A h \in Regs : status[h] = "absent" => status'[h] = "absent"
    BY <1>1 DEF TypeOK, Available
  <2>2. FreshInv'
    BY <1>1, <2>1 DEF IInv, TypeOK, FreshInv
  <2>3. HoldInv'
    BY <1>1 DEF IInv, TypeOK, HoldInv
  <2> QED
    BY <1>1, <2>2, <2>3 DEF IInv, TypeOK, LockInv, IndexInv, LimitInv
<1>6. CASE Available(g)
  <2>1. /\ status' = [status EXCEPT ![g] = "WORKING"]
        /\ ava_node' = ava_node - 1
        /\ workers' = [workers EXCEPT ![r] = @ \cup {g}]
    BY <1>6
  <2>2. Registered' = Registered
    BY <1>1, <1>6, <2>1 DEF TypeOK, Registered, Available
  <2>3. Idle' = Idle \ {g} /\ g \in Idle
    BY <1>1, <1>6, <2>1 DEF TypeOK, Idle, Available
  <2>4. Cardinality(Idle') = Cardinality(Idle) - 1
    BY <1>1, <2>3, NodeSetsFinite, FS_RemoveElement
  <2>5. ava_node = Cardinality(Idle) /\ Cardinality(Idle) >= 1
    BY <1>1, <2>3, NodeSetsFinite, FS_EmptySet
       DEF IInv, CountInv, CountersMatchList
  <2>6. TypeOK'
    BY <1>1, <2>1, <2>5 DEF TypeOK
  <2>7. FiniteInv'
    BY <1>1, <1>4, <2>2 DEF FiniteInv
  <2>8. NodeHeldOnce'
    BY <1>1, <1>6, <2>1 DEF IInv, TypeOK, NodeHeldOnce, Available
  <2>9. CountInv'
    BY <1>1, <2>1, <2>2, <2>4, <2>5 DEF IInv, CountInv, CountersMatchList
  <2>10. PermitsBacked'
    <3>1. /\ Cardinality(Claims) \in Nat /\ Cardinality(Idle) \in Nat
          /\ S_num_node \in Nat /\ stale \in Nat
      BY <1>1, NodeSetsFinite DEF TypeOK
    <3> QED
      BY <1>4, <2>4, <3>1 DEF IInv, PermitsBacked
  <2> QED
    BY <1>5, <2>6, <2>7, <2>8, <2>9, <2>10 DEF IInv
<1>7. CASE ~Available(g)
  <2>1. UNCHANGED <<status, ava_node, workers>>
    BY <1>7
  <2>2. Registered' = Registered /\ Idle' = Idle
    BY <2>1 DEF Registered, Idle
  <2>3. TypeOK' /\ FiniteInv' /\ NodeHeldOnce'
    BY <1>1, <1>4, <2>1, <2>2 DEF IInv, TypeOK, FiniteInv, NodeHeldOnce
  <2>4. CountInv'
    BY <2>1, <2>2 DEF IInv, CountInv, CountersMatchList
  <2>5. PermitsBacked'
    <3>1. /\ Cardinality(Claims) \in Nat /\ Cardinality(Idle) \in Nat
          /\ S_num_node \in Nat /\ stale \in Nat
      BY <1>1, NodeSetsFinite DEF TypeOK
    <3> QED
      BY <1>4, <2>2, <3>1 DEF IInv, PermitsBacked
  <2> QED
    BY <1>5, <2>3, <2>4, <2>5 DEF IInv
<1> QED
  BY <1>6, <1>7

\* ScanDone keeps the invariant.
LEMMA ScanDoneKeeps ==
  ASSUME IInv, NEW r \in Req, ScanDone(r)
  PROVE  IInv'
<1> USE PoolAssumption DEF ScanDone, Unlocked, At, Goto, Threads
<1>1. TypeOK /\ M_clist = r
  BY DEF IInv, LockInv
<1>2. TypeOK'
  BY <1>1 DEF TypeOK, EndsInBlank
<1>3. \A q \in Req : Claim(q)' = Claim(q)
  BY <1>1 DEF TypeOK, Claim
<1>4. FiniteInv' /\ NodeHeldOnce' /\ CountInv' /\ PermitsBacked'
  BY <1>1, <1>3, PoolSame
<1>5. FreshInv' /\ LockInv' /\ HoldInv' /\ IndexInv' /\ LimitInv'
  BY <1>1 DEF IInv, TypeOK, FreshInv, LockInv, HoldInv, IndexInv, LimitInv
<1> QED
  BY <1>2, <1>4, <1>5 DEF IInv

\* ShortChain keeps the invariant.
LEMMA ShortChainKeeps ==
  ASSUME IInv, NEW r \in Req, ShortChain(r)
  PROVE  IInv'
<1> USE PoolAssumption DEF ShortChain, At, callVars, Threads
<1>1. TypeOK /\ M_clist = r
  BY DEF IInv, LockInv
<1>2. TypeOK'
  BY <1>1 DEF TypeOK
<1>3. \A q \in Req : Claim(q)' = Claim(q)
  BY DEF Claim
<1>4. FiniteInv' /\ NodeHeldOnce' /\ CountInv' /\ PermitsBacked'
  BY <1>1, <1>3, PoolSame
<1>5. FreshInv' /\ LockInv' /\ HoldInv' /\ IndexInv' /\ LimitInv'
  BY DEF IInv, FreshInv, LockInv, HoldInv, IndexInv, LimitInv
<1> QED
  BY <1>2, <1>4, <1>5 DEF IInv

-----------------------------------------------------------------------------
(* The agents, and free_workers. *)

\* BlankAgent keeps the invariant.
LEMMA BlankAgentKeeps ==
  ASSUME IInv, NEW r \in Req, BlankAgent(r)
  PROVE  IInv'
<1> USE PoolAssumption DEF BlankAgent, At, poolVars, callVars, Threads
<1>1. TypeOK'
  BY DEF IInv, TypeOK
<1>2. \A q \in Req : Claim(q)' = Claim(q)
  BY DEF Claim
<1>3. FiniteInv' /\ NodeHeldOnce' /\ CountInv' /\ PermitsBacked'
  BY <1>2, PoolSame
<1>4. FreshInv' /\ LockInv' /\ HoldInv' /\ IndexInv' /\ LimitInv'
  BY DEF IInv, FreshInv, LockInv, HoldInv, IndexInv, LimitInv
<1> QED
  BY <1>1, <1>3, <1>4 DEF IInv

\* FreeLocked keeps the invariant.
LEMMA FreeLockedKeeps ==
  ASSUME IInv, DistinctAddrs, NEW r \in Req, FreeLocked(r)
  PROVE  IInv'
<1> USE PoolAssumption DEF FreeLocked, At, Goto, Threads
<1> DEFINE W == workers[r]
<1>1. /\ TypeOK /\ FiniteInv /\ IndexInv /\ W \subseteq Regs
      /\ \A g \in W : status[g] = "WORKING"
  BY DEF IInv, TypeOK, NodeHeldOnce
<1>2. \A g \in Regs : status'[g] = IF g \in W THEN "IDLE" ELSE status[g]
  <2>1. ASSUME NEW g \in Regs
        PROVE  (\E h \in W : SameNode(g, h)) <=> g \in W
    BY <1>1 DEF DistinctAddrs, SameNode
  <2> QED
    BY <1>1, <2>1
<1>3. Registered' = Registered /\ W \subseteq Registered
  BY <1>1, <1>2 DEF Registered
<1>4. Idle' = Idle \cup W /\ Idle \cap W = {}
  BY <1>1, <1>2 DEF Idle
<1>5. IsFiniteSet(W) /\ Cardinality(W) \in Nat
  BY <1>1, <1>3, FS_Subset, FS_CardinalityType DEF FiniteInv
<1>6. Cardinality(Idle') = Cardinality(Idle) + Cardinality(W)
  <2>1. IsFiniteSet(Idle) /\ Cardinality(Idle) \in Nat
    BY <1>1, NodeSetsFinite
  <2> HIDE DEF W
  <2>2. Cardinality(Idle \cup W)
          = Cardinality(Idle) + Cardinality(W) - Cardinality({})
    BY <1>4, <1>5, <2>1, FS_Union
  <2> QED
    BY <1>4, <1>5, <2>1, <2>2, FS_EmptySet
<1>7. TypeOK'
  <2>1. status' \in [Regs -> {"absent", "IDLE", "WORKING"}]
    BY <1>1 DEF TypeOK
  <2> QED
    BY <1>1, <1>5, <2>1 DEF TypeOK, Returned
<1>8. /\ Claim(r) = 0 /\ Claim(r)' = Cardinality(W)
      /\ \A q \in Req \ {r} : Claim(q)' = Claim(q)
  BY <1>1, <1>5 DEF TypeOK, Claim, Returned
<1>9. /\ IsFiniteSet(Claims')
      /\ Cardinality(Claims') = Cardinality(Claims) + Cardinality(W)
  BY <1>1, <1>5, <1>8, ClaimsNew DEF FiniteInv
<1>10. FiniteInv'
  BY <1>1, <1>3, <1>9 DEF FiniteInv
<1>11. FreshInv' /\ LockInv' /\ HoldInv' /\ LimitInv'
  <2>1. FreshInv'
    BY <1>1, <1>2 DEF IInv, TypeOK, FreshInv
  <2> QED
    BY <1>1, <2>1 DEF IInv, TypeOK, LockInv, HoldInv, LimitInv
<1>12. IndexInv'
  BY <1>1, <1>5 DEF IInv, TypeOK, IndexInv, Returned
<1>13. NodeHeldOnce'
  <2> SUFFICES ASSUME NEW q \in Req, NEW g \in workers'[q]
               PROVE  /\ status'[g] = "WORKING"
                      /\ \A p \in Req \ {q} : g \notin workers'[p]
    BY DEF NodeHeldOnce
  <2>1. q # r /\ g \in workers[q] /\ g \in Regs
    BY <1>1 DEF TypeOK
  <2>2. g \notin W /\ status[g] = "WORKING"
        /\ \A p \in Req \ {q} : g \notin workers[p]
    BY <2>1 DEF IInv, NodeHeldOnce
  <2> QED
    BY <1>1, <1>2, <2>1, <2>2 DEF TypeOK
<1>14. CountInv'
  BY <1>3, <1>6 DEF IInv, CountInv, CountersMatchList, Returned
<1>15. PermitsBacked'
  <2>1. /\ Cardinality(Claims) \in Nat /\ Cardinality(Idle) \in Nat
        /\ S_num_node \in Nat /\ stale \in Nat
    BY <1>1, NodeSetsFinite DEF TypeOK
  <2> QED
    BY <1>5, <1>6, <1>9, <2>1 DEF IInv, PermitsBacked
<1> QED
  BY <1>7, <1>10, <1>11, <1>12, <1>13, <1>14, <1>15 DEF IInv

\* FreePost keeps the invariant.
LEMMA FreePostKeeps ==
  ASSUME IInv, NEW r \in Req, FreePost(r)
  PROVE  IInv'
<1> USE PoolAssumption DEF FreePost, OnePost, At, Threads
<1>1. TypeOK /\ FiniteInv /\ IndexInv
  BY DEF IInv
<1>2. TypeOK'
  BY <1>1 DEF TypeOK
<1>3. Registered' = Registered /\ Idle' = Idle
  BY DEF Registered, Idle
<1>4. /\ Claim(r) >= 1 /\ Claim(r)' = Claim(r) - 1
      /\ \A q \in Req \ {r} : Claim(q)' = Claim(q)
  BY <1>1 DEF TypeOK, Claim
<1>5. Claims' = Claims \ {<<r, Claim(r)>>} /\ <<r, Claim(r)>> \in Claims
  BY <1>1, <1>4, ClaimsShrink
<1>6. /\ IsFiniteSet(Claims')
      /\ Cardinality(Claims') = Cardinality(Claims) - 1
  BY <1>1, <1>5, FS_RemoveElement DEF FiniteInv
<1>7. FiniteInv'
  BY <1>1, <1>3, <1>6 DEF FiniteInv
<1>8. PermitsBacked'
  <2>1. /\ Cardinality(Claims) \in Nat /\ Cardinality(Idle) \in Nat
        /\ S_num_node \in Nat /\ stale \in Nat
    BY <1>1, NodeSetsFinite DEF TypeOK
  <2> QED
    BY <1>3, <1>6, <2>1 DEF IInv, PermitsBacked
<1>9. NodeHeldOnce' /\ CountInv'
  BY <1>3 DEF IInv, NodeHeldOnce, CountInv, CountersMatchList
<1>10. FreshInv' /\ LockInv' /\ HoldInv' /\ IndexInv' /\ LimitInv'
  BY <1>1 DEF IInv, TypeOK, FreshInv, LockInv, HoldInv, IndexInv, LimitInv
<1> QED
  BY <1>2, <1>7, <1>8, <1>9, <1>10 DEF IInv

\* Finish keeps the invariant.
LEMMA FinishKeeps ==
  ASSUME IInv, NEW r \in Req, Finish(r)
  PROVE  IInv'
<1> USE PoolAssumption DEF Finish, At, Goto, poolVars, callVars, Threads
<1>1. TypeOK
  BY DEF IInv
<1>2. TypeOK'
  BY <1>1 DEF TypeOK
<1>3. \A q \in Req : Claim(q)' = Claim(q)
  BY <1>1 DEF TypeOK, Claim
<1>4. FiniteInv' /\ NodeHeldOnce' /\ CountInv' /\ PermitsBacked'
  BY <1>1, <1>3, PoolSame DEF TypeOK
<1>5. FreshInv' /\ LockInv' /\ HoldInv' /\ IndexInv' /\ LimitInv'
  BY <1>1 DEF IInv, TypeOK, FreshInv, LockInv, HoldInv, IndexInv, LimitInv
<1> QED
  BY <1>2, <1>4, <1>5 DEF IInv

-----------------------------------------------------------------------------
(* A crash of the server, and its restart. *)

\* Restart keeps the invariant.
LEMMA RestartKeeps ==
  ASSUME IInv, NEW again \in SUBSET Regs, Restart(again)
  PROVE  IInv'
<1> USE PoolAssumption DEF Restart, Threads
<1>1. TypeOK
  BY DEF IInv
<1>2. TypeOK'
  BY <1>1 DEF TypeOK
<1>3. Registered' = {} /\ Idle' = {}
  BY DEF Registered, Idle
<1>4. \A t \in Req \cup Regs : pc'[t] \in {"new", "done"}
  BY <1>1 DEF TypeOK
<1>5. Claims' = {}
  <2>1. \A r \in Req : Claim(r)' = 0
    BY <1>4 DEF Claim
  <2> QED
    BY <2>1 DEF Claims
<1>6. FiniteInv'
  BY <1>3, <1>5, FS_EmptySet DEF FiniteInv
<1>7. \A r \in Req : pc'[r] = "new" => pc[r] = "new"
  BY <1>1 DEF TypeOK
<1>8. FreshInv' /\ LockInv' /\ HoldInv' /\ IndexInv' /\ LimitInv'
  BY <1>1, <1>4, <1>7
     DEF IInv, TypeOK, FreshInv, LockInv, HoldInv, IndexInv, LimitInv
<1>9. NodeHeldOnce'
  BY DEF NodeHeldOnce
<1>10. CountInv'
  BY <1>3, FS_EmptySet DEF CountInv, CountersMatchList
<1>11. PermitsBacked'
  BY <1>1, <1>3, <1>5, FS_EmptySet DEF TypeOK, PermitsBacked
<1> QED
  BY <1>2, <1>6, <1>8, <1>9, <1>10, <1>11 DEF IInv

-----------------------------------------------------------------------------
(* The theorems. *)

\* IInv is inductive.  DistinctAddrs is needed for free_workers alone.
LEMMA NextKeepsIInv ==
  ASSUME DistinctAddrs, IInv, [Next]_vars
  PROVE  IInv'
<1>1. CASE UNCHANGED vars
  <2> USE <1>1 DEF vars, poolVars, callVars
  <2>1. TypeOK'
    BY DEF IInv, TypeOK
  <2>2. \A q \in Req : Claim(q)' = Claim(q)
    BY DEF Claim
  <2>3. FiniteInv' /\ NodeHeldOnce' /\ CountInv' /\ PermitsBacked'
    BY <2>2, PoolSame
  <2>4. FreshInv' /\ LockInv' /\ HoldInv' /\ IndexInv' /\ LimitInv'
    BY DEF IInv, FreshInv, LockInv, HoldInv, IndexInv, LimitInv
  <2> QED
    BY <2>1, <2>3, <2>4 DEF IInv
<1>2. ASSUME NEW g \in Regs, Register(g)
      PROVE  IInv'
  BY <1>2, RegPushKeeps, RegCountNodeKeeps, RegCountAvailableKeeps
     DEF Register
<1>3. ASSUME NEW r \in Req, Start(r)
      PROVE  IInv'
  BY <1>3, StartKeeps
<1>4. ASSUME NEW r \in Req, Run(r)
      PROVE  IInv'
  <2>1. CASE Compare(r)
    BY <2>1, CompareKeeps
  <2>2. CASE NoNode(r) \/ SemWait(r) \/ LockPool(r)
    BY <2>2, NoNodeKeeps, SemWaitKeeps, LockPoolKeeps
  <2>3. CASE ScanSlot(r) \/ ScanDone(r) \/ ShortChain(r)
    BY <2>3, ScanSlotKeeps, ScanDoneKeeps, ShortChainKeeps
  <2>4. CASE BlankAgent(r) \/ FreeLocked(r)
    BY <2>4, BlankAgentKeeps, FreeLockedKeeps
  <2>5. CASE FreePost(r) \/ Finish(r)
    BY <2>5, FreePostKeeps, FinishKeeps
  <2> QED
    BY <1>4, <2>1, <2>2, <2>3, <2>4, <2>5 DEF Run, Compare
<1>5. ASSUME NEW again \in SUBSET Regs, Restart(again)
      PROVE  IInv'
  BY <1>5, RestartKeeps
<1> QED
  BY <1>1, <1>2, <1>3, <1>4, <1>5 DEF Next

\* IInv holds in every reachable state when no address is registered twice.
THEOREM PoolInvariant ==
  ASSUME DistinctAddrs
  PROVE  Spec => []IInv
<1>1. Init => IInv
  BY InitIInv
<1>2. IInv /\ [Next]_vars => IInv'
  BY NextKeepsIInv
<1> QED
  BY <1>1, <1>2, PTL DEF Spec

\* Counters and semaphore stay natural numbers, list a list of nodes, and so
\* on: ava_node is never decremented below 0 by a walk.
THEOREM TypeCorrect ==
  ASSUME DistinctAddrs
  PROVE  Spec => []TypeOK
<1>1. IInv => TypeOK
  BY DEF IInv
<1> QED
  BY <1>1, PoolInvariant, PTL

\* No node is worked with by two requests, or handed out while it works.
THEOREM Exclusion ==
  ASSUME DistinctAddrs
  PROVE  Spec => []NodeHeldOnce
<1>1. IInv => NodeHeldOnce
  BY DEF IInv
<1> QED
  BY <1>1, PoolInvariant, PTL

\* The counters that get_workers_n reads are right between registrations.
THEOREM CountersCorrect ==
  ASSUME DistinctAddrs
  PROVE  Spec => []CountersMatchList
<1>1. IInv => CountersMatchList
  BY DEF IInv, CountInv
<1> QED
  BY <1>1, PoolInvariant, PTL

\* No permit of S_num_node is without an IDLE node, but for stale ones.
THEOREM PermitsCorrect ==
  ASSUME DistinctAddrs
  PROVE  Spec => []PermitsBacked
<1>1. IInv => PermitsBacked
  BY DEF IInv
<1> QED
  BY <1>1, PoolInvariant, PTL

\* get_workers_n never reaches its "Error!" branch, which keeps the mutex.
THEOREM WalkCorrect ==
  ASSUME DistinctAddrs
  PROVE  Spec => []WalkStaysInList
<1>1. IInv => WalkStaysInList
  BY DEF IInv, TypeOK, LimitInv, WalkStaysInList
<1> QED
  BY <1>1, PoolInvariant, PTL
=============================================================================
