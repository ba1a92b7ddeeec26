-------------------------- MODULE TermCount_proofs --------------------------
(***************************************************************************)
(* Proofs about TermCount: the lists that counting and combining leave     *)
(* behind, and what is counted in them, for every document, every number   *)
(* of parts and every set of terms.                                        *)
(***************************************************************************)
EXTENDS TermCount, Links_proofs

\* The order of the lists.
Key == [x \in Node |-> x[2]]

-----------------------------------------------------------------------------
(* The inductive invariant. *)

\* Where the code is, and in which part.
Control ==
  /\ Len(text) <= MaxWords + 1 /\ Len(doc) <= Len(text)
  /\ \A j \in 1..Len(parts) :
       parts[j][1] \in 1..(Len(text) + 1) /\ parts[j][2] <= Len(text)
  /\ pc = "split" => Len(parts) < n /\ k = 1
  /\ pc \in {"count", "merge", "combine", "done"} => Len(parts) = n
  /\ pc \in {"count", "combine"} => k <= n
  /\ pc = "merge" => k <= n + 1
  /\ pc = "done" => k = n + 1

\* own[p] are the nodes of part p's list, M those of the main list, and A
\* those that combine_count has still to take over.
Linking(own, M, A) ==
  /\ \A p \in Part : /\ \A x \in own[p] : x[1] = p
                     /\ Linked(next, pre, Key, list[p], own[p])
                     /\ own[p] \cap M = {} /\ own[p] \cap A = {}
  /\ Linked(next, pre, Key, main, M)
  /\ Forward(next, Key, pn_asst, A)
  /\ Backward(next, pre, pn_asst, A)
  /\ M \cap A = {}

\* The part is not combined yet.
Pending(p) ==
  \/ pc \in {"split", "count"}
  \/ pc = "merge" /\ p >= k
  \/ pc = "combine" /\ p > k

Lengths(own, M, A) ==
  /\ \A p \in Part : own[p] # {} \/ Pending(p) => term_count[p] = Cardinality(own[p])
  /\ main_terms = Cardinality(M)
  /\ pc = "combine" => term_count[k] = Cardinality(A)

\* While words are counted, nodes outside the lists have no links.
Unused(own, M) ==
  pc \in {"split", "count"} =>
    /\ M = {}
    /\ \A x \in Node : x \notin own[x[1]] => next[x] = NULL /\ pre[x] = NULL

\* combine_count is at a node of the main list, and what is before that node
\* is before all that is still to be taken over.
Combining(M, A) ==
  /\ pc # "combine" => A = {}
  /\ pc = "combine" =>
       /\ list[k] = NULL
       /\ pn_main \in M
       /\ \A x \in M, y \in A : Key[x] < Key[pn_main] => Key[x] < Key[y]

Lists(own, M, A) ==
  /\ own \in [Part -> SUBSET Node] /\ M \in SUBSET Node /\ A \in SUBSET Node
  /\ Linking(own, M, A)
  /\ Lengths(own, M, A)
  /\ Unused(own, M)
  /\ Combining(M, A)

IInv ==
  /\ TypeOK
  /\ Control
  /\ \E own, M, A : Lists(own, M, A)

-----------------------------------------------------------------------------
(* Constants. *)

\* What the assumptions say of parts, nodes and keys.
LEMMA Constants ==
  /\ Part \subseteq Nat \ {0} /\ 1 \in Part
  /\ NULL \notin Node
  /\ \A x \in Node : x[1] \in Part /\ x[2] \in Term /\ x[2] \in Nat /\ x = <<x[1], x[2]>>
  /\ Key \in [Node -> Nat]
  /\ \A x \in Node : Key[x] = x[2]
<1>1. Part \subseteq Nat \ {0} /\ 1 \in Part
  BY CountAssumption DEF Part
<1>2. \A x \in Node : x[1] \in Part /\ x[2] \in Term /\ x[2] \in Nat /\ x = <<x[1], x[2]>>
  <2>1. \A x \in Node : x[1] \in Part /\ x[2] \in Term /\ x = <<x[1], x[2]>>
    BY DEF Node
  <2> QED
    BY <2>1, CountAssumption
<1>3. NULL \notin Node
  <2>1. Node \subseteq Nat \X Term
    BY <1>1 DEF Node
  <2> QED
    BY <2>1, CountAssumption
<1> QED
  BY <1>1, <1>2, <1>3 DEF Key

\* Sets of nodes are finite, so that they have sizes.
LEMMA NodesFinite ==
  /\ IsFiniteSet(Part) /\ IsFiniteSet(Node)
  /\ \A S \in SUBSET Node : IsFiniteSet(S) /\ Cardinality(S) \in Nat
<1>1. IsFiniteSet(Part)
  BY CountAssumption, FS_Interval DEF Part
<1>2. IsFiniteSet(Node)
  BY <1>1, CountAssumption, FS_Product DEF Node
<1> QED
  BY <1>1, <1>2, FS_Subset, FS_CardinalityType

\* The ranges of the numbers.
Ranges ==
  /\ MaxParts \in Nat /\ MaxWords \in Nat
  /\ n \in 1..MaxParts /\ k \in 1..(MaxParts + 1) /\ ptr \in 1..(MaxWords + 2)
  /\ text \in Seq(Term \cup {NL}) /\ Len(text) \in Nat /\ Len(text) <= MaxWords + 1
  /\ parts \in Seq(Nat \X Nat) /\ Len(parts) \in Nat
  /\ \A j \in 1..Len(parts) : /\ parts[j][1] \in 1..(Len(text) + 1)
                             /\ parts[j][2] \in Nat /\ parts[j][2] <= Len(text)
  /\ \A p \in 1..n : PartOf(p) \in 1..n

\* The domains of the program counters and places.
LEMMA Numbers ==
  ASSUME TypeOK, Control PROVE Ranges
<1>1. MaxParts \in Nat /\ MaxWords \in Nat /\ n \in 1..MaxParts
  BY CountAssumption DEF TypeOK, Part
<1>2. \A p \in 1..n : PartOf(p) \in 1..n
  BY <1>1 DEF PartOf
<1>3. \A j \in 1..Len(parts) : parts[j] \in Nat \X Nat
  BY DEF TypeOK
<1>4. \A j \in 1..Len(parts) : parts[j][2] \in Nat
  BY <1>3
<1>5. k \in 1..(MaxParts + 1) /\ ptr \in 1..(MaxWords + 2) /\ text \in Seq(Term \cup {NL})
      /\ parts \in Seq(Nat \X Nat)
  BY DEF TypeOK
<1>6. Len(text) \in Nat /\ Len(parts) \in Nat
  BY <1>5
<1> QED
  BY <1>1, <1>2, <1>4, <1>5, <1>6 DEF Control, Ranges

\* The part that count k is given, in the document.
LEMMA GivenPart ==
  ASSUME TypeOK, Control, pc = "count"
  PROVE  /\ PartOf(k) \in 1..Len(parts) /\ k \in 1..n
         /\ parts[PartOf(k)][2] \in Nat /\ parts[PartOf(k)][2] <= Len(text)
<1>0. Ranges
  BY Numbers
<1>1. k \in 1..n /\ Len(parts) = n
  BY <1>0 DEF Control, Ranges
<1>2. PartOf(k) \in 1..Len(parts)
  BY <1>0, <1>1 DEF Ranges
<1> QED
  BY <1>0, <1>1, <1>2 DEF Ranges

\* The part that is counted or combined is one of the document's.
LEMMA PartOfTheCount ==
  ASSUME TypeOK, Control, pc \in {"count", "combine"}
  PROVE  k \in Part /\ k \in 1..n
BY Numbers DEF Control, Part, Ranges

-----------------------------------------------------------------------------
(* The steps that leave the lists as they are. *)

\* Steps that touch no list and no node leave the lists as they are.
LEMMA ListsStay ==
  ASSUME NEW own, NEW M, NEW A, Lists(own, M, A),
         UNCHANGED <<heap, lists, pn_main, pn_asst>>, pc # "combine",
         pc' \in {pc, "count", "undefined", "done"},
         pc' = "count" => pc \in {"split", "count"},
         pc' = pc => pc = "count" \/ k' = k
  PROVE  Lists(own, M, A)'
<1>1. Linking(own, M, A)'
  BY DEF Lists, Linking, heap, lists
<1>2. Lengths(own, M, A)'
  BY DEF Lists, Lengths, Pending, heap, lists
<1>3. Unused(own, M)' /\ Combining(M, A)'
  BY DEF Lists, Unused, Combining, heap, lists
<1> QED
  BY <1>1, <1>2, <1>3 DEF Lists

-----------------------------------------------------------------------------
(* A word is counted. *)

\* The chain of a part's list, and where add_count_term stops on it.
LEMMA PartChain ==
  ASSUME TypeOK, NEW own, NEW M, NEW A, Lists(own, M, A), NEW p \in Part
  PROVE  Orders(Chain(next, list[p]), next, Key, list[p], own[p])
<1>1. Forward(next, Key, list[p], own[p]) /\ own[p] \subseteq Node
  BY DEF Lists, Linking, Linked
<1>2. next \in [Node -> Node \cup {NULL}]
  BY DEF TypeOK
<1> QED
  BY <1>1, <1>2, Constants, NodesFinite, ChainIs

\* Where add_count_term's walk stops: at the first term that is not smaller,
\* or at the end.
LEMMA StopsAtIs ==
  ASSUME NEW s, NEW S \in SUBSET Node, NEW nx, NEW h, NEW t \in Term,
         Orders(s, nx, Key, h, S), Forward(nx, Key, h, S)
  PROVE  /\ (s = <<>>) <=> (S = {})
         /\ s # <<>> =>
              LET at == StopsAt(s, t) IN
              /\ at \in S
              /\ \/ Key[at] >= t /\ \A x \in S : Key[x] < Key[at] => Key[x] < t
                 \/ Key[at] < t /\ nx[at] = NULL /\ \A x \in S : Key[x] <= Key[at]
<1>1. /\ s \in Seq(S) /\ Len(s) \in Nat /\ \A x \in S : \E j \in 1..Len(s) : s[j] = x
      /\ Len(s) = Cardinality(S) /\ DOMAIN s = 1..Len(s) /\ t \in Nat
  BY CountAssumption DEF Orders
<1>2. (s = <<>>) <=> (S = {})
  BY <1>1, NodesFinite, FS_EmptySet
<1> SUFFICES ASSUME s # <<>>
             PROVE  LET at == StopsAt(s, t) IN
                    /\ at \in S
                    /\ \/ Key[at] >= t /\ \A x \in S : Key[x] < Key[at] => Key[x] < t
                       \/ Key[at] < t /\ nx[at] = NULL /\ \A x \in S : Key[x] <= Key[at]
  BY <1>2
<1> DEFINE bigger == {j \in DOMAIN s : s[j][2] >= t}
<1>3. \A j \in 1..Len(s) : s[j] \in S /\ Key[s[j]] = s[j][2] /\ s[j][2] \in Nat
  BY <1>1, Constants
<1>4. \A x \in S : Key[x] \in Nat
  BY Constants
<1>5. CASE bigger = {}
  <2>1. StopsAt(s, t) = s[Len(s)]
    BY <1>5 DEF StopsAt, Last
  <2>2. /\ Len(s) > 0 /\ s[Len(s)] \in S /\ nx[s[Len(s)]] = NULL
        /\ \A x \in S : Key[x] <= Key[s[Len(s)]]
    BY <1>2, <1>4, NodesFinite, ChainEnds
  <2>3. Key[s[Len(s)]] < t
    BY <1>1, <1>3, <1>5, <2>2
  <2> QED
    BY <2>1, <2>2, <2>3
<1>6. CASE bigger # {}
  <2> DEFINE j == CHOOSE j \in bigger : \A i \in bigger : j <= i
  <2>1. \E i \in bigger : \A l \in bigger : i <= l
    <3>1. bigger \subseteq Nat
      BY <1>1
    <3> HIDE DEF bigger
    <3> QED
      BY <1>6, <3>1, LeastNumber
  <2>2. j \in bigger /\ \A i \in bigger : j <= i
    BY <2>1
  <2>3. StopsAt(s, t) = s[j]
    BY <1>6 DEF StopsAt
  <2> HIDE DEF j
  <2>4. j \in 1..Len(s) /\ s[j] \in S /\ Key[s[j]] >= t
    BY <1>1, <1>3, <2>2
  <2>5. ASSUME NEW x \in S, Key[x] < Key[s[j]] PROVE Key[x] < t
    <3>1. PICK i \in 1..Len(s) : s[i] = x
      BY <1>1
    <3>2. ~(j < i) /\ i # j
      BY <1>4, <2>4, <2>5, <3>1 DEF Orders
    <3>3. i \notin bigger
      BY <1>1, <2>2, <2>4, <3>1, <3>2
    <3> QED
      BY <1>1, <1>3, <3>1, <3>3
  <2> QED
    BY <2>3, <2>4, <2>5
<1> QED
  BY <1>5, <1>6

\* A node is added to the list of the part that is counted.
LEMMA NodeAdded ==
  ASSUME TypeOK, NEW own, NEW M, NEW A, Lists(own, M, A), pc = "count", NEW q \in Part, k = q,
         NEW x \in Node, x[1] = q, x \notin own[q],
         Linked(next', pre', Key, list'[q], own[q] \cup {x}),
         \A y \in Node : y \notin own[q] \cup {x} => next'[y] = next[y] /\ pre'[y] = pre[y],
         \A p \in Part : p # q => list'[p] = list[p],
         term_count' = [term_count EXCEPT ![k] = @ + 1],
         UNCHANGED <<pc, k, main, main_terms, pn_main, pn_asst>>
  PROVE  Lists([own EXCEPT ![q] = @ \cup {x}], M, A)'
<1> DEFINE own2 == [own EXCEPT ![q] = @ \cup {x}]
<1>1. /\ own2 \in [Part -> SUBSET Node] /\ own2[q] = own[q] \cup {x}
      /\ \A p \in Part : p # q => own2[p] = own[p]
      /\ \A p \in Part : own[p] \subseteq Node /\ \A y \in own[p] : y[1] = p
      /\ own \in [Part -> SUBSET Node]
  BY DEF Lists, Linking
<1> HIDE DEF own2
<1>2. M = {} /\ A = {} /\ main' = main /\ pn_asst' = pn_asst /\ k' = k /\ pc' = pc
  BY DEF Lists, Unused, Combining
<1>3. ASSUME NEW p \in Part
      PROVE  (\A y \in own2[p] : y[1] = p) /\ Linked(next', pre', Key, list'[p], own2[p])
  <2>1. CASE p = q
    BY <1>1, <2>1
  <2>2. CASE p # q
    <3>1. \A y \in own[p] : y \in Node /\ y \notin own[q] \cup {x}
      BY <1>1, <2>2
    <3>2. Linked(next, pre, Key, list[p], own[p]) /\ list'[p] = list[p]
      BY <2>2 DEF Lists, Linking
    <3>3. Linked(next', pre', Key, list[p], own[p])
      BY <3>1, <3>2, LinkedFrame
    <3> QED
      BY <1>1, <2>2, <3>2, <3>3
  <2> QED
    BY <2>1, <2>2
<1>4. Linked(next', pre', Key, main', M) /\ Forward(next', Key, pn_asst', A)
      /\ Backward(next', pre', pn_asst', A)
  <2>1. Linked(next, pre, Key, main, M) /\ Forward(next, Key, pn_asst, A)
    BY DEF Lists, Linking
  <2>2. main = NULL /\ pn_asst = NULL
    BY <1>2, <2>1 DEF Linked, Forward
  <2> QED
    BY <1>2, <2>2, NoNode DEF Linked
<1>5. Linking(own2, M, A)'
  BY <1>2, <1>3, <1>4 DEF Linking
<1>6. Lengths(own2, M, A)'
  <2>1. \A p \in Part : term_count[p] = Cardinality(own[p])
    BY DEF Lists, Lengths, Pending
  <2>2. Cardinality(own2[q]) = Cardinality(own[q]) + 1
    <3>1. IsFiniteSet(own[q])
      BY <1>1, NodesFinite
    <3>2. Cardinality(own[q] \cup {x}) = Cardinality(own[q]) + 1
      BY <3>1, FS_AddElement
    <3> QED
      BY <1>1, <3>2
  <2>3. \A p \in Part : term_count'[p] = Cardinality(own2[p])
    BY <1>1, <2>1, <2>2 DEF TypeOK
  <2> QED
    BY <1>2, <2>3 DEF Lists, Lengths
<1>7. Unused(own2, M)'
  <2>1. ASSUME NEW y \in Node, y \notin own2[y[1]] PROVE next'[y] = NULL /\ pre'[y] = NULL
    <3>1. y[1] \in Part
      BY Constants
    <3>2. y \notin own[y[1]] /\ y # x /\ y \notin own[q]
      BY <1>1, <2>1, <3>1
    <3>3. next[y] = NULL /\ pre[y] = NULL
      BY <3>2 DEF Lists, Unused
    <3> QED
      BY <3>2, <3>3
  <2> QED
    BY <1>2, <2>1 DEF Unused
<1>8. Combining(M, A)'
  BY <1>2 DEF Combining
<1> QED
  BY <1>1, <1>5, <1>6, <1>7, <1>8 DEF Lists, own2

\* A node in a list that was empty.
LEMMA FirstNode ==
  ASSUME TypeOK, NEW own, NEW M, NEW A, Lists(own, M, A), pc = "count", NEW q \in Part, k = q,
         NEW x \in Node, x[1] = q, own[q] = {}, NewFirst(x),
         UNCHANGED <<pc, k, main, main_terms, pn_main, pn_asst>>
  PROVE  Lists([own EXCEPT ![q] = @ \cup {x}], M, A)'
<1>1. next[x] = NULL /\ pre[x] = NULL
  BY DEF Lists, Unused
<1>2. list' = [list EXCEPT ![k] = x] /\ next' = next /\ pre' = pre
      /\ term_count' = [term_count EXCEPT ![k] = @ + 1]
  BY DEF NewFirst, NewNode
<1>3. list'[q] = x /\ \A p \in Part : p # q => list'[p] = list[p]
  BY <1>2 DEF TypeOK
<1>4. Linked(next', pre', Key, list'[q], own[q] \cup {x})
  <2>1. x # NULL /\ Key[x] \in Nat /\ own[q] \cup {x} = {x}
    BY Constants
  <2>2. Linked(next, pre, Key, x, {x})
    BY <1>1, <2>1, OneNode
  <2> QED
    BY <1>2, <1>3, <2>1, <2>2
<1> QED
  BY <1>2, <1>3, <1>4, NodeAdded

\* A node ahead of one with a bigger term, behind all smaller ones.
LEMMA NodeBefore ==
  ASSUME TypeOK, NEW own, NEW M, NEW A, Lists(own, M, A), pc = "count", NEW q \in Part, k = q,
         NEW x \in Node, x[1] = q, NEW at \in own[q],
         \A y \in own[q] : Key[y] < Key[at] => Key[y] < x[2], NewBefore(x, at),
         UNCHANGED <<pc, k, main, main_terms, pn_main, pn_asst>>
  PROVE  Lists([own EXCEPT ![q] = @ \cup {x}], M, A)'
<1> DEFINE S == own[q]
<1>1. /\ S \in SUBSET Node /\ Linked(next, pre, Key, list[q], S)
      /\ next \in [Node -> Node \cup {NULL}] /\ pre \in [Node -> Node \cup {NULL}]
      /\ list \in [Part -> Node \cup {NULL}]
  BY DEF Lists, Linking, TypeOK
<1>2. /\ at \in Node /\ Key[x] < Key[at] /\ NULL \notin S \cup {x}
      /\ \A y \in S \cup {x} : Key[y] \in Nat
      /\ Key[x] = x[2]
  BY <1>1, Constants DEF NewBefore
<1>3. x \notin S
  BY <1>2
<1>4. /\ next' = NextBefore(x, at) /\ pre' = PreBefore(x, at)
      /\ list' = IF pre[at] = NULL THEN [list EXCEPT ![k] = x] ELSE list
      /\ term_count' = [term_count EXCEPT ![k] = @ + 1]
  BY DEF NewBefore, NewNode
<1>5. at # list[q] => pre[at] \in S
  BY <1>1 DEF Linked, Backward
<1>6. /\ next'[x] = at /\ pre'[x] = pre[at] /\ pre'[at] = x
      /\ at # list[q] => next'[pre[at]] = x
      /\ \A y \in Node : y # pre[at] /\ y # x => next'[y] = next[y]
      /\ \A y \in Node : y # at /\ y # x => pre'[y] = pre[y]
  <2>1. pre[at] # x
    BY <1>1, <1>2, <1>3, <1>5 DEF Linked
  <2> QED
    BY <1>1, <1>2, <1>3, <1>4, <1>5, <2>1 DEF NextBefore, PreBefore
<1>7. Linked(next', pre', Key, IF pre[at] = NULL THEN x ELSE list[q], S \cup {x})
  <2>1. /\ \A y \in S : y # pre[at] => next'[y] = next[y]
        /\ \A y \in S : y # at => pre'[y] = pre[y]
    BY <1>1, <1>3, <1>6
  <2>2. \A y \in S : Key[y] < Key[at] => Key[y] < Key[x]
    BY <1>2
  <2>3. at # list[q] => next'[pre[at]] = x
    BY <1>6
  <2> HIDE DEF S
  <2>4. at \in S /\ next'[x] = at /\ pre'[x] = pre[at] /\ pre'[at] = x
    BY <1>6 DEF S
  <2>5. Linked(next, pre, Key, list[q], S) /\ x \notin S
    BY <1>1, <1>3
  <2>6. Key[x] < Key[at] /\ NULL \notin S \cup {x} /\ \A y \in S \cup {x} : Key[y] \in Nat
    BY <1>2
  <2> QED
    BY ONLY <2>1, <2>2, <2>3, <2>4, <2>5, <2>6, InsertedBefore
<1>8. /\ list'[q] = IF pre[at] = NULL THEN x ELSE list[q]
      /\ \A p \in Part : p # q => list'[p] = list[p]
  BY <1>1, <1>4
<1>9. \A y \in Node : y \notin S \cup {x} => next'[y] = next[y] /\ pre'[y] = pre[y]
  <2>1. pre[at] = NULL \/ pre[at] \in S
    <3>1. list[q] # NULL => pre[list[q]] = NULL
      BY <1>1 DEF Linked
    <3> QED
      BY <1>2, <1>5, <3>1, Constants
  <2> QED
    BY <1>6, <2>1, Constants
<1> QED
  BY <1>3, <1>4, <1>7, <1>8, <1>9, NodeAdded

\* A node at the end, behind all others.
LEMMA NodeLast ==
  ASSUME TypeOK, NEW own, NEW M, NEW A, Lists(own, M, A), pc = "count", NEW q \in Part, k = q,
         NEW x \in Node, x[1] = q, NEW at \in own[q], next[at] = NULL,
         \A y \in own[q] : Key[y] <= Key[at], NewLast(x, at),
         UNCHANGED <<pc, k, main, main_terms, pn_main, pn_asst>>
  PROVE  Lists([own EXCEPT ![q] = @ \cup {x}], M, A)'
<1> DEFINE S == own[q]
<1>1. /\ S \in SUBSET Node /\ Linked(next, pre, Key, list[q], S)
      /\ next \in [Node -> Node \cup {NULL}] /\ pre \in [Node -> Node \cup {NULL}]
  BY DEF Lists, Linking, TypeOK
<1>2. /\ at \in Node /\ Key[at] < Key[x] /\ NULL \notin S \cup {x} /\ x # NULL
      /\ \A y \in S \cup {x} : Key[y] \in Nat
  BY <1>1, Constants DEF NewLast
<1>3. x \notin S
  BY <1>2
<1>4. /\ next' = [next EXCEPT ![x] = NULL, ![at] = x] /\ pre' = [pre EXCEPT ![x] = at]
      /\ list' = list /\ term_count' = [term_count EXCEPT ![k] = @ + 1]
  BY DEF NewLast, NewNode
<1>5. /\ next'[x] = NULL /\ next'[at] = x /\ pre'[x] = at
      /\ \A y \in Node : y # at /\ y # x => next'[y] = next[y]
      /\ \A y \in Node : y # x => pre'[y] = pre[y]
  BY <1>1, <1>2, <1>3, <1>4
<1>6. Forward(next', Key, x, {x}) /\ Backward(next', pre', x, {x})
  BY <1>2, <1>5 DEF Forward, Backward
<1>7. Linked(next', pre', Key, list[q], S \cup {x})
  <2>1. S \cap {x} = {} /\ \A y \in S : (y # at => next'[y] = next[y]) /\ pre'[y] = pre[y]
    BY <1>1, <1>3, <1>5
  <2> QED
    BY <1>1, <1>2, <1>5, <1>6, <2>1, Joined
<1>8. \A y \in Node : y \notin S \cup {x} => next'[y] = next[y] /\ pre'[y] = pre[y]
  BY <1>5
<1> QED
  BY <1>3, <1>4, <1>7, <1>8, NodeAdded

\* A word is counted at the node of its term, or a node is made for it.
LEMMA WordCounted ==
  ASSUME TypeOK, Control, NEW own, NEW M, NEW A, Lists(own, M, A), CountWord,
         NEW q, k = q, NEW x, x = <<k, text[ptr]>>
  PROVE  /\ q \in Part /\ x \in Node /\ x[1] = q /\ x[2] = text[ptr]
         /\ \/ /\ x \in own[q] /\ count' = [count EXCEPT ![x] = @ + 1]
               /\ UNCHANGED <<next, pre, list, term_count>>
            \/ /\ x \notin own[q] /\ count' = [count EXCEPT ![x] = 1]
               /\ Lists([own EXCEPT ![q] = @ \cup {x}], M, A)'
               /\ \E h \in Part, y \in Node \cup {NULL} : list' = [list EXCEPT ![h] = y]
               /\ next' \in [Node -> Node \cup {NULL}] /\ pre' \in [Node -> Node \cup {NULL}]
<1>0. Ranges
  BY Numbers
<1> DEFINE t == text[ptr]
           c == Chain(next, list[q])
           at == StopsAt(c, t)
<1>1. /\ pc = "count" /\ ~AtEnd /\ t # NL
      /\ UNCHANGED <<pc, k, main, main_terms, pn_main, pn_asst>>
      /\ IF c = <<>> THEN NewFirst(x)
         ELSE CountAgain(at, t) \/ NewBefore(x, at) \/ NewLast(x, at)
  BY DEF CountWord
<1>2. q \in Part
  BY <1>1, PartOfTheCount
<1>3. t \in Term
  <2>1. ptr \in 1..Len(text)
    <3>1. parts[PartOf(k)][2] \in Nat /\ parts[PartOf(k)][2] <= Len(text)
      BY <1>1, GivenPart
    <3>2. ~(ptr > parts[PartOf(k)][2])
      BY <1>1 DEF AtEnd
    <3> DEFINE e == parts[PartOf(k)][2]
               l == Len(text)
    <3>3. ptr \in 1..(MaxWords + 2) /\ MaxWords \in Nat /\ l \in Nat
      BY <1>0 DEF Ranges
    <3>4. e \in Nat /\ e <= l /\ ~(ptr > e)
      BY <3>1, <3>2
    <3> HIDE DEF t, e, l
    <3>5. ptr \in 1..l
      BY <3>3, <3>4
    <3> QED
      BY <3>5 DEF l
  <2>2. text[ptr] \in Term \cup {NL}
    BY <2>1 DEF TypeOK
  <2> QED
    BY <1>1, <2>2
<1> HIDE DEF t
<1>4. x \in Node /\ x[1] = q /\ x[2] = t
  BY <1>2, <1>3 DEF Node, t
<1>5. /\ Forward(next, Key, list[q], own[q]) /\ own[q] \in SUBSET Node
      /\ Orders(c, next, Key, list[q], own[q])
      /\ \A y \in own[q] : y[1] = q
  BY <1>2, PartChain DEF Lists, Linking, Linked
<1>6. /\ (c = <<>>) <=> (own[q] = {})
      /\ c # <<>> =>
           /\ at \in own[q]
           /\ \/ Key[at] >= t /\ \A y \in own[q] : Key[y] < Key[at] => Key[y] < t
              \/ Key[at] < t /\ next[at] = NULL /\ \A y \in own[q] : Key[y] <= Key[at]
  <2> HIDE DEF c
  <2> QED
    BY <1>3, <1>5, StopsAtIs
<1> HIDE DEF c, at
<1>7. \A y \in own[q] : Key[y] = y[2] /\ y = <<q, y[2]>> /\ y[2] \in Nat /\ y \in Node
  BY <1>5, Constants
<1>8. Key[x] = t /\ t \in Nat /\ x = <<q, t>>
  BY <1>4, Constants
<1>9. /\ next \in [Node -> Node \cup {NULL}] /\ pre \in [Node -> Node \cup {NULL}]
      /\ list \in [Part -> Node \cup {NULL}] /\ list = [list EXCEPT ![q] = list[q]]
      /\ list[q] \in Node \cup {NULL}
  BY <1>2 DEF TypeOK
<1>10. CASE c = <<>>
  <2>1. x \notin own[q] /\ NewFirst(x) /\ own[q] = {}
    BY <1>1, <1>6, <1>10
  <2>2. Lists([own EXCEPT ![q] = @ \cup {x}], M, A)'
    BY <1>1, <1>2, <1>4, <2>1, FirstNode
  <2> QED
    BY <1>2, <1>4, <1>9, <2>1, <2>2 DEF NewFirst, NewNode, t
<1>11. CASE c # <<>> /\ CountAgain(at, t)
  <2>1. at = x
    BY <1>6, <1>7, <1>8, <1>11 DEF CountAgain
  <2> QED
    BY <1>2, <1>4, <1>6, <1>11, <2>1 DEF CountAgain, t
<1>12. CASE c # <<>> /\ NewBefore(x, at)
  <2>1. /\ at \in own[q] /\ Key[at] > t
        /\ \A y \in own[q] : Key[y] < Key[at] => Key[y] < x[2]
    BY <1>4, <1>6, <1>7, <1>8, <1>12 DEF NewBefore
  <2>2. x \notin own[q]
    BY <1>4, <1>7, <1>8, <2>1
  <2>3. Lists([own EXCEPT ![q] = @ \cup {x}], M, A)'
    BY <1>1, <1>2, <1>4, <1>12, <2>1, NodeBefore
  <2>4. next' \in [Node -> Node \cup {NULL}] /\ pre' \in [Node -> Node \cup {NULL}]
    BY <1>4, <1>7, <1>9, <1>12, <2>1 DEF NewBefore, NextBefore, PreBefore
  <2> QED
    BY <1>2, <1>4, <1>9, <1>12, <2>2, <2>3, <2>4 DEF NewBefore, NewNode, t
<1>13. CASE c # <<>> /\ NewLast(x, at)
  <2>1. at \in own[q] /\ next[at] = NULL /\ \A y \in own[q] : Key[y] <= Key[at]
        /\ Key[at] < t
    BY <1>4, <1>6, <1>7, <1>8, <1>13 DEF NewLast
  <2>2. x \notin own[q]
    BY <1>4, <1>7, <1>8, <2>1
  <2>3. Lists([own EXCEPT ![q] = @ \cup {x}], M, A)'
    BY <1>1, <1>2, <1>4, <1>13, <2>1, NodeLast
  <2>4. next' \in [Node -> Node \cup {NULL}] /\ pre' \in [Node -> Node \cup {NULL}]
    BY <1>4, <1>7, <1>9, <1>13, <2>1 DEF NewLast
  <2> QED
    BY <1>2, <1>4, <1>9, <1>13, <2>2, <2>3, <2>4 DEF NewLast, NewNode, t
<1> QED
  BY <1>1, <1>10, <1>11, <1>12, <1>13

\* A word is counted, in whichever of add_count_term's cases.
LEMMA CountWordKeeps ==
  ASSUME TypeOK, Control, NEW own, NEW M, NEW A, Lists(own, M, A), CountWord
  PROVE  TypeOK' /\ Control' /\ \E own2 : Lists(own2, M, A)'
<1>0. Ranges
  BY Numbers
<1>1. PICK q, x : k = q /\ x = <<k, text[ptr]>>
  OBVIOUS
<1>2. /\ q \in Part /\ x \in Node /\ x[1] = q /\ x[2] = text[ptr]
      /\ \/ /\ x \in own[q] /\ count' = [count EXCEPT ![x] = @ + 1]
            /\ UNCHANGED <<next, pre, list, term_count>>
         \/ /\ x \notin own[q] /\ count' = [count EXCEPT ![x] = 1]
            /\ Lists([own EXCEPT ![q] = @ \cup {x}], M, A)'
            /\ \E h \in Part, y \in Node \cup {NULL} : list' = [list EXCEPT ![h] = y]
            /\ next' \in [Node -> Node \cup {NULL}] /\ pre' \in [Node -> Node \cup {NULL}]
  BY <1>1, WordCounted
<1>3. /\ pc = "count" /\ ~AtEnd /\ ptr' = ptr + 1
      /\ UNCHANGED <<input, parts, pc, k, main, main_terms, pn_main, pn_asst>>
  BY DEF CountWord
<1>4. \E own2 : Lists(own2, M, A)'
  <2>1. CASE UNCHANGED <<next, pre, list, term_count>>
    <3>1. Linking(own, M, A)'
      BY <1>3, <2>1 DEF Lists, Linking
    <3>2. Lengths(own, M, A)' /\ Unused(own, M)' /\ Combining(M, A)'
      BY <1>3, <2>1 DEF Lists, Lengths, Pending, Unused, Combining
    <3>3. Lists(own, M, A)'
      BY <3>1, <3>2 DEF Lists
    <3> QED
      BY <3>3
  <2>2. CASE Lists([own EXCEPT ![q] = @ \cup {x}], M, A)'
    BY <2>2
  <2> QED
    BY <1>2, <2>1, <2>2
<1>5. ptr' \in 1..(MaxWords + 2)
  <2>1. parts[PartOf(k)][2] \in Nat /\ parts[PartOf(k)][2] <= Len(text)
    BY <1>3, GivenPart
  <2>2. ptr' = ptr + 1 /\ ~(ptr > parts[PartOf(k)][2])
    BY <1>3 DEF AtEnd
  <2>3. ptr \in Nat \ {0} /\ MaxWords \in Nat /\ Len(text) \in Nat /\ Len(text) <= MaxWords + 1
    BY <1>0 DEF Ranges
  <2> QED
    BY <2>1, <2>2, <2>3
<1>6. TypeOK'
  <2>1. count' \in [Node -> Nat]
    <3>1. count' = [count EXCEPT ![x] = @ + 1] \/ count' = [count EXCEPT ![x] = 1]
      BY <1>2
    <3>2. count \in [Node -> Nat] /\ x \in Node
      BY <1>2 DEF TypeOK
    <3> QED
      BY <3>1, <3>2
  <2>2. next' \in [Node -> Node \cup {NULL}] /\ pre' \in [Node -> Node \cup {NULL}]
        /\ list' \in [Part -> Node \cup {NULL}]
    BY <1>2, ZenonT(40) DEF TypeOK
  <2>3. term_count' \in [Part -> Nat]
    <3>1. term_count' = term_count \/ term_count' = [term_count EXCEPT ![k] = @ + 1]
      BY DEF CountWord, NewFirst, NewBefore, NewLast, NewNode, CountAgain
    <3>2. term_count \in [Part -> Nat] /\ k \in Part /\ \A p \in Part : term_count[p] + 1 \in Nat
      BY <1>1, <1>2 DEF TypeOK
    <3> QED
      BY <3>1, <3>2
  <2> QED
    BY <1>3, <1>5, <2>1, <2>2, <2>3 DEF TypeOK, input
<1>7. Control'
  BY <1>3 DEF Control, input
<1> QED
  BY <1>4, <1>6, <1>7

-----------------------------------------------------------------------------
(* The document is cut, and its parts are counted one after the other. *)

\* Where the next part starts, and the size split_doc aims at.
LEMMA PartStarts ==
  ASSUME TypeOK, Control
  PROVE  /\ PartStart \in 1..(Len(text) + 1)
         /\ PartStart = IF Len(parts) = 0 THEN 1 ELSE parts[Len(parts)][2] + 1
         /\ BlockSize \in Nat
<1>0. Ranges
  BY Numbers
<1>3. BlockSize \in Nat
  <2>1. Size \in Nat
    <3>1. Len(doc) \in Nat
      BY DEF TypeOK
    <3> QED
      BY <3>1 DEF Size
  <2>2. n \in Nat \ {0}
    BY <1>0 DEF Ranges
  <2> QED
    BY <2>1, <2>2 DEF BlockSize
<1>1. CASE parts = <<>>
  BY <1>0, <1>1, <1>3 DEF PartStart, Ranges
<1>2. CASE parts # <<>>
  <2>1. /\ Len(parts) \in 1..Len(parts) /\ Len(parts) # 0
        /\ PartStart = parts[Len(parts)][2] + 1
    BY <1>0, <1>2 DEF PartStart, Last, Ranges
  <2>2. parts[Len(parts)][2] \in Nat /\ parts[Len(parts)][2] <= Len(text)
    BY <1>0, <2>1 DEF Ranges
  <2> QED
    <3>1. Len(text) \in Nat
      BY <1>0 DEF Ranges
    <3>2. PartStart \in 1..(Len(text) + 1)
      BY <2>1, <2>2, <3>1
    <3>3. PartStart = IF Len(parts) = 0 THEN 1 ELSE parts[Len(parts)][2] + 1
      BY <2>1
    <3> QED
      BY <1>3, <3>2, <3>3
<1> QED
  BY <1>1, <1>2

\* A cut of split_doc makes a part of the document.
LEMMA CutKeeps ==
  ASSUME TypeOK, Control, CutPart \/ CutPastEnd \/ LastPart
  PROVE  TypeOK' /\ Control'
<1>0. Ranges
  BY Numbers
<1>1. pc = "split" /\ UNCHANGED <<input, k, heap, lists, pn_main, pn_asst>>
  BY DEF CutPart, CutPastEnd, LastPart
<1>2. PartStart \in 1..(Len(text) + 1)
  BY PartStarts
<1>3. ASSUME NEW e \in Nat, e <= Len(text), parts' = Append(parts, <<PartStart, e>>)
      PROVE  /\ parts' \in Seq(Nat \X Nat) /\ Len(parts') = Len(parts) + 1
             /\ \A j \in 1..Len(parts') :
                  parts'[j][1] \in 1..(Len(text) + 1) /\ parts'[j][2] <= Len(text)
  <2>1. <<PartStart, e>> \in Nat \X Nat
    BY <1>2, <1>0 DEF Ranges
  <2> DEFINE new == <<PartStart, e>>
  <2>2. new[1] \in 1..(Len(text) + 1) /\ new[2] <= Len(text)
    BY <1>2, <1>3
  <2> HIDE DEF new
  <2>3. /\ parts' \in Seq(Nat \X Nat) /\ Len(parts') = Len(parts) + 1
        /\ \A j \in 1..Len(parts') : parts'[j] = IF j = Len(parts) + 1 THEN new ELSE parts[j]
    <3>1. new \in Nat \X Nat /\ parts' = Append(parts, new)
      BY <1>3, <2>1 DEF new
    <3> QED
      BY <3>1, <1>0 DEF Ranges
  <2>4. ASSUME NEW j \in 1..Len(parts')
        PROVE  parts'[j][1] \in 1..(Len(text) + 1) /\ parts'[j][2] <= Len(text)
    <3>1. CASE j = Len(parts) + 1
      BY <2>2, <2>3, <3>1
    <3>2. CASE j # Len(parts) + 1
      <4>1. j \in 1..Len(parts) /\ parts'[j] = parts[j]
        BY <2>3, <3>2, <1>0 DEF Ranges
      <4> QED
        BY <4>1, <1>0 DEF Ranges
    <3> QED
      BY <3>1, <3>2
  <2> QED
    BY <2>3, <2>4
<1>4. CASE CutPart
  <2>1. PICK e \in PartEnds : parts' = Append(parts, <<PartStart, e>>)
    BY <1>4 DEF CutPart
  <2>2. e \in Nat /\ e <= Len(text)
    <3>1. BlockSize \in Nat
      BY PartStarts
    <3>2. e \in (PartStart + BlockSize)..Len(doc)
      BY DEF PartEnds
    <3>3. Len(doc) \in Nat /\ Len(text) \in Nat /\ Len(doc) <= Len(text)
      BY DEF TypeOK, Control
    <3> QED
      BY <1>2, <3>1, <3>2, <3>3
  <2>3. pc' = pc /\ Len(parts) < n - 1
    BY <1>4 DEF CutPart
  <2>4. TypeOK'
    BY <1>1, <1>3, <1>4, <2>1, <2>2 DEF TypeOK, CutPart, input, heap, lists
  <2>5. /\ Len(parts') = Len(parts) + 1
        /\ \A j \in 1..Len(parts') :
             parts'[j][1] \in 1..(Len(text) + 1) /\ parts'[j][2] <= Len(text)
    BY <1>3, <2>1, <2>2
  <2>6. Len(parts') < n
    BY <1>0, <2>3, <2>5 DEF Ranges
  <2>7. Control'
    BY <1>1, <2>3, <2>5, <2>6 DEF Control, input
  <2> QED
    BY <2>4, <2>7
<1>5. CASE CutPastEnd
  BY <1>1, <1>5 DEF TypeOK, Control, CutPastEnd, input, heap, lists
<1>6. CASE LastPart
  <2>1. /\ Len(parts) = n - 1 /\ parts' = Append(parts, <<PartStart, Len(text)>>)
        /\ pc' = "count" /\ ptr' = StartOf(parts', 1)
    BY <1>6 DEF LastPart
  <2>2. /\ parts' \in Seq(Nat \X Nat) /\ Len(parts') = Len(parts) + 1
        /\ \A j \in 1..Len(parts') :
             parts'[j][1] \in 1..(Len(text) + 1) /\ parts'[j][2] <= Len(text)
    <3>1. Len(text) \in Nat /\ Len(text) <= Len(text)
      BY <1>0 DEF Ranges
    <3> QED
      BY <1>3, <2>1, <3>1
  <2>3. ptr' \in 1..(MaxWords + 2)
    <3>1. 1 \in 1..n /\ PartOf(1) \in 1..n /\ Len(parts') = n
      BY <2>1, <2>2, <1>0 DEF Ranges
    <3>2. ptr' = parts'[PartOf(1)][1]
      BY <2>1 DEF StartOf
    <3>3. ptr' \in 1..(Len(text) + 1)
      BY <2>2, <3>1, <3>2
    <3> QED
      BY <1>0, <3>3 DEF Ranges
  <2>4. TypeOK'
    BY <1>1, <2>1, <2>2, <2>3 DEF TypeOK, input, heap, lists
  <2>5. Control'
    <3>1. Len(parts') = n
      BY <1>0, <2>1, <2>2 DEF Ranges
    <3>2. pc' = "count" /\ k = 1 /\ k <= n /\ UNCHANGED <<n, k, doc, text>>
      BY <1>0, <1>1, <2>1 DEF Control, input, Ranges
    <3>3. Len(text) <= MaxWords + 1 /\ Len(doc) <= Len(text)
      BY DEF Control
    <3> QED
      BY <2>2, <3>1, <3>2, <3>3 DEF Control
  <2> QED
    BY <2>4, <2>5
<1> QED
  BY <1>4, <1>5, <1>6

\* A newline, or the next part's turn.
LEMMA PartStepKeeps ==
  ASSUME TypeOK, Control, SkipNewline \/ NextPart
  PROVE  TypeOK' /\ Control'
<1>0. Ranges
  BY Numbers
<1>1. /\ pc = "count" /\ pc' = pc /\ k \in 1..n
      /\ UNCHANGED <<input, parts, heap, lists, pn_main, pn_asst>>
  BY PartOfTheCount DEF SkipNewline, NextPart
<1>2. parts[PartOf(k)][2] \in Nat /\ parts[PartOf(k)][2] <= Len(text)
  BY <1>1, GivenPart
<1>3. CASE SkipNewline
  <2>1. ptr' \in 1..(MaxWords + 2) /\ k' = k
    <3>1. ptr' = ptr + 1 /\ k' = k /\ ~(ptr > parts[PartOf(k)][2])
      BY <1>3 DEF SkipNewline, AtEnd
    <3>2. ptr \in Nat \ {0} /\ MaxWords \in Nat /\ Len(text) \in Nat /\ Len(text) <= MaxWords + 1
      BY <1>0 DEF Ranges
    <3> QED
      BY <1>2, <3>1, <3>2
  <2> QED
    BY <1>1, <2>1 DEF TypeOK, Control, input, heap, lists
<1>4. CASE NextPart
  <2>1. k' = k + 1 /\ k' \in 1..n /\ ptr' = parts[PartOf(k + 1)][1]
    <3>1. k' = k + 1 /\ k < n /\ ptr' = parts[PartOf(k + 1)][1]
      BY <1>4 DEF NextPart, StartOf
    <3>2. n \in Nat
      BY <1>0 DEF Ranges
    <3> QED
      BY <1>1, <3>1, <3>2
  <2>2. ptr' \in 1..(MaxWords + 2) /\ k' \in 1..(MaxParts + 1)
    <3>1. PartOf(k + 1) \in 1..Len(parts)
      BY <1>1, <2>1, <1>0 DEF Control, Ranges
    <3>2. ptr' \in 1..(Len(text) + 1)
      BY <1>0, <2>1, <3>1 DEF Ranges
    <3>3. k' \in 1..n
      BY <2>1
    <3>4. k' \in 1..(MaxParts + 1)
      BY <1>0, <3>3 DEF Ranges
    <3>5. ptr' \in 1..(MaxWords + 2)
      BY <1>0, <3>2 DEF Ranges
    <3> QED
      BY <3>4, <3>5
  <2>3. k' <= n
    BY <1>0, <2>1 DEF Ranges
  <2>4. Control'
    BY <1>1, <2>3 DEF Control, input
  <2> QED
    BY <1>1, <2>2, <2>4 DEF TypeOK, input, heap, lists
<1> QED
  BY <1>3, <1>4

-----------------------------------------------------------------------------
(* The lists are combined. *)

\* The lists of the parts are as they were where only other nodes' links and
\* part q's list change.
LEMMA OthersStay ==
  ASSUME NEW own, NEW M, NEW A, Linking(own, M, A), own \in [Part -> SUBSET Node],
         NEW q \in Part,
         \A y \in Node : y \notin M \cup A \cup own[q] => next'[y] = next[y] /\ pre'[y] = pre[y],
         \A p \in Part : p # q => list'[p] = list[p]
  PROVE  \A p \in Part : p # q =>
           /\ \A x \in own[p] : x[1] = p
           /\ Linked(next', pre', Key, list'[p], own[p])
<1> TAKE p \in Part
<1> HAVE p # q
<1>1. \A y \in own[p] : y \in Node /\ y[1] = p /\ y \notin M \cup A \cup own[q]
  BY DEF Linking
<1>2. Linked(next, pre, Key, list[p], own[p])
  BY DEF Linking
<1>3. \A y \in own[p] : next'[y] = next[y] /\ pre'[y] = pre[y]
  BY <1>1
<1>4. Linked(next', pre', Key, list[p], own[p])
  BY <1>2, <1>3, LinkedFrame
<1> QED
  BY <1>1, <1>4

\* What there is to show of the lists after a step of combine_count.
LEMMA CombinedLists ==
  ASSUME TypeOK, NEW own, NEW M, NEW A, Lists(own, M, A), pc' = "combine", k' = k,
         NEW q \in Part, k = q, NEW M2 \in SUBSET Node, NEW A2 \in SUBSET Node,
         M2 \cup A2 \subseteq M \cup A \cup own[q], M2 \cap A2 = {},
         \A y \in Node : y \notin M \cup A \cup own[q] => next'[y] = next[y] /\ pre'[y] = pre[y],
         \A p \in Part : p # q => list'[p] = list[p] /\ term_count'[p] = term_count[p],
         list'[q] = NULL, pc = "merge" \/ pc = "combine",
         Linked(next', pre', Key, main', M2),
         Forward(next', Key, pn_asst', A2), Backward(next', pre', pn_asst', A2),
         main_terms' = Cardinality(M2), term_count'[q] = Cardinality(A2),
         pn_main' \in M2,
         \A x \in M2, y \in A2 : Key[x] < Key[pn_main'] => Key[x] < Key[y]
  PROVE  Lists([own EXCEPT ![q] = {}], M2, A2)'
<1> DEFINE own2 == [own EXCEPT ![q] = {}]
<1>1. /\ own \in [Part -> SUBSET Node] /\ own2 \in [Part -> SUBSET Node] /\ own2[q] = {}
      /\ \A p \in Part : p # q => own2[p] = own[p]
      /\ Linking(own, M, A)
  BY DEF Lists
<1> HIDE DEF own2
<1>2. ASSUME NEW p \in Part
      PROVE  /\ \A x \in own2[p] : x[1] = p
             /\ Linked(next', pre', Key, list'[p], own2[p])
  <2>1. CASE p = q
    BY <1>1, <2>1, NoNode, SMTT(30)
  <2>2. CASE p # q
    BY <1>1, <2>2, OthersStay
  <2> QED
    BY <2>1, <2>2
<1>3. ASSUME NEW p \in Part PROVE own2[p] \cap M2 = {} /\ own2[p] \cap A2 = {}
  <2>1. p # q => own[p] \cap (M \cup A \cup own[q]) = {}
    BY <1>1 DEF Linking
  <2> QED
    BY <1>1, <2>1
<1>4. Linking(own2, M2, A2)'
  BY <1>2, <1>3 DEF Linking
<1>5. Lengths(own2, M2, A2)'
  <2>1. ASSUME NEW p \in Part, own2[p] # {} \/ Pending(p)'
        PROVE  term_count'[p] = Cardinality(own2[p])
    <3>1. p # q
      BY <1>1, <2>1, Constants DEF Pending
    <3>2. own[p] # {} \/ Pending(p)
      <4>1. p \in Nat /\ q \in Nat
        BY Constants
      <4> QED
        BY <1>1, <2>1, <3>1, <4>1 DEF Pending
    <3> QED
      BY <1>1, <3>1, <3>2 DEF Lists, Lengths
  <2> QED
    BY <2>1 DEF Lengths
<1>6. Unused(own2, M2)' /\ Combining(M2, A2)'
  BY DEF Unused, Combining
<1> QED
  BY <1>1, <1>4, <1>5, <1>6 DEF Lists, own2

\* What is known of the lists while they are combined.
LEMMA InCombineCount ==
  ASSUME TypeOK, Control, NEW own, NEW M, NEW A, Lists(own, M, A), NEW q, k = q,
         pc \in {"merge", "combine"}, k <= n
  PROVE  /\ q \in Part
         /\ own \in [Part -> SUBSET Node] /\ M \subseteq Node /\ A \subseteq Node
         /\ own[q] \subseteq Node /\ M \cap own[q] = {} /\ A \cap own[q] = {} /\ M \cap A = {}
         /\ Linked(next, pre, Key, list[q], own[q])
         /\ Linked(next, pre, Key, main, M)
         /\ Forward(next, Key, pn_asst, A) /\ Backward(next, pre, pn_asst, A)
         /\ \A x \in Node : Key[x] \in Nat /\ Key[x] = x[2]
         /\ main_terms = Cardinality(M)
         /\ pc = "merge" => A = {} /\ term_count[q] = Cardinality(own[q])
         /\ pc = "combine" =>
              /\ own[q] = {} /\ list[q] = NULL /\ term_count[q] = Cardinality(A)
              /\ pn_main \in M
              /\ \A x \in M, y \in A : Key[x] < Key[pn_main] => Key[x] < Key[y]
<1>0. Ranges
  BY Numbers
<1>1. q \in Part
  BY <1>0 DEF Ranges, Part
<1>2. /\ own \in [Part -> SUBSET Node] /\ M \subseteq Node /\ A \subseteq Node
      /\ own[q] \subseteq Node /\ M \cap own[q] = {} /\ A \cap own[q] = {} /\ M \cap A = {}
      /\ Linked(next, pre, Key, list[q], own[q])
      /\ Linked(next, pre, Key, main, M)
      /\ Forward(next, Key, pn_asst, A) /\ Backward(next, pre, pn_asst, A)
  BY <1>1 DEF Lists, Linking
<1>3. \A x \in Node : Key[x] \in Nat /\ Key[x] = x[2]
  BY Constants
<1>4. /\ main_terms = Cardinality(M)
      /\ pc = "merge" => term_count[q] = Cardinality(own[q])
      /\ pc = "combine" => term_count[q] = Cardinality(A)
  <2>1. q >= k
    BY <1>1, Constants
  <2> QED
    BY <1>1, <2>1 DEF Lists, Lengths, Pending
<1>5. /\ pc = "merge" => A = {}
      /\ pc = "combine" =>
           /\ list[q] = NULL
           /\ pn_main \in M
           /\ \A x \in M, y \in A : Key[x] < Key[pn_main] => Key[x] < Key[y]
  BY DEF Lists, Combining
<1>6. list[q] = NULL => own[q] = {}
  BY <1>2 DEF Linked, Forward
<1> QED
  BY <1>1, <1>2, <1>3, <1>4, <1>5, <1>6

\* Control, after a step inside combine_count or into it.
LEMMA CombineControl ==
  ASSUME TypeOK, Control, pc \in {"merge", "combine"}, k <= n, pc' = "combine", k' = k,
         UNCHANGED <<input, parts>>
  PROVE  Control'
BY DEF Control, input

\* A merge begins: the part's list is what is still to be taken over.
LEMMA CombineKeeps ==
  ASSUME TypeOK, Control, NEW own, NEW M, NEW A, Lists(own, M, A), Combine, NEW q, k = q
  PROVE  TypeOK' /\ Control' /\ Lists([own EXCEPT ![q] = {}], M, own[q])'
<1>1. /\ pc = "merge" /\ k <= n /\ main # NULL /\ pn_main' = main /\ pn_asst' = list[q]
      /\ list' = [list EXCEPT ![q] = NULL] /\ pc' = "combine"
      /\ UNCHANGED <<input, parts, k, ptr, next, pre, count, term_count, main, main_terms>>
  BY DEF Combine, heap
<1>2. /\ q \in Part
      /\ own \in [Part -> SUBSET Node] /\ M \subseteq Node
      /\ own[q] \subseteq Node /\ M \cap own[q] = {}
      /\ Linked(next, pre, Key, list[q], own[q])
      /\ Linked(next, pre, Key, main, M)
      /\ \A x \in Node : Key[x] \in Nat
      /\ main_terms = Cardinality(M)
      /\ A = {} /\ term_count[q] = Cardinality(own[q])
  BY <1>1, InCombineCount
<1>3. TypeOK'
  BY <1>1, <1>2 DEF TypeOK, input
<1>4. Control'
  BY <1>1, CombineControl
<1>5. list'[q] = NULL /\ \A p \in Part : p # q => list'[p] = list[p]
  BY <1>1, <1>2 DEF TypeOK
<1>6. main \in M /\ \A x \in M : ~(Key[x] < Key[main])
  <2>1. main \in M /\ \A x \in M : Key[main] <= Key[x]
    BY <1>1, <1>2 DEF Linked, Forward
  <2> QED
    BY <1>2, <2>1
<1>7. Forward(next', Key, pn_asst', own[q]) /\ Backward(next', pre', pn_asst', own[q])
  BY <1>1, <1>2 DEF Linked
<1> QED
  BY <1>1, <1>2, <1>3, <1>4, <1>5, <1>6, <1>7, CombinedLists

\* A merge into an empty count takes over the head first.
LEMMA CombineEmptyMainKeeps ==
  ASSUME TypeOK, Control, NEW own, NEW M, NEW A, Lists(own, M, A), CombineEmptyMain,
         NEW q, k = q, NEW h, h = list[q]
  PROVE  /\ TypeOK' /\ Control' /\ M = {} /\ h \in own[q]
         /\ Lists([own EXCEPT ![q] = {}], {h}, own[q] \ {h})'
<1>1. /\ pc = "merge" /\ k <= n /\ main = NULL /\ h # NULL
      /\ main' = h /\ pn_main' = h /\ pn_asst' = next[h]
      /\ next' = [next EXCEPT ![h] = NULL] /\ pre' = [pre EXCEPT ![h] = NULL]
      /\ main_terms' = 1 /\ term_count' = [term_count EXCEPT ![q] = term_count[q] - 1]
      /\ list' = [list EXCEPT ![q] = NULL] /\ pc' = "combine"
      /\ UNCHANGED <<input, parts, k, ptr, count>>
  BY DEF CombineEmptyMain, TakenFromAsst
<1>2. /\ q \in Part
      /\ own \in [Part -> SUBSET Node] /\ M \subseteq Node
      /\ own[q] \subseteq Node
      /\ Linked(next, pre, Key, h, own[q])
      /\ Linked(next, pre, Key, main, M)
      /\ \A x \in Node : Key[x] \in Nat
      /\ A = {} /\ term_count[q] = Cardinality(own[q])
  BY <1>1, InCombineCount
<1>3. M = {} /\ h \in own[q] /\ h \in Node
  BY <1>1, <1>2 DEF Linked, Forward
<1> DEFINE A2 == own[q] \ {h}
<1>4. /\ Forward(next, Key, next[h], A2) /\ Backward(next, pre, next[h], A2)
  <2>1. NULL \notin own[q] /\ Forward(next, Key, h, own[q]) /\ Backward(next, pre, h, own[q])
        /\ \A x \in own[q] : Key[x] \in Nat
    BY <1>2, Constants DEF Linked
  <2> QED
    BY <1>1, <2>1, WithoutHead, BackwardWithoutHead
<1>5. /\ next'[h] = NULL /\ pre'[h] = NULL
      /\ \A y \in Node : y # h => next'[y] = next[y] /\ pre'[y] = pre[y]
      /\ next' \in [Node -> Node \cup {NULL}] /\ pre' \in [Node -> Node \cup {NULL}]
      /\ next[h] \in Node \cup {NULL}
  BY <1>1, <1>3 DEF TypeOK
<1>6. Forward(next', Key, pn_asst', A2) /\ Backward(next', pre', pn_asst', A2)
  <2>1. \A y \in A2 : y \in Node /\ next'[y] = next[y] /\ pre'[y] = pre[y]
    BY <1>2, <1>5
  <2>2. Forward(next', Key, next[h], A2)
    BY <1>4, <2>1, ForwardFrame
  <2>3. Backward(next', pre', next[h], A2)
    BY <1>4, <2>1 DEF Backward
  <2> QED
    BY <1>1, <2>2, <2>3
<1>7. Linked(next', pre', Key, main', {h})
  BY <1>1, <1>2, <1>3, <1>5, OneNode
<1>8. Cardinality({h}) = 1 /\ Cardinality(A2) = Cardinality(own[q]) - 1
      /\ Cardinality(A2) \in Nat
  <2>1. IsFiniteSet(own[q]) /\ IsFiniteSet(A2) /\ Cardinality(A2) \in Nat
    BY <1>2, NodesFinite
  <2>2. Cardinality(A2) = Cardinality(own[q]) - 1
    BY <1>3, <2>1, FS_RemoveElement
  <2> QED
    BY <2>1, <2>2, FS_Singleton
<1>9. /\ list'[q] = NULL /\ \A p \in Part : p # q => list'[p] = list[p]
      /\ list' \in [Part -> Node \cup {NULL}]
      /\ term_count'[q] = Cardinality(A2)
      /\ \A p \in Part : p # q => term_count'[p] = term_count[p]
      /\ term_count' \in [Part -> Nat]
  BY <1>1, <1>2, <1>8 DEF TypeOK
<1>10. TypeOK'
  BY <1>1, <1>3, <1>5, <1>9 DEF TypeOK, input
<1>11. Control'
  BY <1>1, CombineControl
<1>12. \A x \in {h}, y \in A2 : Key[x] < Key[pn_main'] => Key[x] < Key[y]
  BY <1>1, <1>2, <1>3
<1>13. \A y \in Node : y \notin M \cup A \cup own[q] => next'[y] = next[y] /\ pre'[y] = pre[y]
  BY <1>3, <1>5
<1>14. Lists([own EXCEPT ![q] = {}], {h}, A2)'
  <2> SUFFICES ASSUME NEW B, B = A2, NEW H, H = {h}
               PROVE  Lists([own EXCEPT ![q] = {}], H, B)'
    OBVIOUS
  <2>1. /\ B \in SUBSET Node /\ H \in SUBSET Node
        /\ H \cup B \subseteq M \cup A \cup own[q] /\ H \cap B = {}
    BY <1>2, <1>3
  <2>2. /\ Linked(next', pre', Key, main', H)
        /\ Forward(next', Key, pn_asst', B) /\ Backward(next', pre', pn_asst', B)
        /\ main_terms' = Cardinality(H) /\ term_count'[q] = Cardinality(B)
        /\ pn_main' \in H
        /\ \A x \in H, y \in B : Key[x] < Key[pn_main'] => Key[x] < Key[y]
    BY <1>1, <1>6, <1>7, <1>8, <1>9, <1>12
  <2>3. /\ pc' = "combine" /\ k' = k /\ list'[q] = NULL /\ (pc = "merge" \/ pc = "combine")
        /\ \A p \in Part : p # q => list'[p] = list[p] /\ term_count'[p] = term_count[p]
        /\ q \in Part /\ k = q
    BY <1>1, <1>2, <1>9
  <2> QED
    BY ONLY TypeOK, Lists(own, M, A), <1>13, <2>1, <2>2, <2>3, CombinedLists
<1> QED
  BY <1>3, <1>10, <1>11, <1>14

\* One iteration of combine_count's loop.
LEMMA Iteration ==
  ASSUME TypeOK, Control, NEW own, NEW M, NEW A, Lists(own, M, A), pc = "combine",
         pn_asst # NULL, NEW q, k = q, NEW a, a = pn_asst, NEW m, m = pn_main
  PROVE  /\ q \in Part /\ k <= n /\ own[q] = {} /\ own = [own EXCEPT ![q] = {}]
         /\ M \subseteq Node /\ A \subseteq Node /\ M \cap A = {}
         /\ a \in A /\ m \in M /\ a \in Node /\ m \in Node
         /\ Linked(next, pre, Key, main, M)
         /\ Forward(next, Key, a, A) /\ Backward(next, pre, a, A)
         /\ Forward(next, Key, next[a], A \ {a}) /\ Backward(next, pre, next[a], A \ {a})
         /\ \A x \in A \ {a} : Key[a] < Key[x]
         /\ next[a] \in Node \cup {NULL}
         /\ \A x \in Node : Key[x] \in Nat /\ Key[x] = x[2]
         /\ main_terms = Cardinality(M) /\ term_count[q] = Cardinality(A)
         /\ \A x \in M, y \in A : Key[x] < Key[m] => Key[x] < Key[y]
         /\ list[q] = NULL
         /\ Cardinality(A \ {a}) = Cardinality(A) - 1 /\ Cardinality(A \ {a}) \in Nat
<1>0. k <= n
  BY DEF Control
<1>1. /\ q \in Part
      /\ own \in [Part -> SUBSET Node] /\ M \subseteq Node /\ A \subseteq Node
      /\ M \cap A = {}
      /\ Linked(next, pre, Key, main, M)
      /\ Forward(next, Key, a, A) /\ Backward(next, pre, a, A)
      /\ \A x \in Node : Key[x] \in Nat /\ Key[x] = x[2]
      /\ main_terms = Cardinality(M)
      /\ own[q] = {} /\ list[q] = NULL /\ term_count[q] = Cardinality(A)
      /\ m \in M
      /\ \A x \in M, y \in A : Key[x] < Key[m] => Key[x] < Key[y]
  BY <1>0, InCombineCount
<1>2. a \in A /\ next[a] \in Node \cup {NULL}
  BY <1>1 DEF Forward, TypeOK
<1>3. NULL \notin A /\ \A x \in A : Key[x] \in Nat
  BY <1>1, Constants
<1>4. /\ Forward(next, Key, next[a], A \ {a}) /\ Backward(next, pre, next[a], A \ {a})
      /\ \A x \in A \ {a} : Key[a] < Key[x]
  BY <1>1, <1>3, WithoutHead, BackwardWithoutHead
<1>5. Cardinality(A \ {a}) = Cardinality(A) - 1 /\ Cardinality(A \ {a}) \in Nat
  <2>1. IsFiniteSet(A) /\ Cardinality(A \ {a}) \in Nat
    BY <1>1, NodesFinite
  <2> QED
    BY <1>2, <2>1, FS_RemoveElement
<1>6. own = [own EXCEPT ![q] = {}]
  BY <1>1
<1> QED
  BY <1>0, <1>1, <1>2, <1>4, <1>5, <1>6

\* A term that both have: its node is left behind, its count added.
LEMMA SameTermKeeps ==
  ASSUME TypeOK, Control, NEW own, NEW M, NEW A, Lists(own, M, A), SameTerm,
         NEW q, k = q, NEW a, a = pn_asst
  PROVE  TypeOK' /\ Control' /\ Lists(own, M, A \ {a})'
<1>1. /\ pc = "combine" /\ a # NULL /\ pn_main[2] = a[2]
      /\ count' = [count EXCEPT ![pn_main] = count[pn_main] + count[a], ![a] = 0]
      /\ pn_asst' = next[a]
      /\ term_count' = [term_count EXCEPT ![q] = term_count[q] - 1]
      /\ UNCHANGED <<input, parts, pc, k, ptr, next, pre, list, main, main_terms, pn_main>>
  BY DEF SameTerm, SumOf, TakenFromAsst
<1>2. PICK m : m = pn_main
  OBVIOUS
<1>3. /\ q \in Part /\ k <= n /\ own[q] = {} /\ own = [own EXCEPT ![q] = {}]
      /\ M \subseteq Node /\ A \subseteq Node /\ M \cap A = {}
      /\ a \in A /\ m \in M /\ a \in Node /\ m \in Node
      /\ Linked(next, pre, Key, main, M)
      /\ Forward(next, Key, next[a], A \ {a}) /\ Backward(next, pre, next[a], A \ {a})
      /\ next[a] \in Node \cup {NULL}
      /\ main_terms = Cardinality(M) /\ term_count[q] = Cardinality(A)
      /\ \A x \in M, y \in A : Key[x] < Key[m] => Key[x] < Key[y]
      /\ list[q] = NULL
      /\ Cardinality(A \ {a}) = Cardinality(A) - 1 /\ Cardinality(A \ {a}) \in Nat
  BY <1>1, <1>2, Iteration
<1>4. /\ term_count'[q] = Cardinality(A \ {a}) /\ term_count' \in [Part -> Nat]
      /\ \A p \in Part : p # q => term_count'[p] = term_count[p]
  BY <1>1, <1>3 DEF TypeOK
<1>5. count' \in [Node -> Nat]
  <2>1. count[m] \in Nat /\ count[a] \in Nat
    BY <1>3 DEF TypeOK
  <2>2. count[m] + count[a] \in Nat
    BY <2>1
  <2> QED
    BY <1>1, <1>2, <1>3, <2>2 DEF TypeOK
<1>6. TypeOK'
  <2>1. next[a] \in Node \cup {NULL}
    BY <1>3
  <2> QED
    BY <1>1, <1>4, <1>5, <2>1, ZenonT(40) DEF TypeOK, input
<1>7. Control'
  BY <1>1, <1>3, CombineControl
<1>8. ASSUME NEW B, B = A \ {a} PROVE Lists([own EXCEPT ![q] = {}], M, B)'
  <2>1. /\ B \in SUBSET Node /\ M \in SUBSET Node
        /\ M \cup B \subseteq M \cup A \cup own[q] /\ M \cap B = {}
    BY <1>3, <1>8
  <2>2. /\ Linked(next', pre', Key, main', M)
        /\ Forward(next', Key, pn_asst', B) /\ Backward(next', pre', pn_asst', B)
        /\ main_terms' = Cardinality(M) /\ term_count'[q] = Cardinality(B)
        /\ pn_main' \in M
        /\ \A x \in M, y \in B : Key[x] < Key[pn_main'] => Key[x] < Key[y]
    BY <1>1, <1>2, <1>3, <1>4, <1>8
  <2>3. /\ pc' = "combine" /\ k' = k /\ list'[q] = NULL /\ (pc = "merge" \/ pc = "combine")
        /\ \A p \in Part : p # q => list'[p] = list[p] /\ term_count'[p] = term_count[p]
        /\ q \in Part /\ k = q
        /\ \A y \in Node : y \notin M \cup A \cup own[q] => next'[y] = next[y] /\ pre'[y] = pre[y]
    BY <1>1, <1>3, <1>4
  <2> QED
    BY ONLY TypeOK, Lists(own, M, A), <2>1, <2>2, <2>3, CombinedLists
<1> QED
  BY <1>3, <1>6, <1>7, <1>8

\* A term that goes ahead of pn_main is relinked there.
LEMMA MainIsBiggerKeeps ==
  ASSUME TypeOK, Control, NEW own, NEW M, NEW A, Lists(own, M, A), MainIsBigger,
         NEW q, k = q, NEW a, a = pn_asst
  PROVE  TypeOK' /\ Control' /\ a \in A /\ Lists(own, M \cup {a}, A \ {a})'
<1>1. PICK m : m = pn_main
  OBVIOUS
<1>2. /\ pc = "combine" /\ a # NULL /\ m[2] > a[2]
      /\ main' = (IF pre[m] = NULL THEN a ELSE main)
      /\ next' = NextBefore(a, m) /\ pre' = PreBefore(a, m)
      /\ pn_main' = a /\ pn_asst' = next[a] /\ main_terms' = main_terms + 1
      /\ term_count' = [term_count EXCEPT ![q] = term_count[q] - 1]
      /\ UNCHANGED <<input, parts, pc, k, ptr, count, list>>
  BY <1>1 DEF MainIsBigger, TakenFromAsst
<1>3. /\ q \in Part /\ k <= n /\ own[q] = {} /\ own = [own EXCEPT ![q] = {}]
      /\ M \subseteq Node /\ A \subseteq Node /\ M \cap A = {}
      /\ a \in A /\ m \in M /\ a \in Node /\ m \in Node
      /\ Linked(next, pre, Key, main, M)
      /\ Forward(next, Key, next[a], A \ {a}) /\ Backward(next, pre, next[a], A \ {a})
      /\ \A x \in A \ {a} : Key[a] < Key[x]
      /\ next[a] \in Node \cup {NULL}
      /\ \A x \in Node : Key[x] \in Nat /\ Key[x] = x[2]
      /\ main_terms = Cardinality(M) /\ term_count[q] = Cardinality(A)
      /\ \A x \in M, y \in A : Key[x] < Key[m] => Key[x] < Key[y]
      /\ list[q] = NULL
      /\ Cardinality(A \ {a}) = Cardinality(A) - 1 /\ Cardinality(A \ {a}) \in Nat
  BY <1>1, <1>2, Iteration
<1>4. /\ term_count'[q] = Cardinality(A \ {a}) /\ term_count' \in [Part -> Nat]
      /\ \A p \in Part : p # q => term_count'[p] = term_count[p]
  BY <1>2, <1>3 DEF TypeOK
<1>5. m # main => pre[m] \in M
  BY <1>3 DEF Linked, Backward
<1>6. pre[m] = NULL \/ pre[m] \in M
  BY <1>2, <1>3, <1>5, Constants DEF Linked
<1>7. a \notin M /\ a # m /\ pre[m] # a
  BY <1>3, <1>6, Constants
<1>8. /\ next'[a] = m /\ pre'[a] = pre[m] /\ pre'[m] = a
      /\ m # main => next'[pre[m]] = a
      /\ \A y \in Node : y # pre[m] /\ y # a => next'[y] = next[y]
      /\ \A y \in Node : y # m /\ y # a => pre'[y] = pre[y]
      /\ next' \in [Node -> Node \cup {NULL}] /\ pre' \in [Node -> Node \cup {NULL}]
  <2>1. next \in [Node -> Node \cup {NULL}] /\ pre \in [Node -> Node \cup {NULL}]
    BY DEF TypeOK
  <2>2. m # main => pre[m] # NULL
    BY <1>3, <1>5, Constants
  <2> QED
    BY <1>2, <1>3, <1>5, <1>6, <1>7, <2>1, <2>2 DEF NextBefore, PreBefore
<1>9. Linked(next', pre', Key, main', M \cup {a})
  <2>1. /\ \A y \in M : y # pre[m] => next'[y] = next[y]
        /\ \A y \in M : y # m => pre'[y] = pre[y]
        /\ \A y \in M : Key[y] < Key[m] => Key[y] < Key[a]
        /\ Key[a] < Key[m] /\ NULL \notin M \cup {a}
        /\ \A y \in M \cup {a} : Key[y] \in Nat
        /\ m \in M /\ a \notin M
    BY <1>2, <1>3, <1>7, <1>8, Constants
  <2>2. /\ next'[a] = m /\ pre'[a] = pre[m] /\ pre'[m] = a
        /\ m # main => next'[pre[m]] = a
        /\ Linked(next, pre, Key, main, M)
    BY <1>3, <1>8
  <2>3. Linked(next', pre', Key, IF pre[m] = NULL THEN a ELSE main, M \cup {a})
    BY ONLY <2>1, <2>2, InsertedBefore
  <2> QED
    BY <1>2, <2>3
<1>10. Forward(next', Key, pn_asst', A \ {a}) /\ Backward(next', pre', pn_asst', A \ {a})
  <2>1. \A y \in A \ {a} : next'[y] = next[y] /\ pre'[y] = pre[y]
    BY <1>3, <1>6, <1>8, Constants
  <2>2. Forward(next', Key, next[a], A \ {a})
    BY <1>3, <2>1, ForwardFrame
  <2>3. Backward(next', pre', next[a], A \ {a})
    BY <1>3, <2>1 DEF Backward
  <2> QED
    BY <1>2, <2>2, <2>3
<1>11. main_terms' = Cardinality(M \cup {a}) /\ main_terms' \in Nat
  <2>1. IsFiniteSet(M) /\ Cardinality(M) \in Nat
    BY <1>3, NodesFinite
  <2>2. Cardinality(M \cup {a}) = Cardinality(M) + 1
    BY <1>7, <2>1, FS_AddElement
  <2>3. main_terms = Cardinality(M)
    BY <1>3
  <2> QED
    BY <1>2, <2>1, <2>2, <2>3
<1>12. TypeOK'
  <2>1. main' \in Node \cup {NULL}
    BY <1>2, <1>3 DEF TypeOK
  <2> QED
    BY <1>2, <1>3, <1>4, <1>8, <1>11, <2>1 DEF TypeOK, input
<1>13. Control'
  BY <1>2, <1>3, CombineControl
<1>14. ASSUME NEW B, B = A \ {a}, NEW N, N = M \cup {a}
       PROVE  Lists([own EXCEPT ![q] = {}], N, B)'
  <2>1. /\ B \in SUBSET Node /\ N \in SUBSET Node
        /\ N \cup B \subseteq M \cup A \cup own[q] /\ N \cap B = {}
    BY <1>3, <1>14
  <2>2. /\ Linked(next', pre', Key, main', N)
        /\ Forward(next', Key, pn_asst', B) /\ Backward(next', pre', pn_asst', B)
        /\ main_terms' = Cardinality(N) /\ term_count'[q] = Cardinality(B)
        /\ pn_main' \in N
    BY <1>2, <1>4, <1>9, <1>10, <1>11, <1>14
  <2>3. \A x \in N, y \in B : Key[x] < Key[pn_main'] => Key[x] < Key[y]
    <3> SUFFICES ASSUME NEW x \in N, NEW y \in B, Key[x] < Key[a] PROVE Key[x] < Key[y]
      BY <1>2
    <3>1. Key[a] < Key[y] /\ x \in Node /\ y \in Node
      BY <1>3, <1>14, <2>1
    <3>2. Key[x] \in Nat /\ Key[y] \in Nat /\ Key[a] \in Nat
      BY <1>3, <3>1
    <3> QED
      BY <3>1, <3>2
  <2>4. /\ pc' = "combine" /\ k' = k /\ list'[q] = NULL /\ (pc = "merge" \/ pc = "combine")
        /\ \A p \in Part : p # q => list'[p] = list[p] /\ term_count'[p] = term_count[p]
        /\ q \in Part /\ k = q
    BY <1>2, <1>3, <1>4
  <2>5. \A y \in Node : y \notin M \cup A \cup own[q] => next'[y] = next[y] /\ pre'[y] = pre[y]
    BY <1>3, <1>6, <1>8, Constants
  <2> QED
    BY ONLY TypeOK, Lists(own, M, A), <2>1, <2>2, <2>3, <2>4, <2>5, CombinedLists
<1>15. Lists([own EXCEPT ![q] = {}], M \cup {a}, A \ {a})'
  BY <1>14
<1>16. own = [own EXCEPT ![q] = {}]
  BY <1>3
<1>17. Lists(own, M \cup {a}, A \ {a})'
  BY ONLY <1>15, <1>16, Zenon
<1> QED
  BY <1>3, <1>12, <1>13, <1>17

\* The walk along the main list goes on.
LEMMA MainIsSmallerKeeps ==
  ASSUME TypeOK, Control, NEW own, NEW M, NEW A, Lists(own, M, A), MainIsSmaller,
         NEW q, k = q, NEW a, a = pn_asst
  PROVE  TypeOK' /\ Control' /\ Lists(own, M, A)'
<1>1. PICK m : m = pn_main
  OBVIOUS
<1>2. /\ pc = "combine" /\ a # NULL /\ m[2] < a[2] /\ next[m] # NULL
      /\ pn_main' = next[m]
      /\ UNCHANGED <<input, parts, pc, k, ptr, next, pre, count, list, term_count, main,
                     main_terms, pn_asst>>
  BY <1>1 DEF MainIsSmaller, After, heap, lists
<1>3. /\ q \in Part /\ k <= n /\ own[q] = {} /\ own = [own EXCEPT ![q] = {}]
      /\ M \subseteq Node /\ A \subseteq Node /\ M \cap A = {}
      /\ a \in A /\ m \in M /\ a \in Node /\ m \in Node
      /\ Linked(next, pre, Key, main, M)
      /\ Forward(next, Key, a, A) /\ Backward(next, pre, a, A)
      /\ Forward(next, Key, next[a], A \ {a}) /\ Backward(next, pre, next[a], A \ {a})
      /\ \A x \in Node : Key[x] \in Nat /\ Key[x] = x[2]
      /\ main_terms = Cardinality(M) /\ term_count[q] = Cardinality(A)
      /\ list[q] = NULL
  BY <1>1, <1>2, Iteration
<1>4. /\ next[m] \in M /\ Key[m] < Key[next[m]]
      /\ \A y \in M : Key[m] < Key[y] => Key[next[m]] <= Key[y]
  BY <1>2, <1>3 DEF Linked, Forward
<1>5. \A x \in M, y \in A : Key[x] < Key[next[m]] => Key[x] < Key[y]
  <2> SUFFICES ASSUME NEW x \in M, NEW y \in A, Key[x] < Key[next[m]]
               PROVE  Key[x] < Key[y]
    OBVIOUS
  <2>1. Key[x] \in Nat /\ Key[y] \in Nat /\ Key[m] \in Nat /\ Key[a] \in Nat
        /\ Key[next[m]] \in Nat /\ Key[m] < Key[a]
    BY <1>2, <1>3, <1>4
  <2>2. ~(Key[m] < Key[x])
    BY <1>4, <2>1
  <2>3. Key[a] <= Key[y]
    BY <1>2, <1>3 DEF Forward
  <2> QED
    BY <2>1, <2>2, <2>3
<1>6. TypeOK'
  <2>1. next[m] \in Node \cup {NULL}
    BY <1>3, <1>4
  <2> QED
    BY <1>2, <2>1 DEF TypeOK, input
<1>7. Control'
  BY <1>2, <1>3, CombineControl
<1>8. Lists([own EXCEPT ![q] = {}], M, A)'
  <2>1. /\ A \in SUBSET Node /\ M \in SUBSET Node
        /\ M \cup A \subseteq M \cup A \cup own[q] /\ M \cap A = {}
    BY <1>3
  <2>2. /\ Linked(next', pre', Key, main', M)
        /\ Forward(next', Key, pn_asst', A) /\ Backward(next', pre', pn_asst', A)
        /\ main_terms' = Cardinality(M) /\ term_count'[q] = Cardinality(A)
        /\ pn_main' \in M
        /\ \A x \in M, y \in A : Key[x] < Key[pn_main'] => Key[x] < Key[y]
    BY <1>1, <1>2, <1>3, <1>4, <1>5
  <2>3. /\ pc' = "combine" /\ k' = k /\ list'[q] = NULL /\ (pc = "merge" \/ pc = "combine")
        /\ \A p \in Part : p # q => list'[p] = list[p] /\ term_count'[p] = term_count[p]
        /\ q \in Part /\ k = q
        /\ \A y \in Node : y \notin M \cup A \cup own[q] => next'[y] = next[y] /\ pre'[y] = pre[y]
    BY <1>2, <1>3
  <2> QED
    BY ONLY TypeOK, Lists(own, M, A), <2>1, <2>2, <2>3, CombinedLists
<1> QED
  BY <1>3, <1>6, <1>7, <1>8

\* What there is to show when combine_count returns.
LEMMA ReturnedLists ==
  ASSUME TypeOK, Control, NEW own, NEW M, NEW A, Lists(own, M, A), pc = "combine",
         NEW M2, M2 \subseteq M \cup A, pc' = "merge", k' = k + 1,
         \A y \in Node : y \notin M \cup A => next'[y] = next[y] /\ pre'[y] = pre[y],
         UNCHANGED <<list, term_count>>,
         Linked(next', pre', Key, main', M2), main_terms' = Cardinality(M2),
         pn_asst' = NULL
  PROVE  Lists(own, M2, {})'
<1>1. PICK q : k = q
  OBVIOUS
<1>2. q \in Part /\ own \in [Part -> SUBSET Node] /\ M2 \in SUBSET Node
      /\ own[q] = {}
  BY <1>1, PartOfTheCount DEF Lists, Linking, Linked, Forward, Combining
<1>3. ASSUME NEW p \in Part
      PROVE  /\ \A x \in own[p] : x[1] = p
             /\ Linked(next', pre', Key, list'[p], own[p])
             /\ own[p] \cap M2 = {}
  <2>1. own[p] \cap (M \cup A) = {} /\ own[p] \subseteq Node /\ \A x \in own[p] : x[1] = p
    BY DEF Lists, Linking
  <2>2. \A y \in own[p] : next'[y] = next[y] /\ pre'[y] = pre[y]
    BY <2>1
  <2>4. Linked(next, pre, Key, list[p], own[p])
    BY DEF Lists, Linking
  <2>3. Linked(next', pre', Key, list[p], own[p])
    BY ONLY <2>4, <2>2, LinkedFrame
  <2> QED
    BY <2>1, <2>3
<1>4. Linking(own, M2, {})'
  BY <1>3, NoNode DEF Linking, Linked
<1>5. Lengths(own, M2, {})'
  <2>1. ASSUME NEW p \in Part, own[p] # {} \/ Pending(p)'
        PROVE  term_count[p] = Cardinality(own[p])
    <3>1. p \in Nat /\ q \in Nat
      BY <1>2, Constants
    <3>2. own[p] # {} \/ Pending(p)
      BY <1>1, <2>1, <3>1 DEF Pending
    <3> QED
      BY <3>2 DEF Lists, Lengths
  <2> QED
    BY <2>1 DEF Lengths
<1>6. Unused(own, M2)' /\ Combining(M2, {})'
  BY DEF Unused, Combining
<1> QED
  BY <1>2, <1>4, <1>5, <1>6 DEF Lists

\* What is left goes to the end of the main list.
LEMMA CombineTailKeeps ==
  ASSUME TypeOK, Control, NEW own, NEW M, NEW A, Lists(own, M, A), CombineTail,
         NEW q, k = q, NEW a, a = pn_asst
  PROVE  TypeOK' /\ Control' /\ Lists(own, M \cup A, {})'
<1>1. PICK m : m = pn_main
  OBVIOUS
<1>2. /\ pc = "combine" /\ a # NULL /\ m[2] < a[2] /\ next[m] = NULL
      /\ main_terms' = main_terms + term_count[q]
      /\ next' = [next EXCEPT ![m] = a] /\ pre' = [pre EXCEPT ![a] = m]
      /\ pn_asst' = NULL /\ pc' = "merge" /\ k' = k + 1
      /\ UNCHANGED <<input, parts, ptr, count, list, term_count, main, pn_main>>
  BY <1>1 DEF CombineTail, Return
<1>3. /\ q \in Part /\ k <= n
      /\ M \subseteq Node /\ A \subseteq Node /\ M \cap A = {}
      /\ a \in A /\ m \in M /\ a \in Node /\ m \in Node
      /\ Linked(next, pre, Key, main, M)
      /\ Forward(next, Key, a, A) /\ Backward(next, pre, a, A)
      /\ Forward(next, Key, next[a], A \ {a}) /\ Backward(next, pre, next[a], A \ {a})
      /\ \A x \in Node : Key[x] \in Nat /\ Key[x] = x[2]
      /\ main_terms = Cardinality(M) /\ term_count[q] = Cardinality(A)
  BY <1>1, <1>2, Iteration
<1>4. /\ next'[m] = a /\ pre'[a] = m /\ m # a
      /\ \A y \in Node : y # m => next'[y] = next[y]
      /\ \A y \in Node : y # a => pre'[y] = pre[y]
      /\ next' \in [Node -> Node \cup {NULL}] /\ pre' \in [Node -> Node \cup {NULL}]
  BY <1>2, <1>3 DEF TypeOK
<1>5. Linked(next', pre', Key, main', M \cup A)
  <2>1. Forward(next', Key, a, A) /\ Backward(next', pre', a, A)
    <3>1. \A y \in A : next'[y] = next[y] /\ (y # a => pre'[y] = pre[y])
      BY <1>3, <1>4
    <3>2. Forward(next', Key, a, A)
      BY <1>3, <3>1, ForwardFrame
    <3>3. Backward(next', pre', a, A)
      BY <1>3, <3>1 DEF Backward
    <3> QED
      BY <3>2, <3>3
  <2>2. /\ m \in M /\ NULL \notin M \cup A /\ \A y \in M \cup A : Key[y] \in Nat
        /\ M \cap A = {} /\ Linked(next, pre, Key, main, M) /\ next[m] = NULL /\ a # NULL
        /\ Key[m] < Key[a] /\ next'[m] = a /\ pre'[a] = m
    BY <1>2, <1>3, <1>4, Constants
  <2>3. \A y \in M : (y # m => next'[y] = next[y]) /\ pre'[y] = pre[y]
    BY <1>3, <1>4
  <2>4. Linked(next', pre', Key, main, M \cup A)
    BY ONLY <2>1, <2>2, <2>3, Joined
  <2> QED
    BY <1>2, <2>4
<1>6. main_terms' = Cardinality(M \cup A) /\ main_terms' \in Nat
  <2>1. IsFiniteSet(M) /\ IsFiniteSet(A) /\ Cardinality(M) \in Nat /\ Cardinality(A) \in Nat
    BY <1>3, NodesFinite
  <2>2. Cardinality(M \cup A) = Cardinality(M) + Cardinality(A) - Cardinality(M \cap A)
    BY <2>1, FS_Union
  <2>3. Cardinality(M \cap A) = 0
    BY <1>3, FS_EmptySet
  <2>4. main_terms' = Cardinality(M) + Cardinality(A)
    BY <1>2, <1>3
  <2> QED
    BY <2>1, <2>2, <2>3, <2>4
<1>7. Ranges
  BY Numbers
<1>8. TypeOK'
  <2>1. k' \in 1..(MaxParts + 1)
    <3>1. k' = k + 1 /\ k <= n
      BY <1>2, <1>3
    <3>2. MaxParts \in Nat /\ n \in 1..MaxParts /\ k \in 1..(MaxParts + 1)
      BY <1>7 DEF Ranges
    <3> QED
      BY ONLY <3>1, <3>2
  <2>2. UNCHANGED <<doc, text, n, caller, parts, ptr, count, list, term_count, main, pn_main>>
    BY <1>2 DEF input
  <2>3. pc' = "merge" /\ pn_asst' = NULL
    BY <1>2
  <2> QED
    BY <1>4, <1>6, <2>1, <2>2, <2>3 DEF TypeOK
<1>9. Control'
  <2>1. k' <= n + 1
    BY <1>2, <1>3, <1>7 DEF Ranges
  <2> QED
    BY <1>2, <2>1 DEF Control, input
<1>10. Lists(own, M \cup A, {})'
  <2> SUFFICES ASSUME NEW N, N = M \cup A PROVE Lists(own, N, {})'
    OBVIOUS
  <2>1. /\ N \subseteq M \cup A /\ Linked(next', pre', Key, main', N)
        /\ main_terms' = Cardinality(N)
    BY <1>5, <1>6
  <2>2. /\ pc = "combine" /\ pc' = "merge" /\ k' = k + 1 /\ pn_asst' = NULL
        /\ UNCHANGED <<list, term_count>>
        /\ \A y \in Node : y \notin M \cup A => next'[y] = next[y] /\ pre'[y] = pre[y]
    BY <1>2, <1>3, <1>4
  <2> QED
    BY <2>1, <2>2, ReturnedLists
<1> QED
  BY <1>8, <1>9, <1>10

\* A merge is over: nothing is left to take over.
LEMMA CombineReturnsKeeps ==
  ASSUME TypeOK, Control, NEW own, NEW M, NEW A, Lists(own, M, A), CombineReturns
  PROVE  TypeOK' /\ Control' /\ A = {} /\ Lists(own, M, {})'
<1>1. /\ pc = "combine" /\ pn_asst = NULL /\ pc' = "merge" /\ k' = k + 1
      /\ UNCHANGED <<input, parts, ptr, next, pre, count, list, term_count, main, main_terms,
                     pn_main, pn_asst>>
  BY DEF CombineReturns, Return
<1>2. A = {}
  BY <1>1 DEF Lists, Linking, Forward
<1>3. Ranges
  BY Numbers
<1>4. k \in 1..n
  BY <1>1, PartOfTheCount
<1>5. k' \in 1..(MaxParts + 1) /\ k' <= n + 1
  BY <1>1, <1>3, <1>4 DEF Ranges
<1>6. TypeOK'
  BY <1>1, <1>5 DEF TypeOK, input
<1>7. Control'
  BY <1>1, <1>5 DEF Control, input
<1>8. Linked(next', pre', Key, main', M) /\ main_terms' = Cardinality(M)
  BY <1>1 DEF Lists, Linking, Lengths
<1>9. Lists(own, M, {})'
  BY <1>1, <1>8, ReturnedLists
<1> QED
  BY <1>2, <1>6, <1>7, <1>9

-----------------------------------------------------------------------------
(* All words are counted; the tests then start from the first part's count. *)

\* The merges begin, with the first part as the main count or an empty one.
LEMMA AllCountedKeeps ==
  ASSUME TypeOK, Control, NEW own, NEW M, NEW A, Lists(own, M, A), AllCounted
  PROVE  /\ TypeOK' /\ Control'
         /\ \/ caller = "do_index" /\ Lists(own, M, A)'
            \/ caller # "do_index" /\ Lists([own EXCEPT ![1] = {}], own[1], A)'
<1>0. Ranges
  BY Numbers
<1>1. /\ pc = "count" /\ k = n /\ pc' = "merge"
      /\ UNCHANGED <<input, parts, ptr, heap, pn_main, pn_asst>>
  BY DEF AllCounted
<1>2. /\ \A p \in Part : Linked(next, pre, Key, list[p], own[p]) /\ term_count[p] = Cardinality(own[p])
      /\ \A p \in Part : /\ \A x \in own[p] : x[1] = p
                         /\ own[p] \cap A = {}
      /\ own \in [Part -> SUBSET Node] /\ A \in SUBSET Node
      /\ 1 \in Part /\ Part \subseteq Nat \ {0}
      /\ M = {} /\ A = {}
  BY <1>1, Constants DEF Lists, Linking, Lengths, Pending, Unused, Combining
<1>3. k' \in 1..(MaxParts + 1) /\ k' <= n + 1
  BY <1>0, <1>1 DEF AllCounted, Ranges
<1>4. TypeOK'
  <2>1. main_terms' \in Nat /\ main' \in Node \cup {NULL} /\ list' \in [Part -> Node \cup {NULL}]
        /\ term_count' \in [Part -> Nat]
    <3>1. /\ main_terms' = main_terms \/ main_terms' = term_count[1]
          /\ main' = main \/ main' = list[1]
          /\ list' = list \/ list' = [list EXCEPT ![1] = NULL]
          /\ UNCHANGED term_count
      BY DEF AllCounted, lists
    <3>2. term_count[1] \in Nat /\ list[1] \in Node \cup {NULL}
      BY <1>2 DEF TypeOK
    <3> QED
      BY <3>1, <3>2 DEF TypeOK
  <2> QED
    BY <1>1, <1>3, <2>1 DEF TypeOK, input, heap
<1>5. Control'
  BY <1>1, <1>3 DEF Control, input
<1>6. CASE caller = "do_index"
  <2>1. UNCHANGED lists /\ k' = 1
    BY <1>6 DEF AllCounted
  <2>2. Linking(own, M, A)'
    BY <1>1, <2>1 DEF Lists, Linking, heap, lists
  <2>3. Lengths(own, M, A)'
    BY <1>1, <1>2, <2>1 DEF Lists, Lengths, heap, lists
  <2>4. Unused(own, M)' /\ Combining(M, A)'
    BY <1>1, <1>2, <2>1 DEF Lists, Unused, Combining, heap, lists
  <2> QED
    BY <1>4, <1>5, <1>6, <2>2, <2>3, <2>4 DEF Lists
<1>7. CASE caller # "do_index"
  <2>1. /\ k' = 2 /\ main' = list[1] /\ main_terms' = term_count[1]
        /\ list' = [list EXCEPT ![1] = NULL] /\ UNCHANGED term_count
        /\ UNCHANGED <<next, pre, pn_main, pn_asst>>
    BY <1>1, <1>7 DEF AllCounted, heap
  <2> SUFFICES ASSUME NEW own2, own2 = [own EXCEPT ![1] = {}], NEW N, N = own[1]
               PROVE  Lists(own2, N, A)'
    BY <1>4, <1>5, <1>7
  <2>2. /\ own2 \in [Part -> SUBSET Node] /\ N \in SUBSET Node
        /\ own2[1] = {} /\ \A p \in Part : p # 1 => own2[p] = own[p]
    BY <1>2
  <2>3. Linked(next', pre', Key, main', N)
    BY <1>2, <2>1
  <2>4. ASSUME NEW p \in Part
        PROVE  /\ \A x \in own2[p] : x[1] = p
               /\ Linked(next', pre', Key, list'[p], own2[p])
               /\ own2[p] \cap N = {} /\ own2[p] \cap A = {}
    <3>1. CASE p = 1
      <4>1. list'[p] = NULL /\ own2[p] = {}
        BY <1>2, <2>1, <2>2, <3>1 DEF TypeOK
      <4>2. Linked(next', pre', Key, NULL, {})
        BY ONLY NoNode
      <4> QED
        BY <4>1, <4>2
    <3>2. CASE p # 1
      <4>1. list'[p] = list[p] /\ own2[p] = own[p]
        BY <2>1, <2>2, <3>2 DEF TypeOK
      <4>2. Linked(next', pre', Key, list'[p], own2[p])
        BY <1>2, <2>1, <4>1
      <4>3. own[p] \cap own[1] = {}
        BY <1>2, <3>2
      <4> QED
        BY <1>2, <4>1, <4>2, <4>3
    <3> QED
      BY <3>1, <3>2
  <2>5. Linking(own2, N, A)'
    <3>1. Forward(next', Key, pn_asst', A) /\ Backward(next', pre', pn_asst', A)
      BY <2>1 DEF Lists, Linking
    <3> QED
      BY <1>2, <2>3, <2>4, <3>1 DEF Linking
  <2>6. Lengths(own2, N, A)'
    <3>1. ASSUME NEW p \in Part, own2[p] # {} \/ Pending(p)'
          PROVE  term_count'[p] = Cardinality(own2[p])
      <4>1. p # 1
        BY <1>1, <2>1, <2>2, <3>1 DEF Pending
      <4> QED
        BY <1>2, <2>1, <2>2, <4>1
    <3>2. main_terms' = Cardinality(N)
      BY <1>2, <2>1
    <3> QED
      BY <1>1, <3>1, <3>2 DEF Lengths
  <2>7. Unused(own2, N)' /\ Combining(N, A)'
    BY <1>1, <1>2 DEF Unused, Combining
  <2> QED
    BY <1>2, <2>2, <2>5, <2>6, <2>7 DEF Lists
<1> QED
  BY <1>6, <1>7

-----------------------------------------------------------------------------
(* The invariant. *)

\* What counting reads is the document, or has one token more, or another word
\* for its last one.
LEMMA TextsOfDoc ==
  ASSUME doc \in Seq(Term \cup {NL}), text \in Texts
  PROVE  /\ text \in Seq(Term \cup {NL})
         /\ Len(doc) <= Len(text) /\ Len(text) <= Len(doc) + 1
<1>1. CASE text = doc
  BY <1>1
<1>2. CASE \E w \in Term : text = Append(doc, w)
  BY <1>2
<1>3. CASE doc # <<>> /\ \E w \in Term : text = Append(Front(doc), w)
  <2>1. PICK w \in Term : text = Append(Front(doc), w)
    BY <1>3
  <2>2. Len(doc) \in Nat \ {0}
    BY <1>3
  <2>3. Front(doc) = SubSeq(doc, 1, Len(doc) - 1)
    BY DEF Front
  <2>4. /\ 1 \in Int /\ Len(doc) - 1 \in Int
        /\ \A j \in 1..(Len(doc) - 1) : doc[j] \in Term \cup {NL}
    BY <2>2
  <2>5. Front(doc) \in Seq(Term \cup {NL}) /\ Len(Front(doc)) = Len(doc) - 1
    <3> DEFINE m == Len(doc) - 1
    <3>1. m \in Nat /\ m + 1 = Len(doc)
      BY <2>2
    <3>2. Front(doc) = [j \in 1..m |-> doc[j]]
      BY <2>2, <2>3
    <3> HIDE DEF m
    <3>3. [j \in 1..m |-> doc[j]] \in Seq(Term \cup {NL}) /\ Len([j \in 1..m |-> doc[j]]) = m
      <4>1. \A j \in 1..m : doc[j] \in Term \cup {NL}
        BY <2>4, <3>1
      <4> QED
        BY <3>1, <4>1
    <3> QED
      BY <3>1, <3>2, <3>3
  <2> QED
    BY <2>1, <2>2, <2>5
<1> QED
  BY <1>1, <1>2, <1>3 DEF Texts, Overread

\* The invariant holds at the start.
LEMMA InitHolds ==
  ASSUME Init PROVE IInv
<1>1. /\ n \in Part /\ caller \in Callers /\ parts = <<>> /\ pc = "split" /\ k = 1 /\ ptr = 1
      /\ next = [x \in Node |-> NULL] /\ pre = [x \in Node |-> NULL]
      /\ count = [x \in Node |-> 0] /\ list = [p \in Part |-> NULL]
      /\ term_count = [p \in Part |-> 0] /\ main = NULL /\ main_terms = 0
      /\ pn_main = NULL /\ pn_asst = NULL
  BY DEF Init
<1>2. /\ {doc, text} \subseteq Seq(Term \cup {NL})
      /\ Len(doc) <= Len(text) /\ Len(text) <= MaxWords + 1
  <2>1. doc \in BoundedSeq(Term \cup {NL}, MaxWords) /\ MaxWords \in Nat
    BY CountAssumption DEF Init
  <2>2. doc \in Seq(Term \cup {NL}) /\ Len(doc) <= MaxWords /\ Len(doc) \in Nat
    BY <2>1, BoundedIsSeq
  <2>3. /\ text \in Seq(Term \cup {NL}) /\ Len(text) \in Nat
        /\ Len(doc) <= Len(text) /\ Len(text) <= Len(doc) + 1
    BY <2>2, TextsOfDoc DEF Init
  <2> QED
    BY <2>1, <2>2, <2>3
<1>3. MaxParts \in Nat \ {0} /\ MaxWords \in Nat /\ n \in 1..MaxParts
  BY <1>1, CountAssumption DEF Part
<1>4. TypeOK
  <2>1. k \in 1..(MaxParts + 1) /\ ptr \in 1..(MaxWords + 2)
    BY <1>1, <1>3
  <2>2. parts \in Seq(Nat \X Nat)
    BY <1>1
  <2> QED
    BY <1>1, <1>2, <2>1, <2>2 DEF TypeOK
<1>5. Control
  BY <1>1, <1>2, <1>3 DEF Control
<1>6. ASSUME NEW own, own = [p \in Part |-> {}] PROVE Lists(own, {}, {})
  <2>1. Linked(next, pre, Key, NULL, {})
    BY ONLY NoNode
  <2>2. own \in [Part -> SUBSET Node] /\ \A p \in Part : own[p] = {} /\ list[p] = NULL
    BY <1>1, <1>6
  <2>3. Linking(own, {}, {})
    BY <1>1, <2>1, <2>2 DEF Linking, Linked
  <2>4. Lengths(own, {}, {})
    BY <1>1, <2>2, FS_EmptySet DEF Lengths
  <2>5. Unused(own, {}) /\ Combining({}, {})
    BY <1>1 DEF Unused, Combining
  <2> QED
    BY <2>2, <2>3, <2>4, <2>5 DEF Lists
<1> QED
  BY <1>4, <1>5, <1>6 DEF IInv

\* The invariant is kept by every step.
LEMMA StepHolds ==
  ASSUME IInv, [Next]_vars PROVE IInv'
<1> SUFFICES ASSUME NEW own, NEW M, NEW A, Lists(own, M, A),
                    NEW q, k = q, NEW a, a = pn_asst, NEW h, h = list[q]
             PROVE  IInv'
  BY DEF IInv
<1>0. TypeOK /\ Control /\ Ranges
  BY Numbers DEF IInv
<1>1. CASE CutPart \/ CutPastEnd \/ LastPart
  <2>1. Lists(own, M, A)'
    <3>1. /\ UNCHANGED <<heap, lists, pn_main, pn_asst>> /\ pc = "split" /\ k' = k
          /\ pc' \in {"split", "undefined", "count"}
      BY <1>1 DEF CutPart, CutPastEnd, LastPart, input
    <3> QED
      BY <3>1, ListsStay
  <2> QED
    BY <1>0, <1>1, <2>1, CutKeeps DEF IInv
<1>2. CASE SkipNewline \/ NextPart
  <2>1. Lists(own, M, A)'
    <3>1. UNCHANGED <<heap, lists, pn_main, pn_asst>> /\ pc = "count" /\ pc' = pc
      BY <1>2 DEF SkipNewline, NextPart
    <3> QED
      BY <3>1, ListsStay
  <2> QED
    BY <1>0, <1>2, <2>1, PartStepKeeps DEF IInv
<1>3. CASE CountWord
  BY <1>0, <1>3, CountWordKeeps DEF IInv
<1>4. CASE AllCounted
  BY <1>0, <1>4, AllCountedKeeps DEF IInv
<1>5. CASE Combine
  BY <1>0, <1>5, CombineKeeps DEF IInv
<1>6. CASE CombineEmptyMain
  BY <1>0, <1>6, CombineEmptyMainKeeps, ZenonT(40) DEF IInv
<1>7. CASE CombineNothing \/ AllCombined
  <2>1. /\ UNCHANGED <<input, parts, k, ptr, heap, lists, pn_main, pn_asst>>
        /\ pc = "merge" /\ pc' \in {"undefined", "done"}
        /\ pc' = "done" => k = n + 1
    BY <1>0, <1>7, SMTT(30) DEF CombineNothing, AllCombined, Control, Ranges
  <2>2. Lists(own, M, A)'
    BY <2>1, ListsStay
  <2>3. TypeOK' /\ Control'
    BY <1>0, <2>1 DEF TypeOK, Control, input, heap, lists
  <2> QED
    BY <2>2, <2>3 DEF IInv
<1>8. CASE SameTerm
  BY <1>0, <1>8, SameTermKeeps DEF IInv
<1>9. CASE MainIsBigger
  <2>1. TypeOK' /\ Control' /\ Lists(own, M \cup {a}, A \ {a})'
    BY <1>0, <1>9, MainIsBiggerKeeps
  <2> QED
    BY <2>1, Zenon DEF IInv
<1>10. CASE MainIsSmaller
  BY <1>0, <1>10, MainIsSmallerKeeps DEF IInv
<1>11. CASE CombineTail
  BY <1>0, <1>11, CombineTailKeeps DEF IInv
<1>12. CASE CombineReturns
  BY <1>0, <1>12, CombineReturnsKeeps DEF IInv
<1>13. CASE UNCHANGED vars
  <2>1. UNCHANGED <<doc, text, n, caller, parts, pc, k, ptr, next, pre, count, list, term_count,
                    main, main_terms, pn_main, pn_asst>>
    BY <1>13 DEF vars, input, heap, lists
  <2>2. Lists(own, M, A)'
    BY <2>1 DEF Lists, Linking, Lengths, Pending, Unused, Combining
  <2>3. TypeOK' /\ Control'
    BY <1>0, <2>1 DEF TypeOK, Control
  <2> QED
    BY <2>2, <2>3 DEF IInv
<1> QED
  BY <1>1, <1>2, <1>3, <1>4, <1>5, <1>6, <1>7, <1>8, <1>9, <1>10, <1>11, <1>12, <1>13 DEF Next

\* The invariant holds throughout.
LEMMA AlwaysIInv == Spec => []IInv
<1>1. Init => IInv
  BY InitHolds
<1>2. IInv /\ [Next]_vars => IInv'
  BY StepHolds
<1> QED
  BY <1>1, <1>2, PTL DEF Spec

\* Every variable of a count stays in its domain: the part that is given to
\* count_doc exists, and ptr never leaves the document.
THEOREM TypeCorrect == Spec => []TypeOK
<1>1. IInv => TypeOK
  BY DEF IInv
<1> QED
  BY <1>1, AlwaysIInv, PTL

-----------------------------------------------------------------------------
(* The lists, as the properties see them. *)

\* A list that is linked both ways is so along its chain.
LEMMA ChainOfLinked ==
  ASSUME TypeOK, NEW h, NEW S \in SUBSET Node, Linked(next, pre, Key, h, S)
  PROVE  /\ Sorted(Chain(next, h)) /\ LinkedBothWays(Chain(next, h))
         /\ Len(Chain(next, h)) = Cardinality(S)
<1>1. PICK s : s = Chain(next, h)
  OBVIOUS
<1>2. Orders(s, next, Key, h, S)
  <2>1. Forward(next, Key, h, S) /\ next \in [Node -> Node \cup {NULL}]
    BY DEF Linked, TypeOK
  <2> QED
    BY <1>1, <2>1, Constants, NodesFinite, ChainIs
<1>3. s \in Seq(S) /\ Len(s) \in Nat /\ Len(s) = Cardinality(S)
  BY <1>2 DEF Orders
<1>4. \A j \in 1..Len(s) : s[j] \in S /\ Key[s[j]] = s[j][2]
  BY <1>3, Constants
<1>5. Sorted(s)
  <2> SUFFICES ASSUME NEW j \in 2..Len(s) PROVE s[j - 1][2] < s[j][2]
    BY DEF Sorted
  <2>1. j - 1 \in 1..Len(s) /\ j \in 1..Len(s) /\ j - 1 < j
    BY <1>3
  <2>2. Key[s[j - 1]] < Key[s[j]]
    BY <1>2, <2>1 DEF Orders
  <2> QED
    BY <1>4, <2>1, <2>2
<1>6. \A j \in 1..Len(s) : pre[s[j]] = IF j = 1 THEN NULL ELSE s[j - 1]
  <2>1. NULL \notin S /\ (\A y \in S : Key[y] \in Nat) /\ IsFiniteSet(S)
    BY <1>4, Constants, NodesFinite
  <2> QED
    BY <1>2, <2>1, ChainBack
<1> QED
  BY <1>1, <1>3, <1>5, <1>6 DEF LinkedBothWays

\* After each word and each iteration of combine_count, every list is sorted,
\* has no term twice and is linked alike in both directions: where a node is
\* inserted, or a list relinked, no link is forgotten.
THEOREM WellLinkedHolds == Spec => []WellLinked
<1>1. IInv => WellLinked
  <2> SUFFICES ASSUME TypeOK, NEW own, NEW M, NEW A, Lists(own, M, A),
                      NEW head \in {main} \cup {list[p] : p \in Part}
               PROVE  Sorted(Chain(next, head)) /\ LinkedBothWays(Chain(next, head))
    BY DEF IInv, WellLinked
  <2>1. CASE head = main
    <3>1. Linked(next, pre, Key, head, M) /\ M \in SUBSET Node
      BY <2>1 DEF Lists, Linking
    <3> QED
      BY <3>1, ChainOfLinked
  <2>2. CASE \E p \in Part : head = list[p]
    <3>1. PICK p \in Part : head = list[p]
      BY <2>2
    <3>2. Linked(next, pre, Key, head, own[p]) /\ own[p] \in SUBSET Node
      BY <3>1 DEF Lists, Linking
    <3> QED
      BY <3>2, ChainOfLinked
  <2> QED
    BY <2>1, <2>2
<1> QED
  BY <1>1, AlwaysIInv, PTL

\* main->term_count and asst->term_count are the lengths of their lists at
\* every iteration, and so is the sum that the tail of combine_count makes
\* of them without looking at the nodes.
THEOREM TermCountsExactHolds == Spec => []TermCountsExact
<1>1. IInv => TermCountsExact
  <2> SUFFICES ASSUME TypeOK, Control, NEW own, NEW M, NEW A, Lists(own, M, A)
               PROVE  TermCountsExact
    BY DEF IInv
  <2>0. own \in [Part -> SUBSET Node] /\ M \in SUBSET Node /\ A \in SUBSET Node
    BY DEF Lists
  <2>1. main_terms = Len(Chain(next, main))
    <3>1. Linked(next, pre, Key, main, M) /\ main_terms = Cardinality(M)
      BY DEF Lists, Linking, Lengths
    <3> QED
      BY <2>0, <3>1, ChainOfLinked
  <2>2. ASSUME NEW p \in Part, list[p] # NULL
        PROVE  term_count[p] = Len(Chain(next, list[p]))
    <3>1. Linked(next, pre, Key, list[p], own[p])
      BY DEF Lists, Linking
    <3>2. own[p] # {}
      BY <2>2, <3>1 DEF Linked, Forward
    <3>3. term_count[p] = Cardinality(own[p])
      BY <3>2 DEF Lists, Lengths
    <3>4. own[p] \in SUBSET Node
      BY <2>0
    <3> QED
      BY <3>1, <3>3, <3>4, ChainOfLinked
  <2>3. ASSUME pc = "combine" PROVE term_count[k] = Len(Chain(next, pn_asst))
    <3>1. Forward(next, Key, pn_asst, A) /\ term_count[k] = Cardinality(A)
      BY <2>3 DEF Lists, Linking, Lengths
    <3>2. next \in [Node -> Node \cup {NULL}]
      BY DEF TypeOK
    <3>3. Orders(Chain(next, pn_asst), next, Key, pn_asst, A)
      BY <2>0, <3>1, <3>2, Constants, NodesFinite, ChainIs
    <3> QED
      BY <3>1, <3>3 DEF Orders
  <2> QED
    BY <2>1, <2>2, <2>3 DEF TermCountsExact
<1> QED
  BY <1>1, AlwaysIInv, PTL

-----------------------------------------------------------------------------
(* What is counted, and what Tally promises of it. *)

\* How often each term is counted in the nodes of S, by the counts c.
Tallies(c, S) == [t \in Term |-> SumOver(c, {x \in S : x[2] = t})]

\* The tally of a list is that of the set of its nodes.
LEMMA CountInIs ==
  ASSUME NEW s PROVE CountIn(s) = Tallies(count, ToSet(s))
BY DEF CountIn, Tallies, SumOver

\* The tally of a set of nodes, and of the set without one of them.
LEMMA TalliesWith ==
  ASSUME NEW c \in [Node -> Nat], NEW S \in SUBSET Node
  PROVE  /\ Tallies(c, S) \in [Term -> Nat]
         /\ Tallies(c, {}) = [t \in Term |-> 0]
         /\ \A x \in S : \A t \in Term :
              Tallies(c, S)[t] = Tallies(c, S \ {x})[t] + IF x[2] = t THEN c[x] ELSE 0
<1>1. ASSUME NEW t \in Term PROVE SumOver(c, {x \in S : x[2] = t}) \in Nat
  <2>1. {x \in S : x[2] = t} \in SUBSET Node
    OBVIOUS
  <2> QED
    BY <2>1, NodesFinite, SumWith
<1>2. Tallies(c, {}) = [t \in Term |-> 0]
  <2>1. SumOver(c, {}) = 0
    BY NodesFinite, SumWith
  <2>2. \A t \in Term : {x \in {} : x[2] = t} = {}
    OBVIOUS
  <2> QED
    BY <2>1, <2>2 DEF Tallies
<1>3. ASSUME NEW x \in S, NEW t \in Term
      PROVE  Tallies(c, S)[t] = Tallies(c, S \ {x})[t] + IF x[2] = t THEN c[x] ELSE 0
  <2>1. PICK R, Q : R = {y \in S : y[2] = t} /\ Q = {y \in S \ {x} : y[2] = t}
    OBVIOUS
  <2>2. /\ R \in SUBSET Node /\ Q \in SUBSET Node
        /\ Tallies(c, S)[t] = SumOver(c, R) /\ Tallies(c, S \ {x})[t] = SumOver(c, Q)
    BY <2>1 DEF Tallies
  <2>3. SumOver(c, R) \in Nat /\ SumOver(c, Q) \in Nat /\ c[x] \in Nat
    BY <2>2, NodesFinite, SumWith
  <2>4. CASE x[2] = t
    <3>1. x \in R /\ Q = R \ {x}
      BY <2>1, <2>4
    <3>2. SumOver(c, R) = c[x] + SumOver(c, R \ {x})
      BY <2>2, <3>1, NodesFinite, SumWith
    <3> QED
      BY <2>2, <2>3, <2>4, <3>1, <3>2
  <2>5. CASE x[2] # t
    <3>1. Q = R
      BY <2>1, <2>5
    <3> QED
      BY <2>2, <2>3, <2>5, <3>1
  <2> QED
    BY <2>4, <2>5
<1> QED
  BY <1>1, <1>2, <1>3 DEF Tallies

\* Counts that agree on a set of nodes give the same tally.
LEMMA TalliesSame ==
  ASSUME NEW c \in [Node -> Nat], NEW d \in [Node -> Nat], NEW S \in SUBSET Node,
         \A x \in S : c[x] = d[x]
  PROVE  Tallies(c, S) = Tallies(d, S)
<1>1. ASSUME NEW t \in Term
      PROVE  SumOver(c, {x \in S : x[2] = t}) = SumOver(d, {x \in S : x[2] = t})
  <2>1. PICK R : R = {x \in S : x[2] = t}
    OBVIOUS
  <2>2. R \in SUBSET Node /\ \A x \in R : c[x] = d[x]
    BY <2>1
  <2>3. SumOver(c, R) = SumOver(d, R)
    BY <2>2, NodesFinite, SumSame
  <2> QED
    BY <2>1, <2>3
<1> QED
  BY <1>1 DEF Tallies

\* The tally of two sets that do not meet is the sum of theirs.
LEMMA TalliesJoined ==
  ASSUME NEW c \in [Node -> Nat], NEW S \in SUBSET Node, NEW R \in SUBSET Node, S \cap R = {}
  PROVE  Tallies(c, S \cup R) = [t \in Term |-> Tallies(c, S)[t] + Tallies(c, R)[t]]
<1>1. ASSUME NEW t \in Term
      PROVE  SumOver(c, {x \in S \cup R : x[2] = t}) =
               SumOver(c, {x \in S : x[2] = t}) + SumOver(c, {x \in R : x[2] = t})
  <2>1. PICK P, Q : P = {x \in S : x[2] = t} /\ Q = {x \in R : x[2] = t}
    OBVIOUS
  <2>2. /\ P \in SUBSET Node /\ Q \in SUBSET Node /\ P \cap Q = {}
        /\ {x \in S \cup R : x[2] = t} = P \cup Q
    BY <2>1
  <2>3. SumOver(c, P \cup Q) = SumOver(c, P) + SumOver(c, Q)
    BY <2>2, NodesFinite, SumJoined
  <2> QED
    BY <2>1, <2>2, <2>3
<1> QED
  BY <1>1 DEF Tallies

\* The state that Tally sees.
Total == CountIn(Chain(next, main) \o InCombine)
OwnTallies == [p \in Part |-> CountIn(Chain(next, list[p]))]

Maps(own, M, A) ==
  /\ Total = Tallies(count, M \cup A)
  /\ OwnTallies = [p \in Part |-> Tallies(count, own[p])]

\* A word is counted in part q, part q is added to the total, and neither.
Counts(q, t) == Total' = Total /\ OwnTallies' = [OwnTallies EXCEPT ![q][t] = @ + 1]
Joins(q) ==
  /\ Total' = [t \in Term |-> Total[t] + OwnTallies[q][t]]
  /\ OwnTallies' = [OwnTallies EXCEPT ![q] = [t \in Term |-> 0]]
Stays == Total' = Total /\ OwnTallies' = OwnTallies

\* Chain finds just the nodes of a linked list.
LEMMA ChainSet ==
  ASSUME NEW nx \in [Node -> Node \cup {NULL}], NEW h, NEW S \in SUBSET Node,
         Forward(nx, Key, h, S)
  PROVE  Chain(nx, h) \in Seq(S) /\ ToSet(Chain(nx, h)) = S
<1>1. PICK s : s = Chain(nx, h)
  OBVIOUS
<1>2. Orders(s, nx, Key, h, S)
  BY <1>1, Constants, NodesFinite, ChainIs
<1>3. s \in Seq(S) /\ \A x \in S : \E j \in 1..Len(s) : s[j] = x
  BY <1>2 DEF Orders
<1>4. DOMAIN s = 1..Len(s) /\ \A j \in 1..Len(s) : s[j] \in S
  BY <1>3
<1> QED
  BY <1>1, <1>3, <1>4 DEF ToSet

\* The elements of two sequences put together.
LEMMA SetOfBoth ==
  ASSUME NEW U, NEW s \in Seq(U), NEW r \in Seq(U)
  PROVE  ToSet(s \o r) = ToSet(s) \cup ToSet(r)
<1>1. /\ Len(s) \in Nat /\ Len(r) \in Nat /\ DOMAIN s = 1..Len(s) /\ DOMAIN r = 1..Len(r)
      /\ DOMAIN (s \o r) = 1..(Len(s) + Len(r))
      /\ \A j \in 1..(Len(s) + Len(r)) :
           (s \o r)[j] = IF j <= Len(s) THEN s[j] ELSE r[j - Len(s)]
  OBVIOUS
<1>2. PICK b : b = s \o r
  OBVIOUS
<1>3. ASSUME NEW j \in DOMAIN b PROVE b[j] \in ToSet(s) \cup ToSet(r)
  <2>1. j \in 1..(Len(s) + Len(r))
    BY <1>1, <1>2
  <2>2. CASE j <= Len(s)
    <3>1. j \in DOMAIN s /\ b[j] = s[j]
      BY <1>1, <1>2, <2>1, <2>2
    <3> QED
      BY <3>1 DEF ToSet
  <2>3. CASE ~(j <= Len(s))
    <3>1. j - Len(s) \in DOMAIN r /\ b[j] = r[j - Len(s)]
      BY <1>1, <1>2, <2>1, <2>3
    <3> QED
      BY <3>1 DEF ToSet
  <2> QED
    BY <2>2, <2>3
<1>4. ASSUME NEW j \in DOMAIN s PROVE s[j] \in ToSet(b)
  <2>1. j \in DOMAIN b /\ b[j] = s[j]
    BY <1>1, <1>2
  <2> QED
    BY <2>1 DEF ToSet
<1>5. ASSUME NEW j \in DOMAIN r PROVE r[j] \in ToSet(b)
  <2>1. j + Len(s) \in DOMAIN b /\ (j + Len(s)) - Len(s) = j
    BY <1>1, <1>2
  <2>2. b[j + Len(s)] = r[j]
    BY <1>1, <1>2, <2>1
  <2> QED
    BY <2>1, <2>2 DEF ToSet
<1>6. ToSet(b) \subseteq ToSet(s) \cup ToSet(r)
  BY <1>3 DEF ToSet
<1>7. ToSet(s) \cup ToSet(r) \subseteq ToSet(b)
  BY <1>4, <1>5 DEF ToSet
<1> QED
  BY <1>2, <1>6, <1>7

\* What Tally's variables are, by the sets of nodes.
LEMMA Mapped ==
  \A own, M, A : TypeOK /\ Lists(own, M, A) => Maps(own, M, A)
<1> SUFFICES ASSUME NEW own, NEW M, NEW A, TypeOK, Lists(own, M, A)
             PROVE  Maps(own, M, A)
  OBVIOUS
<1>1. /\ next \in [Node -> Node \cup {NULL}]
      /\ own \in [Part -> SUBSET Node] /\ M \in SUBSET Node /\ A \in SUBSET Node
      /\ Forward(next, Key, main, M) /\ Forward(next, Key, pn_asst, A)
      /\ \A p \in Part : own[p] \in SUBSET Node /\ Forward(next, Key, list[p], own[p])
  BY DEF TypeOK, Lists, Linking, Linked
<1>2. Chain(next, main) \in Seq(M) /\ ToSet(Chain(next, main)) = M
  BY <1>1, ChainSet
<1>3. InCombine \in Seq(A) /\ ToSet(InCombine) = A
  <2>1. CASE pc = "combine"
    BY <1>1, <2>1, ChainSet DEF InCombine
  <2>2. CASE pc # "combine"
    BY <2>2 DEF InCombine, Lists, Combining, ToSet
  <2> QED
    BY <2>1, <2>2
<1>4. ToSet(Chain(next, main) \o InCombine) = M \cup A
  <2>1. Chain(next, main) \in Seq(M \cup A) /\ InCombine \in Seq(M \cup A)
    BY <1>2, <1>3
  <2> QED
    BY <1>2, <1>3, <2>1, SetOfBoth
<1>5. Total = Tallies(count, M \cup A)
  BY <1>4, CountInIs DEF Total
<1>6. ASSUME NEW p \in Part PROVE CountIn(Chain(next, list[p])) = Tallies(count, own[p])
  <2>1. ToSet(Chain(next, list[p])) = own[p]
    BY <1>1, ChainSet
  <2> QED
    BY <2>1, CountInIs
<1> QED
  BY <1>5, <1>6 DEF Maps, OwnTallies

\* The same, of the state after a step.
LEMMA MappedNext ==
  \A own, M, A : TypeOK' /\ Lists(own, M, A)' => Maps(own, M, A)'
<1>1. (\A own, M, A : TypeOK /\ Lists(own, M, A) => Maps(own, M, A))'
  BY Mapped, PTL
<1> QED
  BY <1>1

\* The nodes only change hands, within the list that is combined.
LEMMA StepStays ==
  ASSUME NEW own, NEW M, NEW A, NEW M2, NEW A2, Maps(own, M, A), Maps(own, M2, A2)',
         M2 \cup A2 = M \cup A, count' = count
  PROVE  Stays
<1>1. Total = Tallies(count, M \cup A) /\ Total' = Tallies(count', M2 \cup A2)
  BY DEF Maps
<1>2. /\ OwnTallies = [p \in Part |-> Tallies(count, own[p])]
      /\ OwnTallies' = [p \in Part |-> Tallies(count', own[p])]
  BY DEF Maps
<1> QED
  BY <1>1, <1>2 DEF Stays

\* The nodes of part q's list join the others.
LEMMA StepAdds ==
  ASSUME NEW own \in [Part -> SUBSET Node], NEW M, NEW A, NEW M2, NEW A2, NEW q \in Part,
         M \cup A \in SUBSET Node, (M \cup A) \cap own[q] = {},
         Maps(own, M, A), Maps([own EXCEPT ![q] = {}], M2, A2)',
         M2 \cup A2 = M \cup A \cup own[q], count' = count, count \in [Node -> Nat]
  PROVE  Joins(q)
<1>1. Total = Tallies(count, M \cup A) /\ Total' = Tallies(count, (M \cup A) \cup own[q])
  BY DEF Maps
<1>2. OwnTallies = [p \in Part |-> Tallies(count, own[p])]
  BY DEF Maps
<1>3. OwnTallies' = [p \in Part |-> Tallies(count, IF p = q THEN {} ELSE own[p])]
  <2>1. OwnTallies' = [p \in Part |-> Tallies(count', [own EXCEPT ![q] = {}][p])]
    BY DEF Maps
  <2>2. \A p \in Part : [own EXCEPT ![q] = {}][p] = IF p = q THEN {} ELSE own[p]
    OBVIOUS
  <2> QED
    BY <2>1, <2>2
<1>4. own[q] \in SUBSET Node
  OBVIOUS
<1>5. Tallies(count, (M \cup A) \cup own[q]) =
        [t \in Term |-> Tallies(count, M \cup A)[t] + Tallies(count, own[q])[t]]
  BY <1>4, TalliesJoined
<1>6. Total' = [t \in Term |-> Total[t] + OwnTallies[q][t]]
  BY <1>1, <1>2, <1>5
<1>7. Tallies(count, {}) = [t \in Term |-> 0]
  <2>1. {} \in SUBSET Node
    OBVIOUS
  <2> QED
    BY <2>1, TalliesWith
<1> QED
  BY <1>2, <1>3, <1>6, <1>7 DEF Joins

\* A word is counted in part q's list.
LEMMA StepCounts ==
  ASSUME TypeOK, TypeOK', NEW own, NEW M, NEW A, Lists(own, M, A),
         NEW x \in Node, x \notin M \cup A, Maps(own, M, A),
         NEW own2, own2 = [own EXCEPT ![x[1]] = @ \cup {x}], Maps(own2, M, A)',
         count' = [count EXCEPT ![x] = IF x \in own[x[1]] THEN count[x] + 1 ELSE 1]
  PROVE  Counts(x[1], x[2])
<1>0. PICK q : q = x[1]
  OBVIOUS
<1>1. /\ count \in [Node -> Nat] /\ count' \in [Node -> Nat]
      /\ own \in [Part -> SUBSET Node] /\ M \cup A \in SUBSET Node
      /\ \A p \in Part : own[p] \in SUBSET Node
      /\ q \in Part
      /\ \A y \in Node : y # x => count'[y] = count[y]
      /\ count'[x] = IF x \in own[q] THEN count[x] + 1 ELSE 1
  BY <1>0, Constants DEF TypeOK, Lists
<1>9. /\ own2 \in [Part -> SUBSET Node]
      /\ \A p \in Part : own2[p] = IF p = q THEN own[p] \cup {x} ELSE own[p]
  BY <1>0, <1>1, ZenonT(40)
<1>2. Total' = Total
  <2>1. \A y \in M \cup A : count[y] = count'[y]
    BY <1>1
  <2>2. Tallies(count, M \cup A) = Tallies(count', M \cup A)
    BY ONLY <1>1, <2>1, TalliesSame
  <2> QED
    BY <2>2 DEF Maps
<1>3. ASSUME NEW p \in Part, p # q PROVE Tallies(count', own2[p]) = Tallies(count, own[p])
  <2>1. \A y \in own[p] : y # x
    BY <1>0, <1>3 DEF Lists, Linking
  <2>2. \A y \in own[p] : count[y] = count'[y]
    BY <1>1, <2>1
  <2>3. Tallies(count, own[p]) = Tallies(count', own[p])
    BY ONLY <1>1, <2>2, TalliesSame
  <2> QED
    BY <1>3, <1>9, <2>3
<1>4. ASSUME NEW t \in Term
      PROVE  Tallies(count', own2[q])[t] = Tallies(count, own[q])[t] + IF x[2] = t THEN 1 ELSE 0
  <2>1. PICK R : R = own[q] \ {x}
    OBVIOUS
  <2>2. R \in SUBSET Node /\ own2[q] \in SUBSET Node /\ x \in own2[q] /\ own2[q] \ {x} = R
        /\ own[q] \in SUBSET Node
    <3>1. own[q] \in SUBSET Node /\ own2[q] = own[q] \cup {x}
      BY <1>1, <1>9
    <3> QED
      BY <2>1, <3>1
  <2>3. Tallies(count', R) = Tallies(count, R)
    <3>1. \A y \in R : count'[y] = count[y]
      BY <2>1, <2>2
    <3> QED
      BY ONLY <1>1, <2>2, <3>1, TalliesSame
  <2>4. Tallies(count', own2[q])[t] = Tallies(count', R)[t] + IF x[2] = t THEN count'[x] ELSE 0
    BY ONLY <1>1, <2>2, t \in Term, TalliesWith
  <2>5. Tallies(count, R)[t] \in Nat /\ count[x] \in Nat
    <3>1. Tallies(count, R) \in [Term -> Nat]
      BY <1>1, <2>2, TalliesWith
    <3> QED
      BY <1>1, <3>1
  <2>6. CASE x \in own[q]
    <3>1. Tallies(count, own[q])[t] = Tallies(count, R)[t] + IF x[2] = t THEN count[x] ELSE 0
      BY <1>1, <2>1, <2>2, <2>6, TalliesWith
    <3>2. count'[x] = count[x] + 1
      BY <1>1, <2>6
    <3>3. Tallies(count', own2[q])[t] =
            Tallies(count, R)[t] + IF x[2] = t THEN count[x] + 1 ELSE 0
      BY <2>3, <2>4, <3>2
    <3> QED
      BY <2>5, <3>1, <3>3
  <2>7. CASE x \notin own[q]
    <3>1. R = own[q] /\ count'[x] = 1
      BY <1>1, <2>1, <2>7
    <3> QED
      BY <2>3, <2>4, <3>1
  <2> QED
    BY <2>6, <2>7
<1>5. x[2] \in Term
  BY Constants
<1>6. Tallies(count', own2[q]) = [Tallies(count, own[q]) EXCEPT ![x[2]] = @ + 1]
  <2>1. Tallies(count, own[q]) \in [Term -> Nat]
    BY <1>1, TalliesWith
  <2>2. own2[q] \in SUBSET Node
    BY <1>1, <1>9
  <2>3. Tallies(count', own2[q]) \in [Term -> Nat]
    BY <1>1, <2>2, TalliesWith
  <2>4. \A t \in Term : Tallies(count, own[q])[t] + 0 = Tallies(count, own[q])[t]
    BY <2>1
  <2> QED
    BY <1>4, <2>1, <2>3, <2>4
<1>7. /\ OwnTallies = [p \in Part |-> Tallies(count, own[p])]
      /\ OwnTallies' = [p \in Part |-> Tallies(count', own2[p])]
  BY DEF Maps
<1>8. OwnTallies' = [p \in Part |-> IF p = q THEN [Tallies(count, own[q]) EXCEPT ![x[2]] = @ + 1]
                                    ELSE Tallies(count, own[p])]
  BY <1>3, <1>6, <1>7
<1>10. OwnTallies' = [OwnTallies EXCEPT ![q][x[2]] = @ + 1]
  BY <1>1, <1>7, <1>8
<1> QED
  BY <1>0, <1>2, <1>10 DEF Counts

\* combine_count drops the node a, whose count it has added to that of m.
LEMMA StepDrops ==
  ASSUME TypeOK, TypeOK', NEW own, NEW M, NEW A, Lists(own, M, A),
         NEW m \in M, NEW a \in A, m # a, m[2] = a[2],
         Maps(own, M, A), Maps(own, M, A \ {a})',
         \A y \in Node : y # m /\ y # a => count'[y] = count[y],
         count'[m] = count[m] + count[a]
  PROVE  Stays
<1>1. /\ count \in [Node -> Nat] /\ count' \in [Node -> Nat]
      /\ own \in [Part -> SUBSET Node] /\ M \in SUBSET Node /\ A \in SUBSET Node
      /\ \A p \in Part : own[p] \in SUBSET Node /\ own[p] \cap M = {} /\ own[p] \cap A = {}
      /\ M \cap A = {}
  BY DEF TypeOK, Lists, Linking
<1>2. ASSUME NEW p \in Part PROVE Tallies(count', own[p]) = Tallies(count, own[p])
  <2>1. own[p] \in SUBSET Node /\ \A y \in own[p] : count[y] = count'[y]
    BY <1>1
  <2>2. Tallies(count, own[p]) = Tallies(count', own[p])
    BY <1>1, <2>1, TalliesSame
  <2> QED
    BY <2>2
<1>3. ASSUME NEW t \in Term
      PROVE  Tallies(count', M \cup (A \ {a}))[t] = Tallies(count, M \cup A)[t]
  <2>1. PICK R, S, B : R = (M \cup A) \ {m, a} /\ S = M \cup A /\ B = M \cup (A \ {a})
    OBVIOUS
  <2>2. /\ R \in SUBSET Node /\ S \in SUBSET Node /\ B \in SUBSET Node
        /\ a \in S /\ S \ {a} = B /\ m \in B /\ B \ {m} = R
    BY <1>1, <2>1
  <2>3. Tallies(count, S)[t] = Tallies(count, B)[t] + IF a[2] = t THEN count[a] ELSE 0
    BY <1>1, <2>2, TalliesWith
  <2>4. Tallies(count, B)[t] = Tallies(count, R)[t] + IF m[2] = t THEN count[m] ELSE 0
    <3>1. \A y \in B : \A u \in Term :
            Tallies(count, B)[u] = Tallies(count, B \ {y})[u] + IF y[2] = u THEN count[y] ELSE 0
      BY <1>1, <2>2, TalliesWith
    <3> QED
      BY <2>2, <3>1
  <2>5. Tallies(count', B)[t] = Tallies(count', R)[t] + IF m[2] = t THEN count'[m] ELSE 0
    BY <1>1, <2>2, TalliesWith
  <2>6. Tallies(count', R) = Tallies(count, R)
    <3>1. \A y \in R : count'[y] = count[y]
      BY <2>1, <2>2
    <3> QED
      BY <1>1, <2>2, <3>1, TalliesSame
  <2>7. Tallies(count, R)[t] \in Nat /\ count[m] \in Nat /\ count[a] \in Nat
    <3>1. Tallies(count, R) \in [Term -> Nat]
      BY <1>1, <2>2, TalliesWith
    <3> QED
      BY <1>1, <3>1
  <2>8. Tallies(count', B)[t] =
          Tallies(count, R)[t] + IF m[2] = t THEN count[m] + count[a] ELSE 0
    BY <2>5, <2>6
  <2>9. Tallies(count', B)[t] = Tallies(count, S)[t]
    BY <2>3, <2>4, <2>7, <2>8
  <2> QED
    BY <2>1, <2>9
<1>4. Tallies(count', M \cup (A \ {a})) = Tallies(count, M \cup A)
  BY <1>3 DEF Tallies
<1> QED
  BY <1>2, <1>4 DEF Maps, Stays

\* What each action does to the tallies.
Moves ==
  \/ CountWord /\ k \in Part /\ text[ptr] \in Term /\ Counts(k, text[ptr])
  \/ AllCounted /\ caller # "do_index" /\ 1 \in Part /\ Joins(1)
  \/ (Combine \/ CombineEmptyMain) /\ k \in Part /\ Joins(k)
  \/ /\ \/ AllCounted /\ caller = "do_index"
        \/ ~(CountWord \/ AllCounted \/ Combine \/ CombineEmptyMain)
     /\ Stays

\* Each step moves the tallies as one of Tally's, or not at all.
LEMMA TallyMoves ==
  ASSUME IInv, IInv', [Next]_vars
  PROVE  Moves
<1> SUFFICES ASSUME NEW own, NEW M, NEW A, Lists(own, M, A),
                    NEW q, k = q, NEW a, a = pn_asst, NEW h, h = list[q]
             PROVE  Moves
  BY DEF IInv
<1>0. TypeOK /\ Control /\ TypeOK' /\ Ranges
  BY Numbers DEF IInv
<1>1. /\ own \in [Part -> SUBSET Node] /\ M \in SUBSET Node /\ A \in SUBSET Node
      /\ Maps(own, M, A) /\ count \in [Node -> Nat]
      /\ \A p \in Part : own[p] \cap M = {} /\ own[p] \cap A = {}
  BY <1>0, Mapped DEF Lists, Linking, TypeOK
<1>2. ASSUME Lists(own, M, A)', count' = count PROVE Stays
  BY <1>0, <1>1, <1>2, MappedNext, StepStays
<1>3. ASSUME NEW r \in Part, NEW M2, NEW A2, Lists([own EXCEPT ![r] = {}], M2, A2)',
             M2 \cup A2 = M \cup A \cup own[r], count' = count
      PROVE  Joins(r)
  <2>1. Maps([own EXCEPT ![r] = {}], M2, A2)'
    BY <1>0, <1>3, MappedNext
  <2>2. M \cup A \in SUBSET Node /\ (M \cup A) \cap own[r] = {}
    BY <1>1
  <2> QED
    BY <1>1, <1>3, <2>1, <2>2, StepAdds
<1>4. ASSUME CutPart \/ CutPastEnd \/ LastPart PROVE Stays
  <2>1. Lists(own, M, A)' /\ count' = count
    <3>1. /\ UNCHANGED <<heap, lists, pn_main, pn_asst>> /\ pc = "split" /\ k' = k
          /\ pc' \in {"split", "undefined", "count"}
      BY <1>4 DEF CutPart, CutPastEnd, LastPart, input
    <3> QED
      BY <3>1, ListsStay DEF heap
  <2> QED
    BY <1>2, <2>1
<1>5. ASSUME SkipNewline \/ NextPart PROVE Stays
  <2>1. Lists(own, M, A)' /\ count' = count
    <3>1. UNCHANGED <<heap, lists, pn_main, pn_asst>> /\ pc = "count" /\ pc' = pc
      BY <1>5 DEF SkipNewline, NextPart
    <3> QED
      BY <3>1, ListsStay DEF heap
  <2> QED
    BY <1>2, <2>1
<1>6. CASE CountWord
  <2>1. PICK x : x = <<k, text[ptr]>>
    OBVIOUS
  <2>2. /\ q \in Part /\ x \in Node /\ x[1] = q
        /\ \/ /\ x \in own[q] /\ count' = [count EXCEPT ![x] = @ + 1]
              /\ UNCHANGED <<next, pre, list, term_count>>
           \/ /\ x \notin own[q] /\ count' = [count EXCEPT ![x] = 1]
              /\ Lists([own EXCEPT ![q] = @ \cup {x}], M, A)'
    BY <1>0, <1>6, <2>1, WordCounted
  <2>3. M = {} /\ A = {} /\ pc = "count"
    BY <1>6 DEF CountWord, Lists, Unused, Combining
  <2>4. ASSUME NEW own2, own2 = [own EXCEPT ![q] = @ \cup {x}]
        PROVE  Counts(x[1], x[2])
    <3>1. own2 = [own EXCEPT ![x[1]] = @ \cup {x}]
      BY <2>2, <2>4
    <3>2. Lists(own2, M, A)'
      <4>1. CASE UNCHANGED <<next, pre, list, term_count>> /\ x \in own[q]
        <5>1. own2 = own
          BY <1>1, <2>2, <2>4, <4>1
        <5>2. UNCHANGED <<pc, k, main, main_terms, pn_main, pn_asst>>
          BY <1>6 DEF CountWord
        <5>3. Linking(own, M, A)'
          BY <4>1, <5>2 DEF Lists, Linking
        <5>4. Lengths(own, M, A)' /\ Unused(own, M)' /\ Combining(M, A)'
          BY <4>1, <5>2 DEF Lists, Lengths, Pending, Unused, Combining
        <5> QED
          BY <5>1, <5>3, <5>4 DEF Lists
      <4>2. CASE Lists([own EXCEPT ![q] = @ \cup {x}], M, A)'
        BY <2>4, <4>2
      <4> QED
        BY <2>2, <4>1, <4>2
    <3>3. Maps(own2, M, A)'
      BY <1>0, <3>2, MappedNext
    <3>4. /\ count' = [count EXCEPT ![x] = IF x \in own[x[1]] THEN count[x] + 1 ELSE 1]
          /\ x \in Node /\ x \notin M \cup A
      BY <2>2, <2>3
    <3>5. TypeOK /\ TypeOK' /\ Maps(own, M, A)
      BY <1>0, <1>1
    <3> QED
      BY ONLY Lists(own, M, A), <3>1, <3>3, <3>4, <3>5, StepCounts
  <2>5. k \in Part /\ text[ptr] \in Term /\ x[1] = k /\ x[2] = text[ptr]
    BY <2>1, <2>2, Constants
  <2> QED
    BY <1>6, <2>4, <2>5 DEF Moves
<1>7. CASE AllCounted
  <2>1. count' = count /\ pc = "count" /\ M = {} /\ A = {} /\ 1 \in Part
    BY <1>7, Constants DEF AllCounted, heap, Lists, Unused, Combining
  <2>2. CASE caller = "do_index" /\ Lists(own, M, A)'
    <3>1. Stays
      BY <1>2, <2>1, <2>2
    <3> QED
      BY <1>7, <2>2, <3>1 DEF Moves
  <2>3. CASE caller # "do_index" /\ Lists([own EXCEPT ![1] = {}], own[1], A)'
    <3>1. Joins(1)
      BY <1>3, <2>1, <2>3
    <3> QED
      BY <1>7, <2>1, <2>3, <3>1 DEF Moves
  <2> QED
    BY <1>0, <1>7, <2>2, <2>3, AllCountedKeeps
<1>8. CASE Combine
  <2>1. count' = count /\ q \in Part /\ A = {}
    BY <1>0, <1>8 DEF Combine, heap, Lists, Combining, Ranges, Part, Control
  <2>2. Lists([own EXCEPT ![q] = {}], M, own[q])'
    BY <1>0, <1>8, CombineKeeps
  <2>3. Joins(q)
    BY <1>3, <2>1, <2>2
  <2> QED
    BY <1>8, <2>1, <2>3 DEF Moves
<1>9. CASE CombineEmptyMain
  <2>1. count' = count /\ q \in Part /\ A = {}
    BY <1>0, <1>9 DEF CombineEmptyMain, Lists, Combining, Ranges, Part, Control
  <2>2. M = {} /\ h \in own[q] /\ Lists([own EXCEPT ![q] = {}], {h}, own[q] \ {h})'
    BY <1>0, <1>9, CombineEmptyMainKeeps
  <2>3. {h} \cup (own[q] \ {h}) = M \cup A \cup own[q]
    BY <2>1, <2>2
  <2>4. Joins(q)
    BY <1>3, <2>1, <2>2, <2>3
  <2> QED
    BY <1>9, <2>1, <2>4 DEF Moves
<1>10. ASSUME CombineNothing \/ AllCombined PROVE Stays
  <2>1. /\ UNCHANGED <<input, parts, k, ptr, heap, lists, pn_main, pn_asst>>
        /\ pc = "merge" /\ pc' \in {"undefined", "done"}
    BY <1>10 DEF CombineNothing, AllCombined
  <2>2. Lists(own, M, A)' /\ count' = count
    BY <2>1, ListsStay DEF heap
  <2> QED
    BY <1>2, <2>2
<1>11. ASSUME SameTerm PROVE Stays
  <2>1. PICK m : m = pn_main
    OBVIOUS
  <2>2. /\ pc = "combine" /\ a # NULL /\ m[2] = a[2]
        /\ count' = [count EXCEPT ![m] = count[m] + count[a], ![a] = 0]
    BY <1>11, <2>1 DEF SameTerm, SumOf
  <2>3. m \in M /\ a \in A /\ m # a /\ m \in Node /\ a \in Node
    <3>1. m \in M /\ a \in A /\ M \cap A = {}
      BY <2>1, <2>2 DEF Lists, Linking, Combining, Forward
    <3> QED
      BY <1>1, <3>1
  <2>4. Lists(own, M, A \ {a})'
    BY <1>0, <1>11, SameTermKeeps
  <2>5. Maps(own, M, A \ {a})'
    BY <1>0, <2>4, MappedNext
  <2>6. /\ \A y \in Node : y # m /\ y # a => count'[y] = count[y]
        /\ count'[m] = count[m] + count[a]
    BY <1>1, <2>2, <2>3
  <2>7. Stays
    BY <1>0, <1>1, <2>2, <2>3, <2>5, <2>6, StepDrops
  <2> QED
    BY <2>7
<1>12. ASSUME MainIsBigger PROVE Stays
  <2>1. a \in A /\ Lists(own, M \cup {a}, A \ {a})'
    BY <1>0, <1>12, MainIsBiggerKeeps
  <2>2. Maps(own, M \cup {a}, A \ {a})'
    BY <1>0, <2>1, MappedNext
  <2>3. (M \cup {a}) \cup (A \ {a}) = M \cup A /\ count' = count
    BY <1>12, <2>1 DEF MainIsBigger
  <2> QED
    BY <1>1, <2>2, <2>3, StepStays
<1>13. ASSUME MainIsSmaller PROVE Stays
  <2>1. Lists(own, M, A)' /\ count' = count
    BY <1>0, <1>13, MainIsSmallerKeeps DEF MainIsSmaller, heap
  <2> QED
    BY <1>2, <2>1
<1>14. ASSUME CombineTail PROVE Stays
  <2>1. Lists(own, M \cup A, {})' /\ count' = count
    BY <1>0, <1>14, CombineTailKeeps DEF CombineTail, Return
  <2>2. Maps(own, M \cup A, {})'
    BY <1>0, <2>1, MappedNext
  <2>3. (M \cup A) \cup {} = M \cup A
    OBVIOUS
  <2> QED
    BY <1>1, <2>1, <2>2, <2>3, StepStays
<1>15. ASSUME CombineReturns PROVE Stays
  <2>1. Lists(own, M, A)' /\ count' = count
    BY <1>0, <1>15, CombineReturnsKeeps DEF CombineReturns, Return
  <2> QED
    BY <1>2, <2>1
<1>16. ASSUME UNCHANGED vars PROVE Stays
  <2>1. UNCHANGED <<doc, text, n, caller, parts, pc, k, ptr, next, pre, count, list, term_count,
                    main, main_terms, pn_main, pn_asst>>
    BY <1>16 DEF vars, input, heap, lists
  <2>2. Lists(own, M, A)'
    BY <2>1 DEF Lists, Linking, Lengths, Pending, Unused, Combining
  <2> QED
    BY <1>2, <2>1, <2>2
<1>17. CASE Stays /\ ~(CountWord \/ AllCounted \/ Combine \/ CombineEmptyMain)
  BY <1>17 DEF Moves
<1> QED
  BY <1>4, <1>5, <1>6, <1>7, <1>8, <1>9, <1>10, <1>11, <1>12, <1>13, <1>14, <1>15, <1>16, <1>17
  DEF Next

\* Each step is a step of Tally or a stutter.
LEMMA TallyStep ==
  ASSUME IInv, IInv', [Next]_vars
  PROVE  [Promise!Next]_<<Total, OwnTallies>>
<1>1. Moves
  BY TallyMoves
<1>2. ASSUME NEW q \in Part, NEW t \in Term, Counts(q, t) PROVE Promise!Next
  <2>1. Promise!Count(q, t)
    BY <1>2 DEF Counts, Promise!Count, Total, OwnTallies
  <2> QED
    BY <2>1 DEF Promise!Next
<1>3. ASSUME NEW q \in Part, Joins(q) PROVE Promise!Next
  <2>1. Promise!Add(q)
    BY <1>3 DEF Joins, Promise!Add, Promise!Nothing, Total, OwnTallies
  <2> QED
    BY <2>1 DEF Promise!Next
<1> QED
  BY <1>1, <1>2, <1>3 DEF Moves, Stays

\* The tallies are zero at the start.
LEMMA TalliesAtFirst ==
  ASSUME Init
  PROVE  /\ Total = [t \in Term |-> 0]
         /\ OwnTallies = [p \in Part |-> [t \in Term |-> 0]]
<1>1. Chain(next, NULL) = <<>>
  <2>1. PICK S : S = {}
    OBVIOUS
  <2>2. next \in [Node -> Node \cup {NULL}] /\ Forward(next, Key, NULL, S)
        /\ S \in SUBSET Node
    BY <2>1 DEF Init, Forward
  <2>3. Chain(next, NULL) \in Seq(S)
    BY <2>2, ChainSet
  <2> QED
    BY <2>1, <2>3
<1>2. Total = CountIn(<<>>) /\ OwnTallies = [p \in Part |-> CountIn(<<>>)]
  BY <1>1 DEF Init, Total, OwnTallies, InCombine
<1>3. CountIn(<<>>) = [t \in Term |-> 0]
  <2>1. ToSet(<<>>) = {} /\ count \in [Node -> Nat] /\ {} \in SUBSET Node
    BY DEF ToSet, Init
  <2>2. CountIn(<<>>) = Tallies(count, {})
    BY <2>1, CountInIs
  <2>3. Tallies(count, {}) = [t \in Term |-> 0]
    BY <2>1, TalliesWith
  <2> QED
    BY <2>2, <2>3
<1> QED
  BY <1>2, <1>3

\* Counting in parts and combining their counts implement the tallies: a word
\* is counted once, and a part's counts are added to the total as a whole and
\* once, although combine_count takes its nodes over one by one, drops those
\* whose term the main list has, and does not look at the rest.
THEOREM SumOfPartsHolds == Spec => SumOfParts
<1>1. Init => Promise!Init
  <2> SUFFICES ASSUME Init PROVE Promise!Init
    OBVIOUS
  <2> QED
    BY TalliesAtFirst DEF Promise!Init, Promise!Nothing, Total, OwnTallies
<1>2. IInv /\ IInv' /\ [Next]_vars => [Promise!Next]_<<Total, OwnTallies>>
  BY TallyStep
<1>3. [Promise!Next]_<<Total, OwnTallies>> =>
        [Promise!Next]_<<CountIn(Chain(next, main) \o InCombine),
                         [p \in Part |-> CountIn(Chain(next, list[p]))]>>
  BY DEF Total, OwnTallies
<1> QED
  BY <1>1, <1>2, <1>3, AlwaysIInv, PTL DEF Spec, SumOfParts, Promise!Spec

-----------------------------------------------------------------------------
(* The tests count the document, however it is cut. *)

\* How often t is the a-th to the b-th token of d.
Tokens(d, a, b, t) == Cardinality({i \in a..b : d[i] = t})

\* The words up to a place, and up to the one before it.
LEMMA TokensNext ==
  ASSUME NEW d, NEW a \in Nat, NEW b \in Nat, NEW t
  PROVE  /\ Tokens(d, a, b, t) \in Nat
         /\ b < a => Tokens(d, a, b, t) = 0
         /\ a <= b => Tokens(d, a, b, t) =
                        Tokens(d, a, b - 1, t) + IF d[b] = t THEN 1 ELSE 0
<1> DEFINE S == {i \in a..b : d[i] = t}
           R == {i \in a..(b - 1) : d[i] = t}
<1>1. IsFiniteSet(S) /\ IsFiniteSet(R) /\ Cardinality(S) \in Nat /\ Cardinality(R) \in Nat
  <2>1. IsFiniteSet(a..b) /\ IsFiniteSet(a..(b - 1))
    BY FS_Interval
  <2>2. S \in SUBSET (a..b) /\ R \in SUBSET (a..(b - 1))
    OBVIOUS
  <2> HIDE DEF S, R
  <2> QED
    BY <2>1, <2>2, FS_Subset, FS_CardinalityType
<1>2. ASSUME b < a PROVE Cardinality(S) = 0
  <2>1. S = {}
    BY <1>2
  <2> HIDE DEF S
  <2> QED
    BY <2>1, FS_EmptySet
<1>3. ASSUME a <= b
      PROVE  Cardinality(S) = Cardinality(R) + IF d[b] = t THEN 1 ELSE 0
  <2>1. CASE d[b] = t
    <3>1. S = R \cup {b} /\ b \notin R
      BY <1>3, <2>1
    <3> HIDE DEF S, R
    <3>2. Cardinality(S) = Cardinality(R) + 1
      BY <1>1, <3>1, FS_AddElement
    <3> QED
      BY <2>1, <3>2
  <2>2. CASE d[b] # t
    <3>1. S = R
      BY <1>3, <2>2
    <3> HIDE DEF S, R
    <3> QED
      BY <1>1, <2>2, <3>1
  <2> QED
    BY <2>1, <2>2
<1> QED
  BY <1>1, <1>2, <1>3 DEF Tokens

\* The words up to a place, and those from there on.
LEMMA TokensJoined ==
  ASSUME NEW d, NEW b \in Nat, NEW c \in Nat, b <= c, NEW t
  PROVE  Tokens(d, 1, c, t) = Tokens(d, 1, b, t) + Tokens(d, b + 1, c, t)
<1> DEFINE S == {i \in 1..b : d[i] = t}
           R == {i \in (b + 1)..c : d[i] = t}
           Q == {i \in 1..c : d[i] = t}
<1>1. IsFiniteSet(S) /\ IsFiniteSet(R)
  <2>1. IsFiniteSet(1..b) /\ IsFiniteSet((b + 1)..c)
    BY FS_Interval
  <2>2. S \in SUBSET (1..b) /\ R \in SUBSET ((b + 1)..c)
    OBVIOUS
  <2> HIDE DEF S, R
  <2> QED
    BY <2>1, <2>2, FS_Subset
<1>2. Q = S \cup R /\ S \cap R = {}
  OBVIOUS
<1>3. Cardinality(Q) = Cardinality(S) + Cardinality(R)
  <2> HIDE DEF Q, S, R
  <2>1. Cardinality(S \cup R) = Cardinality(S) + Cardinality(R) - Cardinality(S \cap R)
    BY <1>1, FS_Union
  <2>2. Cardinality(S \cap R) = 0 /\ Cardinality(S) \in Nat /\ Cardinality(R) \in Nat
    BY <1>1, <1>2, FS_EmptySet, FS_CardinalityType
  <2> QED
    BY <1>2, <2>1, <2>2
<1> QED
  BY <1>3 DEF Tokens

\* The parts follow one another, from the first token to the last.
Cuts ==
  /\ parts # <<>> => parts[1][1] = 1
  /\ \A j \in 2..Len(parts) : parts[j][1] = parts[j - 1][2] + 1
  /\ \A j \in 1..Len(parts) : parts[j][1] <= parts[j][2] + 1
  /\ pc \notin {"split", "undefined"} => parts[n][2] = Len(text)
  /\ text \in Texts

InPart(p, t) == Tokens(text, parts[p][1], parts[p][2], t)

\* The parts that are counted, so far as they are, and those that are combined.
Words ==
  /\ pc = "split" => \A p \in Part : \A t \in Term : OwnTallies[p][t] = 0
  /\ pc \in {"split", "count"} => \A t \in Term : Total[t] = 0
  /\ pc = "count" =>
       /\ parts[k][1] <= ptr /\ ptr <= parts[k][2] + 1
       /\ \A p \in 1..n : \A t \in Term :
            /\ p < k => OwnTallies[p][t] = InPart(p, t)
            /\ p = k => OwnTallies[p][t] = Tokens(text, parts[p][1], ptr - 1, t)
            /\ p > k => OwnTallies[p][t] = 0
  /\ pc \in {"merge", "combine", "done"} =>
       /\ k >= 2
       /\ \A p \in 1..n : Pending(p) => \A t \in Term : OwnTallies[p][t] = InPart(p, t)
       /\ \A t \in Term :
            Total[t] = Tokens(text, 1, parts[IF pc = "combine" THEN k ELSE k - 1][2], t)

WInv == Cuts /\ (caller # "do_index" => Words)

\* No part is cut at the start.
LEMMA CutsInit ==
  ASSUME Init PROVE Cuts
BY DEF Init, Cuts

\* Parts are cut one behind the other, at every step.
LEMMA CutsNext ==
  ASSUME IInv, IInv', Cuts, [Next]_vars PROVE Cuts'
<1>0. Ranges /\ Control /\ Control'
  BY Numbers DEF IInv
<1>1. CASE CutPart \/ LastPart
  <2>1. PICK e : /\ parts' = Append(parts, <<PartStart, e>>) /\ e \in Nat
                 /\ PartStart <= e + 1 /\ UNCHANGED <<doc, text, n, caller>>
                 /\ pc' # "split" => e = Len(text) /\ Len(parts) = n - 1
    <3>1. PartStart \in Nat /\ PartStart <= Len(text) + 1 /\ BlockSize \in Nat
          /\ Len(text) \in Nat
      BY <1>0, PartStarts DEF IInv, Ranges
    <3>2. CASE CutPart
      <4>1. PICK e \in PartEnds : parts' = Append(parts, <<PartStart, e>>)
        BY <3>2 DEF CutPart
      <4>2. e \in (PartStart + BlockSize)..Len(doc) /\ Len(doc) \in Nat
        BY <1>0 DEF PartEnds, Ranges
      <4>3. e \in Nat /\ PartStart <= e + 1
        BY <3>1, <4>2
      <4>4. pc' = "split" /\ UNCHANGED <<doc, text, n, caller>>
        BY <3>2 DEF CutPart, input
      <4> QED
        BY <4>1, <4>3, <4>4
    <3>3. CASE LastPart
      <4>1. /\ Len(parts) = n - 1 /\ UNCHANGED <<doc, text, n, caller>>
            /\ parts' = Append(parts, <<PartStart, Len(text)>>)
        BY <3>3 DEF LastPart, input
      <4> QED
        BY <3>1, <4>1
    <3> QED
      BY <1>1, <3>2, <3>3
  <2>2. PICK new : new = <<PartStart, e>>
    OBVIOUS
  <2>3. /\ new \in Nat \X Nat /\ new[1] = PartStart /\ new[2] = e
        /\ PartStart = IF Len(parts) = 0 THEN 1 ELSE parts[Len(parts)][2] + 1
    <3>1. PartStart = IF Len(parts) = 0 THEN 1 ELSE parts[Len(parts)][2] + 1
      BY PartStarts DEF IInv
    <3>2. PartStart \in Nat
      BY <1>0, PartStarts DEF IInv, Ranges
    <3> QED
      BY <2>1, <2>2, <3>1, <3>2
  <2>4. /\ Len(parts') = Len(parts) + 1 /\ Len(parts) \in Nat
        /\ \A j \in 1..Len(parts') : parts'[j] = IF j = Len(parts) + 1 THEN new ELSE parts[j]
    <3>1. parts' = Append(parts, new) /\ parts \in Seq(Nat \X Nat)
      BY <1>0, <2>1, <2>2 DEF Ranges
    <3> QED
      BY <2>3, <3>1
  <2>5. parts'[1][1] = 1
    <3>1. CASE Len(parts) = 0
      BY <2>3, <2>4, <3>1
    <3>2. CASE Len(parts) # 0
      <4>1. parts'[1] = parts[1] /\ parts # <<>>
        BY <2>4, <3>2
      <4> QED
        BY <4>1 DEF Cuts
    <3> QED
      BY <3>1, <3>2
  <2>6. ASSUME NEW j \in 2..Len(parts') PROVE parts'[j][1] = parts'[j - 1][2] + 1
    <3>1. parts'[j - 1] = parts[j - 1]
      BY <2>4
    <3>2. CASE j = Len(parts) + 1
      BY <2>3, <2>4, <3>1, <3>2
    <3>3. CASE j # Len(parts) + 1
      <4>1. j \in 2..Len(parts) /\ parts'[j] = parts[j]
        BY <2>4, <3>3
      <4> QED
        BY <3>1, <4>1 DEF Cuts
    <3> QED
      BY <3>2, <3>3
  <2>7. ASSUME NEW j \in 1..Len(parts') PROVE parts'[j][1] <= parts'[j][2] + 1
    <3>1. CASE j = Len(parts) + 1
      BY <2>1, <2>3, <2>4, <3>1
    <3>2. CASE j # Len(parts) + 1
      <4>1. j \in 1..Len(parts) /\ parts'[j] = parts[j]
        BY <2>4, <3>2
      <4> QED
        BY <4>1 DEF Cuts
    <3> QED
      BY <3>1, <3>2
  <2>8. ASSUME pc' \notin {"split", "undefined"} PROVE parts'[n'][2] = Len(text')
    <3>1. e = Len(text) /\ n = Len(parts) + 1 /\ n' = n /\ text' = text
      BY <1>0, <2>1, <2>8 DEF Ranges
    <3>2. parts'[n] = new
      BY <2>4, <3>1
    <3> QED
      BY <2>3, <3>1, <3>2
  <2>9. Texts' = Texts
    BY <2>1 DEF Texts, Overread
  <2> QED
    BY <2>1, <2>5, <2>6, <2>7, <2>8, <2>9 DEF Cuts
<1>2. ASSUME ~(CutPart \/ LastPart)
      PROVE  /\ UNCHANGED <<parts, text, n, Texts>>
             /\ pc' \notin {"split", "undefined"} => pc \notin {"split", "undefined"}
  <2>1. CASE CutPastEnd \/ CombineNothing
    BY <2>1 DEF CutPastEnd, CombineNothing, input, Texts, Overread
  <2>2. CASE SkipNewline \/ CountWord \/ NextPart \/ AllCounted
    BY <2>2 DEF SkipNewline, CountWord, NextPart, AllCounted, input, Texts, Overread
  <2>3. CASE Combine \/ CombineEmptyMain \/ SameTerm \/ MainIsBigger \/ MainIsSmaller
    BY <2>3 DEF Combine, CombineEmptyMain, SameTerm, MainIsBigger, MainIsSmaller, input, Texts, Overread
  <2>4. CASE CombineTail \/ CombineReturns \/ AllCombined
    BY <2>4 DEF CombineTail, CombineReturns, Return, AllCombined, input, Texts, Overread
  <2>5. CASE UNCHANGED vars
    BY <2>5 DEF vars, input, Texts, Overread
  <2> QED
    BY <1>2, <2>1, <2>2, <2>3, <2>4, <2>5 DEF Next
<1>3. CASE ~(CutPart \/ LastPart)
  BY <1>2, <1>3 DEF Cuts
<1> QED
  BY <1>1, <1>3

\* Tallies are numbers.
LEMMA TallyTypes ==
  \/ ~IInv
  \/ Total \in [Term -> Nat] /\ OwnTallies \in [Part -> [Term -> Nat]]
<1> SUFFICES ASSUME IInv
             PROVE  Total \in [Term -> Nat] /\ OwnTallies \in [Part -> [Term -> Nat]]
  OBVIOUS
<1>1. PICK own, M, A : Lists(own, M, A)
  BY DEF IInv
<1>2. /\ M \cup A \in SUBSET Node /\ \A p \in Part : own[p] \in SUBSET Node
      /\ count \in [Node -> Nat] /\ Maps(own, M, A)
  BY <1>1, Mapped DEF Lists, IInv, TypeOK
<1>3. Tallies(count, M \cup A) \in [Term -> Nat]
  BY <1>2, TalliesWith
<1>4. \A p \in Part : Tallies(count, own[p]) \in [Term -> Nat]
  BY <1>2, TalliesWith
<1> QED
  BY <1>2, <1>3, <1>4 DEF Maps

\* Where the parts are, when there are all of them.
LEMMA CutInto ==
  ASSUME TypeOK, Control, Cuts, pc \in {"count", "merge", "combine", "done"}
  PROVE  /\ n \in Nat /\ n >= 1 /\ n <= MaxParts /\ 1..n \subseteq Part
         /\ \A p \in 1..n : /\ parts[p][1] \in Nat /\ parts[p][2] \in Nat
                            /\ parts[p][1] >= 1 /\ parts[p][1] <= parts[p][2] + 1
         /\ \A p \in 2..n : parts[p][1] = parts[p - 1][2] + 1
         /\ parts[1][1] = 1 /\ parts[n][2] = Len(text)
<1>1. Ranges
  BY Numbers
<1>2. Len(parts) = n /\ n \in Nat /\ n >= 1 /\ n <= MaxParts /\ MaxParts \in Nat
  BY <1>1 DEF Control, Ranges
<1>3. 1..n \subseteq Part
  BY <1>2 DEF Part
<1>4. parts # <<>>
  BY <1>1, <1>2
<1>5. ASSUME NEW p \in 1..n
      PROVE  /\ parts[p][1] \in Nat /\ parts[p][2] \in Nat
             /\ parts[p][1] >= 1 /\ parts[p][1] <= parts[p][2] + 1
  <2>1. parts[p][1] \in 1..(Len(text) + 1) /\ parts[p][2] \in Nat /\ Len(text) \in Nat
    BY <1>1, <1>2 DEF Ranges
  <2> QED
    BY <1>2, <2>1 DEF Cuts
<1> QED
  BY <1>2, <1>3, <1>4, <1>5 DEF Cuts

\* While a part is counted, its bounds and its turn are in range.
LEMMA WhileCounting ==
  ASSUME IInv, Cuts, pc = "count"
  PROVE  /\ n \in Nat /\ k \in Nat /\ ptr \in Nat /\ k >= 1 /\ k <= n /\ 1..n \subseteq Part
         /\ \A p \in 1..n : /\ parts[p][1] \in Nat /\ parts[p][2] \in Nat
                            /\ parts[p][1] <= parts[p][2] + 1
<1>1. TypeOK /\ Control /\ Ranges
  BY Numbers DEF IInv
<1>2. /\ n \in Nat /\ 1..n \subseteq Part
      /\ \A p \in 1..n : /\ parts[p][1] \in Nat /\ parts[p][2] \in Nat
                         /\ parts[p][1] <= parts[p][2] + 1
  BY <1>1, CutInto
<1>3. k \in 1..n
  BY <1>1, GivenPart
<1>4. ptr \in Nat
  BY <1>1 DEF Ranges
<1> QED
  BY <1>2, <1>3, <1>4

\* A token is counted.
LEMMA WordsCountWord ==
  ASSUME IInv, Cuts, Words, caller # "do_index", CountWord,
         k \in Part, text[ptr] \in Term, Counts(k, text[ptr])
  PROVE  Words'
<1>0. /\ pc = "count" /\ ptr' = ptr + 1 /\ ~AtEnd
      /\ UNCHANGED <<doc, text, n, caller, parts, pc, k>>
  BY DEF CountWord, input
<1>1. /\ n \in Nat /\ k \in Nat /\ ptr \in Nat /\ k >= 1 /\ k <= n /\ 1..n \subseteq Part
      /\ \A p \in 1..n : parts[p][1] \in Nat /\ parts[p][2] \in Nat
  BY <1>0, WhileCounting
<1>2. Total \in [Term -> Nat] /\ OwnTallies \in [Part -> [Term -> Nat]]
  BY TallyTypes
<1>3. ptr <= parts[k][2] /\ parts[k][1] <= ptr
  BY <1>0, <1>1 DEF AtEnd, PartOf, Words
<1>4. ASSUME NEW p \in 1..n, NEW t \in Term
      PROVE  OwnTallies'[p][t] =
               OwnTallies[p][t] + IF p = k /\ t = text[ptr] THEN 1 ELSE 0
  <2>1. p \in Part /\ OwnTallies[p] \in [Term -> Nat] /\ OwnTallies[p][t] \in Nat
    BY <1>1, <1>2
  <2>2. OwnTallies' = [OwnTallies EXCEPT ![k][text[ptr]] = @ + 1]
    BY DEF Counts
  <2> QED
    BY <1>2, <2>1, <2>2
<1>5. ASSUME NEW p \in 1..n, NEW t \in Term
      PROVE  /\ p < k => OwnTallies'[p][t] = InPart(p, t)
             /\ p = k => OwnTallies'[p][t] = Tokens(text, parts[p][1], ptr, t)
             /\ p > k => OwnTallies'[p][t] = 0
  <2>1. OwnTallies[p][t] \in Nat
    BY <1>1, <1>2
  <2>2. p # k => OwnTallies'[p][t] = OwnTallies[p][t]
    BY <1>4, <2>1
  <2>3. ASSUME p = k PROVE OwnTallies'[p][t] = Tokens(text, parts[p][1], ptr, t)
    <3>1. OwnTallies[p][t] = Tokens(text, parts[p][1], ptr - 1, t)
      BY <1>0, <2>3 DEF Words
    <3>2. Tokens(text, parts[p][1], ptr, t) =
            Tokens(text, parts[p][1], ptr - 1, t) + IF text[ptr] = t THEN 1 ELSE 0
      <4>1. parts[p][1] \in Nat /\ parts[p][1] <= ptr
        BY <1>1, <1>3, <2>3
      <4> QED
        BY <1>1, <4>1, TokensNext
    <3>3. OwnTallies'[p][t] = OwnTallies[p][t] + IF t = text[ptr] THEN 1 ELSE 0
      BY <1>4, <2>3
    <3> QED
      BY <3>1, <3>2, <3>3
  <2>4. (p < k => p # k) /\ (p > k => p # k)
    BY <1>1
  <2>5. /\ p < k => OwnTallies[p][t] = InPart(p, t)
        /\ p > k => OwnTallies[p][t] = 0
    BY <1>0 DEF Words
  <2> QED
    BY <2>2, <2>3, <2>4, <2>5
<1>6. ptr' - 1 = ptr /\ parts[k][1] <= ptr' /\ ptr' <= parts[k][2] + 1
  <2>1. parts[k][1] \in Nat /\ parts[k][2] \in Nat
    BY <1>1
  <2> QED
    BY <1>0, <1>1, <1>3, <2>1
<1>7. \A t \in Term : Total'[t] = 0
  BY <1>0 DEF Words, Counts
<1>8. \A p \in 1..n : \A t \in Term : InPart(p, t)' = InPart(p, t)
  BY <1>0 DEF InPart
<1> QED
  BY <1>0, <1>5, <1>6, <1>7, <1>8 DEF Words

\* The next token, or the next part.
LEMMA WordsSkip ==
  ASSUME IInv, Cuts, Words, caller # "do_index", SkipNewline, Stays
  PROVE  Words'
<1>0. /\ pc = "count" /\ ptr' = ptr + 1 /\ ~AtEnd /\ text[ptr] = NL
      /\ UNCHANGED <<doc, text, n, caller, parts, pc, k>>
  BY DEF SkipNewline, input
<1>1. /\ n \in Nat /\ k \in Nat /\ ptr \in Nat /\ k >= 1 /\ k <= n
      /\ \A p \in 1..n : parts[p][1] \in Nat /\ parts[p][2] \in Nat
  BY <1>0, WhileCounting
<1>2. ptr <= parts[k][2] /\ parts[k][1] <= ptr
  BY <1>0, <1>1 DEF AtEnd, PartOf, Words
<1>3. ptr' - 1 = ptr /\ parts[k][1] <= ptr' /\ ptr' <= parts[k][2] + 1
  <2>1. parts[k][1] \in Nat /\ parts[k][2] \in Nat
    BY <1>1
  <2> QED
    BY <1>0, <1>1, <1>2, <2>1
<1>4. ASSUME NEW t \in Term
      PROVE  Tokens(text, parts[k][1], ptr, t) = Tokens(text, parts[k][1], ptr - 1, t)
  <2>1. text[ptr] # t
    BY <1>0, CountAssumption
  <2>2. parts[k][1] \in Nat /\ parts[k][1] <= ptr /\ 1 \in Nat
    BY <1>1, <1>2
  <2>3. /\ Tokens(text, parts[k][1], ptr, t) \in Nat
        /\ Tokens(text, parts[k][1], ptr, t) =
             Tokens(text, parts[k][1], ptr - 1, t) + IF text[ptr] = t THEN 1 ELSE 0
    BY <1>1, <2>2, TokensNext
  <2>4. Tokens(text, parts[k][1], ptr - 1, t) \in Nat
    <3>1. ptr \in 1..(MaxWords + 2)
      BY DEF IInv, TypeOK
    <3>2. ptr - 1 \in Nat
      BY <3>1
    <3> QED
      BY <2>2, <3>2, TokensNext
  <2> QED
    BY <2>1, <2>3, <2>4
<1>5. \A p \in 1..n : \A t \in Term : InPart(p, t)' = InPart(p, t)
  BY <1>0 DEF InPart
<1> QED
  BY <1>0, <1>3, <1>4, <1>5 DEF Words, Stays

\* A part that is counted to its end has the words up to its end.
LEMMA WordsNextPart ==
  ASSUME IInv, Cuts, Words, caller # "do_index", NextPart, Stays
  PROVE  Words'
<1>0. /\ pc = "count" /\ AtEnd /\ k < n /\ k' = k + 1 /\ ptr' = StartOf(parts, k + 1)
      /\ UNCHANGED <<doc, text, n, caller, parts, pc>>
  BY DEF NextPart, input
<1>1. /\ n \in Nat /\ k \in Nat /\ ptr \in Nat /\ k >= 1 /\ k <= n
      /\ \A p \in 1..n : /\ parts[p][1] \in Nat /\ parts[p][2] \in Nat
                         /\ parts[p][1] <= parts[p][2] + 1
  BY <1>0, WhileCounting
<1>2. k + 1 \in 1..n /\ k \in 1..n /\ ptr' = parts[k + 1][1]
  BY <1>0, <1>1 DEF StartOf, PartOf
<1>3. ptr - 1 = parts[k][2]
  <2>1. parts[k][2] \in Nat /\ ptr > parts[k][2] /\ ptr <= parts[k][2] + 1
    BY <1>0, <1>1, <1>2 DEF AtEnd, PartOf, Words
  <2> QED
    BY <1>1, <2>1
<1>4. parts[k'][1] <= ptr' /\ ptr' <= parts[k'][2] + 1
  <2>1. parts[k + 1][1] \in Nat /\ parts[k + 1][1] <= parts[k + 1][2] + 1
    BY <1>1, <1>2
  <2> QED
    BY <1>0, <1>2, <2>1
<1>5. ASSUME NEW t \in Term PROVE Tokens(text, parts[k + 1][1], ptr' - 1, t) = 0
  <2>1. parts[k + 1][1] \in Nat /\ parts[k + 1][1] >= 1
    BY <1>0, <1>2, CutInto DEF IInv
  <2>2. ptr' - 1 \in Nat /\ ptr' - 1 < parts[k + 1][1]
    BY <1>2, <2>1
  <2> QED
    BY <2>1, <2>2, TokensNext
<1>6. ASSUME NEW p \in 1..n, NEW t \in Term
      PROVE  /\ p < k' => OwnTallies[p][t] = InPart(p, t)
             /\ p = k' => OwnTallies[p][t] = Tokens(text, parts[p][1], ptr' - 1, t)
             /\ p > k' => OwnTallies[p][t] = 0
  <2>1. (p < k' => p < k \/ p = k) /\ (p = k' => p > k) /\ (p > k' => p > k)
    BY <1>0, <1>1
  <2>2. /\ p < k => OwnTallies[p][t] = InPart(p, t)
        /\ p = k => OwnTallies[p][t] = Tokens(text, parts[p][1], ptr - 1, t)
        /\ p > k => OwnTallies[p][t] = 0
    BY <1>0 DEF Words
  <2>3. p = k => OwnTallies[p][t] = InPart(p, t)
    BY <1>3, <2>2 DEF InPart
  <2> QED
    BY <1>0, <1>5, <2>1, <2>2, <2>3
<1>7. \A p \in 1..n : \A t \in Term : InPart(p, t)' = InPart(p, t)
  BY <1>0 DEF InPart
<1> QED
  BY <1>0, <1>4, <1>6, <1>7 DEF Words, Stays

\* The last part is cut off, and counting starts.
LEMMA WordsLastPart ==
  ASSUME IInv, IInv', Cuts', Words, caller # "do_index", LastPart, Stays
  PROVE  Words'
<1>0. /\ pc = "split" /\ pc' = "count" /\ ptr' = StartOf(parts', 1)
      /\ UNCHANGED <<doc, text, n, caller, k>>
  BY DEF LastPart, input
<1>1. k = 1 /\ Ranges
  BY <1>0, Numbers DEF IInv, Control
<1>2. n \in Nat /\ n >= 1 /\ 1..n \subseteq Part /\ n <= MaxParts
  BY <1>1, Constants DEF Ranges, Part
<1>3. Len(parts') = n
  BY <1>0 DEF IInv, Control
<1>4. /\ parts'[1][1] = 1 /\ ptr' = 1
      /\ parts'[1][1] <= parts'[1][2] + 1
  <2>1. 1 \in 1..Len(parts') /\ parts' # <<>>
    <3>1. parts' \in Seq(Nat \X Nat)
      BY DEF IInv, TypeOK
    <3> QED
      BY <1>2, <1>3, <3>1
  <2> QED
    BY <1>0, <2>1 DEF Cuts, StartOf, PartOf
<1>5. ASSUME NEW p \in 1..n, NEW t \in Term PROVE OwnTallies'[p][t] = 0
  BY <1>0, <1>2 DEF Words, Stays
<1>6. ASSUME NEW t \in Term PROVE Tokens(text, 1, 0, t) = 0
  <2>1. 1 \in Nat /\ 0 \in Nat /\ 0 < 1
    OBVIOUS
  <2> QED
    BY <2>1, TokensNext
<1>7. \A p \in 1..n : (p < k => FALSE) /\ (p = k => p = 1)
  BY <1>1
<1>8. /\ parts'[k'][1] <= ptr' /\ ptr' <= parts'[k'][2] + 1
      /\ ptr' - 1 = 0
  BY <1>0, <1>1, <1>4
<1>9. \A p \in 1..n : \A t \in Term :
        p = k => OwnTallies'[p][t] = Tokens(text, parts'[p][1], ptr' - 1, t)
  BY <1>4, <1>5, <1>6, <1>7, <1>8
<1>10. \A t \in Term : Total'[t] = 0
  BY <1>0 DEF Words, Stays
<1> QED
  BY <1>0, <1>5, <1>7, <1>8, <1>9, <1>10 DEF Words

\* The first part's count becomes the main one.
LEMMA WordsAllCounted ==
  ASSUME IInv, Cuts, Words, caller # "do_index", AllCounted, 1 \in Part, Joins(1)
  PROVE  Words'
<1>0. /\ pc = "count" /\ AtEnd /\ k = n /\ k' = 2 /\ pc' = "merge"
      /\ UNCHANGED <<doc, text, n, caller, parts>>
  BY DEF AllCounted, input
<1>1. /\ n \in Nat /\ k \in Nat /\ ptr \in Nat /\ k >= 1 /\ 1..n \subseteq Part
      /\ \A p \in 1..n : parts[p][1] \in Nat /\ parts[p][2] \in Nat
  BY <1>0, WhileCounting
<1>2. Total \in [Term -> Nat] /\ OwnTallies \in [Part -> [Term -> Nat]]
  BY TallyTypes
<1>3. ptr - 1 = parts[k][2]
  <2>1. parts[k][2] \in Nat /\ ptr > parts[k][2] /\ ptr <= parts[k][2] + 1
    BY <1>0, <1>1 DEF AtEnd, PartOf, Words
  <2> QED
    BY <1>1, <2>1
<1>4. ASSUME NEW p \in 1..n, NEW t \in Term PROVE OwnTallies[p][t] = InPart(p, t)
  <2>1. p < k \/ p = k
    BY <1>0, <1>1
  <2>2. /\ p < k => OwnTallies[p][t] = InPart(p, t)
        /\ p = k => OwnTallies[p][t] = Tokens(text, parts[p][1], ptr - 1, t)
    BY <1>0 DEF Words
  <2> QED
    BY <1>3, <2>1, <2>2 DEF InPart
<1>5. ASSUME NEW p \in 1..n, Pending(p)', NEW t \in Term
      PROVE  OwnTallies'[p][t] = InPart(p, t)
  <2>1. p # 1 /\ p \in Part
    BY <1>0, <1>1, <1>5 DEF Pending
  <2>2. OwnTallies'[p] = OwnTallies[p]
    BY <1>2, <2>1 DEF Joins
  <2> QED
    BY <1>4, <2>2
<1>6. ASSUME NEW t \in Term PROVE Total'[t] = Tokens(text, 1, parts[1][2], t)
  <2>1. Total'[t] = Total[t] + OwnTallies[1][t] /\ Total[t] = 0
    BY <1>0 DEF Joins, Words
  <2>2. 1 \in 1..n /\ parts[1][1] = 1
    BY <1>0, <1>1, CutInto DEF IInv
  <2>3. OwnTallies[1][t] = Tokens(text, 1, parts[1][2], t)
    BY <1>4, <2>2 DEF InPart
  <2>4. OwnTallies[1][t] \in Nat
    BY <1>2
  <2> QED
    BY <2>1, <2>3, <2>4
<1>7. \A p \in 1..n : \A t \in Term : InPart(p, t)' = InPart(p, t)
  BY <1>0 DEF InPart
<1>8. k' - 1 = 1 /\ k' >= 2
  BY <1>0
<1> QED
  BY <1>0, <1>5, <1>6, <1>7, <1>8 DEF Words

\* A part joins the main count.
LEMMA WordsCombine ==
  ASSUME IInv, Cuts, Words, caller # "do_index", Combine \/ CombineEmptyMain,
         k \in Part, Joins(k)
  PROVE  Words'
<1>0. /\ pc = "merge" /\ k <= n /\ pc' = "combine"
      /\ UNCHANGED <<doc, text, n, caller, parts, k>>
  BY DEF Combine, CombineEmptyMain, input
<1>1. /\ n \in Nat /\ n <= MaxParts /\ MaxParts \in Nat /\ 1..n \subseteq Part
      /\ \A p \in 1..n : /\ parts[p][1] \in Nat /\ parts[p][2] \in Nat
                         /\ parts[p][1] <= parts[p][2] + 1
      /\ \A p \in 2..n : parts[p][1] = parts[p - 1][2] + 1
  BY <1>0, CutInto, CountAssumption DEF IInv
<1>2. Total \in [Term -> Nat] /\ OwnTallies \in [Part -> [Term -> Nat]]
  BY TallyTypes
<1>3. k >= 2 /\ k \in Nat /\ k \in 2..n /\ k \in 1..n /\ k - 1 \in 1..n
  <2>1. k \in Nat /\ k >= 2
    BY <1>0, Constants DEF Words
  <2> QED
    BY <1>0, <1>1, <2>1
<1>4. ASSUME NEW p \in 1..n, Pending(p)', NEW t \in Term
      PROVE  OwnTallies'[p][t] = InPart(p, t)
  <2>1. p > k /\ p \in Part
    BY <1>0, <1>1, <1>4 DEF Pending
  <2>2. Pending(p) /\ p # k
    BY <1>0, <1>3, <2>1 DEF Pending
  <2>3. OwnTallies'[p] = OwnTallies[p]
    BY <1>2, <2>1, <2>2 DEF Joins
  <2>4. OwnTallies[p][t] = InPart(p, t)
    BY <1>0, <2>2 DEF Words
  <2> QED
    BY <2>3, <2>4
<1>5. ASSUME NEW t \in Term PROVE Total'[t] = Tokens(text, 1, parts[k][2], t)
  <2>1. Total'[t] = Total[t] + OwnTallies[k][t]
    BY DEF Joins
  <2>2. Total[t] = Tokens(text, 1, parts[k - 1][2], t)
    BY <1>0 DEF Words
  <2>3. OwnTallies[k][t] = Tokens(text, parts[k][1], parts[k][2], t)
    <3>1. Pending(k)
      BY <1>0, <1>3 DEF Pending
    <3> QED
      BY <1>0, <1>3, <3>1 DEF Words, InPart
  <2>4. parts[k - 1][2] \in Nat /\ parts[k][2] \in Nat /\ parts[k][1] = parts[k - 1][2] + 1
        /\ parts[k][1] <= parts[k][2] + 1
    BY <1>1, <1>3
  <2>5. parts[k - 1][2] <= parts[k][2]
    BY <2>4
  <2>6. Tokens(text, 1, parts[k][2], t) =
          Tokens(text, 1, parts[k - 1][2], t) + Tokens(text, parts[k - 1][2] + 1, parts[k][2], t)
    BY <2>4, <2>5, TokensJoined
  <2> QED
    BY <2>1, <2>2, <2>3, <2>4, <2>6
<1>6. \A p \in 1..n : \A t \in Term : InPart(p, t)' = InPart(p, t)
  BY <1>0 DEF InPart
<1> QED
  BY <1>0, <1>3, <1>4, <1>5, <1>6 DEF Words

\* The other steps of combining leave the tallies, and the part is the same.
LEMMA WordsStay ==
  ASSUME IInv, Words, caller # "do_index", [Next]_vars, Stays,
         ~(CountWord \/ AllCounted \/ Combine \/ CombineEmptyMain \/ SkipNewline \/ NextPart
           \/ LastPart)
  PROVE  Words'
<1>1. CASE CutPart \/ CutPastEnd
  <2>1. pc = "split" /\ (pc' = "split" \/ pc' = "undefined")
    BY <1>1 DEF CutPart, CutPastEnd
  <2> QED
    BY <2>1 DEF Words, Stays
<1>2. CASE CombineNothing
  <2>1. pc' = "undefined"
    BY <1>2 DEF CombineNothing
  <2> QED
    BY <2>1 DEF Words
<1>3. CASE SameTerm \/ MainIsBigger \/ MainIsSmaller
  <2>1. pc = "combine" /\ UNCHANGED <<doc, text, n, caller, parts, pc, k>>
    BY <1>3 DEF SameTerm, MainIsBigger, MainIsSmaller, input
  <2> QED
    BY <2>1 DEF Words, Stays, Pending, InPart
<1>4. CASE CombineTail \/ CombineReturns
  <2>1. /\ pc = "combine" /\ pc' = "merge" /\ k' = k + 1
        /\ UNCHANGED <<doc, text, n, caller, parts>>
    BY <1>4 DEF CombineTail, CombineReturns, Return, input
  <2>2. k \in Nat /\ k >= 2 /\ n \in Nat
    BY <2>1, Numbers DEF IInv, Words, Ranges
  <2>3. \A p \in 1..n : Pending(p)' => Pending(p)
    BY <2>1, <2>2 DEF Pending
  <2>4. k' - 1 = k /\ k' >= 2
    BY <2>1, <2>2
  <2> QED
    BY <2>1, <2>3, <2>4 DEF Words, Stays, InPart
<1>5. CASE AllCombined
  <2>1. pc = "merge" /\ pc' = "done" /\ UNCHANGED <<doc, text, n, caller, parts, k>>
    BY <1>5 DEF AllCombined, input
  <2> QED
    BY <2>1 DEF Words, Stays, Pending, InPart
<1>6. CASE UNCHANGED vars
  <2>1. UNCHANGED <<doc, text, n, caller, parts, pc, k, ptr>>
    BY <1>6 DEF vars, input
  <2> QED
    BY <2>1 DEF Words, Stays, Pending, InPart
<1> QED
  BY <1>1, <1>2, <1>3, <1>4, <1>5, <1>6 DEF Next

\* No word is counted at the start.
LEMMA WInvInit ==
  ASSUME Init PROVE WInv
<1>1. pc = "split" /\ Cuts
  BY CutsInit DEF Init
<1>2. /\ \A t \in Term : Total[t] = 0
      /\ \A p \in Part : \A t \in Term : OwnTallies[p][t] = 0
  BY TalliesAtFirst
<1>3. Words
  BY <1>1, <1>2 DEF Words
<1> QED
  BY <1>1, <1>3 DEF WInv

\* That the tallies are those of the words passed is kept by every step.
LEMMA WInvNext ==
  ASSUME IInv, IInv', WInv, [Next]_vars PROVE WInv'
<1>1. Cuts /\ Cuts' /\ Moves
  BY CutsNext, TallyMoves DEF WInv
<1>2. caller' = caller
  BY DEF Next, vars, input, CutPart, CutPastEnd, LastPart, SkipNewline, CountWord, NextPart,
         AllCounted, Combine, CombineEmptyMain, CombineNothing, SameTerm, MainIsBigger,
         MainIsSmaller, CombineTail, CombineReturns, Return, AllCombined
<1>3. ASSUME caller # "do_index", Words PROVE Words'
  <2>1. CASE CountWord /\ k \in Part /\ text[ptr] \in Term /\ Counts(k, text[ptr])
    BY <1>1, <1>3, <2>1, WordsCountWord
  <2>2. CASE AllCounted /\ 1 \in Part /\ Joins(1)
    BY <1>1, <1>3, <2>2, WordsAllCounted
  <2>3. CASE (Combine \/ CombineEmptyMain) /\ k \in Part /\ Joins(k)
    BY <1>1, <1>3, <2>3, WordsCombine
  <2>4. CASE ~(CountWord \/ AllCounted \/ Combine \/ CombineEmptyMain) /\ Stays
    <3>1. CASE SkipNewline
      BY <1>1, <1>3, <2>4, <3>1, WordsSkip
    <3>2. CASE NextPart
      BY <1>1, <1>3, <2>4, <3>2, WordsNextPart
    <3>3. CASE LastPart
      BY <1>1, <1>3, <2>4, <3>3, WordsLastPart
    <3> QED
      BY <1>3, <2>4, <3>1, <3>2, <3>3, WordsStay
  <2> QED
    BY <1>1, <1>3, <2>1, <2>2, <2>3, <2>4 DEF Moves
<1> QED
  BY <1>1, <1>2, <1>3 DEF WInv

\* When all is combined the way the repository's tests do it, the count is
\* that of the whole text it read, the document and at most a word at its end
\* that is read past it, whatever the document and into however many parts
\* split_doc cuts it: no token falls between two parts or into both.
THEOREM TestsCountDocumentHolds == Spec => []TestsCountDocument
<1>1. IInv /\ WInv => TestsCountDocument
  <2> SUFFICES ASSUME IInv, WInv, pc = "done", caller = "tests"
               PROVE  CountIn(Chain(next, main)) = WordsOf(text)
    BY DEF TestsCountDocument, WInv, Cuts
  <2>1. Total = CountIn(Chain(next, main))
    <3>1. PICK own, M, A : Lists(own, M, A)
      BY DEF IInv
    <3>2. M \in SUBSET Node /\ Forward(next, Key, main, M) /\ next \in [Node -> Node \cup {NULL}]
      BY <3>1 DEF Lists, Linking, Linked, IInv, TypeOK
    <3>3. Chain(next, main) \in Seq(M)
      BY <3>2, ChainSet
    <3>4. Chain(next, main) \o <<>> = Chain(next, main)
      BY <3>3
    <3> QED
      BY <3>4 DEF Total, InCombine
  <2>2. k = n + 1 /\ n \in Nat /\ parts[n][2] = Len(text)
    BY CutInto DEF IInv, WInv, Control
  <2>3. ASSUME NEW t \in Term PROVE Total[t] = WordsOf(text)[t]
    <3>1. Total[t] = Tokens(text, 1, parts[k - 1][2], t)
      BY DEF WInv, Words
    <3>2. k - 1 = n
      BY <2>2
    <3>3. DOMAIN text = 1..Len(text)
      BY DEF IInv, TypeOK
    <3> QED
      BY <2>2, <3>1, <3>2, <3>3 DEF Tokens, WordsOf
  <2>4. Total = [t \in Term |-> Total[t]]
    BY TallyTypes
  <2> QED
    BY <2>1, <2>3, <2>4 DEF WordsOf
<1>2. Init => WInv
  BY WInvInit
<1>3. IInv /\ IInv' /\ WInv /\ [Next]_vars => WInv'
  BY WInvNext
<1> QED
  BY <1>1, <1>2, <1>3, AlwaysIInv, PTL DEF Spec
=============================================================================
