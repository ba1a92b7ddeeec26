---------------------------- MODULE Links_proofs ----------------------------
(***************************************************************************)
(* What is true of the lists of Links, whichever nodes they are made of: a *)
(* list is described by the set of its nodes, in the order of their keys,  *)
(* and Chain gives those nodes in that order.  Inserting, appending,       *)
(* joining and taking off the head are then operations on sets.            *)
(***************************************************************************)
EXTENDS Links, Inductions

\* Along next, the list at h has the nodes of S, in the order of their keys.
Forward(next, key, h, S) ==
  /\ h = NULL => S = {}
  /\ h # NULL => h \in S /\ \A y \in S : key[h] <= key[y]
  /\ \A x \in S : next[x] # NULL => next[x] \in S /\ key[x] < key[next[x]]
  /\ \A x, y \in S : key[x] < key[y] => next[x] # NULL /\ key[next[x]] <= key[y]
  /\ \A x, y \in S : key[x] = key[y] => x = y

\* pre goes back from each node but the head, whose pre may be stale.
Backward(next, pre, h, S) ==
  \A x \in S : x # h => pre[x] \in S /\ next[pre[x]] = x

Linked(next, pre, key, h, S) ==
  /\ Forward(next, key, h, S)
  /\ Backward(next, pre, h, S)
  /\ h # NULL => pre[h] = NULL

-----------------------------------------------------------------------------
(* Changes of a list. *)

\* The list is as it was where its nodes' links are as they were.
LEMMA ForwardFrame ==
  ASSUME NEW next, NEW next2, NEW key, NEW h, NEW S, Forward(next, key, h, S),
         \A x \in S : next2[x] = next[x]
  PROVE  Forward(next2, key, h, S)
BY DEF Forward

\* A list stays linked when the links of its own nodes stay.
LEMMA LinkedFrame ==
  ASSUME NEW next, NEW next2, NEW pre, NEW pre2, NEW key, NEW h, NEW S,
         Linked(next, pre, key, h, S),
         \A x \in S : next2[x] = next[x] /\ pre2[x] = pre[x]
  PROVE  Linked(next2, pre2, key, h, S)
<1>1. Forward(next2, key, h, S)
  BY ForwardFrame DEF Linked
<1>2. Backward(next2, pre2, h, S)
  BY DEF Linked, Backward
<1>3. h # NULL => pre2[h] = NULL
  BY DEF Linked, Forward
<1> QED
  BY <1>1, <1>2, <1>3 DEF Linked

\* The head is taken off.
LEMMA WithoutHead ==
  ASSUME NEW next, NEW key, NEW h, NEW S, NULL \notin S, \A y \in S : key[y] \in Nat,
         Forward(next, key, h, S), h # NULL
  PROVE  /\ Forward(next, key, next[h], S \ {h})
         /\ next[h] # h
         /\ \A x \in S \ {h} : key[h] < key[x]
<1>1. h \in S /\ \A y \in S : key[h] \in Nat /\ key[y] \in Nat /\ key[h] <= key[y]
  BY DEF Forward
<1>2. \A x \in S \ {h} : key[h] < key[x]
  <2> TAKE x \in S \ {h}
  <2>1. key[x] # key[h] /\ key[h] <= key[x] /\ key[x] \in Nat
    BY <1>1 DEF Forward
  <2> QED
    BY <1>1, <2>1
<1>3. next[h] # h
  BY <1>1 DEF Forward
<1>4. next[h] = NULL => S \ {h} = {}
  BY <1>1, <1>2 DEF Forward
<1>5. next[h] # NULL => /\ next[h] \in S \ {h}
                        /\ \A y \in S \ {h} : key[next[h]] <= key[y]
  BY <1>1, <1>2, <1>3 DEF Forward
<1>6. ASSUME NEW x \in S \ {h}, next[x] # NULL
      PROVE  next[x] \in S \ {h} /\ key[x] < key[next[x]]
  <2>1. next[x] \in S /\ key[x] < key[next[x]]
    BY <1>6 DEF Forward
  <2> QED
    BY <1>1, <1>2, <2>1
<1> QED
  BY <1>1, <1>2, <1>3, <1>4, <1>5, <1>6 DEF Forward

\* A list without its head is linked back like the whole.
LEMMA BackwardWithoutHead ==
  ASSUME NEW next, NEW pre, NEW h, NEW S, Backward(next, pre, h, S)
  PROVE  Backward(next, pre, next[h], S \ {h})
BY DEF Backward

\* x is put in before the node at, which is the first that is bigger.
LEMMA InsertedBefore ==
  ASSUME NEW next, NEW next2, NEW pre, NEW pre2, NEW key, NEW h, NEW S, NEW x,
         NEW at \in S, NULL \notin S \cup {x}, \A y \in S \cup {x} : key[y] \in Nat,
         Linked(next, pre, key, h, S), x \notin S,
         key[x] < key[at], \A y \in S : key[y] < key[at] => key[y] < key[x],
         next2[x] = at, pre2[x] = pre[at], pre2[at] = x,
         at # h => next2[pre[at]] = x,
         \A y \in S : y # pre[at] => next2[y] = next[y],
         \A y \in S : y # at => pre2[y] = pre[y]
  PROVE  Linked(next2, pre2, key, IF pre[at] = NULL THEN x ELSE h, S \cup {x})
<1> DEFINE h2 == IF pre[at] = NULL THEN x ELSE h
           T == S \cup {x}
<1>1. \A y \in T : key[y] \in Nat
  OBVIOUS
<1>2. h \in S /\ h # NULL /\ pre[h] = NULL /\ \A y \in S : key[h] <= key[y]
  BY DEF Linked, Forward
<1>3. at # h => /\ pre[at] \in S /\ pre[at] # NULL /\ next[pre[at]] = at
                /\ key[pre[at]] < key[at]
  BY DEF Linked, Backward, Forward
<1>4. (pre[at] = NULL) <=> (at = h)
  BY <1>2, <1>3
<1>5. \A y, z \in T : key[y] = key[z] => y = z
  <2>1. \A y \in S : key[y] # key[x]
    <3> TAKE y \in S
    <3>1. key[y] < key[at] => key[y] < key[x]
      OBVIOUS
    <3> QED
      BY <1>1, <3>1
  <2> QED
    BY <2>1 DEF Linked, Forward
<1>6. h2 \in T /\ \A y \in T : key[h2] <= key[y]
  <2>1. CASE at = h
    <3>1. h2 = x /\ \A y \in S : key[x] < key[y]
      BY <1>1, <1>2, <1>4, <2>1
    <3> QED
      BY <1>1, <3>1
  <2>2. CASE at # h
    <3>1. h2 = h /\ key[h] < key[x]
      BY <1>1, <1>2, <1>3, <1>4, <2>2
    <3> QED
      BY <1>1, <1>2, <3>1
  <2> QED
    BY <2>1, <2>2
<1>7. ASSUME NEW y \in T, next2[y] # NULL
      PROVE  next2[y] \in T /\ key[y] < key[next2[y]]
  <2>1. CASE y = x
    BY <2>1
  <2>2. CASE y # x /\ at # h /\ y = pre[at]
    BY <1>1, <1>3, <2>2
  <2>3. CASE y # x /\ ~(at # h /\ y = pre[at])
    <3>1. y \in S /\ y # pre[at]
      BY <1>2, <2>3
    <3> QED
      BY <1>7, <3>1 DEF Linked, Forward
  <2> QED
    BY <2>1, <2>2, <2>3
<1>8. ASSUME NEW y \in T, NEW z \in T, key[y] < key[z]
      PROVE  next2[y] # NULL /\ key[next2[y]] <= key[z]
  <2>1. CASE y = x
    <3>1. z \in S /\ next2[y] = at /\ at # NULL /\ ~(key[z] < key[at])
      BY <1>1, <1>8, <2>1
    <3> QED
      BY <1>1, <3>1
  <2>2. CASE y # x /\ at # h /\ y = pre[at]
    <3>1. next2[y] = x /\ x # NULL /\ y \in S /\ next[y] = at
      BY <1>3, <2>2
    <3>2. z # x => key[at] <= key[z]
      BY <1>8, <3>1 DEF Linked, Forward
    <3> QED
      BY <1>1, <3>1, <3>2
  <2>3. CASE y # x /\ ~(at # h /\ y = pre[at])
    <3>1. y \in S /\ y # pre[at] /\ next2[y] = next[y]
      BY <1>2, <2>3
    <3>2. CASE z # x
      BY <1>8, <3>1, <3>2 DEF Linked, Forward
    <3>3. CASE z = x
      <4>1. key[y] < key[at]
        BY <1>1, <1>8, <3>1, <3>3
      <4>2. next[y] # NULL /\ next[y] \in S /\ key[next[y]] <= key[at]
        BY <3>1, <4>1 DEF Linked, Forward
      <4>3. next[y] # at
        <5> SUFFICES ASSUME next[y] = at PROVE FALSE
          OBVIOUS
        <5>1. at # h
          BY <1>1, <1>2, <3>1, <4>1
        <5>2. pre[at] \in S /\ key[pre[at]] < key[at] /\ next[pre[at]] = at
          BY <1>3, <5>1
        <5>3. ~(key[y] < key[pre[at]])
          <6>1. key[y] < key[pre[at]] => key[next[y]] <= key[pre[at]]
            BY <3>1, <5>2 DEF Linked, Forward
          <6> QED
            BY <1>1, <5>2, <6>1
        <5>4. ~(key[pre[at]] < key[y])
          <6>1. key[pre[at]] < key[y] => key[next[pre[at]]] <= key[y]
            BY <3>1, <5>2 DEF Linked, Forward
          <6> QED
            BY <1>1, <3>1, <4>1, <5>2, <6>1
        <5>5. key[y] = key[pre[at]]
          BY <1>1, <3>1, <5>2, <5>3, <5>4
        <5>6. y = pre[at]
          BY <1>5, <3>1, <5>2, <5>5
        <5> QED
          BY <3>1, <5>6
      <4>4. key[next[y]] < key[at]
        <5>1. key[next[y]] # key[at]
          BY <4>2, <4>3 DEF Linked, Forward
        <5> QED
          BY <1>1, <4>2, <5>1
      <4>5. key[next[y]] < key[x]
        BY <4>2, <4>4
      <4> QED
        BY <1>1, <3>1, <3>3, <4>2, <4>5
    <3> QED
      BY <3>2, <3>3
  <2> QED
    BY <2>1, <2>2, <2>3
<1>9. Forward(next2, key, h2, T)
  BY <1>5, <1>6, <1>7, <1>8 DEF Forward
<1>10. ASSUME NEW y \in T, y # h2 PROVE pre2[y] \in T /\ next2[pre2[y]] = y
  <2>1. CASE y = x
    <3>1. at # h
      BY <1>4, <1>10, <2>1
    <3> QED
      BY <1>3, <2>1, <3>1
  <2>2. CASE y = at
    BY <2>2
  <2>3. CASE y # x /\ y # at
    <3>1. y \in S /\ y # h
      BY <1>4, <1>10, <2>3
    <3>2. pre2[y] = pre[y] /\ pre[y] \in S /\ next[pre[y]] = y
      BY <2>3, <3>1 DEF Linked, Backward
    <3>3. pre[y] # pre[at]
      <4>1. CASE at = h
        BY <1>2, <3>2, <4>1
      <4>2. CASE at # h
        BY <1>3, <2>3, <3>2, <4>2
      <4> QED
        BY <4>1, <4>2
    <3> QED
      BY <3>2, <3>3
  <2> QED
    BY <2>1, <2>2, <2>3
<1>11. pre2[h2] = NULL
  <2>1. CASE at = h
    BY <1>4, <2>1
  <2>2. CASE at # h
    BY <1>2, <1>4, <2>2
  <2> QED
    BY <2>1, <2>2
<1> QED
  BY <1>9, <1>10, <1>11 DEF Linked, Backward

\* A list whose keys are all bigger becomes the tail of another.
LEMMA Joined ==
  ASSUME NEW next, NEW next2, NEW pre, NEW pre2, NEW key, NEW h, NEW S, NEW g, NEW A,
         NEW at \in S, NULL \notin S \cup A, \A y \in S \cup A : key[y] \in Nat, S \cap A = {},
         Linked(next, pre, key, h, S), next[at] = NULL,
         g # NULL, Forward(next2, key, g, A), Backward(next2, pre2, g, A),
         key[at] < key[g], next2[at] = g, pre2[g] = at,
         \A y \in S : (y # at => next2[y] = next[y]) /\ pre2[y] = pre[y]
  PROVE  Linked(next2, pre2, key, h, S \cup A)
<1> DEFINE T == S \cup A
<1>1. \A y \in T : key[y] \in Nat
  OBVIOUS
<1>2. h \in S /\ h # NULL /\ pre[h] = NULL /\ \A y \in S : key[h] <= key[y]
  BY DEF Linked, Forward
<1>3. g \in A /\ \A y \in A : key[g] <= key[y]
  BY DEF Forward
<1>4. \A y \in S : key[y] <= key[at]
  <2> TAKE y \in S
  <2>1. ~(key[at] < key[y])
    BY DEF Linked, Forward
  <2> QED
    BY <1>1, <2>1
<1>5. \A y \in S, z \in A : key[y] < key[z] /\ y # z
  BY <1>1, <1>3, <1>4
<1>6. \A y, z \in T : key[y] = key[z] => y = z
  <2>1. \A y \in S, z \in A : key[y] # key[z]
    BY <1>1, <1>5
  <2> QED
    BY <2>1 DEF Linked, Forward
<1>7. \A y \in T : key[h] <= key[y]
  BY <1>1, <1>2, <1>5
<1>8. ASSUME NEW y \in T, next2[y] # NULL
      PROVE  next2[y] \in T /\ key[y] < key[next2[y]]
  <2>1. CASE y = at
    BY <1>3, <2>1
  <2>2. CASE y \in S /\ y # at
    BY <1>8, <2>2 DEF Linked, Forward
  <2>3. CASE y \in A
    BY <1>8, <2>3 DEF Forward
  <2> QED
    BY <2>1, <2>2, <2>3
<1>9. ASSUME NEW y \in T, NEW z \in T, key[y] < key[z]
      PROVE  next2[y] # NULL /\ key[next2[y]] <= key[z]
  <2>1. CASE y = at
    <3>1. z \notin S
      BY <1>1, <1>4, <1>9, <2>1
    <3> QED
      BY <1>3, <2>1, <3>1
  <2>2. CASE y \in S /\ y # at
    <3>1. key[y] < key[at]
      <4>1. key[y] # key[at]
        BY <1>6, <2>2
      <4> QED
        BY <1>1, <1>4, <2>2, <4>1
    <3>2. /\ next2[y] = next[y] /\ next[y] # NULL /\ next[y] \in S
          /\ key[next[y]] <= key[at]
      BY <2>2, <3>1 DEF Linked, Forward
    <3>3. CASE z \in S
      BY <1>9, <2>2, <3>2, <3>3 DEF Linked, Forward
    <3>4. CASE z \in A
      BY <1>1, <1>5, <3>2, <3>4
    <3> QED
      BY <3>3, <3>4
  <2>3. CASE y \in A
    <3>1. z \in A
      BY <1>1, <1>5, <1>9, <2>3
    <3> QED
      BY <1>9, <2>3, <3>1 DEF Forward
  <2> QED
    BY <2>1, <2>2, <2>3
<1>10. Forward(next2, key, h, T)
  BY <1>2, <1>6, <1>7, <1>8, <1>9 DEF Forward
<1>11. ASSUME NEW y \in T, y # h PROVE pre2[y] \in T /\ next2[pre2[y]] = y
  <2>1. CASE y \in S
    <3>1. pre2[y] = pre[y] /\ pre[y] \in S /\ next[pre[y]] = y
      BY <1>11, <2>1 DEF Linked, Backward
    <3>2. pre[y] # at
      BY <2>1, <3>1
    <3> QED
      BY <3>1, <3>2
  <2>2. CASE y = g
    BY <2>2
  <2>3. CASE y \in A /\ y # g
    BY <2>3 DEF Backward
  <2> QED
    BY <2>1, <2>2, <2>3
<1> QED
  BY <1>2, <1>10, <1>11 DEF Linked, Backward

\* A list of one node.
LEMMA OneNode ==
  ASSUME NEW next, NEW pre, NEW key, NEW x, x # NULL, next[x] = NULL, pre[x] = NULL,
         key[x] \in Nat
  PROVE  Linked(next, pre, key, x, {x})
BY DEF Linked, Forward, Backward

\* A list of no node.
LEMMA NoNode ==
  ASSUME NEW next, NEW pre, NEW key
  PROVE  Linked(next, pre, key, NULL, {})
BY DEF Linked, Forward, Backward

-----------------------------------------------------------------------------
(* Chain. *)

\* The function that Chain's LET defines.
Walks(walk, next, most) ==
  walk = [j \in 0..most |->
            [y \in DOMAIN next \cup {NULL} |->
               IF y = NULL \/ j = 0 THEN <<>> ELSE <<y>> \o walk[j - 1][next[y]]]]

\* The function that Chain defines exists.
LEMMA WalkExists ==
  ASSUME NEW next, NEW most \in Nat
  PROVE  \E walk : Walks(walk, next, most)
<1> DEFINE Row(f, j) == [y \in DOMAIN next \cup {NULL} |->
                          IF y = NULL \/ j = 0 THEN <<>> ELSE <<y>> \o f[j - 1][next[y]]]
           S == {m \in Nat : \E walk : Walks(walk, next, m)}
<1>1. 0 \in S
  <2>1. Walks([j \in 0..0 |-> [y \in DOMAIN next \cup {NULL} |-> <<>>]], next, 0)
    BY DEF Walks
  <2> QED
    BY <2>1
<1>2. ASSUME NEW m \in Nat, m \in S PROVE m + 1 \in S
  <2>1. PICK walk : Walks(walk, next, m)
    BY <1>2
  <2> DEFINE longer == [j \in 0..(m + 1) |-> IF j = m + 1 THEN Row(walk, j) ELSE walk[j]]
  <2>2. ASSUME NEW j \in 0..(m + 1)
        PROVE  longer[j] = Row(longer, j)
    <3>1. CASE j = m + 1
      <4>1. longer[j] = Row(walk, j) /\ j # 0 /\ j - 1 \in 0..(m + 1) /\ j - 1 # m + 1
        BY <3>1
      <4>2. longer[j - 1] = walk[j - 1]
        BY <4>1
      <4> QED
        BY <4>1, <4>2
    <3>2. CASE j # m + 1
      <4>1. j \in 0..m /\ (j # 0 => j - 1 # m + 1 /\ j - 1 \in 0..(m + 1))
        BY <3>2
      <4>2. walk[j] = Row(walk, j)
        BY <2>1, <4>1 DEF Walks
      <4>3. longer[j] = walk[j] /\ (j # 0 => longer[j - 1] = walk[j - 1])
        BY <3>2, <4>1
      <4> HIDE DEF longer
      <4> QED
        BY <4>2, <4>3
    <3> QED
      BY <3>1, <3>2
  <2>3. longer = [j \in 0..(m + 1) |-> Row(longer, j)]
    <3>1. longer = [j \in 0..(m + 1) |-> longer[j]]
      OBVIOUS
    <3> HIDE DEF longer, Row
    <3> QED
      BY <2>2, <3>1
  <2>4. Walks(longer, next, m + 1)
    BY <2>3 DEF Walks
  <2> QED
    BY <2>4
<1>3. Nat \subseteq S
  <2> HIDE DEF S
  <2> QED
    BY <1>1, <1>2, Induction
<1> QED
  BY <1>3

\* Chain is that function's last value.
LEMMA ChainWalks ==
  ASSUME NEW next, IsFiniteSet(DOMAIN next), NEW x
  PROVE  LET most == 1 + Cardinality(DOMAIN next)
         IN  most \in Nat /\ \E walk : Walks(walk, next, most) /\ Chain(next, x) = walk[most][x]
<1>1. 1 + Cardinality(DOMAIN next) \in Nat
  BY FS_CardinalityType
<1>2. \E walk : Walks(walk, next, 1 + Cardinality(DOMAIN next))
  BY <1>1, WalkExists
<1> QED
  BY <1>1, <1>2 DEF Chain, Walks

\* s has the nodes of S, each once and in the order of their keys; the links
\* go from h along it.
Orders(s, next, key, h, S) ==
  /\ s \in Seq(S)
  /\ Len(s) = Cardinality(S)
  /\ \A x \in S : \E j \in 1..Len(s) : s[j] = x
  /\ \A i, j \in 1..Len(s) : i < j => key[s[i]] < key[s[j]]
  /\ S # {} => s[1] = h
  /\ \A j \in 2..Len(s) : next[s[j - 1]] = s[j]

\* Chain brings the nodes of a list in order, and comes to its end.
LEMMA ChainIs ==
  ASSUME NEW Nodes, IsFiniteSet(Nodes), NULL \notin Nodes,
         NEW next \in [Nodes -> Nodes \cup {NULL}], NEW key \in [Nodes -> Nat],
         NEW h, NEW S, S \subseteq Nodes, Forward(next, key, h, S)
  PROVE  Orders(Chain(next, h), next, key, h, S)
<1>1. /\ 1 + Cardinality(Nodes) \in Nat
      /\ \E walk : /\ Walks(walk, next, 1 + Cardinality(Nodes))
                   /\ Chain(next, h) = walk[1 + Cardinality(Nodes)][h]
  <2>1. DOMAIN next = Nodes
    OBVIOUS
  <2> QED
    BY <2>1, ChainWalks
<1> DEFINE most == 1 + Cardinality(Nodes)
<1>2. PICK walk : Walks(walk, next, most) /\ Chain(next, h) = walk[most][h]
  BY <1>1
<1> DEFINE Q == {m \in Nat : m <= most =>
                  \A T \in SUBSET Nodes : \A g \in Nodes \cup {NULL} :
                    Cardinality(T) <= m /\ Forward(next, key, g, T) =>
                      Orders(walk[m][g], next, key, g, T)}
<1>3. \A m \in 0..most : \A g \in Nodes \cup {NULL} :
        walk[m][g] = IF g = NULL \/ m = 0 THEN <<>> ELSE <<g>> \o walk[m - 1][next[g]]
  <2>1. DOMAIN next = Nodes
    OBVIOUS
  <2>2. \A m \in 0..most :
          walk[m] = [y \in Nodes \cup {NULL} |->
                       IF y = NULL \/ m = 0 THEN <<>> ELSE <<y>> \o walk[m - 1][next[y]]]
    <3> HIDE DEF most
    <3> QED
      BY <1>2, <2>1 DEF Walks
  <2> SUFFICES ASSUME NEW m \in 0..most, NEW g \in Nodes \cup {NULL}
               PROVE  walk[m][g] = IF g = NULL \/ m = 0 THEN <<>>
                                   ELSE <<g>> \o walk[m - 1][next[g]]
    OBVIOUS
  <2> HIDE DEF most
  <2> QED
    BY <2>2, ZenonT(40)
<1>4. \A T \in SUBSET Nodes : IsFiniteSet(T) /\ Cardinality(T) \in Nat
                              /\ Cardinality(T) <= Cardinality(Nodes)
                              /\ (Cardinality(T) = 0 <=> T = {})
  BY FS_Subset, FS_CardinalityType, FS_EmptySet
<1>5. ASSUME NEW m \in 0..most, NEW g \in Nodes \cup {NULL}, walk[m][g] = <<>>
      PROVE  Orders(walk[m][g], next, key, g, {})
  BY <1>5, FS_EmptySet DEF Orders
<1>6. 0 \in Q
  <2> SUFFICES ASSUME NEW T \in SUBSET Nodes, NEW g \in Nodes \cup {NULL},
                      Cardinality(T) <= 0
               PROVE  Orders(walk[0][g], next, key, g, T)
    OBVIOUS
  <2>1. T = {}
    BY <1>4
  <2>2. 0 \in 0..most
    BY <1>1
  <2>3. walk[0][g] = <<>>
    BY <1>3, <2>2
  <2> QED
    BY <1>5, <2>1, <2>2, <2>3
<1>7. ASSUME NEW m \in Nat, m \in Q PROVE m + 1 \in Q
  <2> SUFFICES ASSUME m + 1 <= most, NEW T \in SUBSET Nodes, NEW g \in Nodes \cup {NULL},
                      Cardinality(T) <= m + 1, Forward(next, key, g, T)
               PROVE  Orders(walk[m + 1][g], next, key, g, T)
    OBVIOUS
  <2>1. m + 1 \in 0..most /\ m <= most /\ (m + 1) - 1 = m /\ m + 1 # 0
    BY <1>1
  <2>2. CASE g = NULL
    <3>1. T = {} /\ walk[m + 1][g] = <<>>
      BY <1>3, <2>1, <2>2 DEF Forward
    <3> QED
      BY <1>5, <2>1, <3>1
  <2>3. CASE g # NULL
    <3> DEFINE s == walk[m][next[g]]
               R == T \ {g}
    <3>1. walk[m + 1][g] = <<g>> \o s
      <4> DEFINE j == m + 1
      <4>1. j \in 0..most /\ j # 0 /\ j - 1 = m
        BY <2>1
      <4> HIDE DEF j, most
      <4>2. walk[j][g] = <<g>> \o walk[j - 1][next[g]]
        BY <1>3, <2>3, <4>1
      <4> QED
        BY <4>1, <4>2 DEF j
    <3>2. g \in T /\ g \in Nodes
      BY <2>3 DEF Forward
    <3>3. Forward(next, key, next[g], R) /\ \A x \in R : key[g] < key[x]
      <4>1. NULL \notin T /\ key \in [Nodes -> Nat] /\ T \subseteq Nodes
        OBVIOUS
      <4>2. /\ g \in T /\ \A y \in T : key[g] <= key[y]
            /\ \A y \in T : key[y] \in Nat
        BY <2>3 DEF Forward
      <4> QED
        BY <2>3, <4>1, <4>2, WithoutHead DEF Forward
    <3>4. /\ R \in SUBSET Nodes /\ Cardinality(R) = Cardinality(T) - 1
          /\ Cardinality(R) <= m /\ Cardinality(T) \in Nat
      <4>1. IsFiniteSet(T) /\ Cardinality(T) \in Nat
        BY <1>4
      <4>2. Cardinality(R) = Cardinality(T) - 1
        BY <3>2, <4>1, FS_RemoveElement
      <4> QED
        BY <4>1, <4>2
    <3>5. Orders(s, next, key, next[g], R)
      BY <1>7, <2>1, <3>2, <3>3, <3>4
    <3> DEFINE all == <<g>> \o s
    <3>6. /\ s \in Seq(T) /\ Len(s) = Cardinality(T) - 1 /\ Len(s) \in Nat
          /\ s \in Seq(R)
      <4>1. s \in Seq(R) /\ Len(s) = Cardinality(T) - 1
        BY <3>4, <3>5 DEF Orders
      <4> HIDE DEF s
      <4> QED
        BY <4>1
    <3> HIDE DEF s
    <3>7. /\ all \in Seq(T) /\ Len(all) = Len(s) + 1
          /\ \A j \in 1..(Len(s) + 1) : all[j] = IF j = 1 THEN g ELSE s[j - 1]
      BY <3>2, <3>6, InFront
    <3> HIDE DEF all
    <3>8. Len(all) = Cardinality(T)
      BY <3>4, <3>6, <3>7
    <3>9. ASSUME NEW x \in T PROVE \E j \in 1..Len(all) : all[j] = x
      <4>1. CASE x = g
        <5>1. 1 \in 1..Len(all) /\ all[1] = g
          BY <3>6, <3>7
        <5> QED
          BY <4>1, <5>1
      <4>2. CASE x # g
        <5>1. PICK j \in 1..Len(s) : s[j] = x
          BY <3>5, <4>2 DEF Orders
        <5>2. j + 1 \in 1..Len(all) /\ all[j + 1] = s[j]
          BY <3>6, <3>7
        <5> QED
          BY <5>1, <5>2
      <4> QED
        BY <4>1, <4>2
    <3>10. ASSUME NEW i \in 1..Len(all), NEW j \in 1..Len(all), i < j
           PROVE  key[all[i]] < key[all[j]]
      <4>1. j - 1 \in 1..Len(s) /\ all[j] = s[j - 1]
        BY <3>6, <3>7, <3>10
      <4>2. CASE i = 1
        <5>1. s[j - 1] \in R /\ all[i] = g
          BY <3>6, <3>7, <4>1, <4>2
        <5> QED
          BY <3>3, <4>1, <5>1
      <4>3. CASE i # 1
        <5>1. i - 1 \in 1..Len(s) /\ all[i] = s[i - 1] /\ i - 1 < j - 1
          BY <3>6, <3>7, <3>10, <4>3, SMTT(30)
        <5> QED
          BY <3>5, <4>1, <5>1 DEF Orders
      <4> QED
        BY <4>2, <4>3
    <3>11. ASSUME NEW j \in 2..Len(all) PROVE next[all[j - 1]] = all[j]
      <4>1. j - 1 \in 1..Len(s) /\ all[j] = s[j - 1] /\ j - 1 \in 1..Len(all)
        BY <3>6, <3>7
      <4>2. CASE j = 2
        <5>1. all[j - 1] = g /\ s[j - 1] = s[1] /\ s[1] \in R
          BY <3>6, <3>7, <4>1, <4>2
        <5> QED
          BY <3>5, <4>1, <5>1 DEF Orders
      <4>3. CASE j # 2
        <5>1. /\ j - 1 \in 2..Len(s) /\ all[j - 1] = s[(j - 1) - 1]
          BY <3>6, <3>7, <4>1, <4>3, SMTT(30)
        <5> QED
          BY <3>5, <4>1, <5>1 DEF Orders
      <4> QED
        BY <4>2, <4>3
    <3>12. all[1] = g
      BY <3>6, <3>7
    <3>13. walk[m + 1][g] = all
      BY <3>1 DEF all, s
    <3> QED
      BY <3>7, <3>8, <3>9, <3>10, <3>11, <3>12, <3>13 DEF Orders
  <2> QED
    BY <2>2, <2>3
<1>8. Nat \subseteq Q
  <2> HIDE DEF Q
  <2> QED
    BY <1>6, <1>7, Induction
<1>9. most \in Q /\ Cardinality(S) <= most
  BY <1>1, <1>4, <1>8, FS_CardinalityType
<1>10. h \in Nodes \cup {NULL}
  BY DEF Forward
<1> QED
  BY <1>1, <1>2, <1>9, <1>10

\* The last node of a chain is the biggest, and the end of its links.
LEMMA ChainEnds ==
  ASSUME NEW s, NEW next, NEW key, NEW h, NEW S, \A y \in S : key[y] \in Nat,
         IsFiniteSet(S), S # {}, Forward(next, key, h, S), Orders(s, next, key, h, S)
  PROVE  /\ Len(s) \in Nat /\ Len(s) > 0 /\ s[Len(s)] \in S
         /\ \A x \in S : key[x] <= key[s[Len(s)]]
         /\ next[s[Len(s)]] = NULL
<1>1. s \in Seq(S) /\ Len(s) \in Nat
  BY DEF Orders
<1>2. Len(s) > 0
  BY <1>1 DEF Orders
<1>3. Len(s) \in 1..Len(s) /\ s[Len(s)] \in S
  BY <1>1, <1>2
<1>4. ASSUME NEW x \in S PROVE key[x] <= key[s[Len(s)]]
  <2>1. PICK j \in 1..Len(s) : s[j] = x
    BY DEF Orders
  <2>2. CASE j = Len(s)
    BY <1>3, <2>1, <2>2
  <2>3. CASE j # Len(s)
    <3>1. key[s[j]] < key[s[Len(s)]]
      BY <1>1, <1>3, <2>3 DEF Orders
    <3> QED
      BY <1>3, <2>1, <3>1
  <2> QED
    BY <2>2, <2>3
<1>5. next[s[Len(s)]] = NULL
  <2> SUFFICES ASSUME next[s[Len(s)]] # NULL PROVE FALSE
    OBVIOUS
  <2>1. next[s[Len(s)]] \in S /\ key[s[Len(s)]] < key[next[s[Len(s)]]]
    BY <1>3 DEF Forward
  <2> QED
    BY <1>3, <1>4, <2>1
<1> QED
  BY <1>1, <1>2, <1>3, <1>4, <1>5

\* Along a chain, pre goes back.
LEMMA ChainBack ==
  ASSUME NEW s, NEW next, NEW pre, NEW key, NEW h, NEW S, NULL \notin S,
         \A y \in S : key[y] \in Nat, IsFiniteSet(S),
         Linked(next, pre, key, h, S), Orders(s, next, key, h, S)
  PROVE  \A j \in 1..Len(s) : pre[s[j]] = IF j = 1 THEN NULL ELSE s[j - 1]
<1>1. /\ Forward(next, key, h, S) /\ Backward(next, pre, h, S) /\ (h # NULL => pre[h] = NULL)
      /\ s \in Seq(S) /\ Len(s) \in Nat /\ \A j \in 1..Len(s) : s[j] \in S
  BY DEF Linked, Orders
<1>2. \A i, j \in 1..Len(s) : i < j => key[s[i]] < key[s[j]]
  BY DEF Orders
<1>3. ASSUME NEW j \in 1..Len(s), j = 1 PROVE pre[s[j]] = NULL
  <2>1. s[1] = h /\ s[1] \in S
    BY <1>1, <1>3 DEF Orders
  <2> QED
    BY <1>1, <1>3, <2>1
<1>4. ASSUME NEW j \in 2..Len(s) PROVE pre[s[j]] = s[j - 1]
  <2>1. j - 1 \in 1..Len(s) /\ j \in 1..Len(s) /\ 1 \in 1..Len(s) /\ 1 < j
    BY <1>1
  <2>2. s[1] = h /\ s[1] \in S /\ s[j] \in S
    BY <1>1, <2>1 DEF Orders
  <2>3. key[s[1]] < key[s[j]] /\ key[s[1]] \in Nat /\ key[s[j]] \in Nat
    BY <1>2, <2>1, <2>2
  <2>4. pre[s[j]] \in S /\ next[pre[s[j]]] = s[j]
    BY <1>1, <2>2, <2>3 DEF Backward
  <2>5. PICK i \in 1..Len(s) : s[i] = pre[s[j]]
    BY <2>4 DEF Orders
  <2>6. i # Len(s)
    <3>1. next[s[Len(s)]] = NULL
      BY <1>1, <2>2, ChainEnds
    <3> QED
      BY <2>2, <2>4, <2>5, <3>1
  <2>7. i + 1 \in 2..Len(s) /\ i + 1 \in 1..Len(s) /\ (i + 1) - 1 = i
    BY <1>1, <2>6
  <2>8. s[i + 1] = s[j]
    <3>1. next[s[(i + 1) - 1]] = s[i + 1]
      BY <2>7 DEF Orders
    <3> QED
      BY <2>4, <2>5, <2>7, <3>1
  <2>9. ~(i + 1 < j) /\ ~(j < i + 1)
    <3>1. i + 1 < j => key[s[i + 1]] < key[s[j]]
      BY <1>2, <2>1, <2>7
    <3>2. j < i + 1 => key[s[j]] < key[s[i + 1]]
      BY <1>2, <2>1, <2>7
    <3> QED
      BY <2>3, <2>8, <3>1, <3>2
  <2> QED
    BY <1>1, <2>1, <2>5, <2>7, <2>9
<1>5. \A j \in 1..Len(s) : j = 1 \/ j \in 2..Len(s)
  BY <1>1
<1> QED
  BY <1>3, <1>4, <1>5
=============================================================================
