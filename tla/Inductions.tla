----------------------------- MODULE Inductions -----------------------------
(***************************************************************************)
(* Induction over data, and what it shows about the operators that the     *)
(* modules take from SequencesExt.  An induction is over a set of numbers, *)
(* given as a set, since the provers cannot be given a predicate.          *)
(***************************************************************************)
EXTENDS Integers, SequencesExt, FiniteSetTheorems, WellFoundedInduction, TLAPS

\* Every set of numbers that has one has a least one.
LEMMA LeastNumber ==
  ASSUME NEW T, T \subseteq Nat, T # {}
  PROVE  \E x \in T : \A y \in T : x <= y
<1> DEFINE F == {0..(x - 1) : x \in T}
<1>1. IsWellFoundedOn(StrictSubsetOrdering(Nat), FiniteSubsetsOf(Nat))
  BY FS_StrictSubsetOrderingWellFounded
<1>2. F \subseteq FiniteSubsetsOf(Nat) /\ F # {}
  <2>1. ASSUME NEW r \in F PROVE r \in FiniteSubsetsOf(Nat)
    <3>1. PICK x \in T : r = 0..(x - 1)
      OBVIOUS
    <3>2. IsFiniteSet(0..(x - 1)) /\ 0..(x - 1) \subseteq Nat
      BY FS_Interval
    <3> QED
      BY <3>1, <3>2 DEF FiniteSubsetsOf
  <2> QED
    BY <2>1
<1>3. PICK s \in F : \A r \in F : ~(<<r, s>> \in StrictSubsetOrdering(Nat))
  <2> HIDE DEF F
  <2> QED
    BY <1>1, <1>2, WFMin
<1>4. PICK x \in T : s = 0..(x - 1)
  OBVIOUS
<1>5. ASSUME NEW y \in T, y < x PROVE FALSE
  <2>1. 0..(y - 1) \in F
    OBVIOUS
  <2>2. 0..(y - 1) \in SUBSET Nat /\ 0..(x - 1) \in SUBSET Nat
    OBVIOUS
  <2>3. 0..(y - 1) \subseteq 0..(x - 1) /\ y \in 0..(x - 1) /\ y \notin 0..(y - 1)
    BY <1>5
  <2>4. <<0..(y - 1), s>> \in StrictSubsetOrdering(Nat)
    BY <1>4, <2>2, <2>3 DEF StrictSubsetOrdering
  <2> QED
    BY <1>3, <2>1, <2>4
<1> QED
  BY <1>5

\* A set that has 0 and with each k also k + 1 has all of Nat.
LEMMA Induction ==
  ASSUME NEW S, 0 \in S, \A k \in Nat : k \in S => k + 1 \in S
  PROVE  Nat \subseteq S
<1> SUFFICES ASSUME Nat \ S # {} PROVE FALSE
  OBVIOUS
<1>1. PICK x \in Nat \ S : \A y \in Nat \ S : x <= y
  BY LeastNumber
<1>2. x # 0 /\ x - 1 \in Nat
  OBVIOUS
<1>3. x - 1 \in S
  BY <1>1, <1>2
<1> QED
  BY <1>2, <1>3

-----------------------------------------------------------------------------
\* BoundedSeq, of the community modules, has only sequences of that length.
LEMMA BoundedIsSeq ==
  ASSUME NEW S, NEW m \in Nat, NEW s \in BoundedSeq(S, m)
  PROVE  s \in Seq(S) /\ Len(s) <= m
<1>1. PICK k \in 0..m : s \in [1..k -> S]
  BY DEF BoundedSeq, SeqOf
<1>2. k \in Nat
  OBVIOUS
<1> QED
  BY <1>1, <1>2

-----------------------------------------------------------------------------
(* Sequences with an element put in front. *)

\* Where the elements of a sequence are once one is put ahead of it.
LEMMA InFront ==
  ASSUME NEW S, NEW x \in S, NEW s \in Seq(S)
  PROVE  /\ <<x>> \o s \in Seq(S)
         /\ Len(<<x>> \o s) = Len(s) + 1
         /\ \A k \in 1..(Len(s) + 1) : (<<x>> \o s)[k] = IF k = 1 THEN x ELSE s[k - 1]
<1>1. <<x>> \in Seq(S) /\ Len(<<x>>) = 1
  OBVIOUS
<1> DEFINE y == <<x>>
<1>2. y[1] = x
  OBVIOUS
<1> HIDE DEF y
<1> QED
  BY <1>1, <1>2 DEF y

-----------------------------------------------------------------------------
(* FlattenSeq. *)

\* flat holds, for each i, the concatenation of the first i of seqs.
Flattens(flat, seqs, n) ==
  flat = [i \in 1..n |-> IF i = 1 THEN seqs[i] ELSE flat[i - 1] \o seqs[i]]

\* The function that FlattenSeq defines exists.
LEMMA FlattensExists ==
  ASSUME NEW seqs, NEW n \in Nat
  PROVE  \E flat : Flattens(flat, seqs, n)
<1> DEFINE S == {m \in Nat : \E flat : Flattens(flat, seqs, m)}
<1>1. 0 \in S
  <2>1. Flattens([i \in 1..0 |-> i], seqs, 0)
    BY DEF Flattens
  <2> QED
    BY <2>1
<1>2. ASSUME NEW k \in Nat, k \in S PROVE k + 1 \in S
  <2>1. PICK flat : Flattens(flat, seqs, k)
    BY <1>2
  <2> DEFINE next == IF k = 0 THEN seqs[1] ELSE flat[k] \o seqs[k + 1]
             longer == [i \in 1..(k + 1) |-> IF i = k + 1 THEN next ELSE flat[i]]
  <2>2. ASSUME NEW i \in 1..(k + 1)
        PROVE  longer[i] = IF i = 1 THEN seqs[i] ELSE longer[i - 1] \o seqs[i]
    <3>1. CASE i = k + 1
      BY <3>1
    <3>2. CASE i # k + 1
      <4>1. i \in 1..k /\ (i # 1 => i - 1 \in 1..k /\ i - 1 # k + 1 /\ i - 1 \in 1..(k + 1))
        BY <3>2
      <4>2. flat[i] = IF i = 1 THEN seqs[i] ELSE flat[i - 1] \o seqs[i]
        BY <2>1, <4>1 DEF Flattens
      <4> QED
        BY <3>2, <4>1, <4>2
    <3> QED
      BY <3>1, <3>2
  <2>3. longer = [i \in 1..(k + 1) |-> IF i = 1 THEN seqs[i]
                                       ELSE longer[i - 1] \o seqs[i]]
    <3>1. longer = [i \in 1..(k + 1) |-> longer[i]]
      OBVIOUS
    <3> HIDE DEF longer
    <3> QED
      BY <2>2, <3>1
  <2>4. Flattens(longer, seqs, k + 1)
    BY <2>3 DEF Flattens
  <2> QED
    BY <2>4
<1>3. Nat \subseteq S
  <2> HIDE DEF S
  <2> QED
    BY <1>1, <1>2, Induction
<1> QED
  BY <1>3

\* FlattenSeq is that function's last value.
LEMMA FlattenSeqIs ==
  ASSUME NEW seqs, Len(seqs) \in Nat \ {0}
  PROVE  \E flat : /\ Flattens(flat, seqs, Len(seqs))
                   /\ FlattenSeq(seqs) = flat[Len(seqs)]
<1>1. \E flat : Flattens(flat, seqs, Len(seqs))
  BY FlattensExists
<1> QED
  BY <1>1 DEF FlattenSeq, Flattens

\* Each element of s is one of the first n of seqs, at its own place: the
\* row[k]-th sequence has it at col[k]; and each of those is in s.
Places(row, col, s, seqs, n) ==
  /\ row \in [1..Len(s) -> 1..n] /\ col \in [1..Len(s) -> Nat]
  /\ \A k \in 1..Len(s) : /\ col[k] \in 1..Len(seqs[row[k]])
                         /\ s[k] = seqs[row[k]][col[k]]
  /\ \A k, l \in 1..Len(s) : row[k] = row[l] /\ col[k] = col[l] => k = l
  /\ \A j \in 1..n : \A h \in 1..Len(seqs[j]) :
       \E k \in 1..Len(s) : row[k] = j /\ col[k] = h

\* Places for n sequences, and for one more.
LEMMA PlacesNext ==
  ASSUME NEW S, NEW n \in Nat, NEW seqs, seqs[n + 1] \in Seq(S), NEW s \in Seq(S),
         NEW row, NEW col, Places(row, col, s, seqs, n)
  PROVE  \E r, c : Places(r, c, s \o seqs[n + 1], seqs, n + 1)
<1> DEFINE new == seqs[n + 1]
           all == s \o new
           r == [k \in 1..Len(all) |-> IF k <= Len(s) THEN row[k] ELSE n + 1]
           c == [k \in 1..Len(all) |-> IF k <= Len(s) THEN col[k] ELSE k - Len(s)]
<1>1. /\ Len(s) \in Nat /\ Len(new) \in Nat /\ Len(all) = Len(s) + Len(new)
      /\ \A k \in 1..Len(all) : all[k] = IF k <= Len(s) THEN s[k] ELSE new[k - Len(s)]
  OBVIOUS
<1>2. r \in [1..Len(all) -> 1..(n + 1)] /\ c \in [1..Len(all) -> Nat]
  BY <1>1 DEF Places
<1>3. ASSUME NEW k \in 1..Len(all)
      PROVE  c[k] \in 1..Len(seqs[r[k]]) /\ all[k] = seqs[r[k]][c[k]]
  <2>1. CASE k <= Len(s)
    <3>1. k \in 1..Len(s) /\ r[k] = row[k] /\ c[k] = col[k] /\ all[k] = s[k]
      BY <1>1, <2>1
    <3> QED
      BY <3>1 DEF Places
  <2>2. CASE ~(k <= Len(s))
    <3>1. /\ k - Len(s) \in 1..Len(new) /\ r[k] = n + 1 /\ c[k] = k - Len(s)
          /\ all[k] = new[k - Len(s)]
      BY <1>1, <2>2
    <3> QED
      BY <3>1
  <2> QED
    BY <2>1, <2>2
<1>4. ASSUME NEW k \in 1..Len(all), NEW l \in 1..Len(all), r[k] = r[l], c[k] = c[l]
      PROVE  k = l
  <2>1. \A x \in 1..Len(all) :
          /\ x <= Len(s) => /\ x \in 1..Len(s) /\ r[x] = row[x] /\ c[x] = col[x]
                            /\ row[x] \in 1..n
          /\ ~(x <= Len(s)) => r[x] = n + 1 /\ c[x] = x - Len(s)
    BY <1>1 DEF Places
  <2> HIDE DEF r, c, all
  <2>2. k <= Len(s) <=> l <= Len(s)
    <3>1. ~(n + 1 \in 1..n)
      OBVIOUS
    <3> QED
      BY <1>4, <2>1, <3>1
  <2>3. CASE k <= Len(s)
    <3>1. /\ k \in 1..Len(s) /\ l \in 1..Len(s)
          /\ row[k] = row[l] /\ col[k] = col[l]
      BY <1>4, <2>1, <2>2, <2>3
    <3>2. \A x, y \in 1..Len(s) : row[x] = row[y] /\ col[x] = col[y] => x = y
      BY DEF Places
    <3> QED
      BY <3>1, <3>2
  <2>4. CASE ~(k <= Len(s))
    <3>1. k - Len(s) = l - Len(s)
      BY <1>4, <2>1, <2>2, <2>4
    <3> QED
      BY <1>1, <3>1
  <2> QED
    BY <2>3, <2>4
<1>5. ASSUME NEW j \in 1..(n + 1), NEW h \in 1..Len(seqs[j])
      PROVE  \E k \in 1..Len(all) : r[k] = j /\ c[k] = h
  <2>1. CASE j = n + 1
    <3>1. Len(s) + h \in 1..Len(all) /\ r[Len(s) + h] = j /\ c[Len(s) + h] = h
      BY <1>1, <2>1
    <3> QED
      BY <3>1
  <2>2. CASE j # n + 1
    <3>1. PICK k \in 1..Len(s) : row[k] = j /\ col[k] = h
      BY <2>2 DEF Places
    <3>2. k \in 1..Len(all) /\ r[k] = j /\ c[k] = h
      BY <1>1, <3>1
    <3> QED
      BY <3>2
  <2> QED
    BY <2>1, <2>2
<1>6. Places(r, c, all, seqs, n + 1)
  <2> HIDE DEF r, c, all
  <2> QED
    BY <1>2, <1>3, <1>4, <1>5 DEF Places
<1> QED
  BY <1>6

\* FlattenSeq puts the elements of sequences, each at its place, into one.
LEMMA FlattenPlaces ==
  ASSUME NEW S, NEW n \in Nat, NEW seqs \in [1..n -> Seq(S)]
  PROVE  /\ FlattenSeq(seqs) \in Seq(S)
         /\ \E row, col : Places(row, col, FlattenSeq(seqs), seqs, n)
<1>1. seqs \in Seq(Seq(S)) /\ Len(seqs) = n
  OBVIOUS
<1>2. CASE n = 0
  <2>1. FlattenSeq(seqs) = <<>>
    BY <1>1, <1>2 DEF FlattenSeq
  <2>2. Places(<<>>, <<>>, <<>>, seqs, n)
    BY <1>2 DEF Places
  <2> QED
    BY <2>1, <2>2
<1>3. CASE n # 0
  <2>1. PICK flat : Flattens(flat, seqs, n) /\ FlattenSeq(seqs) = flat[n]
    BY <1>1, <1>3, FlattenSeqIs
  <2> DEFINE Q == {m \in Nat : m + 1 <= n =>
                     /\ flat[m + 1] \in Seq(S)
                     /\ \E row, col : Places(row, col, flat[m + 1], seqs, m + 1)}
  <2>2. 0 \in Q
    <3>1. flat[1] = seqs[1] /\ seqs[1] = <<>> \o seqs[1] /\ seqs[1] \in Seq(S)
      BY <1>3, <2>1 DEF Flattens
    <3>2. Places(<<>>, <<>>, <<>>, seqs, 0)
      BY DEF Places
    <3>3. <<>> \in Seq(S) /\ seqs[0 + 1] \in Seq(S)
      BY <3>1
    <3>4. \E row, col : Places(row, col, <<>> \o seqs[0 + 1], seqs, 0 + 1)
      BY <3>2, <3>3, PlacesNext, Zenon, 0 \in Nat
    <3> QED
      BY <3>1, <3>4
  <2>3. ASSUME NEW m \in Nat, m \in Q PROVE m + 1 \in Q
    <3> SUFFICES ASSUME m + 2 <= n
                 PROVE  /\ flat[m + 2] \in Seq(S)
                        /\ \E row, col : Places(row, col, flat[m + 2], seqs, m + 2)
      OBVIOUS
    <3>1. /\ flat[m + 2] = flat[m + 1] \o seqs[m + 2]
          /\ m + 1 \in Nat /\ (m + 1) + 1 = m + 2 /\ seqs[m + 2] \in Seq(S)
      <4>1. m + 2 \in 1..n /\ m + 2 # 1 /\ (m + 2) - 1 = m + 1
        OBVIOUS
      <4>2. flat[m + 2] = flat[(m + 2) - 1] \o seqs[m + 2]
        BY <2>1, <4>1 DEF Flattens
      <4> QED
        BY <4>1, <4>2
    <3>2. PICK row, col : Places(row, col, flat[m + 1], seqs, m + 1)
      BY <2>3
    <3>3. flat[m + 1] \in Seq(S)
      BY <2>3
    <3>4. \E r, c : Places(r, c, flat[m + 1] \o seqs[(m + 1) + 1], seqs, (m + 1) + 1)
      BY <3>1, <3>2, <3>3, PlacesNext
    <3> QED
      BY <3>1, <3>3, <3>4
  <2>4. Nat \subseteq Q
    <3> HIDE DEF Q
    <3> QED
      BY <2>2, <2>3, Induction
  <2>5. n - 1 \in Nat /\ (n - 1) + 1 = n
    BY <1>3
  <2>6. n - 1 \in Q
    BY <2>4, <2>5
  <2> QED
    BY <2>1, <2>5, <2>6
<1> QED
  BY <1>2, <1>3

-----------------------------------------------------------------------------
(* Sums. *)

\* sum[j] is the sum of the first j of a, up to the n-th.
Adds(sum, a, n) ==
  sum = [j \in 0..n |-> IF j = 0 THEN 0 ELSE sum[j - 1] + a[j]]

\* The sum of a function over 1..n exists.
LEMMA SumExists ==
  ASSUME NEW a, NEW n \in Nat
  PROVE  \E sum : Adds(sum, a, n)
<1> DEFINE S == {m \in Nat : \E sum : Adds(sum, a, m)}
<1>1. 0 \in S
  <2>1. Adds([j \in 0..0 |-> 0], a, 0)
    BY DEF Adds
  <2> QED
    BY <2>1
<1>2. ASSUME NEW k \in Nat, k \in S PROVE k + 1 \in S
  <2>1. PICK sum : Adds(sum, a, k)
    BY <1>2
  <2> DEFINE longer == [j \in 0..(k + 1) |-> IF j = k + 1 THEN sum[k] + a[j] ELSE sum[j]]
  <2>2. ASSUME NEW j \in 0..(k + 1)
        PROVE  longer[j] = IF j = 0 THEN 0 ELSE longer[j - 1] + a[j]
    <3>1. CASE j = k + 1
      BY <3>1
    <3>2. CASE j # k + 1
      <4>1. j \in 0..k /\ (j # 0 => j - 1 \in 0..k /\ j - 1 # k + 1 /\ j - 1 \in 0..(k + 1))
        BY <3>2
      <4>2. sum[j] = IF j = 0 THEN 0 ELSE sum[j - 1] + a[j]
        BY <2>1, <4>1 DEF Adds
      <4> QED
        BY <3>2, <4>1, <4>2
    <3> QED
      BY <3>1, <3>2
  <2>3. longer = [j \in 0..(k + 1) |-> IF j = 0 THEN 0 ELSE longer[j - 1] + a[j]]
    <3>1. longer = [j \in 0..(k + 1) |-> longer[j]]
      OBVIOUS
    <3> HIDE DEF longer
    <3> QED
      BY <2>2, <3>1
  <2>4. Adds(longer, a, k + 1)
    BY <2>3 DEF Adds
  <2> QED
    BY <2>4
<1>3. Nat \subseteq S
  <2> HIDE DEF S
  <2> QED
    BY <1>1, <1>2, Induction
<1> QED
  BY <1>3

-----------------------------------------------------------------------------
(* Sums over the elements of a set. *)

\* A set of sets that has each set whose smaller subsets it has is all of them.
LEMMA SubsetInduction ==
  ASSUME NEW U, IsFiniteSet(U), NEW G,
         \A s \in SUBSET U : (\A r \in SUBSET s : r # s => r \in G) => s \in G
  PROVE  SUBSET U \subseteq G
<1>0. ASSUME NEW s \in SUBSET U PROVE IsFiniteSet(s) /\ Cardinality(s) \in Nat
  BY FS_Subset, FS_CardinalityType
<1> DEFINE T == {m \in Nat : \A s \in SUBSET U : Cardinality(s) <= m => s \in G}
<1>1. ASSUME NEW s \in SUBSET U, NEW r \in SUBSET s, r # s
      PROVE  Cardinality(r) < Cardinality(s)
  <2>1. IsFiniteSet(s) /\ Cardinality(r) \in Nat /\ Cardinality(s) \in Nat
    BY <1>0, <1>1
  <2>2. Cardinality(r) <= Cardinality(s) /\ Cardinality(r) # Cardinality(s)
    BY <1>1, <2>1, FS_Subset
  <2> QED
    BY <2>1, <2>2
<1>2. 0 \in T
  <2>1. ASSUME NEW s \in SUBSET U, Cardinality(s) <= 0 PROVE s \in G
    <3>1. ASSUME NEW r \in SUBSET s, r # s PROVE FALSE
      <4>1. Cardinality(r) < Cardinality(s) /\ Cardinality(r) \in Nat /\ Cardinality(s) \in Nat
        BY <1>0, <1>1, <3>1
      <4> QED
        BY <2>1, <4>1
    <3> QED
      BY <3>1
  <2> QED
    BY <2>1
<1>3. ASSUME NEW m \in Nat, m \in T PROVE m + 1 \in T
  <2>1. ASSUME NEW s \in SUBSET U, Cardinality(s) <= m + 1 PROVE s \in G
    <3>1. ASSUME NEW r \in SUBSET s, r # s PROVE r \in G
      <4>1. Cardinality(r) < Cardinality(s) /\ Cardinality(r) \in Nat /\ Cardinality(s) \in Nat
        BY <1>0, <1>1, <3>1
      <4>2. Cardinality(r) <= m /\ r \in SUBSET U
        BY <2>1, <4>1
      <4> QED
        BY <1>3, <4>2
    <3> QED
      BY <3>1
  <2> QED
    BY <2>1
<1>4. Nat \subseteq T
  <2> HIDE DEF T
  <2> QED
    BY <1>2, <1>3, Induction
<1> SUFFICES ASSUME NEW s \in SUBSET U PROVE s \in G
  OBVIOUS
<1>5. Cardinality(s) \in T /\ Cardinality(s) \in Nat
  BY <1>0, <1>4
<1> QED
  BY <1>5

SumOver(f, S) == MapThenSumSet(LAMBDA x : f[x], S)

\* sums[s] is the sum of f over s, for the subsets s of S.
Sums(sums, f, S) ==
  sums = [s \in SUBSET S |->
            IF s = {} THEN 0
            ELSE f[CHOOSE x \in s : TRUE] + sums[s \ {CHOOSE x \in s : TRUE}]]

\* The function on sets that the fold of a sum defines exists.
LEMMA SumsExist ==
  ASSUME NEW S, IsFiniteSet(S), NEW f
  PROVE  \E sums : Sums(sums, f, S)
<1> DEFINE Row(g, s) == IF s = {} THEN 0
                        ELSE f[CHOOSE x \in s : TRUE] + g[s \ {CHOOSE x \in s : TRUE}]
           Right(g, m) == \A s \in SUBSET S : Cardinality(s) <= m => g[s] = Row(g, s)
           T == {m \in Nat : \E g : Right(g, m)}
<1>0. ASSUME NEW s \in SUBSET S
      PROVE  /\ IsFiniteSet(s) /\ Cardinality(s) \in Nat /\ Cardinality(s) <= Cardinality(S)
             /\ \A x \in s : Cardinality(s \ {x}) = Cardinality(s) - 1
  BY FS_Subset, FS_CardinalityType, FS_RemoveElement
<1>1. 0 \in T
  <2>1. Right([s \in SUBSET S |-> 0], 0)
    <3>1. ASSUME NEW s \in SUBSET S, Cardinality(s) <= 0 PROVE s = {}
      BY <1>0, <3>1, FS_EmptySet
    <3> QED
      BY <3>1
  <2> QED
    BY <2>1
<1>2. ASSUME NEW m \in Nat, m \in T PROVE m + 1 \in T
  <2>1. PICK g : Right(g, m)
    BY <1>2
  <2> DEFINE h == [s \in SUBSET S |-> Row(g, s)]
  <2>2. ASSUME NEW s \in SUBSET S, Cardinality(s) <= m + 1 PROVE h[s] = Row(h, s)
    <3>1. CASE s = {}
      BY <3>1
    <3>2. CASE s # {}
      <4>1. PICK x : x = CHOOSE y \in s : TRUE
        OBVIOUS
      <4>2. x \in s /\ s \ {x} \in SUBSET S
        BY <3>2, <4>1
      <4>3. Cardinality(s \ {x}) <= m
        <5>1. Cardinality(s \ {x}) = Cardinality(s) - 1 /\ Cardinality(s) \in Nat
          BY <1>0, <4>2
        <5> QED
          BY <2>2, <5>1
      <4>4. g[s \ {x}] = h[s \ {x}]
        BY <2>1, <4>2, <4>3
      <4>5. h[s] = f[x] + g[s \ {x}] /\ Row(h, s) = f[x] + h[s \ {x}]
        <5> HIDE DEF h
        <5>1. h[s] = Row(g, s)
          BY DEF h
        <5> QED
          BY <3>2, <4>1, <5>1
      <4> QED
        BY <4>4, <4>5
    <3> QED
      BY <3>1, <3>2
  <2>3. Right(h, m + 1)
    <3> HIDE DEF h
    <3> QED
      BY <2>2
  <2>4. m + 1 \in Nat /\ \E r : Right(r, m + 1)
    <3> HIDE DEF h, Right
    <3> QED
      BY <2>3
  <2> QED
    BY <2>4
<1>3. Nat \subseteq T
  <2> HIDE DEF T
  <2> QED
    BY <1>1, <1>2, Induction
<1>4. Cardinality(S) \in Nat
  BY FS_CardinalityType
<1>5. PICK g : Right(g, Cardinality(S))
  BY <1>3, <1>4
<1> DEFINE sums == [s \in SUBSET S |-> g[s]]
<1>6. ASSUME NEW s \in SUBSET S PROVE g[s] = Row(sums, s)
  <2>1. g[s] = Row(g, s)
    BY <1>0, <1>5
  <2>2. s # {} => g[s \ {CHOOSE x \in s : TRUE}] = sums[s \ {CHOOSE x \in s : TRUE}]
    OBVIOUS
  <2> QED
    BY <2>1, <2>2
<1>7. sums = [s \in SUBSET S |-> Row(sums, s)]
  <2> QED
    BY <1>6
<1> QED
  <2> HIDE DEF sums
  <2> QED
    BY <1>7 DEF Sums

\* The fold over a set is that function's value.
LEMMA SumSetIs ==
  ASSUME NEW S, IsFiniteSet(S), NEW f
  PROVE  \E sums : Sums(sums, f, S) /\ SumOver(f, S) = sums[S]
<1>1. \E sums : Sums(sums, f, S)
  BY SumsExist
<1> QED
  BY <1>1 DEF SumOver, MapThenSumSet, MapThenFoldSet, Sums

\* There is one such function.
LEMMA SumsUnique ==
  ASSUME NEW S, IsFiniteSet(S), NEW f, NEW a, Sums(a, f, S), NEW b, Sums(b, f, S)
  PROVE  a[S] = b[S]
<1> DEFINE G == {s \in SUBSET S : a[s] = b[s]}
<1>1. ASSUME NEW s \in SUBSET S, \A r \in SUBSET s : r # s => r \in G PROVE s \in G
  <2>1. CASE s = {}
    BY <2>1 DEF Sums
  <2>2. CASE s # {}
    <3>1. PICK c \in s : /\ a[s] = f[c] + a[s \ {c}]
                         /\ b[s] = f[c] + b[s \ {c}]
      BY <2>2 DEF Sums
    <3>2. s \ {c} \in G
      BY <1>1
    <3> QED
      BY <3>1, <3>2
  <2> QED
    BY <2>1, <2>2
<1>2. SUBSET S \subseteq G
  <2> HIDE DEF G
  <2> QED
    BY <1>1, SubsetInduction
<1> QED
  BY <1>2

\* A sum over a set does not depend on the order in which it is taken: total
\* is that sum, for every subset of U.
TotalOf(total, f, U) ==
  /\ total \in [SUBSET U -> Nat]
  /\ total[{}] = 0
  /\ \A s \in SUBSET U : \A x \in s : total[s] = f[x] + total[s \ {x}]
  /\ \A s \in SUBSET U : SumOver(f, s) = total[s]

\* A sum over a set, whatever element is added first.
LEMMA SumOverSet ==
  ASSUME NEW U, IsFiniteSet(U), NEW f \in [U -> Nat]
  PROVE  \E total : TotalOf(total, f, U)
<1>1. PICK total : Sums(total, f, U)
  BY SumsExist
<1>2. ASSUME NEW s \in SUBSET U, s # {}
      PROVE  \E c \in s : total[s] = f[c] + total[s \ {c}]
  BY <1>1, <1>2 DEF Sums
<1>3. total[{}] = 0 /\ DOMAIN total = SUBSET U /\ total = [s \in SUBSET U |-> total[s]]
  BY <1>1 DEF Sums
<1> DEFINE G == {s \in SUBSET U : /\ total[s] \in Nat
                                  /\ \A x \in s : total[s] = f[x] + total[s \ {x}]}
<1>4. SUBSET U \subseteq G
  <2>1. ASSUME NEW s \in SUBSET U, \A r \in SUBSET s : r # s => r \in G PROVE s \in G
    <3>1. CASE s = {}
      BY <1>3, <3>1
    <3>2. CASE s # {}
      <4>1. PICK c \in s : total[s] = f[c] + total[s \ {c}]
        BY <1>2, <3>2
      <4>2. \A x \in s : s \ {x} \in G
        BY <2>1
      <4>3. total[s] \in Nat
        <5>1. f[c] \in Nat /\ total[s \ {c}] \in Nat
          BY <4>2
        <5> QED
          BY <4>1, <5>1
      <4>4. ASSUME NEW x \in s, x # c PROVE total[s] = f[x] + total[s \ {x}]
        <5>1. PICK r : r = s \ {c, x}
          OBVIOUS
        <5>2. r = (s \ {c}) \ {x} /\ r = (s \ {x}) \ {c} /\ r \in G
          BY <2>1, <5>1
        <5>3. total[s \ {c}] = f[x] + total[r] /\ total[s \ {x}] = f[c] + total[r]
          BY <4>2, <4>4, <5>2
        <5>4. total[r] \in Nat /\ f[x] \in Nat /\ f[c] \in Nat
          BY <5>2
        <5> QED
          BY <4>1, <5>3, <5>4
      <4> QED
        BY <4>1, <4>3, <4>4
    <3> QED
      BY <3>1, <3>2
  <2> HIDE DEF G
  <2> QED
    BY <2>1, SubsetInduction
<1>5. total \in [SUBSET U -> Nat]
  BY <1>3, <1>4
<1>6. ASSUME NEW s \in SUBSET U PROVE SumOver(f, s) = total[s]
  <2>1. IsFiniteSet(s)
    BY FS_Subset
  <2>2. PICK sums : Sums(sums, f, s) /\ SumOver(f, s) = sums[s]
    BY <2>1, SumSetIs
  <2> DEFINE H == {r \in SUBSET s : sums[r] = total[r]}
  <2>3. ASSUME NEW r \in SUBSET s, \A q \in SUBSET r : q # r => q \in H PROVE r \in H
    <3>1. CASE r = {}
      BY <1>3, <2>2, <3>1 DEF Sums
    <3>2. CASE r # {}
      <4>1. PICK c \in r : sums[r] = f[c] + sums[r \ {c}]
        BY <2>2, <3>2 DEF Sums
      <4>2. r \ {c} \in H /\ r \in SUBSET U
        BY <2>3
      <4>3. total[r] = f[c] + total[r \ {c}]
        BY <1>4, <4>2
      <4> QED
        BY <4>1, <4>2, <4>3
    <3> QED
      BY <3>1, <3>2
  <2>4. SUBSET s \subseteq H
    <3> HIDE DEF H
    <3> QED
      BY <2>1, <2>3, SubsetInduction
  <2> QED
    BY <2>2, <2>4
<1> QED
  BY <1>3, <1>4, <1>5, <1>6 DEF TotalOf

\* A sum over a set is that without an element and the element's.
LEMMA SumWith ==
  ASSUME NEW U, IsFiniteSet(U), NEW f \in [U -> Nat], NEW s \in SUBSET U
  PROVE  /\ SumOver(f, s) \in Nat /\ SumOver(f, {}) = 0
         /\ \A x \in s : SumOver(f, s) = f[x] + SumOver(f, s \ {x})
<1>1. PICK total : TotalOf(total, f, U)
  BY SumOverSet
<1>2. {} \in SUBSET U /\ \A x \in s : s \ {x} \in SUBSET U
  OBVIOUS
<1> QED
  BY <1>1, <1>2 DEF TotalOf

\* Functions that agree on a set have the same sum over it.
LEMMA SumSame ==
  ASSUME NEW U, IsFiniteSet(U), NEW f \in [U -> Nat], NEW g \in [U -> Nat],
         NEW s \in SUBSET U, \A x \in s : f[x] = g[x]
  PROVE  SumOver(f, s) = SumOver(g, s)
<1> DEFINE G == {r \in SUBSET s : SumOver(f, r) = SumOver(g, r)}
<1>1. ASSUME NEW r \in SUBSET s, \A q \in SUBSET r : q # r => q \in G PROVE r \in G
  <2>0. r \in SUBSET U
    OBVIOUS
  <2>1. CASE r = {}
    <3>1. SumOver(f, {}) = 0 /\ SumOver(g, {}) = 0
      BY <2>0, SumWith
    <3> QED
      BY <2>1, <3>1
  <2>2. CASE r # {}
    <3>1. PICK x : x \in r
      BY <2>2
    <3>2. /\ SumOver(f, r) = f[x] + SumOver(f, r \ {x})
          /\ SumOver(g, r) = g[x] + SumOver(g, r \ {x})
      BY <2>0, <3>1, SumWith
    <3>3. r \ {x} \in G
      BY <1>1, <3>1
    <3> QED
      BY <3>1, <3>2, <3>3
  <2> QED
    BY <2>1, <2>2
<1>2. IsFiniteSet(s)
  BY FS_Subset
<1>3. SUBSET s \subseteq G
  <2> HIDE DEF G
  <2> QED
    BY <1>1, <1>2, SubsetInduction
<1> QED
  BY <1>3

\* A sum over two sets that do not meet is that over each, added.
LEMMA SumJoined ==
  ASSUME NEW U, IsFiniteSet(U), NEW f \in [U -> Nat],
         NEW s \in SUBSET U, NEW r \in SUBSET U, s \cap r = {}
  PROVE  SumOver(f, s \cup r) = SumOver(f, s) + SumOver(f, r)
<1> DEFINE G == {q \in SUBSET r : SumOver(f, s \cup q) = SumOver(f, s) + SumOver(f, q)}
<1>1. ASSUME NEW q \in SUBSET r, \A p \in SUBSET q : p # q => p \in G PROVE q \in G
  <2>0. q \in SUBSET U /\ s \cup q \in SUBSET U
    OBVIOUS
  <2>1. CASE q = {}
    <3>1. SumOver(f, {}) = 0 /\ SumOver(f, s) \in Nat
      BY SumWith
    <3>2. s \cup q = s /\ SumOver(f, s) + 0 = SumOver(f, s)
      BY <2>1, <3>1
    <3> QED
      BY <2>1, <3>1, <3>2
  <2>2. CASE q # {}
    <3>1. PICK x : x \in q
      BY <2>2
    <3>2. PICK p : p = q \ {x}
      OBVIOUS
    <3>3. (s \cup q) \ {x} = s \cup p /\ p \in G /\ p \in SUBSET U /\ x \in s \cup q
      BY <1>1, <3>1, <3>2
    <3>4. SumOver(f, q) = f[x] + SumOver(f, p)
      BY <2>0, <3>1, <3>2, SumWith
    <3>5. SumOver(f, s \cup q) = f[x] + SumOver(f, (s \cup q) \ {x})
      BY <2>0, <3>3, SumWith
    <3>6. f[x] \in Nat /\ SumOver(f, s) \in Nat /\ SumOver(f, p) \in Nat
      BY <3>1, <3>3, SumWith
    <3>7. SumOver(f, s \cup p) = SumOver(f, s) + SumOver(f, p)
      BY <3>3
    <3>8. SumOver(f, s \cup q) = f[x] + (SumOver(f, s) + SumOver(f, p))
      BY <3>3, <3>5, <3>7
    <3>9. SumOver(f, s \cup q) = SumOver(f, s) + SumOver(f, q)
      BY <3>4, <3>6, <3>8
    <3> QED
      BY <3>9
  <2> QED
    BY <2>1, <2>2
<1>2. IsFiniteSet(r)
  BY FS_Subset
<1>3. SUBSET r \subseteq G
  <2> HIDE DEF G
  <2> QED
    BY <1>1, <1>2, SubsetInduction
<1> QED
  BY <1>3

\* A sum over a bigger set is not smaller.
LEMMA SumMore ==
  ASSUME NEW U, IsFiniteSet(U), NEW f \in [U -> Nat],
         NEW r \in SUBSET U, NEW s \in SUBSET r
  PROVE  SumOver(f, s) <= SumOver(f, r)
<1>1. PICK q : q = r \ s
  OBVIOUS
<1>2. s \in SUBSET U /\ q \in SUBSET U /\ s \cap q = {} /\ s \cup q = r
  BY <1>1
<1>3. SumOver(f, s \cup q) = SumOver(f, s) + SumOver(f, q)
  BY <1>2, SumJoined
<1>4. SumOver(f, s) \in Nat /\ SumOver(f, q) \in Nat
  BY <1>2, SumWith
<1>5. SumOver(f, r) = SumOver(f, s) + SumOver(f, q)
  BY <1>2, <1>3
<1> QED
  BY <1>4, <1>5
=============================================================================
