--------------------------- MODULE Search_proofs ----------------------------
(***************************************************************************)
(* Proofs about Search: what a search can be relied on for, whatever the   *)
(* index, the query, the number of nodes and the two limits.               *)
(***************************************************************************)
EXTENDS Search, Inductions

Distinct(s) == \A j, k \in DOMAIN s : s[j][1] = s[k][1] => j = k

SetOf(s) == {s[j] : j \in DOMAIN s}

-----------------------------------------------------------------------------
(* The operators on result lists. *)

\* Where the elements of a list go when each is inserted after the first.
LEMMA SecondPlaceAt ==
  ASSUME NEW S, NEW s \in Seq(S)
  PROVE  /\ SecondPlace(s) \in Seq(S)
         /\ Len(SecondPlace(s)) = Len(s)
         /\ \A k \in 1..Len(s) :
              SecondPlace(s)[k] = s[IF k = 1 THEN 1 ELSE Len(s) + 2 - k]
<1>1. CASE s = <<>>
  BY <1>1 DEF SecondPlace
<1>2. CASE s # <<>>
  <2> DEFINE rest == Reverse(Tail(s))
  <2>1. /\ Len(s) \in Nat \ {0} /\ Head(s) = s[1] /\ Head(s) \in S
        /\ Tail(s) \in Seq(S) /\ Len(Tail(s)) = Len(s) - 1
        /\ \A k \in 1..(Len(s) - 1) : Tail(s)[k] = s[k + 1]
    BY <1>2
  <2>2. /\ rest \in Seq(S) /\ Len(rest) = Len(s) - 1
        /\ \A k \in 1..(Len(s) - 1) : rest[k] = s[Len(s) - k + 1]
    <3>1. rest = [k \in 1..(Len(s) - 1) |-> Tail(s)[(Len(s) - 1 - k) + 1]]
      BY <2>1 DEF Reverse
    <3>2. \A k \in 1..(Len(s) - 1) : /\ (Len(s) - 1 - k) + 1 \in 1..(Len(s) - 1)
                                     /\ ((Len(s) - 1 - k) + 1) + 1 = Len(s) - k + 1
                                     /\ Len(s) - k + 1 \in 1..Len(s)
      BY <2>1
    <3>3. \A k \in 1..(Len(s) - 1) : rest[k] = s[Len(s) - k + 1] /\ rest[k] \in S
      BY <2>1, <3>1, <3>2
    <3>4. rest \in [1..(Len(s) - 1) -> S] /\ Len(s) - 1 \in Nat
      BY <2>1, <3>1, <3>3, SMTT(30)
    <3> QED
      BY <3>3, <3>4
  <2>3. SecondPlace(s) = <<s[1]>> \o rest
    BY <1>2, <2>1 DEF SecondPlace
  <2> HIDE DEF rest
  <2>4. /\ SecondPlace(s) \in Seq(S) /\ Len(SecondPlace(s)) = Len(s)
        /\ \A k \in 1..Len(s) :
             SecondPlace(s)[k] = IF k = 1 THEN s[1] ELSE rest[k - 1]
    <3>1. s[1] \in S /\ rest \in Seq(S) /\ Len(rest) + 1 = Len(s)
      BY <2>1, <2>2
    <3>2. /\ <<s[1]>> \o rest \in Seq(S) /\ Len(<<s[1]>> \o rest) = Len(rest) + 1
          /\ \A k \in 1..(Len(rest) + 1) :
               (<<s[1]>> \o rest)[k] = IF k = 1 THEN s[1] ELSE rest[k - 1]
      BY <3>1, InFront
    <3> QED
      BY <2>3, <3>1, <3>2
  <2>5. ASSUME NEW k \in 1..Len(s), k # 1
        PROVE  SecondPlace(s)[k] = s[Len(s) + 2 - k]
    <3>1. k - 1 \in 1..(Len(s) - 1) /\ Len(s) - (k - 1) + 1 = Len(s) + 2 - k
      BY <2>1, <2>5
    <3> QED
      BY <2>2, <2>4, <2>5, <3>1
  <2> QED
    BY <2>4, <2>5
<1> QED
  BY <1>1, <1>2

\* An insertion after the first element reorders, and loses or repeats nothing.
LEMMA SecondPlaceKeeps ==
  ASSUME NEW S, NEW s \in Seq(S)
  PROVE  /\ SetOf(SecondPlace(s)) = SetOf(s)
         /\ DocsOf(SecondPlace(s)) = DocsOf(s)
         /\ Distinct(s) => Distinct(SecondPlace(s))
<1> DEFINE t == SecondPlace(s)
           At(k) == IF k = 1 THEN 1 ELSE Len(s) + 2 - k
<1>1. /\ DOMAIN s = 1..Len(s) /\ DOMAIN t = 1..Len(s)
      /\ \A k \in 1..Len(s) : t[k] = s[At(k)]
  BY SecondPlaceAt
<1>2. Len(s) \in Nat
  OBVIOUS
<1> HIDE DEF t
<1>3. \A k \in 1..Len(s) : At(k) \in 1..Len(s) /\ At(At(k)) = k
  BY <1>2
<1>4. \A j, k \in 1..Len(s) : At(j) = At(k) => j = k
  BY <1>3
<1> HIDE DEF At
<1>5. SetOf(t) = SetOf(s) /\ DocsOf(t) = DocsOf(s)
  BY <1>1, <1>3 DEF SetOf, DocsOf
<1>6. ASSUME Distinct(s) PROVE Distinct(t)
  BY <1>1, <1>3, <1>4, <1>6 DEF Distinct
<1> QED
  BY <1>5, <1>6 DEF t

\* What combine_query_rsl finds for the j-th result of the list it walks along.
Found(r, j, other) ==
  FlattenSeq([h \in DOMAIN other |->
    IF r[j][1] = other[h][1] THEN <<<<r[j][1], r[j][2] + other[h][2]>>>> ELSE <<>>])

Made(r, j, other, h) == <<r[j][1], r[j][2] + other[h][2]>>

\* at[m] is where the m-th of those results comes from.
FoundAt(at, r, j, other) ==
  /\ \A m \in 1..Len(Found(r, j, other)) :
       /\ at[m] \in 1..Len(other) /\ r[j][1] = other[at[m]][1]
       /\ Found(r, j, other)[m] = Made(r, j, other, at[m])
  /\ \A l, m \in 1..Len(Found(r, j, other)) : at[l] = at[m] => l = m
  /\ \A h \in 1..Len(other) :
       r[j][1] = other[h][1] => \E m \in 1..Len(Found(r, j, other)) : at[m] = h

\* The pairs of one element of a list with another list: their number, and
\* which they are.
LEMMA FoundPairs ==
  ASSUME NEW r \in Seq(Result), NEW other \in Seq(Result), NEW j \in 1..Len(r)
  PROVE  /\ Found(r, j, other) \in Seq(Result)
         /\ \E at : FoundAt(at, r, j, other)
<1> DEFINE cell == [h \in DOMAIN other |->
                      IF r[j][1] = other[h][1]
                      THEN <<<<r[j][1], r[j][2] + other[h][2]>>>> ELSE <<>>]
           all == FlattenSeq(cell)
<1>1. /\ all = Found(r, j, other)
      /\ Len(other) \in Nat /\ DOMAIN other = 1..Len(other) /\ DOMAIN cell = 1..Len(other)
  BY DEF Found
<1>2. ASSUME NEW h \in 1..Len(other)
      PROVE  /\ Made(r, j, other, h) \in Result
             /\ cell[h] = IF r[j][1] = other[h][1] THEN <<Made(r, j, other, h)>> ELSE <<>>
  <2>1. r[j] \in Result /\ other[h] \in Result
    BY <1>1
  <2>2. r[j][1] \in Doc /\ r[j][2] + other[h][2] \in Nat \ {0}
    BY <2>1 DEF Result
  <2> QED
    BY <1>1, <2>2 DEF Result, Made
<1>3. cell \in [1..Len(other) -> Seq(Result)]
  <2>1. ASSUME NEW h \in 1..Len(other) PROVE cell[h] \in Seq(Result)
    <3> HIDE DEF cell
    <3>1. Made(r, j, other, h) \in Result
      BY <1>2
    <3>2. <<Made(r, j, other, h)>> \in Seq(Result) /\ <<>> \in Seq(Result)
      BY <3>1
    <3> QED
      BY <1>2, <3>2, Zenon
  <2>2. cell = [h \in DOMAIN other |-> cell[h]]
    OBVIOUS
  <2> HIDE DEF cell
  <2> QED
    BY <1>1, <2>1, <2>2
<1> HIDE DEF cell, all
<1>4. all \in Seq(Result) /\ \E row, col : Places(row, col, all, cell, Len(other))
  BY <1>1, <1>3, FlattenPlaces DEF all
<1>5. PICK row, col : Places(row, col, all, cell, Len(other))
  BY <1>4
<1>6. ASSUME NEW m \in 1..Len(all)
      PROVE  /\ row[m] \in 1..Len(other) /\ r[j][1] = other[row[m]][1]
             /\ all[m] = Made(r, j, other, row[m]) /\ col[m] = 1
  <2>1. row[m] \in 1..Len(other) /\ col[m] \in 1..Len(cell[row[m]])
        /\ all[m] = cell[row[m]][col[m]]
    BY <1>5 DEF Places
  <2>2. CASE r[j][1] = other[row[m]][1]
    <3>1. cell[row[m]] = <<Made(r, j, other, row[m])>>
      BY <1>2, <2>1, <2>2
    <3>2. col[m] = 1 /\ all[m] = Made(r, j, other, row[m])
      BY <2>1, <3>1
    <3> QED
      BY <2>1, <2>2, <3>2
  <2>3. CASE r[j][1] # other[row[m]][1]
    <3>1. cell[row[m]] = <<>>
      BY <1>2, <2>1, <2>3
    <3> QED
      BY <2>1, <3>1
  <2> QED
    BY <2>2, <2>3
<1>7. \A l, m \in 1..Len(all) : row[l] = row[m] => l = m
  BY <1>5, <1>6 DEF Places
<1>8. ASSUME NEW h \in 1..Len(other), r[j][1] = other[h][1]
      PROVE  \E m \in 1..Len(all) : row[m] = h
  <2>1. 1 \in 1..Len(cell[h])
    <3>1. cell[h] = <<Made(r, j, other, h)>>
      BY <1>2, <1>8
    <3> QED
      BY <3>1
  <2> QED
    BY <1>5, <2>1 DEF Places
<1>9. FoundAt(row, r, j, other)
  BY <1>1, <1>6, <1>7, <1>8 DEF FoundAt
<1> QED
  BY <1>1, <1>4, <1>9

\* a[k] and b[k] are where combine_query_rsl's k-th result comes from.
PairsAt(a, b, r, other) ==
  /\ \A k \in 1..Len(SameDoc(r, other)) :
       /\ a[k] \in 1..Len(r) /\ b[k] \in 1..Len(other)
       /\ r[a[k]][1] = other[b[k]][1]
       /\ SameDoc(r, other)[k] = Made(r, a[k], other, b[k])
  /\ \A k, l \in 1..Len(SameDoc(r, other)) : a[k] = a[l] /\ b[k] = b[l] => k = l
  /\ \A j \in 1..Len(r) : \A h \in 1..Len(other) :
       r[j][1] = other[h][1]
         => \E k \in 1..Len(SameDoc(r, other)) : a[k] = j /\ b[k] = h

\* combine_query_rsl's two loops: its results are the pairs of results that
\* name the same document, each pair once.
LEMMA SameDocPairs ==
  ASSUME NEW r \in Seq(Result), NEW other \in Seq(Result)
  PROVE  /\ SameDoc(r, other) \in Seq(Result)
         /\ \E a, b : PairsAt(a, b, r, other)
<1> DEFINE rows == [j \in DOMAIN r |-> Found(r, j, other)]
           all == FlattenSeq(rows)
<1>1. all = SameDoc(r, other)
  BY DEF SameDoc, Found
<1>2. Len(r) \in Nat /\ rows \in [1..Len(r) -> Seq(Result)]
  BY FoundPairs
<1>3. \A j \in 1..Len(r) : rows[j] = Found(r, j, other)
  OBVIOUS
<1> HIDE DEF rows, all
<1>4. all \in Seq(Result) /\ \E row, col : Places(row, col, all, rows, Len(r))
  BY <1>2, FlattenPlaces DEF all
<1>5. PICK a, col : Places(a, col, all, rows, Len(r))
  BY <1>4
<1> DEFINE At(j) == CHOOSE at : FoundAt(at, r, j, other)
           b == [k \in 1..Len(all) |-> At(a[k])[col[k]]]
<1>6. \A j \in 1..Len(r) : FoundAt(At(j), r, j, other)
  BY FoundPairs
<1>7. \A k \in 1..Len(all) : b[k] = At(a[k])[col[k]]
  OBVIOUS
<1> HIDE DEF At, b
<1>8. ASSUME NEW k \in 1..Len(all)
      PROVE  /\ a[k] \in 1..Len(r) /\ col[k] \in 1..Len(Found(r, a[k], other))
             /\ b[k] \in 1..Len(other) /\ r[a[k]][1] = other[b[k]][1]
             /\ all[k] = Made(r, a[k], other, b[k])
  <2>1. /\ a[k] \in 1..Len(r) /\ col[k] \in 1..Len(rows[a[k]])
        /\ all[k] = rows[a[k]][col[k]]
    BY <1>5 DEF Places
  <2>2. rows[a[k]] = Found(r, a[k], other)
    BY <1>3, <2>1
  <2>3. FoundAt(At(a[k]), r, a[k], other)
    BY <1>6, <2>1
  <2>4. col[k] \in 1..Len(Found(r, a[k], other)) /\ all[k] = Found(r, a[k], other)[col[k]]
    BY <2>1, <2>2
  <2>5. b[k] = At(a[k])[col[k]]
    BY <1>7
  <2> QED
    BY <2>1, <2>3, <2>4, <2>5 DEF FoundAt
<1>9. ASSUME NEW k \in 1..Len(all), NEW l \in 1..Len(all), a[k] = a[l], b[k] = b[l]
      PROVE  k = l
  <2>1. At(a[k])[col[k]] = At(a[k])[col[l]]
    BY <1>7, <1>9
  <2>2. col[k] = col[l]
    BY <1>6, <1>8, <1>9, <2>1 DEF FoundAt
  <2> QED
    BY <1>5, <1>9, <2>2 DEF Places
<1>10. ASSUME NEW j \in 1..Len(r), NEW h \in 1..Len(other), r[j][1] = other[h][1]
       PROVE  \E k \in 1..Len(all) : a[k] = j /\ b[k] = h
  <2>1. PICK m \in 1..Len(Found(r, j, other)) : At(j)[m] = h
    BY <1>6, <1>10 DEF FoundAt
  <2>2. PICK k \in 1..Len(all) : a[k] = j /\ col[k] = m
    BY <1>3, <1>5, <2>1 DEF Places
  <2> QED
    BY <1>7, <2>1, <2>2
<1>11. PairsAt(a, b, r, other)
  BY <1>1, <1>8, <1>9, <1>10 DEF PairsAt
<1> QED
  BY <1>1, <1>4, <1>11

-----------------------------------------------------------------------------
(* combine_query_rsl. *)

\* Whatever combine_query_rsl chooses, it is one of its two lists.
LEMMA OtherListIs ==
  ASSUME NEW r, NEW ra PROVE OtherList(r, ra) \in {r, ra}
BY DEF OtherList

\* The results that two results for one document make.
Joins(s, t) ==
  {u \in Result : \E x \in SetOf(s), y \in SetOf(t) :
                    x[1] = y[1] /\ u = <<x[1], x[2] + y[2]>>}

\* What two lists have in common is kept, as the walk along the first finds it;
\* and no document comes twice.
LEMMA PairsKept ==
  ASSUME NEW r \in Seq(Result), NEW other \in Seq(Result)
  PROVE  /\ SetOf(SameDoc(r, other)) = Joins(r, other)
         /\ DocsOf(SameDoc(r, other)) = DocsOf(r) \cap DocsOf(other)
         /\ Distinct(r) /\ Distinct(other) =>
              /\ Distinct(SameDoc(r, other))
              /\ Len(SameDoc(r, other)) <= Len(r)
<1> DEFINE sd == SameDoc(r, other)
<1>1. /\ sd \in Seq(Result) /\ Len(sd) \in Nat /\ Len(r) \in Nat
      /\ DOMAIN sd = 1..Len(sd) /\ DOMAIN r = 1..Len(r) /\ DOMAIN other = 1..Len(other)
  BY SameDocPairs
<1>2. PICK a, b : PairsAt(a, b, r, other)
  BY SameDocPairs
<1> HIDE DEF sd
<1>3. \A k \in 1..Len(sd) :
        /\ a[k] \in 1..Len(r) /\ b[k] \in 1..Len(other) /\ r[a[k]][1] = other[b[k]][1]
        /\ sd[k] = <<r[a[k]][1], r[a[k]][2] + other[b[k]][2]>>
  BY <1>2 DEF PairsAt, Made, sd
<1>4. \A j \in 1..Len(r), h \in 1..Len(other) :
        r[j][1] = other[h][1] => \E k \in 1..Len(sd) : a[k] = j /\ b[k] = h
  BY <1>2 DEF PairsAt, sd
<1>5. \A k, l \in 1..Len(sd) : a[k] = a[l] /\ b[k] = b[l] => k = l
  BY <1>2 DEF PairsAt, sd
<1>6. SetOf(sd) = Joins(r, other)
  <2>1. ASSUME NEW u \in SetOf(sd) PROVE u \in Joins(r, other)
    <3>1. PICK k \in 1..Len(sd) : u = sd[k]
      BY <1>1, <2>1 DEF SetOf
    <3>2. r[a[k]] \in SetOf(r) /\ other[b[k]] \in SetOf(other) /\ u \in Result
      BY <1>1, <1>3, <3>1 DEF SetOf
    <3> QED
      BY <1>3, <3>1, <3>2 DEF Joins
  <2>2. ASSUME NEW u \in Joins(r, other) PROVE u \in SetOf(sd)
    <3>1. PICK j \in 1..Len(r), h \in 1..Len(other) :
            r[j][1] = other[h][1] /\ u = <<r[j][1], r[j][2] + other[h][2]>>
      BY <1>1, <2>2 DEF Joins, SetOf
    <3>2. PICK k \in 1..Len(sd) : a[k] = j /\ b[k] = h
      BY <1>4, <3>1
    <3>3. u = sd[k]
      BY <1>3, <3>1, <3>2
    <3> QED
      BY <1>1, <3>3 DEF SetOf
  <2> QED
    BY <2>1, <2>2
<1>7. DocsOf(sd) = DocsOf(r) \cap DocsOf(other)
  <2>1. \A k \in 1..Len(sd) : sd[k][1] = r[a[k]][1] /\ sd[k][1] = other[b[k]][1]
    BY <1>3
  <2>2. DocsOf(sd) \subseteq DocsOf(r) \cap DocsOf(other)
    BY <1>1, <1>3, <2>1 DEF DocsOf
  <2>3. ASSUME NEW d \in DocsOf(r) \cap DocsOf(other) PROVE d \in DocsOf(sd)
    <3>1. PICK j \in 1..Len(r) : d = r[j][1]
      BY <1>1, <2>3 DEF DocsOf
    <3>2. PICK h \in 1..Len(other) : d = other[h][1]
      BY <1>1, <2>3 DEF DocsOf
    <3>3. PICK k \in 1..Len(sd) : a[k] = j /\ b[k] = h
      <4>1. r[j][1] = other[h][1]
        BY <3>1, <3>2
      <4> QED
        BY <1>4, <4>1
    <3> QED
      BY <1>1, <2>1, <3>1, <3>3 DEF DocsOf
  <2> QED
    BY <2>2, <2>3
<1>8. ASSUME Distinct(r), Distinct(other)
      PROVE  Distinct(sd) /\ Len(sd) <= Len(r)
  <2>1. \A k, l \in 1..Len(sd) : a[k] = a[l] => k = l
    <3> SUFFICES ASSUME NEW k \in 1..Len(sd), NEW l \in 1..Len(sd), a[k] = a[l]
                 PROVE  k = l
      OBVIOUS
    <3>1. other[b[k]][1] = other[b[l]][1]
      BY <1>3
    <3>2. b[k] = b[l]
      BY <1>1, <1>3, <1>8, <3>1 DEF Distinct
    <3> QED
      BY <1>5, <3>2
  <2>2. Distinct(sd)
    <3> SUFFICES ASSUME NEW k \in 1..Len(sd), NEW l \in 1..Len(sd), sd[k][1] = sd[l][1]
                 PROVE  k = l
      BY <1>1 DEF Distinct
    <3>1. r[a[k]][1] = r[a[l]][1]
      BY <1>3
    <3>2. a[k] = a[l]
      BY <1>1, <1>3, <1>8, <3>1 DEF Distinct
    <3> QED
      BY <2>1, <3>2
  <2>3. Len(sd) <= Len(r)
    <3> DEFINE f == [k \in 1..Len(sd) |-> a[k]]
    <3>1. f \in Injection(1..Len(sd), 1..Len(r))
      BY <1>3, <2>1 DEF Injection, IsInjective
    <3>2. IsFiniteSet(1..Len(r)) /\ Cardinality(1..Len(r)) = Len(r)
          /\ Cardinality(1..Len(sd)) = Len(sd)
      <4>1. \A m \in Nat : IsFiniteSet(1..m) /\ Cardinality(1..m) = m
        <5>1. ASSUME NEW m \in Nat
              PROVE  IsFiniteSet(1..m) /\ Cardinality(1..m) = IF 1 > m THEN 0 ELSE m - 1 + 1
          BY FS_Interval, m \in Int, 1 \in Int
        <5> QED
          BY <5>1
      <4> QED
        BY <1>1, <4>1
    <3>3. Cardinality(1..Len(sd)) <= Cardinality(1..Len(r))
      <4> HIDE DEF f
      <4> QED
        BY <3>1, <3>2, FS_Injection
    <3> QED
      BY <3>2, <3>3
  <2> QED
    BY <2>2, <2>3
<1> QED
  BY <1>6, <1>7, <1>8 DEF sd

\* A search finds what the lists have in common, and nothing that the first has
\* not; which weight it gets depends on which of them is longer.
LEMMA CombineKeeps ==
  ASSUME NEW r \in Seq(Result), NEW ra \in Seq(Result)
  PROVE  /\ CombineQueryRsl(r, ra) \in Seq(Result)
         /\ DocsOf(CombineQueryRsl(r, ra)) \subseteq DocsOf(r)
         /\ DocsOf(r) \cap DocsOf(ra) \subseteq DocsOf(CombineQueryRsl(r, ra))
         /\ Distinct(r) /\ Distinct(ra) =>
              /\ Distinct(CombineQueryRsl(r, ra))
              /\ Len(CombineQueryRsl(r, ra)) <= Len(r)
         /\ Len(r) < Len(ra) => SetOf(CombineQueryRsl(r, ra)) = Joins(r, ra)
<1> DEFINE other == OtherList(r, ra)
           sd == SameDoc(r, other)
           c == CombineQueryRsl(r, ra)
<1>1. other \in {r, ra} /\ (Len(r) < Len(ra) => other = ra)
  BY DEF OtherList
<1>2. CASE r = <<>> \/ ra = <<>>
  <2>1. c = <<>> /\ DOMAIN <<>> = {} /\ <<>> \in Seq(Result) /\ Len(<<>>) = 0
    BY <1>2 DEF CombineQueryRsl
  <2>2. DocsOf(c) = {} /\ SetOf(c) = {} /\ Distinct(c) /\ Len(c) <= Len(r)
    BY <2>1 DEF DocsOf, SetOf, Distinct
  <2>3. DocsOf(r) \cap DocsOf(ra) = {} /\ Joins(r, ra) = {}
    BY <1>2, <2>1 DEF DocsOf, Joins, SetOf
  <2> QED
    BY <2>1, <2>2, <2>3
<1>3. CASE ~(r = <<>> \/ ra = <<>>)
  <2>1. c = SecondPlace(sd)
    BY <1>3 DEF CombineQueryRsl
  <2> HIDE DEF other
  <2>2. other \in Seq(Result)
    BY <1>1
  <2>3. sd \in Seq(Result)
    BY <2>2, SameDocPairs
  <2>4. /\ SetOf(sd) = Joins(r, other) /\ DocsOf(sd) = DocsOf(r) \cap DocsOf(other)
        /\ Distinct(r) /\ Distinct(other) => Distinct(sd) /\ Len(sd) <= Len(r)
    BY <2>2, PairsKept
  <2> HIDE DEF sd, c
  <2>5. /\ c \in Seq(Result) /\ Len(c) = Len(sd) /\ SetOf(c) = SetOf(sd)
        /\ DocsOf(c) = DocsOf(sd) /\ (Distinct(sd) => Distinct(c))
    BY <2>1, <2>3, SecondPlaceAt, SecondPlaceKeeps
  <2>6. Distinct(r) /\ Distinct(ra) => Distinct(other)
    BY <1>1
  <2>7. Len(r) < Len(ra) => SetOf(c) = Joins(r, ra)
    BY <1>1, <2>4, <2>5 DEF other
  <2>8. DocsOf(c) \subseteq DocsOf(r) /\ DocsOf(r) \cap DocsOf(ra) \subseteq DocsOf(c)
    BY <1>1, <2>4, <2>5
  <2> QED
    BY <2>4, <2>5, <2>6, <2>7, <2>8 DEF c
<1> QED
  BY <1>2, <1>3

-----------------------------------------------------------------------------
(* What holds of the variables, whatever the results are. *)

\* The terms of its share that a worker has looked up.
Done(w) == Len(Share(w)) - Len(pquery[w])

\* A worker looks up its share in order, and has no result before it begins.
Queue(w) ==
  /\ Len(pquery[w]) <= Len(Share(w))
  /\ pquery[w] = SubSeq(Share(w), Done(w) + 1, Len(Share(w)))
  /\ flag[w] <=> Done(w) = 0
  /\ Done(w) = 0 => n_rsl[w] = <<>> /\ i[w] = 0

Shape ==
  /\ Len(query) \in 1..MaxTerms /\ nodes \in 1..Len(query) /\ joined \in 0..nodes
  /\ \A t \in Term : Distinct(index[t])
  /\ Distinct(qrsl) /\ \A w \in Worker : Distinct(n_rsl[w])
  /\ IF pc = "split"
     THEN \A w \in Worker : flag[w] = TRUE /\ i[w] = 0 /\ n_rsl[w] = <<>>
     ELSE \A w \in Worker : Queue(w)
  /\ pc \in {"split", "retrieve"} => joined = 0 /\ qrsl = <<>>
  /\ pc \notin {"split", "retrieve"} => \A w \in Worker : pquery[w] = <<>>
  /\ pc \in {"respond", "done"} => joined = nodes
  /\ pc \notin {"respond", "done"} => out = <<>>
  /\ Len(out) <= Len(qrsl) /\ \A k \in DOMAIN out : out[k] = qrsl[k]

Base == TypeOK /\ Shape

\* A list of one element.
LEMMA OneElement ==
  ASSUME NEW S, NEW s \in Seq(S), Len(s) = 1
  PROVE  s = <<s[1]>>
OBVIOUS

\* The terms each worker gets: its own, and for one worker the whole query.
LEMMA ShareType ==
  ASSUME query \in Seq(Term), nodes \in 1..Len(query), NEW w \in Worker
  PROVE  /\ Share(w) \in Seq(Term)
         /\ \A j \in 1..Len(Share(w)) :
              \E k \in 1..Len(query) : Share(w)[j] = query[k]
         /\ w <= nodes => Len(Share(w)) > 0 /\ Share(w)[1] = query[w]
         /\ w > nodes => Share(w) = <<>>
         /\ nodes = 1 => Share(1) = query
         /\ nodes = Len(query) /\ w <= nodes => Share(w) = <<query[w]>>
<1>1. w \in Nat \ {0} /\ Len(query) \in Nat /\ nodes \in Nat \ {0} /\ nodes <= Len(query)
  BY SearchAssumption DEF Worker
<1>5. nodes = 1 => Share(1) = query
  BY <1>1 DEF Share
<1>2. CASE w < nodes
  <2>1. Share(w) = <<query[w]>> /\ query[w] \in Term /\ w \in 1..Len(query)
    BY <1>1, <1>2 DEF Share
  <2>2. /\ Share(w) \in Seq(Term) /\ Len(Share(w)) = 1 /\ Share(w)[1] = query[w]
    BY <2>1
  <2> QED
    BY <1>1, <1>2, <1>5, <2>1, <2>2
<1>3. CASE w = nodes
  <2>1. Share(w) = SubSeq(query, w, Len(query)) /\ w \in 1..Len(query)
    BY <1>1, <1>3 DEF Share
  <2>2. /\ Share(w) \in Seq(Term) /\ Len(Share(w)) = Len(query) - w + 1
        /\ \A j \in 1..Len(Share(w)) : Share(w)[j] = query[w + j - 1]
                                       /\ w + j - 1 \in 1..Len(query)
    BY <1>1, <2>1
  <2>3. Len(Share(w)) > 0 /\ Share(w)[1] = query[w]
    BY <1>1, <2>1, <2>2
  <2>5. nodes = Len(query) => Share(w) = <<query[w]>>
    <3> HAVE nodes = Len(query)
    <3>1. Len(Share(w)) = 1
      BY <1>1, <1>3, <2>2
    <3> QED
      BY <2>2, <2>3, <3>1, OneElement
  <2> QED
    BY <1>1, <1>3, <1>5, <2>2, <2>3, <2>5
<1>4. CASE w > nodes
  <2>1. Share(w) = <<>>
    BY <1>1, <1>4 DEF Share
  <2> QED
    BY <1>1, <1>4, <1>5, <2>1
<1> QED
  BY <1>1, <1>2, <1>3, <1>4

\* The index of the start names each document once for a term.
LEMMA IndexAtInit ==
  ASSUME Init
  PROVE  /\ index \in [Term -> Seq(Result)]
         /\ \A t \in Term : Distinct(index[t])
<1>1. PICK has \in [Term -> Ascending] : index = [t \in Term |-> DocList(t, has[t])]
  BY DEF Init
<1>2. ASSUME NEW t \in Term PROVE index[t] \in Seq(Result) /\ Distinct(index[t])
  <2> DEFINE docs == has[t]
             l == index[t]
  <2>1. /\ docs \in Seq(Doc) /\ DOMAIN docs = 1..Len(docs) /\ Len(docs) \in Nat
        /\ \A j, k \in DOMAIN docs : j < k => docs[j] < docs[k]
    <3>1. docs \in BoundedSeq(Doc, Cardinality(Doc))
          /\ \A j, k \in DOMAIN docs : j < k => docs[j] < docs[k]
      BY DEF Ascending
    <3>2. Cardinality(Doc) \in Nat
      BY SearchAssumption, FS_CardinalityType
    <3>3. docs \in Seq(Doc)
      BY <3>1, <3>2, BoundedIsSeq
    <3> QED
      BY <3>1, <3>3
  <2>2. l = [j \in DOMAIN docs |-> <<docs[j], Count[t][docs[j]]>>]
    BY <1>1 DEF DocList
  <2> HIDE DEF docs
  <2>3. ASSUME NEW j \in 1..Len(docs)
        PROVE  l[j] = <<docs[j], Count[t][docs[j]]>> /\ l[j] \in Result /\ l[j][1] = docs[j]
    <3>1. docs[j] \in Doc
      BY <2>1
    <3>2. Count[t][docs[j]] \in Nat \ {0}
      <4>1. Count[t] \in [Doc -> Nat \ {0}]
        BY SearchAssumption
      <4> QED
        BY <3>1, <4>1
    <3> HIDE DEF l
    <3>3. l[j] = <<docs[j], Count[t][docs[j]]>>
      BY <2>1, <2>2
    <3> QED
      BY <3>1, <3>2, <3>3 DEF Result
  <2>4. l \in [1..Len(docs) -> Result] /\ DOMAIN l = 1..Len(docs)
    BY <2>1, <2>2, <2>3
  <2> HIDE DEF l
  <2>5. l \in Seq(Result)
    BY <2>1, <2>4
  <2>6. ASSUME NEW j \in DOMAIN l, NEW k \in DOMAIN l, l[j][1] = l[k][1] PROVE j = k
    <3>1. j \in 1..Len(docs) /\ k \in 1..Len(docs)
      BY <2>4
    <3>2. docs[j] = docs[k]
      <4>1. l[j][1] = docs[j] /\ l[k][1] = docs[k]
        BY <2>3, <3>1
      <4> QED
        BY <2>6, <4>1
    <3>3. docs[j] \in Nat /\ docs[k] \in Nat
      <4>1. docs[j] \in Doc /\ docs[k] \in Doc
        BY <2>1, <3>1
      <4> QED
        BY <4>1, SearchAssumption
    <3> QED
      BY <2>1, <3>1, <3>2, <3>3
  <2> QED
    BY <2>5, <2>6 DEF l, Distinct
<1>3. index \in [Term -> Seq(Result)]
  BY <1>1, <1>2
<1> QED
  BY <1>2, <1>3

\* The types hold at the start.
LEMMA InitBase == Init => Base
<1> SUFFICES ASSUME Init PROVE Base
  OBVIOUS
<1>1. query \in Seq(Term) /\ Len(query) \in 1..MaxTerms
  <2>1. PICK typed \in BoundedSeq(Term, MaxTerms) \ {<<>>} : query = SecondPlace(typed)
    BY DEF Init
  <2>2. typed \in Seq(Term) /\ Len(typed) \in 1..MaxTerms
    <3>1. typed \in Seq(Term) /\ Len(typed) <= MaxTerms
      BY <2>1, SearchAssumption, BoundedIsSeq
    <3> QED
      BY <2>1, <3>1
  <2> QED
    BY <2>1, <2>2, SecondPlaceAt
<1>2. nodes \in 1..Len(query)
  BY DEF Init
<1>3. <<>> \in Seq(Term) /\ <<>> \in Seq(Result) /\ <<>> \in Seq(Nat) /\ Len(<<>>) = 0
      /\ DOMAIN <<>> = {}
  OBVIOUS
<1>4. TypeOK
  BY <1>1, <1>2, <1>3, IndexAtInit, SearchAssumption DEF Init, TypeOK
<1>5. Shape
  <2>1. Distinct(qrsl) /\ \A w \in Worker : Distinct(n_rsl[w])
    BY <1>3 DEF Init, Distinct
  <2> QED
    BY <1>1, <1>2, <1>3, <2>1, IndexAtInit DEF Init, Shape
<1> QED
  BY <1>4, <1>5 DEF Base

\* What retrieve_f_index takes of a document list.
LEMMA Taken ==
  ASSUME NEW s \in Seq(Result), Distinct(s), NEW m \in 0..Len(s)
  PROVE  LET t == SecondPlace(SubSeq(s, 1, m))
         IN /\ t \in Seq(Result) /\ Len(t) = m /\ Distinct(t)
            /\ DocsOf(t) \subseteq DocsOf(s)
            /\ m = Len(s) => SetOf(t) = SetOf(s) /\ DocsOf(t) = DocsOf(s)
<1> DEFINE u == SubSeq(s, 1, m)
<1>1. /\ u \in Seq(Result) /\ Len(u) = m /\ DOMAIN u = 1..m /\ DOMAIN s = 1..Len(s)
      /\ \A j \in 1..m : u[j] = s[j] /\ j \in 1..Len(s)
      /\ m = Len(s) => u = s
  OBVIOUS
<1> HIDE DEF u
<1>2. Distinct(u)
  <2> SUFFICES ASSUME NEW j \in 1..m, NEW k \in 1..m, u[j][1] = u[k][1] PROVE j = k
    BY <1>1 DEF Distinct
  <2>1. j \in DOMAIN s /\ k \in DOMAIN s /\ s[j][1] = s[k][1]
    BY <1>1
  <2> QED
    BY <2>1 DEF Distinct
<1>3. DocsOf(u) \subseteq DocsOf(s)
  BY <1>1 DEF DocsOf
<1> QED
  BY <1>1, <1>2, <1>3, SecondPlaceAt, SecondPlaceKeeps DEF u

-----------------------------------------------------------------------------
(* What each action keeps of Base. *)

\* SplitQuery keeps the types.
LEMMA SplitQueryBase == Base /\ SplitQuery => Base'
<1> SUFFICES ASSUME Base, SplitQuery PROVE Base'
  OBVIOUS
<1>1. /\ query' = query /\ nodes' = nodes /\ index' = index /\ i' = i /\ n_rsl' = n_rsl
      /\ flag' = flag /\ joined' = joined /\ qrsl' = qrsl /\ out' = out /\ str' = str
      /\ buf' = buf /\ pc = "split" /\ pc' = "retrieve"
      /\ pquery' = [w \in Worker |-> Share(w)]
  BY DEF SplitQuery, outVars
<1>2. \A w \in Worker : Share(w) \in Seq(Term) /\ Share(w)' = Share(w)
  <2>1. query \in Seq(Term) /\ nodes \in 1..Len(query)
    BY DEF Base, TypeOK, Shape
  <2>2. \A w \in Worker : Share(w) \in Seq(Term)
    BY <2>1, ShareType
  <2> QED
    BY <1>1, <2>2 DEF Share
<1>3. TypeOK'
  BY <1>1, <1>2 DEF Base, TypeOK
<1>4. ASSUME NEW w \in Worker PROVE Queue(w)'
  <2>1. pquery[w]' = Share(w) /\ Done(w)' = 0
    BY <1>1, <1>2 DEF Done
  <2>2. Share(w) = SubSeq(Share(w), 0 + 1, Len(Share(w)))
    <3> DEFINE s == Share(w)
    <3>1. s \in Seq(Term)
      BY <1>2
    <3> HIDE DEF s
    <3>2. s = SubSeq(s, 0 + 1, Len(s))
      BY <3>1
    <3> QED
      BY <3>2 DEF s
  <2>3. flag[w] = TRUE /\ n_rsl[w] = <<>> /\ i[w] = 0
    BY <1>1 DEF Base, Shape
  <2>4. /\ Len(pquery[w]') = Len(Share(w)') /\ Len(Share(w)) \in Nat
        /\ pquery[w]' = SubSeq(Share(w)', Done(w)' + 1, Len(Share(w)'))
    BY <1>2, <2>1, <2>2
  <2> QED
    BY <1>1, <2>1, <2>3, <2>4 DEF Queue
<1>5. Shape'
  BY <1>1, <1>4 DEF Base, Shape, Distinct
<1> QED
  BY <1>3, <1>5 DEF Base

\* The front of a queue that holds what is left of a sequence.
LEMMA QueueFront ==
  ASSUME NEW S, NEW s \in Seq(S), NEW k \in Nat, k < Len(s)
  PROVE  /\ Head(SubSeq(s, k + 1, Len(s))) = s[k + 1]
         /\ s[k + 1] \in S
         /\ Tail(SubSeq(s, k + 1, Len(s))) = SubSeq(s, k + 1 + 1, Len(s))
         /\ Len(Tail(SubSeq(s, k + 1, Len(s)))) = Len(s) - k - 1
<1> DEFINE q == SubSeq(s, k + 1, Len(s))
           rest == SubSeq(s, k + 1 + 1, Len(s))
<1>1. /\ Len(s) \in Nat /\ q \in Seq(S) /\ Len(q) = Len(s) - k
      /\ \A j \in 1..(Len(s) - k) : q[j] = s[k + j] /\ s[k + j] \in S
  OBVIOUS
<1>2. /\ rest \in Seq(S) /\ Len(rest) = Len(s) - k - 1
      /\ \A j \in 1..(Len(s) - k - 1) : rest[j] = s[k + 1 + j]
  OBVIOUS
<1> HIDE DEF q, rest
<1>3. /\ Tail(q) \in Seq(S) /\ Len(Tail(q)) = Len(s) - k - 1 /\ Head(q) = q[1]
      /\ \A j \in 1..(Len(s) - k - 1) : Tail(q)[j] = q[j + 1]
  BY <1>1
<1>4. ASSUME NEW j \in 1..Len(rest) PROVE Tail(q)[j] = rest[j]
  <2>1. j + 1 \in 1..(Len(s) - k) /\ k + (j + 1) = k + 1 + j /\ j \in 1..(Len(s) - k - 1)
    BY <1>1, <1>2
  <2> QED
    BY <1>1, <1>2, <1>3, <2>1
<1>5. Tail(q) = rest
  <2>1. \A t \in Seq(S) : t \in [1..Len(t) -> S]
    OBVIOUS
  <2>2. Tail(q) \in [1..Len(rest) -> S] /\ rest \in [1..Len(rest) -> S]
    BY <1>2, <1>3, <2>1
  <2> QED
    BY <1>4, <2>2
<1>6. Head(q) = s[k + 1] /\ s[k + 1] \in S
  <2>1. 1 \in 1..(Len(s) - k)
    BY <1>1
  <2> QED
    BY <1>1, <1>3, <2>1
<1> QED
  BY <1>3, <1>5, <1>6 DEF q, rest

\* What one turn of retrieve_f_index's loop does to the worker w.
LEMMA RetrieveDoes ==
  ASSUME Base, NEW w \in Worker, Retrieve(w)
  PROVE  /\ Done(w) \in Nat /\ Done(w) < Len(Share(w)) /\ Share(w)' = Share(w)
         /\ Share(w)[Done(w) + 1] \in Term
         /\ Done(w)' = Done(w) + 1 /\ Queue(w)'
         /\ \E nn \in Seq(Result) :
              /\ n_rsl' = [n_rsl EXCEPT ![w] = IF Done(w) = 0 THEN nn
                                               ELSE CombineQueryRsl(n_rsl[w], nn)]
              /\ Distinct(nn) /\ Len(nn) <= Len(index[Share(w)[Done(w) + 1]])
              /\ DocsOf(nn) \subseteq DocsOf(index[Share(w)[Done(w) + 1]])
              /\ i'[w] \in Nat /\ i'[w] >= i[w]
              /\ i'[w] <= n =>
                   /\ Len(nn) = Len(index[Share(w)[Done(w) + 1]])
                   /\ SetOf(nn) = SetOf(index[Share(w)[Done(w) + 1]])
                   /\ DocsOf(nn) = DocsOf(index[Share(w)[Done(w) + 1]])
<1> DEFINE share == Share(w)
           todo == pquery[w]
           t == Head(todo)
           docs == index[t]
           taken == IF Len(docs) > Room(i[w]) THEN Room(i[w]) ELSE Len(docs)
           nn == SecondPlace(SubSeq(docs, 1, taken))
<1>1. /\ query' = query /\ nodes' = nodes /\ index' = index /\ pc = "retrieve"
      /\ todo # <<>> /\ pquery' = [pquery EXCEPT ![w] = Tail(@)]
      /\ flag' = [flag EXCEPT ![w] = FALSE]
      /\ i' = [i EXCEPT ![w] = @ + taken + (IF taken < Len(docs) THEN 1 ELSE 0)]
      /\ n_rsl' = [n_rsl EXCEPT ![w] = IF flag[w] THEN nn ELSE CombineQueryRsl(@, nn)]
  BY DEF Retrieve
<1>2. /\ query \in Seq(Term) /\ nodes \in 1..Len(query) /\ pquery \in [Worker -> Seq(Term)]
      /\ i \in [Worker -> Nat] /\ flag \in [Worker -> BOOLEAN]
      /\ n_rsl \in [Worker -> Seq(Result)] /\ index \in [Term -> Seq(Result)]
      /\ Queue(w) /\ \A u \in Term : Distinct(index[u])
  BY <1>1 DEF Base, TypeOK, Shape
<1>3. share \in Seq(Term) /\ share' = share
  BY <1>1, <1>2, ShareType DEF Share
<1>4. /\ Len(todo) \in Nat /\ Len(share) \in Nat /\ Done(w) = Len(share) - Len(todo)
      /\ Len(todo) > 0 /\ Len(todo) <= Len(share)
      /\ todo = SubSeq(share, Done(w) + 1, Len(share))
      /\ flag[w] <=> Done(w) = 0
  BY <1>1, <1>2, <1>3, SMTT(30) DEF Queue, Done
<1> HIDE DEF share
<1>5. /\ Done(w) \in Nat /\ Done(w) < Len(share) /\ t = share[Done(w) + 1]
      /\ share[Done(w) + 1] \in Term
      /\ Tail(todo) = SubSeq(share, Done(w) + 1 + 1, Len(share))
      /\ Len(Tail(todo)) = Len(todo) - 1
  <2> DEFINE k == Done(w)
  <2> HIDE DEF todo
  <2>1. k \in Nat /\ k < Len(share)
    BY <1>4
  <2>2. todo = SubSeq(share, k + 1, Len(share)) /\ Len(todo) = Len(share) - k
    <3>1. Len(todo) = Len(share) - k
      BY <1>4
    <3>2. todo = SubSeq(share, k + 1, Len(share))
      BY <1>4, Zenon
    <3> QED
      BY <3>1, <3>2
  <2> HIDE DEF k
  <2>3. /\ Head(todo) = share[k + 1] /\ share[k + 1] \in Term
        /\ Tail(todo) = SubSeq(share, k + 1 + 1, Len(share))
        /\ Len(Tail(todo)) = Len(todo) - 1
    BY <1>3, <2>1, <2>2, QueueFront
  <2> QED
    BY <2>1, <2>3 DEF k
<1>6. /\ pquery'[w] = Tail(todo) /\ flag'[w] = FALSE /\ Done(w)' = Done(w) + 1
  <2>1. pquery'[w] = Tail(todo) /\ flag'[w] = FALSE
    BY <1>1, <1>2
  <2>2. Done(w)' = Len(share) - (Len(todo) - 1)
    BY <1>3, <1>5, <2>1 DEF Done, share
  <2> QED
    BY <1>4, <2>1, <2>2
<1>7. Queue(w)'
  <2>1. Len(pquery'[w]) <= Len(Share(w)') /\ Done(w)' # 0 /\ ~flag'[w]
    <3> HIDE DEF todo
    <3>1. Len(pquery'[w]) = Len(todo) - 1 /\ Share(w)' = share
      BY <1>3, <1>5, <1>6 DEF share
    <3> QED
      BY <1>4, <1>5, <1>6, <3>1
  <2>2. pquery'[w] = SubSeq(Share(w)', Done(w)' + 1, Len(Share(w)'))
    BY <1>3, <1>5, <1>6, Zenon DEF share
  <2> QED
    BY <2>1, <2>2 DEF Queue
<1>8. /\ docs \in Seq(Result) /\ Distinct(docs) /\ Len(docs) \in Nat /\ i[w] \in Nat
      /\ n \in Nat
  <2>1. t \in Term
    BY <1>5
  <2> HIDE DEF t
  <2> QED
    BY <1>2, <2>1, SearchAssumption
<1> HIDE DEF t, docs
<1>9. taken \in 0..Len(docs)
  BY <1>8 DEF Room
<1>10. /\ nn \in Seq(Result) /\ Len(nn) = taken /\ Distinct(nn)
       /\ DocsOf(nn) \subseteq DocsOf(docs)
       /\ taken = Len(docs) => SetOf(nn) = SetOf(docs) /\ DocsOf(nn) = DocsOf(docs)
  <2> HIDE DEF taken
  <2> QED
    BY <1>8, <1>9, Taken
<1>11. i'[w] = i[w] + taken + (IF taken < Len(docs) THEN 1 ELSE 0)
  BY <1>1, <1>2
<1>12. /\ i'[w] \in Nat /\ i'[w] >= i[w]
       /\ i'[w] <= n => taken = Len(docs)
  BY <1>8, <1>9, <1>11 DEF Room
<1> HIDE DEF taken, nn
<1>13. n_rsl' = [n_rsl EXCEPT ![w] = IF Done(w) = 0 THEN nn
                                     ELSE CombineQueryRsl(n_rsl[w], nn)]
  BY <1>1, <1>2, <1>4
<1>14. docs = index[share[Done(w) + 1]]
  BY <1>5 DEF docs
<1>15. Len(nn) <= Len(docs)
  BY <1>9, <1>10
<1>16. i'[w] <= n => /\ Len(nn) = Len(docs) /\ SetOf(nn) = SetOf(docs)
                     /\ DocsOf(nn) = DocsOf(docs)
  BY <1>10, <1>12
<1>17. \E x \in Seq(Result) :
         /\ n_rsl' = [n_rsl EXCEPT ![w] = IF Done(w) = 0 THEN x
                                          ELSE CombineQueryRsl(n_rsl[w], x)]
         /\ Distinct(x) /\ Len(x) <= Len(docs) /\ DocsOf(x) \subseteq DocsOf(docs)
         /\ i'[w] \in Nat /\ i'[w] >= i[w]
         /\ i'[w] <= n => /\ Len(x) = Len(docs) /\ SetOf(x) = SetOf(docs)
                          /\ DocsOf(x) = DocsOf(docs)
  BY <1>10, <1>12, <1>13, <1>15, <1>16
<1> QED
  BY <1>3, <1>5, <1>6, <1>7, <1>14, <1>17 DEF share

\* The types are kept by a lookup.
LEMMA RetrieveBase == ASSUME Base, NEW w \in Worker, Retrieve(w) PROVE Base'
<1>1. /\ query' = query /\ nodes' = nodes /\ index' = index /\ pc = "retrieve"
      /\ pquery' = [pquery EXCEPT ![w] = Tail(@)] /\ pquery[w] # <<>>
      /\ flag' = [flag EXCEPT ![w] = FALSE]
      /\ \A v \in Worker : v # w => i'[v] = i[v]
      /\ DOMAIN i' = DOMAIN i /\ i' = [v \in DOMAIN i |-> i'[v]]
      /\ pc' = pc /\ joined' = joined /\ qrsl' = qrsl /\ out' = out /\ str' = str
      /\ buf' = buf
  BY DEF Retrieve, outVars, Base, TypeOK
<1>2. PICK nn \in Seq(Result) :
        /\ n_rsl' = [n_rsl EXCEPT ![w] = IF Done(w) = 0 THEN nn
                                         ELSE CombineQueryRsl(n_rsl[w], nn)]
        /\ Distinct(nn) /\ i'[w] \in Nat
  BY RetrieveDoes
<1>3. /\ pquery \in [Worker -> Seq(Term)] /\ flag \in [Worker -> BOOLEAN]
      /\ i \in [Worker -> Nat] /\ n_rsl \in [Worker -> Seq(Result)]
      /\ \A v \in Worker : Queue(v) /\ Distinct(n_rsl[v])
  BY <1>1 DEF Base, TypeOK, Shape
<1>4. /\ n_rsl'[w] \in Seq(Result) /\ Distinct(n_rsl'[w])
      /\ n_rsl' \in [Worker -> Seq(Result)]
      /\ \A v \in Worker : v # w => n_rsl'[v] = n_rsl[v]
  <2> DEFINE c == CombineQueryRsl(n_rsl[w], nn)
  <2>1. c \in Seq(Result) /\ Distinct(c)
    BY <1>2, <1>3, CombineKeeps
  <2> HIDE DEF c
  <2>2. n_rsl' = [n_rsl EXCEPT ![w] = IF Done(w) = 0 THEN nn ELSE c]
    BY <1>2 DEF c
  <2> QED
    BY <1>2, <1>3, <2>1, <2>2
<1>5. pquery' \in [Worker -> Seq(Term)] /\ flag' \in [Worker -> BOOLEAN] /\ i' \in [Worker -> Nat]
  <2>1. Tail(pquery[w]) \in Seq(Term)
    BY <1>1, <1>3
  <2>2. \A v \in Worker : i'[v] \in Nat
    BY <1>1, <1>2, <1>3
  <2>3. i' \in [Worker -> Nat]
    BY <1>1, <1>3, <2>2
  <2>4. pquery' \in [Worker -> Seq(Term)]
    BY <1>1, <1>3, <2>1
  <2> QED
    BY <1>1, <1>3, <2>3, <2>4
<1>6. TypeOK'
  BY <1>1, <1>4, <1>5 DEF Base, TypeOK
<1>7. ASSUME NEW v \in Worker PROVE Queue(v)' /\ Distinct(n_rsl'[v])
  <2>1. CASE v = w
    BY <1>4, <2>1, RetrieveDoes
  <2>2. CASE v # w
    <3>1. /\ pquery'[v] = pquery[v] /\ flag'[v] = flag[v] /\ i'[v] = i[v]
          /\ n_rsl'[v] = n_rsl[v] /\ Share(v)' = Share(v)
      BY <1>1, <1>3, <1>4, <2>2 DEF Share
    <3>2. Done(v)' = Done(v)
      BY <3>1 DEF Done
    <3> QED
      BY <1>3, <3>1, <3>2 DEF Queue
  <2> QED
    BY <2>1, <2>2
<1>8. Shape'
  BY <1>1, <1>7 DEF Base, Shape, Distinct
<1> QED
  BY <1>6, <1>8 DEF Base


\* A list of some elements is one of more.
LEMMA LargerSeq ==
  ASSUME NEW S, NEW T, S \subseteq T, NEW s \in Seq(S)
  PROVE  s \in Seq(T)
<1>1. Len(s) \in Nat /\ s \in [1..Len(s) -> S]
  OBVIOUS
<1>2. s \in [1..Len(s) -> T]
  BY <1>1
<1> QED
  BY <1>1, <1>2

\* A queue changes only when its worker takes a step.
LEMMA QueueSame ==
  ASSUME Base, pc # "split", UNCHANGED <<query, nodes, pquery, i, n_rsl, flag>>
  PROVE  \A w \in Worker : Queue(w)'
<1> SUFFICES ASSUME NEW w \in Worker PROVE Queue(w)'
  OBVIOUS
<1>1. Share(w)' = Share(w)
  BY DEF Share
<1>2. Done(w)' = Done(w)
  BY <1>1 DEF Done
<1>3. Queue(w)
  BY DEF Base, Shape
<1> QED
  BY <1>1, <1>2, <1>3 DEF Queue

\* Join keeps the types.
LEMMA JoinBase == Base /\ Join => Base'
<1> SUFFICES ASSUME Base, Join PROVE Base'
  OBVIOUS
<1>1. /\ pc = "retrieve" /\ pc' = "combine" /\ \A w \in Worker : pquery[w] = <<>>
      /\ UNCHANGED <<index, query, nodes, pquery, i, n_rsl, flag, joined, qrsl, out, str, buf>>
  BY DEF Join, agentVars, outVars
<1>2. TypeOK'
  BY <1>1 DEF Base, TypeOK
<1>3. \A w \in Worker : Queue(w)'
  BY <1>1, QueueSame
<1>4. Shape'
  BY <1>1, <1>3 DEF Base, Shape, Distinct
<1> QED
  BY <1>2, <1>4 DEF Base

\* Combine keeps the types.
LEMMA CombineBase == Base /\ Combine => Base'
<1> SUFFICES ASSUME Base, Combine PROVE Base'
  OBVIOUS
<1>1. /\ pc = "combine" /\ joined < nodes /\ joined' = joined + 1
      /\ UNCHANGED <<index, query, nodes, pquery, i, n_rsl, flag, pc, out, str, buf>>
      /\ qrsl' = IF joined = 0 THEN n_rsl[1] ELSE CombineQueryRsl(qrsl, n_rsl[joined + 1])
  BY DEF Combine, agentVars, outVars
<1>2. /\ TypeOK /\ Shape /\ joined \in Nat /\ nodes \in Nat /\ nodes <= MaxTerms
      /\ joined + 1 \in Worker /\ 1 \in Worker /\ joined' \in 0..nodes
  <2>1. TypeOK /\ Shape
    BY DEF Base
  <2>2. joined \in 0..nodes /\ nodes \in 1..MaxTerms /\ MaxTerms \in Nat
    BY <2>1, SearchAssumption DEF TypeOK, Shape
  <2> QED
    BY <1>1, <2>1, <2>2 DEF Worker
<1>3. qrsl' \in Seq(Result) /\ Distinct(qrsl')
  <2>1. /\ n_rsl[1] \in Seq(Result) /\ Distinct(n_rsl[1])
        /\ n_rsl[joined + 1] \in Seq(Result) /\ Distinct(n_rsl[joined + 1])
        /\ qrsl \in Seq(Result) /\ Distinct(qrsl)
    BY <1>2 DEF TypeOK, Shape
  <2> DEFINE c == CombineQueryRsl(qrsl, n_rsl[joined + 1])
  <2>2. c \in Seq(Result) /\ Distinct(c)
    BY <2>1, CombineKeeps
  <2> HIDE DEF c
  <2>3. qrsl' = IF joined = 0 THEN n_rsl[1] ELSE c
    BY <1>1 DEF c
  <2> QED
    BY <2>1, <2>2, <2>3
<1>4. TypeOK'
  BY <1>1, <1>2, <1>3, SearchAssumption, SMTT(30) DEF TypeOK
<1>5. \A w \in Worker : Queue(w)'
  BY <1>1, QueueSame
<1>6. out' = <<>> /\ Len(<<>>) = 0 /\ DOMAIN <<>> = {} /\ Len(qrsl') \in Nat
  BY <1>1, <1>2, <1>3 DEF Shape
<1>7. Shape'
  BY <1>1, <1>2, <1>3, <1>5, <1>6 DEF Shape, Distinct
<1> QED
  BY <1>4, <1>7 DEF Base

\* CreateOutBuf keeps the types.
LEMMA CreateOutBufBase == Base /\ CreateOutBuf => Base'
<1> SUFFICES ASSUME Base, CreateOutBuf PROVE Base'
  OBVIOUS
<1>1. /\ pc = "combine" /\ joined = nodes /\ pc' = "respond"
      /\ buf' = [use |-> 0, size |-> Chunk]
      /\ str' = IF qrsl = <<>> THEN <<11>> ELSE <<>>
      /\ UNCHANGED <<index, query, nodes, pquery, i, n_rsl, flag, joined, qrsl, out>>
  BY DEF CreateOutBuf, agentVars
<1>2. TypeOK'
  <2>1. str' \in Seq(Nat) /\ buf' \in [use : Nat, size : Nat]
    BY <1>1, SearchAssumption
  <2> QED
    BY <1>1, <2>1 DEF Base, TypeOK
<1>3. \A w \in Worker : Queue(w)'
  BY <1>1, QueueSame
<1>4. Shape'
  BY <1>1, <1>3 DEF Base, Shape, Distinct
<1> QED
  BY <1>2, <1>4 DEF Base

\* What "%d" makes of a weight has at most ten bytes.
LEMMA DigitsType == ASSUME NEW w PROVE Digits(w) \in 1..10
<1> DEFINE bigger == {j \in 1..9 : w >= 10 ^ j}
<1>1. IsFiniteSet(1..9) /\ Cardinality(1..9) = 9
  <2>1. 1 \in Int /\ 9 \in Int
    OBVIOUS
  <2>2. IsFiniteSet(1..9) /\ Cardinality(1..9) = IF 1 > 9 THEN 0 ELSE 9 - 1 + 1
    BY <2>1, FS_Interval
  <2> QED
    BY <2>2
<1>2. bigger \in SUBSET (1..9)
  OBVIOUS
<1> HIDE DEF bigger
<1>3. Cardinality(bigger) \in Nat /\ Cardinality(bigger) <= 9
  BY <1>1, <1>2, FS_Subset, FS_CardinalityType
<1>4. Digits(w) = 1 + Cardinality(bigger)
  BY DEF Digits, bigger
<1> QED
  BY <1>3, <1>4

\* What do_retr prints next.
LEMMA NextResultDoes ==
  ASSUME Base, NextResult
  PROVE  /\ Len(out) + 1 \in 1..Len(qrsl) /\ qrsl[Len(out) + 1] \in Result
         /\ out' \in Seq(Result) /\ Len(out') = Len(out) + 1
         /\ \A k \in 1..Len(out') : out'[k] = qrsl[k]
         /\ str' \in Seq(1..Chunk)
         /\ UNCHANGED <<index, query, nodes, pquery, i, n_rsl, flag, pc, joined, qrsl, buf>>
<1> DEFINE r == qrsl[Len(out) + 1]
<1>1. /\ out' = Append(out, r) /\ Len(out) # Len(qrsl)
      /\ str' = <<NameLen[r[1]], 2, Digits(r[2]), 1>>
      /\ UNCHANGED <<index, query, nodes, pquery, i, n_rsl, flag, pc, joined, qrsl, buf>>
  BY DEF NextResult, agentVars, Printed
<1>2. /\ qrsl \in Seq(Result) /\ out \in Seq(Result) /\ Len(out) <= Len(qrsl)
      /\ \A k \in 1..Len(out) : out[k] = qrsl[k]
  BY DEF Base, TypeOK, Shape
<1>3. Len(out) + 1 \in 1..Len(qrsl) /\ r \in Result
  BY <1>1, <1>2
<1> HIDE DEF r
<1>4. /\ out' \in Seq(Result) /\ Len(out') = Len(out) + 1 /\ out'[Len(out) + 1] = r
      /\ \A k \in 1..Len(out) : out'[k] = out[k]
  BY <1>1, <1>2, <1>3
<1>5. \A k \in 1..Len(out') : out'[k] = qrsl[k]
  BY <1>2, <1>4 DEF r
<1>6. str' \in Seq(1..Chunk)
  <2> DEFINE a == NameLen[r[1]]
             b == Digits(r[2])
  <2>1. a \in 1..Chunk
    BY <1>3, SearchAssumption DEF Result
  <2>2. b \in 1..10
    BY DigitsType
  <2> HIDE DEF a, b
  <2>3. b \in 1..Chunk /\ 2 \in 1..Chunk /\ 1 \in 1..Chunk
    BY <2>2, SearchAssumption
  <2>4. <<a, 2, b, 1>> \in Seq(1..Chunk)
    BY <2>1, <2>3
  <2> QED
    BY <1>1, <2>4 DEF a, b
<1> QED
  BY <1>1, <1>3, <1>4, <1>5, <1>6 DEF r

\* NextResult keeps the types.
LEMMA NextResultBase == Base /\ NextResult => Base'
<1> SUFFICES ASSUME Base, NextResult PROVE Base'
  OBVIOUS
<1>1. TypeOK'
  <2>1. str' \in Seq(Nat)
    <3>1. str' \in Seq(1..Chunk) /\ 1..Chunk \subseteq Nat
      BY NextResultDoes, SearchAssumption
    <3> QED
      BY <3>1, LargerSeq
  <2> QED
    BY <2>1, NextResultDoes DEF Base, TypeOK
<1>2. \A w \in Worker : Queue(w)'
  BY NextResultDoes, QueueSame DEF NextResult
<1>3. Len(out') <= Len(qrsl') /\ \A k \in DOMAIN out' : out'[k] = qrsl'[k]
  <2>1. /\ Len(out) + 1 \in 1..Len(qrsl) /\ Len(out') = Len(out) + 1 /\ qrsl' = qrsl
        /\ out' \in Seq(Result) /\ \A k \in 1..Len(out') : out'[k] = qrsl[k]
    BY NextResultDoes
  <2> QED
    BY <2>1
<1>4. Shape'
  BY <1>2, <1>3, NextResultDoes DEF Base, Shape, Distinct, NextResult
<1> QED
  BY <1>1, <1>4 DEF Base

\* WriteBuf keeps the types.
LEMMA WriteBufBase == Base /\ WriteBuf => Base'
<1> SUFFICES ASSUME Base, WriteBuf PROVE Base'
  OBVIOUS
<1>1. /\ pc = "respond" /\ str # <<>> /\ str' = Tail(str)
      /\ buf' = [use |-> buf.use + Head(str),
                 size |-> IF NoRoom(Head(str), buf) THEN buf.size + Chunk ELSE buf.size]
      /\ UNCHANGED <<index, query, nodes, pquery, i, n_rsl, flag, pc, joined, qrsl, out>>
  BY DEF WriteBuf, agentVars
<1>2. str' \in Seq(Nat) /\ buf' \in [use : Nat, size : Nat]
  <2>1. str \in Seq(Nat) /\ buf \in [use : Nat, size : Nat] /\ Chunk \in Nat
    BY SearchAssumption DEF Base, TypeOK
  <2>2. Head(str) \in Nat /\ Tail(str) \in Seq(Nat)
    BY <1>1, <2>1
  <2> QED
    BY <1>1, <2>1, <2>2
<1>3. TypeOK'
  BY <1>1, <1>2 DEF Base, TypeOK
<1>4. \A w \in Worker : Queue(w)'
  BY <1>1, QueueSame
<1>5. Shape'
  BY <1>1, <1>4 DEF Base, Shape, Distinct
<1> QED
  BY <1>3, <1>5 DEF Base

\* Respond keeps the types.
LEMMA RespondBase == Base /\ Respond => Base'
<1> SUFFICES ASSUME Base, Respond PROVE Base'
  OBVIOUS
<1>1. /\ pc = "respond" /\ pc' = "done"
      /\ UNCHANGED <<index, query, nodes, pquery, i, n_rsl, flag, joined, qrsl, out, str, buf>>
  BY DEF Respond, agentVars, outVars
<1>2. TypeOK'
  BY <1>1 DEF Base, TypeOK
<1>3. \A w \in Worker : Queue(w)'
  BY <1>1, QueueSame
<1>4. Shape'
  BY <1>1, <1>3 DEF Base, Shape, Distinct
<1> QED
  BY <1>2, <1>4 DEF Base

\* A stutter keeps the types.
LEMMA StutterBase == Base /\ UNCHANGED vars => Base'
<1> SUFFICES ASSUME Base, UNCHANGED vars PROVE Base'
  OBVIOUS
<1>1. UNCHANGED <<index, query, nodes, pquery, i, n_rsl, flag, pc, joined, qrsl, out, str, buf>>
  BY DEF vars, agentVars, outVars
<1>2. TypeOK'
  BY <1>1 DEF Base, TypeOK
<1>3. pc # "split" => \A w \in Worker : Queue(w)'
  BY <1>1, QueueSame
<1>4. Shape'
  BY <1>1, <1>3 DEF Base, Shape, Distinct
<1> QED
  BY <1>2, <1>4 DEF Base

\* The types are kept by every step.
LEMMA NextBase == Base /\ [Next]_vars => Base'
BY SplitQueryBase, RetrieveBase, JoinBase, CombineBase, CreateOutBufBase, NextResultBase,
   WriteBufBase, RespondBase, StutterBase DEF Next

\* The types hold throughout.
LEMMA AlwaysBase == Spec => []Base
BY InitBase, NextBase, PTL DEF Spec

\* Every variable of a search stays in its domain, whatever the index and the
\* query: no result has a weight of zero, and no list holds anything else.
THEOREM TypeCorrect == Spec => []TypeOK
<1>1. Base => TypeOK
  BY DEF Base
<1> QED
  BY <1>1, AlwaysBase, PTL

\* A document is in no result list twice, though combine_query_rsl never looks
\* whether it has put it there: lists that hold each document once make lists
\* that do.
THEOREM NoDocTwiceHolds == Spec => []NoDocTwice
<1>1. Base => NoDocTwice
  BY DEF Base, Shape, NoDocTwice, Distinct
<1> QED
  BY <1>1, AlwaysBase, PTL


-----------------------------------------------------------------------------
(* The output buffer. *)

BufInv ==
  /\ str \in Seq(1..Chunk)
  /\ pc \in {"respond", "done"} => buf.use < buf.size

\* A list that is not empty has a head and a tail of its kind.
LEMMA HeadAndTail ==
  ASSUME NEW S, NEW s \in Seq(S), s # <<>>
  PROVE  Head(s) \in S /\ Tail(s) \in Seq(S)
OBVIOUS

\* Nothing is in the buffer at the start.
LEMMA BufInit == Init => BufInv
BY DEF Init, BufInv

\* The buffer's bounds are kept by every step.
LEMMA BufNext == Base /\ BufInv /\ [Next]_vars => BufInv'
<1> SUFFICES ASSUME Base, BufInv, [Next]_vars PROVE BufInv'
  OBVIOUS
<1> USE DEF BufInv
<1>1. CASE SplitQuery \/ (\E w \in Worker : Retrieve(w)) \/ Join \/ Combine
  <2>1. str' = str /\ pc' \in {"retrieve", "combine"}
    BY <1>1 DEF SplitQuery, Retrieve, Join, Combine, outVars
  <2> QED
    BY <2>1
<1>2. CASE CreateOutBuf
  <2>1. str' = <<11>> \/ str' = <<>>
    BY <1>2 DEF CreateOutBuf
  <2>2. buf'.use = 0 /\ buf'.size = Chunk
    BY <1>2 DEF CreateOutBuf
  <2>3. 11 \in 1..Chunk
    BY SearchAssumption
  <2>4. <<11>> \in Seq(1..Chunk) /\ <<>> \in Seq(1..Chunk)
    BY <2>3
  <2>5. str' \in Seq(1..Chunk)
    BY <2>1, <2>4
  <2>6. buf'.use < buf'.size
    BY <2>2, SearchAssumption
  <2> QED
    BY <2>5, <2>6
<1>3. CASE NextResult
  BY <1>3, NextResultDoes
<1>4. CASE WriteBuf
  <2>1. /\ str # <<>> /\ str' = Tail(str) /\ pc = "respond" /\ pc' = pc
        /\ buf' = [use |-> buf.use + Head(str),
                   size |-> IF NoRoom(Head(str), buf) THEN buf.size + Chunk ELSE buf.size]
    BY <1>4 DEF WriteBuf
  <2>2. buf \in [use : Nat, size : Nat] /\ Chunk \in Nat
    BY SearchAssumption DEF Base, TypeOK
  <2>3. Head(str) \in 1..Chunk /\ Tail(str) \in Seq(1..Chunk)
    BY <2>1, HeadAndTail
  <2>4. buf'.use < buf'.size
    <3> DEFINE len == Head(str)
    <3>1. buf.use \in Nat /\ buf.size \in Nat /\ buf.use < buf.size
      BY <2>1, <2>2
    <3>2. /\ buf'.use = buf.use + len
          /\ buf'.size = IF len + buf.use >= buf.size THEN buf.size + Chunk ELSE buf.size
      BY <2>1 DEF NoRoom
    <3> HIDE DEF len
    <3>3. len \in 1..Chunk
      BY <2>3 DEF len
    <3> QED
      BY <2>2, <3>1, <3>2, <3>3
  <2> QED
    BY <2>1, <2>3, <2>4
<1>5. CASE Respond
  BY <1>5 DEF Respond, outVars
<1>6. CASE UNCHANGED vars
  BY <1>6 DEF vars, outVars
<1> QED
  BY <1>1, <1>2, <1>3, <1>4, <1>5, <1>6 DEF Next

\* write_buf never writes behind the output buffer, whatever is printed,
\* although it grows the buffer once and does not look again.
THEOREM TextEndsHolds == Spec => []TextEnds
<1>1. BufInv => TextEnds
  BY DEF BufInv, TextEnds
<1> QED
  BY <1>1, AlwaysBase, BufInit, BufNext, PTL DEF Spec

-----------------------------------------------------------------------------
(* What a document list says. *)

\* A count is positive just for the documents of the term's list.
LEMMA CountOfIs ==
  ASSUME Base, NEW t \in Term
  PROVE  /\ \A d : CountOf(t, d) \in Nat
         /\ \A d : CountOf(t, d) > 0 <=> d \in DocsOf(index[t])
         /\ DocsOf(index[t]) \subseteq Doc
         /\ \A j \in 1..Len(index[t]) : index[t][j] = <<index[t][j][1], CountOf(t, index[t][j][1])>>
<1> DEFINE s == index[t]
<1>1. s \in Seq(Result) /\ Distinct(s) /\ DOMAIN s = 1..Len(s)
  BY DEF Base, TypeOK, Shape
<1>2. \A d : CountOf(t, d) = LET at == {j \in DOMAIN s : s[j][1] = d}
                             IN IF at = {} THEN 0 ELSE s[CHOOSE j \in at : TRUE][2]
  BY DEF CountOf
<1> HIDE DEF s
<1>3. ASSUME NEW j \in 1..Len(s)
      PROVE  /\ s[j][1] \in Doc /\ s[j][2] \in Nat \ {0} /\ s[j] = <<s[j][1], s[j][2]>>
             /\ CountOf(t, s[j][1]) = s[j][2]
  <2>1. s[j] \in Result
    BY <1>1
  <2>2. s[j][1] \in Doc /\ s[j][2] \in Nat \ {0} /\ s[j] = <<s[j][1], s[j][2]>>
    BY <2>1 DEF Result
  <2> DEFINE at == {h \in DOMAIN s : s[h][1] = s[j][1]}
             here == CHOOSE h \in at : TRUE
  <2>3. j \in at
    BY <1>1
  <2>4. here \in at
    BY <2>3
  <2>5. here = j
    BY <1>1, <2>4 DEF Distinct
  <2>6. CountOf(t, s[j][1]) = s[here][2]
    BY <1>2, <2>3
  <2> QED
    BY <2>2, <2>5, <2>6
<1>4. ASSUME NEW d
      PROVE  /\ CountOf(t, d) \in Nat
             /\ CountOf(t, d) > 0 <=> d \in DocsOf(s)
  <2>1. CASE d \in DocsOf(s)
    <3>1. PICK j \in 1..Len(s) : d = s[j][1]
      BY <1>1, <2>1 DEF DocsOf
    <3>2. CountOf(t, d) \in Nat \ {0}
      BY <1>3, <3>1
    <3> QED
      BY <2>1, <3>2
  <2>2. CASE d \notin DocsOf(s)
    <3>1. {j \in DOMAIN s : s[j][1] = d} = {}
      BY <2>2 DEF DocsOf
    <3>2. CountOf(t, d) = 0
      BY <1>2, <3>1
    <3> QED
      BY <2>2, <3>2
  <2> QED
    BY <2>1, <2>2
<1>5. DocsOf(s) \subseteq Doc
  BY <1>1, <1>3 DEF DocsOf
<1> QED
  BY <1>3, <1>4, <1>5 DEF s

\* The k-th term.
LEMMA TermAt ==
  ASSUME Base, NEW k \in 1..Len(query)
  PROVE  /\ query[k] \in Term /\ index[query[k]] \in Seq(Result)
         /\ Distinct(index[query[k]])
BY DEF Base, TypeOK, Shape

-----------------------------------------------------------------------------
(* Every result has the first term. *)

FirstInv ==
  /\ DocsOf(n_rsl[1]) \subseteq DocsOf(index[query[1]])
  /\ DocsOf(qrsl) \subseteq DocsOf(index[query[1]])

\* An empty list has no documents.
LEMMA NoDocs == DocsOf(<<>>) = {}
<1>1. DOMAIN <<>> = {}
  OBVIOUS
<1> QED
  BY <1>1 DEF DocsOf

\* The first worker, whose first term is the query's, takes part.
LEMMA FirstWorker == Base => 1 \in Worker /\ nodes \in Nat /\ nodes >= 1
<1> SUFFICES ASSUME Base PROVE 1 \in Worker /\ nodes \in Nat /\ nodes >= 1
  OBVIOUS
<1>1. MaxTerms \in Nat \ {0} /\ nodes \in 1..MaxTerms
  BY SearchAssumption DEF Base, TypeOK
<1> QED
  BY <1>1 DEF Worker

\* No list has come of the first term at the start.
LEMMA FirstInit == Init => FirstInv
<1> SUFFICES ASSUME Init PROVE FirstInv
  OBVIOUS
<1>1. n_rsl[1] = <<>> /\ qrsl = <<>>
  BY InitBase, FirstWorker DEF Init
<1> QED
  BY <1>1, NoDocs DEF FirstInv

\* That lists have the first term's documents only is kept by every step.
LEMMA FirstNext == Base /\ FirstInv /\ [Next]_vars => FirstInv'
<1> SUFFICES ASSUME Base, FirstInv, [Next]_vars PROVE FirstInv'
  OBVIOUS
<1>1. index' = index /\ query' = query
  BY DEF Next, SplitQuery, Retrieve, Join, Combine, CreateOutBuf, NextResult, WriteBuf,
         Respond, vars
<1>2. ASSUME NEW w \in Worker, Retrieve(w) PROVE FirstInv'
  <2>1. PICK nn \in Seq(Result) :
          /\ n_rsl' = [n_rsl EXCEPT ![w] = IF Done(w) = 0 THEN nn
                                           ELSE CombineQueryRsl(n_rsl[w], nn)]
          /\ DocsOf(nn) \subseteq DocsOf(index[Share(w)[Done(w) + 1]])
    BY <1>2, RetrieveDoes
  <2>2. qrsl' = qrsl /\ n_rsl \in [Worker -> Seq(Result)]
    BY <1>2 DEF Retrieve, Base, TypeOK
  <2>3. CASE w # 1
    <3>1. n_rsl'[1] = n_rsl[1]
      BY <2>1, <2>2, <2>3, FirstWorker
    <3> QED
      BY <1>1, <2>2, <3>1 DEF FirstInv
  <2>4. CASE w = 1
    <3>1. CASE Done(w) = 0
      <4>1. n_rsl'[1] = nn
        BY <2>1, <2>2, <2>4, <3>1
      <4>2. Share(w)[1] = query[1]
        <5>1. query \in Seq(Term) /\ nodes \in 1..Len(query)
          BY DEF Base, TypeOK, Shape
        <5> QED
          BY <2>4, <5>1, ShareType, FirstWorker
      <4> QED
        BY <1>1, <2>1, <2>2, <3>1, <4>1, <4>2 DEF FirstInv
    <3>2. CASE Done(w) # 0
      <4>1. n_rsl'[1] = CombineQueryRsl(n_rsl[1], nn)
        BY <2>1, <2>2, <2>4, <3>2
      <4>2. DocsOf(n_rsl'[1]) \subseteq DocsOf(n_rsl[1])
        BY <2>2, <2>4, <4>1, CombineKeeps
      <4> QED
        BY <1>1, <2>2, <4>2 DEF FirstInv
    <3> QED
      BY <3>1, <3>2
  <2> QED
    BY <2>3, <2>4
<1>3. CASE Combine
  <2>1. /\ n_rsl' = n_rsl
        /\ qrsl' = IF joined = 0 THEN n_rsl[1] ELSE CombineQueryRsl(qrsl, n_rsl[joined + 1])
    BY <1>3 DEF Combine, agentVars
  <2>2. DocsOf(qrsl') \subseteq DocsOf(n_rsl[1]) \cup DocsOf(qrsl)
    <3>1. qrsl \in Seq(Result) /\ n_rsl[joined + 1] \in Seq(Result)
      <4>1. joined \in Nat /\ nodes \in Nat /\ nodes <= MaxTerms /\ joined < nodes
            /\ MaxTerms \in Nat
        BY <1>3, SearchAssumption DEF Base, TypeOK, Combine
      <4>2. joined + 1 \in Worker
        BY <4>1 DEF Worker
      <4> QED
        BY <4>2 DEF Base, TypeOK
    <3>2. DocsOf(CombineQueryRsl(qrsl, n_rsl[joined + 1])) \subseteq DocsOf(qrsl)
      BY <3>1, CombineKeeps
    <3> QED
      BY <2>1, <3>2
  <2> QED
    BY <1>1, <2>1, <2>2 DEF FirstInv
<1>4. CASE SplitQuery \/ Join \/ CreateOutBuf \/ NextResult \/ WriteBuf \/ Respond
           \/ UNCHANGED vars
  <2>1. n_rsl' = n_rsl /\ qrsl' = qrsl
    BY <1>4 DEF SplitQuery, Join, CreateOutBuf, NextResult, WriteBuf, Respond, vars, agentVars
  <2> QED
    BY <1>1, <2>1 DEF FirstInv
<1> QED
  BY <1>2, <1>3, <1>4 DEF Next

\* Each result that the client reads has the first term, on however many nodes
\* it was searched: combine_query_rsl may add counts that do not belong
\* together, but never puts a document in.
THEOREM FirstTermHolds == Spec => []FirstTermFound
<1>1. Base /\ FirstInv => FirstTermFound
  <2> SUFFICES ASSUME Base, FirstInv, NEW d \in DocsOf(out)
               PROVE  CountOf(query[1], d) > 0
    BY DEF FirstTermFound
  <2>1. PICK k \in DOMAIN out : d = out[k][1]
    BY DEF DocsOf
  <2>2. /\ out \in Seq(Result) /\ qrsl \in Seq(Result) /\ Len(out) <= Len(qrsl)
        /\ out[k] = qrsl[k] /\ 1 \in 1..Len(query)
    BY DEF Base, TypeOK, Shape
  <2>3. d \in DocsOf(qrsl)
    BY <2>1, <2>2 DEF DocsOf
  <2> QED
    BY <2>2, <2>3, CountOfIs, TermAt DEF FirstInv
<1> QED
  BY <1>1, AlwaysBase, FirstInit, FirstNext, PTL DEF Spec


-----------------------------------------------------------------------------
(* A document that has all terms is a result. *)

Matches == {d \in Doc : HasAllTerms(d)}

\* Whatever combine_query_rsl does with the rest, it keeps what both lists have:
\* a worker's list has the matches from its first term on, and do_retr's list
\* from the first worker on.
MatchInv ==
  /\ \A w \in 1..nodes :
       ~flag[w] /\ i[w] <= n => Matches \subseteq DocsOf(n_rsl[w])
  /\ joined > 0 /\ NothingCut => Matches \subseteq DocsOf(qrsl)

\* The nodes that take part are workers.
LEMMA NodesAreWorkers == Base => \A w \in 1..nodes : w \in Worker
<1> SUFFICES ASSUME Base, NEW w \in 1..nodes PROVE w \in Worker
  OBVIOUS
<1>1. MaxTerms \in Nat \ {0} /\ nodes \in 1..MaxTerms
  BY SearchAssumption DEF Base, TypeOK
<1> QED
  BY <1>1 DEF Worker

\* A document with all terms is in the list of each.
LEMMA MatchesHave ==
  ASSUME Base, NEW k \in 1..Len(query)
  PROVE  Matches \subseteq DocsOf(index[query[k]])
<1>1. query \in Seq(Term) /\ DOMAIN query = 1..Len(query)
  BY DEF Base, TypeOK
<1>2. \A d \in Matches : CountOf(query[k], d) > 0
  BY <1>1 DEF Matches, HasAllTerms
<1> QED
  BY <1>2, CountOfIs, TermAt

\* The matches depend on the index and the query only.
LEMMA MatchesSame ==
  ASSUME UNCHANGED <<index, query>> PROVE Matches' = Matches
<1>1. \A t, d : CountOf(t, d)' = CountOf(t, d)
  BY DEF CountOf
<1> QED
  BY <1>1 DEF Matches, HasAllTerms

\* Nothing is missed at the start.
LEMMA MatchInit == Init => MatchInv
<1> SUFFICES ASSUME Init PROVE MatchInv
  OBVIOUS
<1>1. \A w \in 1..nodes : flag[w] = TRUE
  BY InitBase, NodesAreWorkers DEF Init
<1>2. joined = 0
  BY DEF Init
<1> QED
  BY <1>1, <1>2 DEF MatchInv

\* A lookup misses no match.
LEMMA MatchRetrieve ==
  ASSUME Base, MatchInv, NEW w \in Worker, Retrieve(w) PROVE MatchInv'
<1>1. /\ UNCHANGED <<index, query, nodes, joined, qrsl>> /\ pc = "retrieve"
      /\ flag' = [flag EXCEPT ![w] = FALSE]
      /\ \A v \in Worker : v # w => i'[v] = i[v]
  BY DEF Retrieve, Base, TypeOK
<1>2. PICK nn \in Seq(Result) :
        /\ n_rsl' = [n_rsl EXCEPT ![w] = IF Done(w) = 0 THEN nn
                                         ELSE CombineQueryRsl(n_rsl[w], nn)]
        /\ i'[w] \in Nat /\ i'[w] >= i[w]
        /\ i'[w] <= n => DocsOf(nn) = DocsOf(index[Share(w)[Done(w) + 1]])
  BY RetrieveDoes
<1>3. /\ n_rsl \in [Worker -> Seq(Result)] /\ flag \in [Worker -> BOOLEAN]
      /\ i \in [Worker -> Nat] /\ joined = 0 /\ Queue(w)
      /\ query \in Seq(Term) /\ nodes \in 1..Len(query)
  BY <1>1 DEF Base, TypeOK, Shape
<1>4. Matches' = Matches
  BY <1>1, MatchesSame
<1>5. Done(w) \in Nat /\ Done(w) < Len(Share(w))
  BY RetrieveDoes
<1>6. Matches \subseteq DocsOf(index[Share(w)[Done(w) + 1]])
  <2>1. Done(w) + 1 \in 1..Len(Share(w))
    <3>1. Len(Share(w)) \in Nat
      BY <1>3, ShareType
    <3> QED
      BY <1>5, <3>1
  <2>2. PICK k \in 1..Len(query) : Share(w)[Done(w) + 1] = query[k]
    BY <1>3, <2>1, ShareType
  <2> QED
    BY <2>2, MatchesHave
<1>7. w \in 1..nodes
  <2>1. w > nodes => Share(w) = <<>>
    BY <1>3, ShareType
  <2>2. ~(w > nodes)
    BY <1>5, <2>1
  <2>3. w \in Nat /\ w >= 1 /\ nodes \in Nat
    BY <1>3, SearchAssumption DEF Worker
  <2> QED
    BY <2>2, <2>3
<1>8. i'[w] <= n => Matches \subseteq DocsOf(n_rsl'[w])
  <2> HAVE i'[w] <= n
  <2>1. Matches \subseteq DocsOf(nn)
    BY <1>2, <1>6
  <2>2. CASE Done(w) = 0
    <3>1. n_rsl'[w] = nn
      BY <1>2, <1>3, <2>2
    <3> QED
      BY <2>1, <3>1
  <2>3. CASE Done(w) # 0
    <3>1. n_rsl'[w] = CombineQueryRsl(n_rsl[w], nn)
      BY <1>2, <1>3, <2>3
    <3>2. ~flag[w] /\ i[w] <= n
      <4>1. i[w] \in Nat /\ n \in Nat
        BY <1>3, SearchAssumption
      <4>2. i[w] <= n
        BY <1>2, <4>1
      <4> QED
        BY <1>3, <2>3, <4>2 DEF Queue
    <3>3. Matches \subseteq DocsOf(n_rsl[w])
      BY <1>7, <3>2 DEF MatchInv
    <3>4. n_rsl[w] \in Seq(Result)
      BY <1>3
    <3>5. DocsOf(n_rsl[w]) \cap DocsOf(nn) \subseteq DocsOf(n_rsl'[w])
      BY <3>1, <3>4, CombineKeeps
    <3> QED
      BY <2>1, <3>3, <3>5
  <2> QED
    BY <2>2, <2>3
<1>9. ASSUME NEW v \in 1..nodes, v # w, ~flag'[v], i'[v] <= n
      PROVE  Matches \subseteq DocsOf(n_rsl'[v])
  <2>1. v \in Worker
    BY NodesAreWorkers
  <2>2. n_rsl'[v] = n_rsl[v] /\ flag'[v] = flag[v] /\ i'[v] = i[v]
    BY <1>1, <1>2, <1>3, <1>9, <2>1
  <2> QED
    BY <1>9, <2>2 DEF MatchInv
<1>10. ~(joined' > 0)
  BY <1>1, <1>3
<1> QED
  BY <1>1, <1>4, <1>8, <1>9, <1>10 DEF MatchInv

\* Every worker has looked up a term when the agents are joined.
LEMMA AllLookedUp ==
  ASSUME Base, pc \notin {"split", "retrieve"}, NEW w \in 1..nodes
  PROVE  w \in Worker /\ ~flag[w] /\ Done(w) = Len(Share(w)) /\ Done(w) > 0
<1>1. w \in Worker
  BY NodesAreWorkers
<1>2. /\ query \in Seq(Term) /\ nodes \in 1..Len(query) /\ Queue(w) /\ pquery[w] = <<>>
  BY <1>1 DEF Base, TypeOK, Shape
<1>3. Share(w) \in Seq(Term) /\ Len(Share(w)) > 0
  <2>1. w <= nodes
    BY <1>2
  <2> QED
    BY <1>1, <1>2, <2>1, ShareType
<1>4. Done(w) = Len(Share(w)) /\ Done(w) # 0
  BY <1>2, <1>3 DEF Done
<1> QED
  BY <1>1, <1>2, <1>3, <1>4 DEF Queue

\* What do_retr combines next.
LEMMA CombineDoes ==
  ASSUME Base, Combine
  PROVE  /\ joined \in Nat /\ joined' = joined + 1 /\ joined + 1 \in 1..nodes
         /\ joined + 1 \in 1..Len(query) /\ 1 \in 1..nodes
         /\ \A w \in 1..nodes : n_rsl[w] \in Seq(Result) /\ Distinct(n_rsl[w])
         /\ qrsl \in Seq(Result) /\ Distinct(qrsl)
         /\ qrsl' = IF joined = 0 THEN n_rsl[1]
                    ELSE CombineQueryRsl(qrsl, n_rsl[joined + 1])
         /\ UNCHANGED <<index, query, nodes, pquery, i, n_rsl, flag>>
<1>1. /\ joined < nodes /\ joined' = joined + 1
      /\ qrsl' = IF joined = 0 THEN n_rsl[1] ELSE CombineQueryRsl(qrsl, n_rsl[joined + 1])
      /\ UNCHANGED <<index, query, nodes, pquery, i, n_rsl, flag>>
  BY DEF Combine, agentVars
<1>2. /\ joined \in Nat /\ nodes \in 1..Len(query) /\ Len(query) \in Nat
      /\ qrsl \in Seq(Result) /\ Distinct(qrsl)
      /\ \A w \in Worker : n_rsl[w] \in Seq(Result) /\ Distinct(n_rsl[w])
  BY DEF Base, TypeOK, Shape
<1>3. \A w \in 1..nodes : n_rsl[w] \in Seq(Result) /\ Distinct(n_rsl[w])
  BY <1>2, NodesAreWorkers
<1> QED
  BY <1>1, <1>2, <1>3

\* A joining of two lists misses no match.
LEMMA MatchCombine == ASSUME Base, MatchInv, Combine PROVE MatchInv'
<1>1. /\ UNCHANGED <<index, query, nodes, i, n_rsl, flag>>
      /\ qrsl' = IF joined = 0 THEN n_rsl[1] ELSE CombineQueryRsl(qrsl, n_rsl[joined + 1])
      /\ qrsl \in Seq(Result) /\ joined \in Nat /\ joined + 1 \in 1..nodes /\ 1 \in 1..nodes
      /\ n_rsl[joined + 1] \in Seq(Result)
  BY CombineDoes
<1>2. Matches' = Matches /\ pc = "combine"
  BY <1>1, MatchesSame DEF Combine
<1>3. ASSUME NothingCut PROVE Matches \subseteq DocsOf(qrsl')
  <2>1. \A w \in 1..nodes : Matches \subseteq DocsOf(n_rsl[w])
    BY <1>2, <1>3, AllLookedUp DEF MatchInv, NothingCut
  <2>2. CASE joined = 0
    BY <1>1, <2>1, <2>2
  <2>3. CASE joined # 0
    <3>1. Matches \subseteq DocsOf(qrsl)
      BY <1>1, <1>3, <2>3 DEF MatchInv
    <3>2. DocsOf(qrsl) \cap DocsOf(n_rsl[joined + 1]) \subseteq DocsOf(qrsl')
      BY <1>1, <2>3, CombineKeeps
    <3> QED
      BY <1>1, <2>1, <3>1, <3>2
  <2> QED
    BY <2>2, <2>3
<1>4. NothingCut' = NothingCut
  BY <1>1 DEF NothingCut
<1> QED
  BY <1>1, <1>2, <1>3, <1>4 DEF MatchInv

\* That no match is missed is kept by every step.
LEMMA MatchNext == Base /\ MatchInv /\ [Next]_vars => MatchInv'
<1> SUFFICES ASSUME Base, MatchInv, [Next]_vars PROVE MatchInv'
  OBVIOUS
<1>1. CASE SplitQuery \/ Join \/ CreateOutBuf \/ NextResult \/ WriteBuf \/ Respond
           \/ UNCHANGED vars
  <2>1. UNCHANGED <<index, query, nodes, i, n_rsl, flag, joined, qrsl>>
    BY <1>1 DEF SplitQuery, Join, CreateOutBuf, NextResult, WriteBuf, Respond, vars, agentVars
  <2>2. Matches' = Matches
    BY <2>1, MatchesSame
  <2> QED
    BY <2>1, <2>2 DEF MatchInv, NothingCut
<1> QED
  BY <1>1, MatchRetrieve, MatchCombine DEF Next

\* A search misses no document that has all of its terms, unless a list was cut
\* at n: not for any number of nodes, although combine_query_rsl may compare
\* a list with itself.
THEOREM AllMatchesHolds == Spec => []AllMatchesFound
<1>1. Base /\ MatchInv => AllMatchesFound
  <2> SUFFICES ASSUME Base, MatchInv, pc = "done", NothingCut
               PROVE  Matches \subseteq DocsOf(qrsl)
    BY DEF AllMatchesFound, Matches
  <2>1. joined = nodes /\ nodes \in 1..Len(query) /\ Len(query) \in Nat
    BY DEF Base, Shape, TypeOK
  <2>2. joined > 0
    BY <2>1
  <2> QED
    BY <2>2 DEF MatchInv
<1> QED
  BY <1>1, AlwaysBase, MatchInit, MatchNext, PTL DEF Spec


-----------------------------------------------------------------------------
(* Where the answer is exact. *)

\* The documents that the first k terms have in common.
InFirst(k) == {d \in Doc : \A j \in 1..k : CountOf(query[j], d) > 0}

\* s is the exact answer to the first k terms.
Exact(s, k) == SetOf(s) = {<<d, SumOfCounts(d, k)>> : d \in InFirst(k)}

\* And s is not longer than the last of their lists.
ExactTo(s, k) ==
  /\ k \in 1..Len(query)
  /\ Exact(s, k)
  /\ Len(s) <= Len(index[query[k]])

Ascends ==
  \A j \in 2..Len(query) : Len(index[query[j - 1]]) < Len(index[query[j]])

\* A worker that has no more than one term has that term's list; one that has
\* them all has the exact answer to those it has looked up; and so has do_retr
\* to those of the workers it has joined.
ExactInv ==
  NothingCut /\ Ascends => \A s, k :
    /\ nodes = 1 /\ ~flag[1] /\ s = n_rsl[1] /\ k = Done(1) => ExactTo(s, k)
    /\ nodes = Len(query) => \A w \in 1..nodes : ~flag[w] =>
         /\ SetOf(n_rsl[w]) = SetOf(index[query[w]])
         /\ Len(n_rsl[w]) = Len(index[query[w]])
    /\ nodes = 1 /\ joined > 0 /\ s = qrsl /\ k = Len(query) => ExactTo(s, k)
    /\ nodes = Len(query) /\ joined > 0 /\ s = qrsl /\ k = joined => ExactTo(s, k)

\* The sums are what their definition says: they exist.
LEMMA SumOfCountsIs ==
  ASSUME Base, NEW d
  PROVE  /\ SumOfCounts(d, 0) = 0
         /\ \A k \in 1..Len(query) :
              SumOfCounts(d, k) = SumOfCounts(d, k - 1) + CountOf(query[k], d)
<1> DEFINE a == [j \in 1..Len(query) |-> CountOf(query[j], d)]
           Good(f) == f = [j \in 0..Len(query) |->
                             IF j = 0 THEN 0 ELSE f[j - 1] + CountOf(query[j], d)]
           sum == CHOOSE f : Good(f)
<1>1. Len(query) \in Nat
  BY DEF Base, TypeOK
<1>2. \A k : SumOfCounts(d, k) = sum[k]
  BY DEF SumOfCounts
<1>3. Good(sum)
  <2>1. PICK f : Adds(f, a, Len(query))
    BY <1>1, SumExists
  <2>2. f = [j \in 0..Len(query) |-> IF j = 0 THEN 0 ELSE f[j - 1] + a[j]]
    BY <2>1 DEF Adds
  <2>3. \A j \in 0..Len(query) : j # 0 => a[j] = CountOf(query[j], d)
    BY <1>1
  <2> HIDE DEF a
  <2>4. [j \in 0..Len(query) |-> IF j = 0 THEN 0 ELSE f[j - 1] + a[j]]
          = [j \in 0..Len(query) |-> IF j = 0 THEN 0 ELSE f[j - 1] + CountOf(query[j], d)]
    BY <2>3
  <2>5. Good(f)
    BY <2>2, <2>4
  <2> HIDE DEF Good
  <2> QED
    BY <2>5
<1> HIDE DEF sum
<1>4. /\ sum[0] = 0
      /\ \A k \in 1..Len(query) : sum[k] = sum[k - 1] + CountOf(query[k], d)
  <2>1. \A k \in 0..Len(query) :
          sum[k] = IF k = 0 THEN 0 ELSE sum[k - 1] + CountOf(query[k], d)
    BY <1>3
  <2>2. 0 \in 0..Len(query) /\ \A k \in 1..Len(query) : k \in 0..Len(query) /\ k # 0
    BY <1>1
  <2> QED
    BY <2>1, <2>2
<1> QED
  BY <1>2, <1>4

\* A term's list has its documents with their counts.
LEMMA ListIs ==
  ASSUME Base, NEW k \in 1..Len(query)
  PROVE  SetOf(index[query[k]])
           = {<<d, CountOf(query[k], d)>> : d \in {e \in Doc : CountOf(query[k], e) > 0}}
<1> DEFINE t == query[k]
           s == index[t]
<1>1. t \in Term /\ s \in Seq(Result) /\ DOMAIN s = 1..Len(s)
  BY TermAt
<1>2. /\ \A d : CountOf(t, d) > 0 <=> d \in DocsOf(s)
      /\ DocsOf(s) \subseteq Doc
      /\ \A j \in 1..Len(s) : s[j] = <<s[j][1], CountOf(t, s[j][1])>>
  BY <1>1, CountOfIs
<1> HIDE DEF t, s
<1>3. ASSUME NEW x \in SetOf(s)
      PROVE  \E d \in Doc : CountOf(t, d) > 0 /\ x = <<d, CountOf(t, d)>>
  <2>1. PICK j \in 1..Len(s) : x = s[j]
    BY <1>1 DEF SetOf
  <2>2. s[j][1] \in DocsOf(s)
    BY <1>1, <2>1 DEF DocsOf
  <2> QED
    BY <1>2, <2>1, <2>2
<1>4. ASSUME NEW d \in Doc, CountOf(t, d) > 0 PROVE <<d, CountOf(t, d)>> \in SetOf(s)
  <2>1. PICK j \in 1..Len(s) : d = s[j][1]
    BY <1>1, <1>2, <1>4 DEF DocsOf
  <2> QED
    BY <1>1, <1>2, <2>1 DEF SetOf
<1>5. SetOf(s) = {<<d, CountOf(t, d)>> : d \in {e \in Doc : CountOf(t, e) > 0}}
  BY <1>3, <1>4
<1> QED
  BY <1>5 DEF t, s

\* The first term's list is the exact answer to it.
LEMMA ExactFirst ==
  ASSUME Base, NEW s, SetOf(s) = SetOf(index[query[1]])
  PROVE  Exact(s, 1)
<1>1. 1 \in 1..Len(query)
  BY DEF Base, Shape
<1>2. InFirst(1) = {e \in Doc : CountOf(query[1], e) > 0}
  BY DEF InFirst
<1>3. ASSUME NEW d PROVE SumOfCounts(d, 1) = CountOf(query[1], d)
  <2>1. SumOfCounts(d, 1) = SumOfCounts(d, 1 - 1) + CountOf(query[1], d)
        /\ SumOfCounts(d, 0) = 0 /\ CountOf(query[1], d) \in Nat
    BY <1>1, SumOfCountsIs, CountOfIs, TermAt
  <2> QED
    BY <2>1
<1> QED
  BY <1>1, <1>2, <1>3, ListIs DEF Exact

\* A longer list of one more term makes it the exact answer to one more.
LEMMA ExactNext ==
  ASSUME Base, NEW s \in Seq(Result), NEW u \in Seq(Result), NEW k \in 1..Len(query),
         k + 1 \in 1..Len(query), Exact(s, k),
         SetOf(u) = SetOf(index[query[k + 1]]), Len(s) < Len(u)
  PROVE  Exact(CombineQueryRsl(s, u), k + 1)
<1> DEFINE c == CombineQueryRsl(s, u)
           t == query[k + 1]
<1>1. SetOf(c) = Joins(s, u)
  BY CombineKeeps
<1>2. SetOf(u) = {<<d, CountOf(t, d)>> : d \in {e \in Doc : CountOf(t, e) > 0}}
  BY ListIs
<1>3. SetOf(s) = {<<d, SumOfCounts(d, k)>> : d \in InFirst(k)}
  BY DEF Exact
<1>4. \A d : SumOfCounts(d, k + 1) = SumOfCounts(d, k) + CountOf(t, d)
  <2>1. (k + 1) - 1 = k
    OBVIOUS
  <2> QED
    BY <2>1, SumOfCountsIs
<1>5. \A d : d \in InFirst(k + 1) <=> d \in InFirst(k) /\ CountOf(t, d) > 0
  <2>1. \A j : j \in 1..(k + 1) <=> j \in 1..k \/ j = k + 1
    OBVIOUS
  <2> QED
    BY <2>1 DEF InFirst
<1>6. \A d : d \in InFirst(k) => d \in Doc
  BY DEF InFirst
<1> HIDE DEF c, t
<1>7. ASSUME NEW v \in SetOf(c)
      PROVE  \E d \in InFirst(k + 1) : v = <<d, SumOfCounts(d, k + 1)>>
  <2>1. PICK x \in SetOf(s), y \in SetOf(u) : x[1] = y[1] /\ v = <<x[1], x[2] + y[2]>>
    BY <1>1, <1>7 DEF Joins
  <2>2. PICK d \in InFirst(k) : x = <<d, SumOfCounts(d, k)>>
    BY <1>3
  <2>3. PICK e \in Doc : CountOf(t, e) > 0 /\ y = <<e, CountOf(t, e)>>
    BY <1>2
  <2>4. x[1] = d /\ x[2] = SumOfCounts(d, k) /\ y[1] = e /\ y[2] = CountOf(t, e)
    BY <2>2, <2>3
  <2>5. d = e
    BY <2>1, <2>4
  <2> QED
    BY <1>4, <1>5, <2>1, <2>3, <2>4, <2>5
<1>8. ASSUME NEW d \in InFirst(k + 1)
      PROVE  <<d, SumOfCounts(d, k + 1)>> \in SetOf(c)
  <2> DEFINE x == <<d, SumOfCounts(d, k)>>
             y == <<d, CountOf(t, d)>>
  <2>1. d \in InFirst(k) /\ d \in Doc /\ CountOf(t, d) > 0
    BY <1>5, <1>6
  <2>2. x \in SetOf(s) /\ y \in SetOf(u)
    BY <1>2, <1>3, <2>1
  <2>3. x \in Result /\ y \in Result
    <3>1. DOMAIN s = 1..Len(s) /\ DOMAIN u = 1..Len(u)
      OBVIOUS
    <3>2. SetOf(s) \subseteq Result /\ SetOf(u) \subseteq Result
      BY <3>1 DEF SetOf
    <3> QED
      BY <2>2, <3>2
  <2>4. <<d, SumOfCounts(d, k) + CountOf(t, d)>> \in Result
    BY <2>3 DEF Result
  <2>5. <<d, SumOfCounts(d, k) + CountOf(t, d)>> \in Joins(s, u)
    <3>1. x[1] = y[1] /\ x[1] = d /\ x[2] = SumOfCounts(d, k) /\ y[2] = CountOf(t, d)
      OBVIOUS
    <3> HIDE DEF x, y
    <3> QED
      BY <2>2, <2>4, <3>1 DEF Joins
  <2> QED
    BY <1>1, <1>4, <2>5
<1>9. SetOf(c) = {<<d, SumOfCounts(d, k + 1)>> : d \in InFirst(k + 1)}
  BY <1>7, <1>8
<1> QED
  BY <1>9 DEF Exact, c


\* What the exact list is depends on the index and the query only.
LEMMA ExactToSame ==
  ASSUME UNCHANGED <<index, query>>
  PROVE  \A s, k : ExactTo(s, k)' = ExactTo(s, k)
<1>1. \A t, d : CountOf(t, d)' = CountOf(t, d)
  BY DEF CountOf
<1>2. ASSUME NEW d, NEW k PROVE SumOfCounts(d, k)' = SumOfCounts(d, k)
  BY DEF SumOfCounts, CountOf
<1>3. ASSUME NEW k PROVE InFirst(k)' = InFirst(k)
  BY DEF InFirst, CountOf
<1>4. ASSUME NEW s, NEW k PROVE Exact(s, k)' = Exact(s, k)
  BY <1>2, <1>3 DEF Exact
<1> QED
  BY <1>4 DEF ExactTo


\* Nothing is inexact at the start.
LEMMA ExactInit == Init => ExactInv
<1> SUFFICES ASSUME Init PROVE ExactInv
  OBVIOUS
<1>1. /\ \A w \in 1..nodes : flag[w] = TRUE
      /\ joined = 0 /\ flag[1] = TRUE
  BY InitBase, NodesAreWorkers, FirstWorker DEF Init
<1> QED
  BY <1>1 DEF ExactInv

\* A lookup, joined to the shorter list so far, keeps it exact.
LEMMA ExactRetrieve ==
  ASSUME Base, ExactInv, NEW w \in Worker, Retrieve(w) PROVE ExactInv'
<1> DEFINE k == Done(w)
           list == index[Share(w)[k + 1]]
<1>1. /\ UNCHANGED <<index, query, nodes, joined, qrsl>> /\ pc = "retrieve"
      /\ flag' = [flag EXCEPT ![w] = FALSE]
      /\ \A v \in Worker : v # w => i'[v] = i[v]
  BY DEF Retrieve, Base, TypeOK
<1>2. PICK nn \in Seq(Result) :
        /\ n_rsl' = [n_rsl EXCEPT ![w] = IF k = 0 THEN nn ELSE CombineQueryRsl(n_rsl[w], nn)]
        /\ Distinct(nn) /\ i'[w] \in Nat /\ i'[w] >= i[w]
        /\ i'[w] <= n => Len(nn) = Len(list) /\ SetOf(nn) = SetOf(list)
  BY RetrieveDoes
<1>3. /\ n_rsl \in [Worker -> Seq(Result)] /\ flag \in [Worker -> BOOLEAN]
      /\ i \in [Worker -> Nat] /\ joined = 0 /\ Queue(w) /\ Distinct(n_rsl[w])
      /\ query \in Seq(Term) /\ nodes \in 1..Len(query) /\ Len(query) \in Nat
  BY <1>1 DEF Base, TypeOK, Shape
<1>4. /\ k \in Nat /\ k < Len(Share(w)) /\ Done(w)' = k + 1
  BY RetrieveDoes
<1>5. w \in 1..nodes
  <2>1. w > nodes => Share(w) = <<>>
    BY <1>3, ShareType
  <2>2. ~(w > nodes)
    BY <1>4, <2>1
  <2>3. w \in Nat /\ w >= 1 /\ nodes \in Nat
    BY <1>3, SearchAssumption DEF Worker
  <2> QED
    BY <2>2, <2>3
<1> SUFFICES ASSUME NothingCut', Ascends' PROVE
      /\ nodes = 1 => ExactTo(n_rsl'[1], k + 1)
      /\ nodes = Len(query) => \A v \in 1..nodes : ~flag'[v] =>
           /\ SetOf(n_rsl'[v]) = SetOf(index[query[v]])
           /\ Len(n_rsl'[v]) = Len(index[query[v]])
  <2>1. nodes = 1 => w = 1
    BY <1>5
  <2>2. \A s, m : ExactTo(s, m)' = ExactTo(s, m)
    BY <1>1, ExactToSame
  <2>3. ~(joined' > 0)
    BY <1>1, <1>3
  <2> SUFFICES ASSUME NothingCut', Ascends', NEW s, NEW m
               PROVE  /\ nodes = 1 /\ s = n_rsl'[1] /\ m = Done(1)' => ExactTo(s, m)
                      /\ nodes = Len(query) => \A v \in 1..nodes : ~flag'[v] =>
                           /\ SetOf(n_rsl'[v]) = SetOf(index[query[v]])
                           /\ Len(n_rsl'[v]) = Len(index[query[v]])
    BY <1>1, <2>2, <2>3 DEF ExactInv
  <2>4. nodes = 1 => Done(1)' = k + 1
    BY <1>4, <2>1
  <2> QED
    BY <2>4
<1>6. Ascends
  BY <1>1 DEF Ascends
<1>7. i'[w] <= n /\ NothingCut
  <2>1. \A v \in Worker : i'[v] <= n
    BY DEF NothingCut
  <2>2. i[w] \in Nat /\ i'[w] <= n /\ i[w] <= n
    BY <1>2, <1>3, <2>1, SearchAssumption
  <2> QED
    BY <1>1, <2>1, <2>2 DEF NothingCut
<1>8. Len(nn) = Len(list) /\ SetOf(nn) = SetOf(list)
  BY <1>2, <1>7
<1> HIDE DEF k
<1>9. ASSUME nodes = 1 PROVE ExactTo(n_rsl'[1], k + 1)
  <2>1. w = 1 /\ Share(w) = query /\ 1 \in Worker
    BY <1>3, <1>5, <1>9, ShareType
  <2>2. k + 1 \in 1..Len(query) /\ list = index[query[k + 1]]
    BY <1>3, <1>4, <2>1
  <2>3. CASE k = 0
    <3>1. n_rsl'[1] = nn
      BY <1>2, <1>3, <2>1, <2>3
    <3>2. SetOf(nn) = SetOf(index[query[1]]) /\ Len(nn) = Len(index[query[1]]) /\ Len(nn) \in Nat
      BY <1>8, <2>2, <2>3
    <3>3. Exact(nn, 1)
      BY <3>2, ExactFirst
    <3> QED
      BY <2>2, <2>3, <3>1, <3>2, <3>3 DEF ExactTo
  <2>4. CASE k # 0
    <3>1. n_rsl'[1] = CombineQueryRsl(n_rsl[1], nn)
      BY <1>2, <1>3, <2>1, <2>4
    <3>2. ~flag[1]
      BY <1>3, <2>1, <2>4 DEF Queue, k
    <3>3. ExactTo(n_rsl[1], k)
      BY <1>6, <1>7, <1>9, <2>1, <3>2 DEF ExactInv, k
    <3>4. /\ k \in 1..Len(query) /\ Exact(n_rsl[1], k) /\ n_rsl[1] \in Seq(Result)
          /\ Distinct(n_rsl[1]) /\ Len(n_rsl[1]) <= Len(index[query[k]])
      BY <1>3, <2>1, <3>3 DEF ExactTo
    <3>5. Len(n_rsl[1]) < Len(nn) /\ Len(nn) = Len(index[query[k + 1]])
      <4>1. k + 1 \in 2..Len(query) /\ (k + 1) - 1 = k
        BY <1>4, <2>2, <2>4
      <4>2. Len(index[query[k]]) < Len(index[query[k + 1]])
        BY <1>6, <4>1 DEF Ascends
      <4>3. index[query[k]] \in Seq(Result) /\ index[query[k + 1]] \in Seq(Result)
        BY <2>2, <3>4, TermAt
      <4>4. Len(nn) = Len(index[query[k + 1]])
        BY <1>8, <2>2
      <4>5. Len(n_rsl[1]) \in Nat /\ Len(index[query[k]]) \in Nat
            /\ Len(index[query[k + 1]]) \in Nat
        BY <3>4, <4>3
      <4> QED
        BY <3>4, <4>2, <4>4, <4>5
    <3>6. Exact(n_rsl'[1], k + 1)
      <4>1. SetOf(nn) = SetOf(index[query[k + 1]])
        BY <1>8, <2>2
      <4> QED
        BY <2>2, <3>1, <3>4, <3>5, <4>1, ExactNext
    <3>7. Len(n_rsl'[1]) <= Len(index[query[k + 1]])
      <4>1. Len(n_rsl'[1]) <= Len(n_rsl[1]) /\ n_rsl'[1] \in Seq(Result)
        BY <1>2, <3>1, <3>4, CombineKeeps
      <4>2. Len(n_rsl'[1]) \in Nat /\ Len(n_rsl[1]) \in Nat /\ Len(nn) \in Nat
        BY <3>4, <4>1
      <4> QED
        BY <3>5, <4>1, <4>2
    <3> QED
      BY <2>2, <3>6, <3>7 DEF ExactTo
  <2> QED
    BY <2>3, <2>4
<1>10. ASSUME nodes = Len(query), NEW v \in 1..nodes, ~flag'[v]
       PROVE  /\ SetOf(n_rsl'[v]) = SetOf(index[query[v]])
              /\ Len(n_rsl'[v]) = Len(index[query[v]])
  <2>1. v \in Worker
    BY NodesAreWorkers
  <2>2. CASE v = w
    <3>1. Share(w) = <<query[w]>>
      <4>1. w <= nodes
        BY <1>5
      <4> QED
        BY <1>3, <1>10, <4>1, ShareType
    <3>2. k = 0 /\ Share(w)[1] = query[w]
      BY <1>4, <3>1
    <3>3. n_rsl'[w] = nn /\ list = index[query[w]]
      BY <1>2, <1>3, <3>2
    <3> QED
      BY <1>8, <2>2, <3>3
  <2>3. CASE v # w
    <3>1. n_rsl'[v] = n_rsl[v] /\ flag'[v] = flag[v]
      BY <1>1, <1>2, <1>3, <2>1, <2>3
    <3> QED
      BY <1>6, <1>7, <1>10, <3>1 DEF ExactInv
  <2> QED
    BY <2>2, <2>3
<1> QED
  BY <1>9, <1>10

\* A joining of the workers' lists keeps them exact.
LEMMA ExactCombine == ASSUME Base, ExactInv, Combine PROVE ExactInv'
<1>1. /\ joined \in Nat /\ joined' = joined + 1 /\ joined + 1 \in 1..nodes
      /\ joined + 1 \in 1..Len(query) /\ 1 \in 1..nodes
      /\ \A w \in 1..nodes : n_rsl[w] \in Seq(Result) /\ Distinct(n_rsl[w])
      /\ qrsl \in Seq(Result) /\ Distinct(qrsl)
      /\ qrsl' = IF joined = 0 THEN n_rsl[1] ELSE CombineQueryRsl(qrsl, n_rsl[joined + 1])
      /\ UNCHANGED <<index, query, nodes, pquery, i, n_rsl, flag>>
  BY CombineDoes
<1>2. /\ pc = "combine" /\ query \in Seq(Term) /\ nodes \in 1..Len(query) /\ 1 \in Worker
      /\ Len(query) \in Nat
  BY FirstWorker DEF Base, TypeOK, Shape, Combine
<1>3. \A w \in 1..nodes : ~flag[w] /\ Done(w) = Len(Share(w))
  BY <1>2, AllLookedUp
<1>4. /\ NothingCut' = NothingCut /\ Ascends' = Ascends /\ Done(1)' = Done(1)
      /\ \A s, m : ExactTo(s, m)' = ExactTo(s, m)
  BY <1>1, ExactToSame DEF NothingCut, Ascends, Done, Share
<1> SUFFICES ASSUME NothingCut, Ascends
             PROVE  /\ nodes = 1 => ExactTo(qrsl', Len(query))
                    /\ nodes = Len(query) => ExactTo(qrsl', joined + 1)
  <2> SUFFICES ASSUME NothingCut, Ascends, NEW s, NEW k
               PROVE  /\ nodes = 1 /\ ~flag[1] /\ s = n_rsl[1] /\ k = Done(1) => ExactTo(s, k)
                      /\ nodes = Len(query) => \A w \in 1..nodes : ~flag[w] =>
                           /\ SetOf(n_rsl[w]) = SetOf(index[query[w]])
                           /\ Len(n_rsl[w]) = Len(index[query[w]])
                      /\ nodes = 1 /\ s = qrsl' /\ k = Len(query) => ExactTo(s, k)
                      /\ nodes = Len(query) /\ s = qrsl' /\ k = joined + 1 => ExactTo(s, k)
    BY <1>1, <1>4 DEF ExactInv
  <2> QED
    BY DEF ExactInv
<1>5. ASSUME nodes = 1 PROVE ExactTo(qrsl', Len(query))
  <2>1. joined = 0
    BY <1>1, <1>5
  <2>2. Done(1) = Len(query) /\ ~flag[1]
    BY <1>1, <1>2, <1>3, <1>5, ShareType
  <2>3. ExactTo(n_rsl[1], Len(query))
    BY <1>5, <2>2 DEF ExactInv
  <2> QED
    BY <1>1, <2>1, <2>3
<1>6. ASSUME nodes = Len(query) PROVE ExactTo(qrsl', joined + 1)
  <2>1. \A w \in 1..nodes : /\ SetOf(n_rsl[w]) = SetOf(index[query[w]])
                            /\ Len(n_rsl[w]) = Len(index[query[w]])
    BY <1>3, <1>6 DEF ExactInv
  <2>2. CASE joined = 0
    <3>1. qrsl' = n_rsl[1] /\ joined + 1 = 1
      BY <1>1, <2>2
    <3>2. Exact(qrsl', 1) /\ Len(qrsl') = Len(index[query[1]]) /\ Len(qrsl') \in Nat
      BY <1>1, <2>1, <3>1, ExactFirst
    <3> QED
      BY <1>1, <3>1, <3>2 DEF ExactTo
  <2>3. CASE joined # 0
    <3> DEFINE k == joined
               u == n_rsl[k + 1]
               c == CombineQueryRsl(qrsl, u)
    <3>1. qrsl' = c /\ u \in Seq(Result) /\ Distinct(u)
      BY <1>1, <2>3
    <3>2. SetOf(u) = SetOf(index[query[k + 1]]) /\ Len(u) = Len(index[query[k + 1]])
      BY <1>1, <2>1
    <3>3. ExactTo(qrsl, k)
      <4>1. joined > 0
        BY <1>1, <2>3
      <4> QED
        BY <1>6, <4>1 DEF ExactInv
    <3>4. k \in 1..Len(query) /\ Exact(qrsl, k) /\ Len(qrsl) <= Len(index[query[k]])
      BY <3>3 DEF ExactTo
    <3> HIDE DEF k, u, c
    <3>5. k + 1 \in 1..Len(query)
      BY <1>1 DEF k
    <3>6. Len(index[query[k]]) < Len(index[query[k + 1]])
      <4>1. k + 1 \in 2..Len(query) /\ (k + 1) - 1 = k
        BY <1>2, <3>4, <3>5
      <4> QED
        BY <4>1 DEF Ascends
    <3>7. /\ Len(qrsl) \in Nat /\ Len(index[query[k]]) \in Nat
          /\ Len(index[query[k + 1]]) \in Nat
      BY <1>1, <3>4, <3>5, TermAt
    <3>8. Len(qrsl) < Len(u)
      BY <3>2, <3>4, <3>6, <3>7
    <3>9. Exact(c, k + 1)
      BY <1>1, <3>1, <3>2, <3>4, <3>5, <3>8, ExactNext DEF c
    <3>10. Len(c) \in Nat /\ Len(c) <= Len(qrsl)
      BY <1>1, <3>1, CombineKeeps DEF c
    <3>11. Len(c) <= Len(index[query[k + 1]])
      BY <3>2, <3>7, <3>8, <3>10
    <3>12. ExactTo(c, k + 1)
      BY <3>5, <3>9, <3>11 DEF ExactTo
    <3> QED
      BY <3>1, <3>12 DEF k
  <2> QED
    BY <2>2, <2>3
<1> QED
  BY <1>5, <1>6

\* That lists are exact is kept by every step.
LEMMA ExactInvNext == Base /\ ExactInv /\ [Next]_vars => ExactInv'
<1> SUFFICES ASSUME Base, ExactInv, [Next]_vars PROVE ExactInv'
  OBVIOUS
<1>1. CASE SplitQuery
  <2>1. flag' = flag /\ nodes' = nodes /\ joined' = joined /\ pc = "split"
    BY <1>1 DEF SplitQuery
  <2>2. joined = 0 /\ \A w \in 1..nodes : flag[w] = TRUE
    BY <2>1, NodesAreWorkers DEF Base, Shape
  <2>3. flag[1] = TRUE
    BY <2>1, FirstWorker DEF Base, Shape
  <2> QED
    BY <2>1, <2>2, <2>3 DEF ExactInv
<1>2. CASE Join \/ CreateOutBuf \/ NextResult \/ WriteBuf \/ Respond \/ UNCHANGED vars
  <2>1. UNCHANGED <<index, query, nodes, pquery, i, n_rsl, flag, joined, qrsl>>
    BY <1>2 DEF Join, CreateOutBuf, NextResult, WriteBuf, Respond, vars, agentVars
  <2>2. /\ NothingCut' = NothingCut /\ Ascends' = Ascends /\ Done(1)' = Done(1)
        /\ \A s, m : ExactTo(s, m)' = ExactTo(s, m)
    BY <2>1, ExactToSame DEF NothingCut, Ascends, Done, Share
  <2> QED
    BY <2>1, <2>2 DEF ExactInv
<1> QED
  BY <1>1, <1>2, ExactRetrieve, ExactCombine DEF Next

\* The code's answer is the right one, documents and weights, where each term
\* has a longer list than the one before and the terms are together on one node
\* or each on its own: in that order combine_query_rsl's mistake about the
\* shorter list does no harm.
THEOREM ExactHolds == Spec => []ExactIfAscending
<1>1. Base /\ ExactInv => ExactIfAscending
  <2> SUFFICES ASSUME Base, ExactInv, pc = "done", NothingCut, Ascends,
                      nodes \in {1, Len(query)}
               PROVE  SetOf(qrsl) = {<<d, SumOfCounts(d, Len(query))>> :
                                       d \in {e \in Doc : HasAllTerms(e)}}
    BY DEF ExactIfAscending, Ascends, SetOf
  <2>1. joined = nodes /\ nodes \in 1..Len(query) /\ Len(query) \in Nat
        /\ DOMAIN query = 1..Len(query)
    BY DEF Base, Shape, TypeOK
  <2>2. joined > 0
    <3>1. \A k \in Nat : k >= 1 => k > 0
      OBVIOUS
    <3>2. nodes > 0
      BY <3>1, FirstWorker, Zenon
    <3> QED
      BY <2>1, <3>2, Zenon
  <2>3. ExactTo(qrsl, Len(query))
    BY <2>1, <2>2 DEF ExactInv
  <2>4. InFirst(Len(query)) = {e \in Doc : HasAllTerms(e)}
    BY <2>1 DEF InFirst, HasAllTerms
  <2> QED
    BY <2>3, <2>4 DEF ExactTo, Exact
<1> QED
  BY <1>1, AlwaysBase, ExactInit, ExactInvNext, PTL DEF Spec

=============================================================================
