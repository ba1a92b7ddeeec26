--------------------------- MODULE Message_proofs ---------------------------
(***************************************************************************)
(* Proofs about Serialization and Message.                                 *)
(*                                                                         *)
(* The first half is about values and cells: each loader, run on a message *)
(* that is cut off anywhere and zero from there on, stays within what its  *)
(* dump wrote, and on the whole message gives back what was dumped.  The   *)
(* lemmas follow the dumps: strings, nodes, terms, lists of each, and then *)
(* the structs.                                                            *)
(*                                                                         *)
(* The second is about states.  IInv says that what is on the way and what *)
(* has come are the message of the other end, whatever the sizes of the    *)
(* messages, the calls of send and recv and the deaths.  LoadInv, on top   *)
(* of it, says that what an end waits for comes unless the other is dead,  *)
(* and what each end makes of it.  From both follows, step by step, that   *)
(* Message implements Exchange.                                            *)
(***************************************************************************)
EXTENDS Message, Inductions

(* Cells. *)

\* mes is full up to its cell k, and has zeros from there on.
Truncated(mes, full, k) ==
  /\ mes \in Seq(Nat) /\ full \in Seq(Nat) /\ k \in 0..Len(full)
  /\ Len(mes) = Len(full)
  /\ \A j \in 1..Len(full) : mes[j] = IF j <= k THEN full[j] ELSE Nul

\* full has part at the cell at.
Has(full, at, part) ==
  /\ at \in Nat \ {0} /\ part \in Seq(Nat) /\ at + Len(part) <= Len(full) + 1
  /\ \A j \in 1..Len(part) : full[at + (j - 1)] = part[j]

\* A load that is to be at the cell at is there, or in the zeros and not beyond.
On(x, k, at) == x = at \/ (k < x /\ x <= at)

\* Loads whose nodes are of N.
LoadsOf(N) == [at : Nat \ {0}, buf : Seq(Nat), list : Seq(N), ok : BOOLEAN]

-----------------------------------------------------------------------------
\* A message that has one part and then another has each at its place.
LEMMA HasBoth ==
  ASSUME NEW full \in Seq(Nat), NEW at, NEW p \in Seq(Nat), NEW q \in Seq(Nat),
         Has(full, at, p \o q)
  PROVE  Has(full, at, p) /\ Has(full, at + Len(p), q)
<1>1. /\ p \o q \in Seq(Nat) /\ Len(p \o q) = Len(p) + Len(q)
      /\ \A j \in 1..Len(p) : (p \o q)[j] = p[j]
      /\ \A j \in 1..Len(q) : (p \o q)[Len(p) + j] = q[j]
  OBVIOUS
<1> DEFINE both == p \o q
<1> HIDE DEF both
<1>2. /\ at \in Nat \ {0} /\ at + Len(both) <= Len(full) + 1
      /\ \A j \in 1..Len(both) : full[at + (j - 1)] = both[j]
  BY DEF Has, both
<1>3. Len(p) \in Nat /\ Len(q) \in Nat /\ Len(full) \in Nat /\ Len(both) = Len(p) + Len(q)
  BY <1>1 DEF both
<1>4. Has(full, at, p)
  <2>1. ASSUME NEW j \in 1..Len(p) PROVE full[at + (j - 1)] = p[j]
    <3>1. j \in 1..Len(both)
      BY <1>3
    <3> QED
      BY <1>1, <1>2, <3>1 DEF both
  <2>2. at + Len(p) <= Len(full) + 1
    BY <1>2, <1>3
  <2> QED
    BY <1>2, <2>1, <2>2 DEF Has
<1>5. Has(full, at + Len(p), q)
  <2>1. ASSUME NEW j \in 1..Len(q) PROVE full[(at + Len(p)) + (j - 1)] = q[j]
    <3>1. Len(p) + j \in 1..Len(both) /\ at + ((Len(p) + j) - 1) = (at + Len(p)) + (j - 1)
      BY <1>2, <1>3
    <3>2. full[at + ((Len(p) + j) - 1)] = both[Len(p) + j]
      BY <1>2, <3>1
    <3> QED
      BY <1>1, <3>1, <3>2 DEF both
  <2>2. (at + Len(p)) + Len(q) <= Len(full) + 1 /\ at + Len(p) \in Nat \ {0}
    BY <1>2, <1>3
  <2> QED
    BY <2>1, <2>2 DEF Has
<1> QED
  BY <1>4, <1>5

\* What a load reads: what was sent, or a zero behind it.
LEMMA CellRead ==
  ASSUME NEW mes, NEW full, NEW k, Truncated(mes, full, k), NEW x \in Nat \ {0}
  PROVE  /\ Cell(mes, x) \in Nat
         /\ x > k => Cell(mes, x) = Nul
         /\ x <= k => Cell(mes, x) = full[x]
<1>1. DOMAIN mes = 1..Len(full) /\ Len(full) \in Nat /\ k \in Nat /\ k <= Len(full)
  BY DEF Truncated
<1>2. CASE x \in 1..Len(full)
  <2>1. Cell(mes, x) = mes[x]
    BY <1>1, <1>2 DEF Cell
  <2>2. mes[x] = IF x <= k THEN full[x] ELSE Nul
    BY <1>2 DEF Truncated
  <2>3. mes[x] \in Nat
    BY <1>1, <1>2 DEF Truncated
  <2> QED
    BY <1>1, <2>1, <2>2, <2>3
<1>3. CASE x \notin 1..Len(full)
  BY <1>1, <1>3 DEF Cell, Nul
<1> QED
  BY <1>2, <1>3

\* A number that the message has at the cell at, read by a load that is on it.
LEMMA NumberRead ==
  ASSUME NEW mes, NEW full, NEW k, Truncated(mes, full, k),
         NEW at, NEW c \in Nat, Has(full, at, <<c>>),
         NEW x \in Nat \ {0}, On(x, k, at)
  PROVE  /\ \/ x = at /\ x <= k /\ Cell(mes, x) = c
            \/ x > k /\ Cell(mes, x) = Nul
         /\ k = Len(full) => x = at /\ Cell(mes, x) = c
<1>1. /\ at \in Nat \ {0} /\ at <= Len(full) /\ full[at] = c
      /\ k \in Nat /\ k <= Len(full) /\ Len(full) \in Nat
  <2>1. <<c>> \in Seq(Nat) /\ Len(<<c>>) = 1 /\ <<c>>[1] = c
    OBVIOUS
  <2>2. 1 \in 1..Len(<<c>>) /\ at \in Nat \ {0} /\ at + 1 <= Len(full) + 1
    BY <2>1 DEF Has
  <2>3. full[at + (1 - 1)] = <<c>>[1]
    BY <2>2 DEF Has
  <2> QED
    BY <2>1, <2>2, <2>3 DEF Truncated
<1>2. x > k => Cell(mes, x) = Nul
  BY CellRead
<1>3. x <= k => x = at /\ Cell(mes, x) = c
  BY <1>1, CellRead DEF On
<1>4. x <= k \/ x > k
  BY <1>1
<1>5. k = Len(full) => x <= k
  BY <1>1 DEF On
<1> QED
  BY <1>2, <1>3, <1>4, <1>5

\* Where the message has each of seqs, from the cell at on.
EachAt(place, full, at, seqs) ==
  /\ place \in [0..Len(seqs) -> Nat \ {0}]
  /\ place[0] = at
  /\ \A j \in 1..Len(seqs) : /\ place[j] = place[j - 1] + Len(seqs[j])
                             /\ Has(full, place[j - 1], seqs[j])

\* The parts that FlattenSeq puts one behind the other, each at its place.
LEMMA HasEach ==
  ASSUME NEW full \in Seq(Nat), NEW seqs \in Seq(Seq(Nat)),
         NEW at, Has(full, at, FlattenSeq(seqs))
  PROVE  \E place : /\ EachAt(place, full, at, seqs)
                    /\ place[Len(seqs)] = at + Len(FlattenSeq(seqs))
<1> SUFFICES ASSUME NEW n \in Nat, n = Len(seqs), seqs \in [1..n -> Seq(Nat)]
             PROVE  \E place : /\ EachAt(place, full, at, seqs)
                               /\ place[Len(seqs)] = at + Len(FlattenSeq(seqs))
  OBVIOUS
<1>1. seqs \in Seq(Seq(Nat)) /\ Len(seqs) = n
  OBVIOUS
<1>2. CASE n = 0
  <2>1. FlattenSeq(seqs) = <<>>
    BY <1>1, <1>2 DEF FlattenSeq
  <2>2. at \in Nat \ {0} /\ Len(FlattenSeq(seqs)) = 0
    BY <2>1 DEF Has
  <2> DEFINE place == [j \in 0..0 |-> at]
  <2>3. place \in [0..n -> Nat \ {0}] /\ place[0] = at /\ place[n] = at + 0
    BY <1>2, <2>2
  <2>4. 1..n = {}
    BY <1>2
  <2> HIDE DEF place
  <2> QED
    BY <1>1, <2>2, <2>3, <2>4 DEF EachAt
<1>3. CASE n # 0
  <2>1. PICK flat : Flattens(flat, seqs, n) /\ FlattenSeq(seqs) = flat[n]
    BY <1>1, <1>3, FlattenSeqIs
  <2>2. /\ flat[1] = seqs[1]
        /\ \A j \in 2..n : flat[j] = flat[j - 1] \o seqs[j]
    <3>1. 1 \in 1..n /\ \A j \in 2..n : j \in 1..n /\ j # 1
      BY <1>3
    <3> QED
      BY <2>1, <3>1 DEF Flattens
  <2> DEFINE T == {j \in Nat : j + 1 <= n => flat[j + 1] \in Seq(Nat)}
  <2>3. \A j \in 1..n : flat[j] \in Seq(Nat)
    <3>1. 0 \in T
      BY <2>2
    <3>2. ASSUME NEW j \in Nat, j \in T PROVE j + 1 \in T
      <4> SUFFICES ASSUME j + 2 <= n PROVE flat[j + 2] \in Seq(Nat)
        OBVIOUS
      <4>1. flat[j + 1] \in Seq(Nat) /\ j + 2 \in 2..n /\ (j + 2) - 1 = j + 1
            /\ seqs[j + 2] \in Seq(Nat)
        BY <3>2
      <4>2. flat[j + 2] = flat[j + 1] \o seqs[j + 2]
        BY <2>2, <4>1
      <4> QED
        BY <4>1, <4>2
    <3>3. Nat \subseteq T
      <4> HIDE DEF T
      <4> QED
        BY <3>1, <3>2, Induction
    <3>4. ASSUME NEW j \in 1..n PROVE flat[j] \in Seq(Nat)
      <4>1. j - 1 \in Nat /\ (j - 1) + 1 = j /\ j <= n
        OBVIOUS
      <4>2. j - 1 \in T
        BY <3>3, <4>1
      <4> QED
        BY <4>1, <4>2
    <3> QED
      BY <3>4
  <2> DEFINE U == {i \in Nat : i < n => Has(full, at, flat[n - i])}
  <2>4. \A j \in 1..n : Has(full, at, flat[j])
    <3>1. 0 \in U
      BY <2>1
    <3>2. ASSUME NEW i \in Nat, i \in U PROVE i + 1 \in U
      <4> SUFFICES ASSUME i + 1 < n PROVE Has(full, at, flat[n - (i + 1)])
        OBVIOUS
      <4>0. n - i \in 2..n
        BY SMTT(60)
      <4>1. PICK j \in 2..n : j = n - i
        BY <4>0, Zenon
      <4>2. n - (i + 1) = j - 1 /\ j - 1 \in 1..n /\ j \in 1..n
        BY <4>1
      <4>3. Has(full, at, flat[j])
        BY <3>2, <4>1
      <4>4. flat[j] = flat[j - 1] \o seqs[j]
        BY <2>2
      <4>5. flat[j - 1] \in Seq(Nat) /\ seqs[j] \in Seq(Nat)
        BY <2>3, <4>2
      <4> HIDE DEF U
      <4> QED
        BY <4>2, <4>3, <4>4, <4>5, HasBoth
    <3>3. Nat \subseteq U
      <4> HIDE DEF U
      <4> QED
        BY <3>1, <3>2, Induction
    <3>4. ASSUME NEW j \in 1..n PROVE Has(full, at, flat[j])
      <4>1. n - j \in Nat /\ n - (n - j) = j /\ n - j < n
        OBVIOUS
      <4>2. n - j \in U
        BY <3>3, <4>1
      <4> QED
        BY <4>1, <4>2
    <3> QED
      BY <3>4
  <2> DEFINE place == [j \in 0..n |-> IF j = 0 THEN at ELSE at + Len(flat[j])]
  <2>5. at \in Nat \ {0}
    BY <2>1 DEF Has
  <2>6. place \in [0..n -> Nat \ {0}]
    <3>1. ASSUME NEW j \in 0..n PROVE (IF j = 0 THEN at ELSE at + Len(flat[j])) \in Nat \ {0}
      <4>1. CASE j = 0
        BY <2>5, <4>1
      <4>2. CASE j # 0
        <5>1. j \in 1..n
          BY <4>2
        <5>2. Len(flat[j]) \in Nat
          BY <2>3, <5>1
        <5> QED
          BY <2>5, <4>2, <5>2
      <4> QED
        BY <4>1, <4>2
    <3> QED
      BY <3>1
  <2>7. place[0] = at /\ place[n] = at + Len(FlattenSeq(seqs))
    BY <1>3, <2>1
  <2>8. ASSUME NEW j \in 1..n
        PROVE  place[j] = place[j - 1] + Len(seqs[j]) /\ Has(full, place[j - 1], seqs[j])
    <3>1. seqs[j] \in Seq(Nat) /\ flat[j] \in Seq(Nat) /\ Has(full, at, flat[j])
          /\ place[j] = at + Len(flat[j]) /\ j - 1 \in 0..n
      BY <2>3, <2>4
    <3>2. CASE j = 1
      <4>1. flat[j] = seqs[j] /\ place[j - 1] = at
        BY <2>2, <3>1, <3>2
      <4> QED
        BY <3>1, <4>1
    <3>3. CASE j # 1
      <4>1. j \in 2..n /\ j - 1 \in 1..n
        BY <3>3
      <4>2. flat[j] = flat[j - 1] \o seqs[j] /\ flat[j - 1] \in Seq(Nat)
        BY <2>2, <2>3, <4>1
      <4>3. place[j - 1] = at + Len(flat[j - 1])
        BY <4>1
      <4>4. Len(flat[j]) = Len(flat[j - 1]) + Len(seqs[j])
            /\ Len(flat[j - 1]) \in Nat /\ Len(seqs[j]) \in Nat
        BY <3>1, <4>2
      <4>5. Has(full, at + Len(flat[j - 1]), seqs[j])
        BY <3>1, <4>2, HasBoth
      <4> HIDE DEF place
      <4>6. \A a, b, c \in Nat : c = a + b => at + c = (at + a) + b
        BY <2>5
      <4>7. at + Len(flat[j]) = (at + Len(flat[j - 1])) + Len(seqs[j])
        <5> DEFINE c == Len(flat[j])
                   a == Len(flat[j - 1])
                   b == Len(seqs[j])
        <5>0. c \in Nat
          <6>1. flat[j] \in Seq(Nat)
            BY <3>1
          <6> QED
            BY <6>1
        <5>1. c = a + b /\ a \in Nat /\ b \in Nat /\ c \in Nat
          BY <4>4, <5>0, Zenon
        <5> HIDE DEF a, b, c
        <5>2. at + c = (at + a) + b
          BY <4>6, <5>1, Zenon
        <5> QED
          BY <5>2 DEF a, b, c
      <4>8. place[j] = place[j - 1] + Len(seqs[j])
        BY <3>1, <4>3, <4>7, Zenon
      <4> QED
        BY <4>3, <4>5, <4>8
    <3> QED
      BY <3>2, <3>3
  <2> HIDE DEF place
  <2> QED
    BY <1>1, <2>6, <2>7, <2>8 DEF EachAt
<1> QED
  BY <1>2, <1>3

\* Where the cells of two pieces are once they are put together.
LEMMA Concatenation ==
  ASSUME NEW w \in Seq(Nat), NEW v \in Seq(Nat)
  PROVE  /\ w \o v \in Seq(Nat)
         /\ Len(w \o v) = Len(w) + Len(v)
         /\ \A j \in 1..Len(w) : (w \o v)[j] = w[j]
         /\ \A j \in 1..Len(v) : (w \o v)[Len(w) + j] = v[j]
<1>1. w \o v \in Seq(Nat) /\ Len(w \o v) = Len(w) + Len(v)
  OBVIOUS
<1>2. \A j \in 1..Len(w) : (w \o v)[j] = w[j]
  OBVIOUS
<1>3. \A j \in 1..Len(v) : (w \o v)[Len(w) + j] = v[j]
  OBVIOUS
<1> QED
  BY <1>1, <1>2, <1>3

\* In which order three pieces are put together does not matter.
LEMMA Regrouped ==
  ASSUME NEW u \in Seq(Nat), NEW w \in Seq(Nat), NEW v \in Seq(Nat)
  PROVE  (u \o w) \o v = u \o (w \o v)
<1> DEFINE uw == u \o w
           wv == w \o v
           left3 == uw \o v
           right3 == u \o wv
<1>1. /\ uw \in Seq(Nat) /\ Len(uw) = Len(u) + Len(w)
      /\ \A j \in 1..Len(u) : uw[j] = u[j]
      /\ \A j \in 1..Len(w) : uw[Len(u) + j] = w[j]
  BY Concatenation
<1>2. /\ wv \in Seq(Nat) /\ Len(wv) = Len(w) + Len(v)
      /\ \A j \in 1..Len(w) : wv[j] = w[j]
      /\ \A j \in 1..Len(v) : wv[Len(w) + j] = v[j]
  BY Concatenation
<1> HIDE DEF uw, wv
<1>3. /\ left3 \in Seq(Nat) /\ Len(left3) = Len(uw) + Len(v)
      /\ \A j \in 1..Len(uw) : left3[j] = uw[j]
      /\ \A j \in 1..Len(v) : left3[Len(uw) + j] = v[j]
  BY <1>1, Concatenation
<1>4. /\ right3 \in Seq(Nat) /\ Len(right3) = Len(u) + Len(wv)
      /\ \A j \in 1..Len(u) : right3[j] = u[j]
      /\ \A j \in 1..Len(wv) : right3[Len(u) + j] = wv[j]
  BY <1>2, Concatenation
<1> HIDE DEF left3, right3
<1>5. Len(u) \in Nat /\ Len(w) \in Nat /\ Len(v) \in Nat
  OBVIOUS
<1>6. Len(left3) = Len(right3)
  BY <1>1, <1>2, <1>3, <1>4, <1>5
<1>7. ASSUME NEW j \in 1..Len(left3) PROVE left3[j] = right3[j]
  <2>0. j \in Nat /\ j > 0 /\ j <= (Len(u) + Len(w)) + Len(v)
    BY <1>1, <1>3, <1>5
  <2>1. CASE j <= Len(u)
    <3>1. j \in 1..Len(u) /\ j \in 1..Len(uw)
      BY <1>1, <1>5, <2>0, <2>1
    <3> QED
      BY <1>1, <1>3, <1>4, <3>1
  <2>2. CASE j > Len(u) /\ j <= Len(u) + Len(w)
    <3> DEFINE i == j - Len(u)
    <3>1. i \in 1..Len(w) /\ Len(u) + i = j /\ j \in 1..Len(uw) /\ i \in 1..Len(wv)
      BY <1>1, <1>2, <1>5, <2>0, <2>2
    <3> HIDE DEF i
    <3>2. left3[j] = w[i]
      BY <1>1, <1>3, <3>1
    <3>3. right3[j] = w[i]
      BY <1>2, <1>4, <3>1
    <3> QED
      BY <3>2, <3>3
  <2>3. CASE j > Len(u) + Len(w)
    <3> DEFINE i == j - (Len(u) + Len(w))
               m == Len(w) + i
    <3>1. i \in 1..Len(v) /\ Len(uw) + i = j /\ Len(u) + m = j /\ m \in 1..Len(wv)
      BY <1>1, <1>2, <1>5, <2>0, <2>3
    <3>2. left3[j] = v[i]
      <4> HIDE DEF i
      <4> QED
        BY <1>3, <3>1
    <3>3. wv[m] = v[i]
      <4> HIDE DEF i
      <4> QED
        BY <1>2, <3>1
    <3>4. right3[j] = wv[m]
      <4> HIDE DEF m
      <4> QED
        BY <1>4, <3>1
    <3> QED
      BY <3>2, <3>3, <3>4
  <2> QED
    BY <1>5, <2>0, <2>1, <2>2, <2>3
<1> QED
  <2>1. left3 = [j \in 1..Len(left3) |-> left3[j]]
    BY <1>3
  <2>2. right3 = [j \in 1..Len(left3) |-> right3[j]]
    BY <1>4, <1>6
  <2>3. left3 = right3
    BY <1>7, <2>1, <2>2
  <2> QED
    BY <2>3 DEF left3, right3, uw, wv

-----------------------------------------------------------------------------
\* A cell is a number, whatever is read.
LEMMA CellType ==
  ASSUME NEW mes \in Seq(Nat), NEW x PROVE Cell(mes, x) \in Nat
<1>1. CASE x \in DOMAIN mes
  BY <1>1 DEF Cell
<1>2. CASE x \notin DOMAIN mes
  BY <1>2 DEF Cell, Nul
<1> QED
  BY <1>1, <1>2

\* What a memcpy of len cells makes of a buffer.
Copied(mes, x, len, buf) ==
  [j \in 1..len |-> Cell(mes, x + j)] \o SubSeq(buf, len + 1, Len(buf))

\* A buffer is a sequence of cells again, and begins with what was copied.
LEMMA CopiedIs ==
  ASSUME NEW mes \in Seq(Nat), NEW x \in Nat, NEW len \in Nat, NEW buf \in Seq(Nat)
  PROVE  /\ Copied(mes, x, len, buf) \in Seq(Nat)
         /\ len <= Len(Copied(mes, x, len, buf))
         /\ \A j \in 1..len : Copied(mes, x, len, buf)[j] = Cell(mes, x + j)
<1> DEFINE new == [j \in 1..len |-> Cell(mes, x + j)]
           rest == SubSeq(buf, len + 1, Len(buf))
<1>1. new \in [1..len -> Nat]
  BY CellType
<1>2. new \in Seq(Nat) /\ Len(new) = len /\ \A j \in 1..len : new[j] = Cell(mes, x + j)
  BY <1>1
<1>3. rest \in Seq(Nat)
  OBVIOUS
<1> HIDE DEF new, rest
<1>4. /\ new \o rest \in Seq(Nat) /\ Len(new \o rest) = Len(new) + Len(rest)
      /\ \A j \in 1..Len(new) : (new \o rest)[j] = new[j]
  BY <1>2, <1>3, Concatenation
<1>5. Len(rest) \in Nat
  BY <1>3
<1>6. Copied(mes, x, len, buf) = new \o rest
  BY DEF Copied, new, rest
<1> QED
  BY <1>2, <1>4, <1>5, <1>6

\* Where SelectInSeq finds the first '\0'.
LEMMA FirstNul ==
  ASSUME NEW s \in Seq(Nat)
  PROVE  LET x == SelectInSeq(s, LAMBDA c : c = Nul) IN
         /\ x \in 0..Len(s)
         /\ \A j \in 1..Len(s) : s[j] = Nul /\ (\A i \in 1..(j - 1) : s[i] # Nul) => x = j
         /\ Contains(s, Nul) => x \in 1..Len(s)
<1> DEFINE I == {i \in 1..Len(s) : s[i] = Nul}
           x == SelectInSeq(s, LAMBDA c : c = Nul)
<1>1. x = IF I # {} THEN Min(I) ELSE 0
  BY DEF SelectInSeq
<1>2. I \subseteq Nat /\ Len(s) \in Nat
  OBVIOUS
<1>3. ASSUME I # {} PROVE Min(I) \in I /\ \A y \in I : Min(I) <= y
  <2>1. \E y \in I : \A z \in I : y <= z
    <3> HIDE DEF I
    <3> QED
      BY <1>2, <1>3, LeastNumber
  <2> HIDE DEF I
  <2> QED
    BY <2>1 DEF Min
<1>4. x \in 0..Len(s)
  BY <1>1, <1>2, <1>3
<1>5. ASSUME NEW j \in 1..Len(s), s[j] = Nul, \A i \in 1..(j - 1) : s[i] # Nul
      PROVE  x = j
  <2>1. j \in I
    BY <1>5
  <2>2. Min(I) \in 1..Len(s) /\ s[Min(I)] = Nul /\ Min(I) <= j
    BY <1>3, <2>1
  <2>3. ~(Min(I) \in 1..(j - 1))
    BY <1>5, <2>2
  <2>4. x = Min(I)
    BY <1>1, <2>1
  <2> HIDE DEF x, I
  <2> QED
    BY <2>2, <2>3, <2>4
<1>6. Contains(s, Nul) => x \in 1..Len(s)
  <2>1. Contains(s, Nul) => I # {}
    BY DEF Contains
  <2> QED
    BY <1>1, <1>3, <2>1
<1> QED
  BY <1>4, <1>5, <1>6

-----------------------------------------------------------------------------
(* Loading a string. *)

\* The fields of what LoadString returns.
LEMMA LoadStringIs ==
  ASSUME NEW mes, NEW N, NEW r \in LoadsOf(N)
  PROVE  LET x == LoadString(mes, r)
             len == Cell(mes, r.at)
             buf == Copied(mes, r.at, len, r.buf)
         IN /\ x = [at |-> (r.at + 1) + len, buf |-> buf, list |-> r.list,
                    ok |-> r.ok /\ Contains(buf, Nul)]
            /\ x.at = (r.at + 1) + len /\ x.buf = buf /\ x.list = r.list
            /\ x.ok = (r.ok /\ Contains(buf, Nul))
<1> DEFINE x == LoadString(mes, r)
           len == Cell(mes, r.at)
           buf == Copied(mes, r.at, len, r.buf)
           ok == r.ok /\ Contains(buf, Nul)
<1>1. x = [r EXCEPT !.at = (r.at + 1) + len, !.buf = buf, !.ok = ok]
  BY DEF LoadString, Copied
<1>2. r = [at |-> r.at, buf |-> r.buf, list |-> r.list, ok |-> r.ok]
  BY DEF LoadsOf
<1> HIDE DEF x, len, buf, ok
<1>3. x = [at |-> (r.at + 1) + len, buf |-> buf, list |-> r.list, ok |-> ok]
  BY <1>1, <1>2
<1>4. x.at = (r.at + 1) + len /\ x.buf = buf /\ x.list = r.list /\ x.ok = ok
  BY <1>3
<1> QED
  BY <1>3, <1>4 DEF x, len, buf, ok

\* A record with the right fields is a load.
LEMMA IsLoad ==
  ASSUME NEW N, NEW a \in Nat \ {0}, NEW b \in Seq(Nat), NEW l \in Seq(N),
         NEW o \in BOOLEAN
  PROVE  [at |-> a, buf |-> b, list |-> l, ok |-> o] \in LoadsOf(N)
BY DEF LoadsOf

\* A load of a string is a load.
LEMMA LoadStringType ==
  ASSUME NEW mes \in Seq(Nat), NEW N, NEW r \in LoadsOf(N)
  PROVE  LoadString(mes, r) \in LoadsOf(N) /\ InBuf(LoadString(mes, r)) \in Seq(Nat)
<1> DEFINE x == LoadString(mes, r)
           len == Cell(mes, r.at)
           buf == Copied(mes, r.at, len, r.buf)
<1>1. r.at \in Nat \ {0} /\ r.buf \in Seq(Nat) /\ r.list \in Seq(N) /\ r.ok \in BOOLEAN
  BY DEF LoadsOf
<1>2. len \in Nat
  BY <1>1, CellType
<1>3. buf \in Seq(Nat)
  BY <1>1, <1>2, CopiedIs
<1>4. (r.ok /\ Contains(buf, Nul)) \in BOOLEAN
  BY DEF Contains
<1>5. x = [at |-> (r.at + 1) + len, buf |-> buf, list |-> r.list,
           ok |-> r.ok /\ Contains(buf, Nul)]
  BY LoadStringIs
<1>6. (r.at + 1) + len \in Nat \ {0}
  BY <1>1, <1>2
<1> HIDE DEF buf, len
<1>7. x \in LoadsOf(N)
  <2> DEFINE at == (r.at + 1) + len
             list == r.list
             ok == r.ok /\ Contains(buf, Nul)
  <2>1. at \in Nat \ {0} /\ buf \in Seq(Nat) /\ list \in Seq(N) /\ ok \in BOOLEAN
    BY <1>1, <1>3, <1>4, <1>6
  <2>2. x = [at |-> at, buf |-> buf, list |-> list, ok |-> ok]
    BY <1>5
  <2> HIDE DEF x, at, list, ok
  <2> QED
    BY <2>1, <2>2, IsLoad
<1>8. x.buf \in Seq(Nat)
  BY <1>7 DEF LoadsOf
<1>9. InBuf(x) \in Seq(Nat)
  <2> DEFINE b == x.buf
             i == SelectInSeq(b, LAMBDA c : c = Nul)
  <2>1. i \in 0..Len(b) /\ b \in Seq(Nat)
    BY <1>8, FirstNul
  <2>2. InBuf(x) = SubSeq(b, 1, i - 1)
    BY DEF InBuf
  <2> HIDE DEF b, i
  <2> QED
    BY <2>1, <2>2
<1> QED
  BY <1>7, <1>9

\* A load of a string goes on behind the string, or in the zeros before that
\* place, and has the string if the message is whole.
LEMMA LoadStringOn ==
  ASSUME NEW mes, NEW full, NEW k, Truncated(mes, full, k),
         NEW s \in Strings, NEW at, Has(full, at, Str(s)),
         NEW N, NEW r \in LoadsOf(N), On(r.at, k, at)
  PROVE  LET x == LoadString(mes, r) IN
         /\ On(x.at, k, at + (Len(s) + 2))
         /\ x.list = r.list
         /\ k = Len(full) /\ r.ok => x.ok /\ InBuf(x) = s
<1> DEFINE x == LoadString(mes, r)
           len == Cell(mes, r.at)
           buf == Copied(mes, r.at, len, r.buf)
<1>1. r.at \in Nat \ {0} /\ r.buf \in Seq(Nat) /\ r.ok \in BOOLEAN
      /\ mes \in Seq(Nat) /\ full \in Seq(Nat) /\ k \in Nat
  BY DEF LoadsOf, Truncated
<1>2. /\ x.at = (r.at + 1) + len /\ x.buf = buf /\ x.list = r.list
      /\ x.ok = (r.ok /\ Contains(buf, Nul))
  BY LoadStringIs
<1>3. s \in Seq(Nat) /\ Len(s) \in Nat /\ \A j \in 1..Len(s) : s[j] \in Nat \ {Nul}
  BY DEF Strings
<1> DEFINE length == <<Len(s) + 1>>
           end == <<Nul>>
<1>4. length \in Seq(Nat) /\ Len(length) = 1 /\ end \in Seq(Nat) /\ Len(end) = 1
      /\ end[1] = Nul
  BY <1>3 DEF Nul
<1>5. Str(s) = (length \o s) \o end
  BY DEF Str
<1> HIDE DEF length, end
<1> DEFINE front == length \o s
<1>6. front \in Seq(Nat) /\ Len(front) = Len(s) + 1
  <2>1. front \in Seq(Nat) /\ Len(front) = Len(length) + Len(s)
    BY <1>3, <1>4, Concatenation
  <2> HIDE DEF front
  <2> QED
    BY <1>3, <1>4, <2>1
<1>7. /\ Has(full, at, length \o s) /\ Has(full, at + (Len(s) + 1), end)
  <2>1. Has(full, at, front \o end)
    BY <1>5
  <2> HIDE DEF front
  <2>2. Has(full, at, front) /\ Has(full, at + Len(front), end)
    BY <1>1, <1>4, <1>6, <2>1, HasBoth
  <2> QED
    BY <1>6, <2>2 DEF front
<1>8. Has(full, at, length) /\ Has(full, at + 1, s)
  BY <1>1, <1>3, <1>4, <1>7, HasBoth
<1>9. /\ at \in Nat \ {0} /\ at + (Len(s) + 2) <= Len(full) + 1 /\ Len(full) \in Nat
      /\ \A j \in 1..Len(s) : full[at + j] = s[j]
      /\ full[at + (Len(s) + 1)] = Nul
  <2>1. at \in Nat \ {0} /\ (at + (Len(s) + 1)) + 1 <= Len(full) + 1
    BY <1>4, <1>7, <1>8 DEF Has
  <2>2. Len(full) \in Nat
    BY <1>1
  <2>3. ASSUME NEW j \in 1..Len(s) PROVE full[at + j] = s[j]
    <3>1. full[(at + 1) + (j - 1)] = s[j]
      BY <1>8 DEF Has
    <3>2. (at + 1) + (j - 1) = at + j
      BY <2>1
    <3> QED
      BY <3>1, <3>2
  <2>4. full[(at + (Len(s) + 1)) + (1 - 1)] = end[1]
    BY <1>4, <1>7 DEF Has
  <2>5. (at + (Len(s) + 1)) + (1 - 1) = at + (Len(s) + 1)
    BY <1>3, <2>1
  <2> QED
    BY <1>3, <1>4, <2>1, <2>2, <2>3, <2>4, <2>5
<1>10. /\ \/ r.at = at /\ r.at <= k /\ len = Len(s) + 1
          \/ r.at > k /\ len = Nul
       /\ k = Len(full) => r.at = at /\ len = Len(s) + 1
  BY <1>1, <1>3, <1>8, NumberRead DEF length
<1>11. On(x.at, k, at + (Len(s) + 2))
  <2>0. r.at \in Nat /\ k \in Nat /\ at \in Nat /\ Len(s) \in Nat
    BY <1>1, <1>3, <1>9
  <2> HIDE DEF len, x
  <2>1. CASE r.at = at /\ len = Len(s) + 1
    BY <1>2, <1>3, <1>9, <2>1 DEF On
  <2>2. CASE r.at > k /\ len = Nul
    <3>1. x.at = r.at + 1 /\ r.at <= at
      BY <1>1, <1>2, <1>9, <2>2 DEF On, Nul
    <3>2. k < x.at /\ x.at <= at + (Len(s) + 2)
      BY <2>0, <2>2, <3>1
    <3> QED
      BY <3>2 DEF On
  <2> QED
    BY <1>10, <2>1, <2>2
<1>12. ASSUME k = Len(full), r.ok PROVE x.ok /\ InBuf(x) = s
  <2>1. r.at = at /\ len = Len(s) + 1 /\ len \in Nat
    BY <1>3, <1>10, <1>12
  <2>2. /\ buf \in Seq(Nat) /\ len <= Len(buf) /\ Len(buf) \in Nat
        /\ \A j \in 1..len : buf[j] = Cell(mes, at + j)
    BY <1>1, <2>1, CopiedIs
  <2>3. ASSUME NEW j \in 1..len PROVE buf[j] = full[at + j]
    <3>1. at + j \in Nat \ {0} /\ at + j <= k
      BY <1>3, <1>9, <1>12, <2>1
    <3> QED
      BY <2>2, <3>1, CellRead
  <2> HIDE DEF buf, len
  <2>4. \A j \in 1..Len(s) : buf[j] = s[j]
    BY <1>3, <1>9, <2>1, <2>3
  <2>5. buf[Len(s) + 1] = Nul /\ Len(s) + 1 \in 1..Len(buf)
    <3>1. Len(s) + 1 \in 1..len /\ Len(s) + 1 \in 1..Len(buf)
      BY <1>3, <2>1, <2>2
    <3> QED
      BY <1>9, <2>3, <3>1
  <2>6. Contains(buf, Nul)
    BY <2>5 DEF Contains
  <2>7. SelectInSeq(buf, LAMBDA c : c = Nul) = Len(s) + 1
    <3>1. \A i \in 1..((Len(s) + 1) - 1) : buf[i] # Nul
      BY <1>3, <2>4
    <3> QED
      BY <2>2, <2>5, <3>1, FirstNul
  <2>8. InBuf(x) = SubSeq(buf, 1, Len(s))
    <3>1. InBuf(x) = SubSeq(buf, 1, (Len(s) + 1) - 1)
      BY <1>2, <2>7 DEF InBuf
    <3> QED
      BY <1>3, <3>1
  <2>9. SubSeq(buf, 1, Len(s)) = s
    <3>1. Len(s) \in 0..Len(buf)
      BY <1>3, <2>5
    <3> QED
      BY <1>3, <2>2, <2>4, <3>1
  <2> QED
    BY <1>2, <1>12, <2>6, <2>8, <2>9
<1> QED
  BY <1>2, <1>11, <1>12

-----------------------------------------------------------------------------
(* Loops. *)

\* Induction up to n.
LEMMA UpTo ==
  ASSUME NEW n \in Nat, NEW S, 0 \in S, \A j \in 1..n : j - 1 \in S => j \in S
  PROVE  \A j \in 0..n : j \in S
<1> DEFINE T == {j \in Nat : j <= n => j \in S}
<1>1. 0 \in T
  OBVIOUS
<1>2. ASSUME NEW j \in Nat, j \in T PROVE j + 1 \in T
  <2>1. j + 1 <= n => j + 1 \in 1..n /\ (j + 1) - 1 = j /\ j <= n
    OBVIOUS
  <2> QED
    BY <1>2, <2>1
<1>3. Nat \subseteq T
  <2> HIDE DEF T
  <2> QED
    BY <1>1, <1>2, Induction
<1> QED
  BY <1>3

\* What is r after no round of a loop, and step of what it was after each.
Iterated(after, step, r, n) ==
  after = [j \in 0..n |-> IF j = 0 THEN r ELSE step[after[j - 1]]]

\* A loop whose body keeps what it works on in R has its rounds.
LEMMA Iterates ==
  ASSUME NEW R, NEW step \in [R -> R], NEW r \in R, NEW n \in Nat
  PROVE  \E after \in [0..n -> R] : Iterated(after, step, r, n)
<1> DEFINE S == {m \in Nat : \E after \in [0..m -> R] : Iterated(after, step, r, m)}
<1>1. 0 \in S
  <2> DEFINE after == [j \in 0..0 |-> r]
  <2>1. after \in [0..0 -> R] /\ Iterated(after, step, r, 0)
    BY DEF Iterated
  <2> QED
    BY <2>1
<1>2. ASSUME NEW m \in Nat, m \in S PROVE m + 1 \in S
  <2>1. PICK after \in [0..m -> R] : Iterated(after, step, r, m)
    BY <1>2
  <2> DEFINE longer == [j \in 0..(m + 1) |-> IF j = m + 1 THEN step[after[m]] ELSE after[j]]
  <2>2. longer \in [0..(m + 1) -> R]
    <3>1. \A j \in 0..(m + 1) : j # m + 1 => j \in 0..m
      OBVIOUS
    <3>2. step[after[m]] \in R
      OBVIOUS
    <3> QED
      BY <3>1, <3>2
  <2>3. ASSUME NEW j \in 0..(m + 1)
        PROVE  longer[j] = IF j = 0 THEN r ELSE step[longer[j - 1]]
    <3>1. CASE j = m + 1
      <4>1. j - 1 = m /\ j # 0 /\ m \in 0..(m + 1) /\ m # m + 1
        BY <3>1
      <4> QED
        BY <3>1, <4>1
    <3>2. CASE j # m + 1
      <4>1. j \in 0..m /\ (j # 0 => j - 1 \in 0..(m + 1) /\ j - 1 # m + 1)
        BY <3>2
      <4>2. after[j] = IF j = 0 THEN r ELSE step[after[j - 1]]
        BY <2>1, <4>1 DEF Iterated
      <4> QED
        BY <3>2, <4>1, <4>2
    <3> QED
      BY <3>1, <3>2
  <2>4. Iterated(longer, step, r, m + 1)
    <3>1. longer = [j \in 0..(m + 1) |-> longer[j]]
      OBVIOUS
    <3> HIDE DEF longer
    <3>2. longer = [j \in 0..(m + 1) |-> IF j = 0 THEN r ELSE step[longer[j - 1]]]
      BY <2>3, <3>1
    <3> QED
      BY <3>2 DEF Iterated
  <2> HIDE DEF longer
  <2> QED
    BY <2>2, <2>4
<1>3. Nat \subseteq S
  <2> HIDE DEF S
  <2> QED
    BY <1>1, <1>2, Induction
<1> QED
  BY <1>3

\* The first j of a sequence, and one more.
LEMMA PrefixNext ==
  ASSUME NEW S, NEW list \in Seq(S), NEW j \in 1..Len(list)
  PROVE  Append(SubSeq(list, 1, j - 1), list[j]) = SubSeq(list, 1, j)
OBVIOUS

\* From one round to the next, a load goes on behind another of seqs.
StepsOn(full, k, seqs, list, after) ==
  \A j \in 1..Len(list), p \in Nat \ {0} :
    Has(full, p, seqs[j]) /\ On(after[j - 1].at, k, p) =>
      /\ On(after[j].at, k, p + Len(seqs[j]))
      /\ k = Len(full) /\ after[j - 1].ok =>
           after[j].ok /\ after[j].list = Append(after[j - 1].list, list[j])

\* Rounds of a loop that each go on behind a part that the message has do so
\* behind all of them, and make the list of them if the message is whole.
LEMMA RoundsOn ==
  ASSUME NEW mes, NEW full, NEW k, Truncated(mes, full, k),
         NEW V, NEW list \in Seq(V), NEW seqs \in Seq(Seq(Nat)), Len(seqs) = Len(list),
         NEW at, Has(full, at, FlattenSeq(seqs)),
         NEW after, after[0].list = <<>>, On(after[0].at, k, at),
         StepsOn(full, k, seqs, list, after)
  PROVE  /\ On(after[Len(list)].at, k, at + Len(FlattenSeq(seqs)))
         /\ k = Len(full) /\ after[0].ok =>
              after[Len(list)].ok /\ after[Len(list)].list = list
<1> DEFINE n == Len(list)
<1>1. n \in Nat /\ full \in Seq(Nat)
  BY DEF Truncated
<1>2. PICK place : EachAt(place, full, at, seqs) /\ place[n] = at + Len(FlattenSeq(seqs))
  BY <1>1, HasEach
<1>3. /\ place \in [0..n -> Nat \ {0}] /\ place[0] = at
      /\ \A j \in 1..n : /\ place[j] = place[j - 1] + Len(seqs[j])
                         /\ Has(full, place[j - 1], seqs[j])
  BY <1>2 DEF EachAt
<1> DEFINE S == {j \in 0..n :
                   /\ On(after[j].at, k, place[j])
                   /\ k = Len(full) /\ after[0].ok =>
                        after[j].ok /\ after[j].list = SubSeq(list, 1, j)}
<1>4. 0 \in S
  <2>1. SubSeq(list, 1, 0) = <<>>
    OBVIOUS
  <2>2. 0 \in 0..n
    BY <1>1
  <2> QED
    BY <1>3, <2>1, <2>2
<1>5. ASSUME NEW j \in 1..n, j - 1 \in S PROVE j \in S
  <2> DEFINE y == after[j - 1]
             z == after[j]
             p == place[j - 1]
  <2>1. /\ On(y.at, k, p)
        /\ k = Len(full) /\ after[0].ok => y.ok /\ y.list = SubSeq(list, 1, j - 1)
    BY <1>5
  <2>2. p \in Nat \ {0} /\ Has(full, p, seqs[j]) /\ place[j] = p + Len(seqs[j])
    <3>1. j - 1 \in 0..n
      BY <1>1
    <3>2. p \in Nat \ {0}
      BY <1>3, <3>1, Zenon
    <3> QED
      BY <1>3, <3>2, Zenon
  <2>3. /\ On(z.at, k, p + Len(seqs[j]))
        /\ k = Len(full) /\ y.ok => z.ok /\ z.list = Append(y.list, list[j])
    BY <2>1, <2>2 DEF StepsOn
  <2>4. Append(SubSeq(list, 1, j - 1), list[j]) = SubSeq(list, 1, j)
    BY PrefixNext
  <2>5. j \in 0..n
    BY <1>1
  <2> HIDE DEF y, p
  <2> QED
    BY <2>1, <2>2, <2>3, <2>4, <2>5
<1>6. n \in S
  <2> HIDE DEF S
  <2>1. n \in 0..n
    BY <1>1
  <2> QED
    BY <1>1, <1>4, <1>5, <2>1, UpTo
<1>7. SubSeq(list, 1, n) = list
  OBVIOUS
<1> HIDE DEF n
<1> QED
  BY <1>2, <1>6, <1>7 DEF n

\* A load that is moved on.
LEMMA MovedOn ==
  ASSUME NEW N, NEW r \in LoadsOf(N), NEW a \in Nat \ {0}
  PROVE  LET x == [r EXCEPT !.at = a] IN
         /\ x \in LoadsOf(N)
         /\ x.at = a /\ x.buf = r.buf /\ x.list = r.list /\ x.ok = r.ok
<1> DEFINE x == [r EXCEPT !.at = a]
<1>1. x \in LoadsOf(N)
  BY DEF LoadsOf
<1>2. x.at = a /\ x.buf = r.buf /\ x.list = r.list /\ x.ok = r.ok
  BY DEF LoadsOf
<1> QED
  BY <1>1, <1>2

-----------------------------------------------------------------------------
(* Loading nodes. *)

NodeLoads == LoadsOf(Seq(Nat) \X Nat)

\* A string takes up two cells more than it has letters, a node one more.
LEMMA StrType ==
  ASSUME NEW s \in Strings PROVE Str(s) \in Seq(Nat) /\ Len(Str(s)) = Len(s) + 2
<1> DEFINE length == <<Len(s) + 1>>
           end == <<Nul>>
           front == length \o s
<1>1. s \in Seq(Nat) /\ Len(s) \in Nat
  BY DEF Strings
<1>2. length \in Seq(Nat) /\ Len(length) = 1 /\ end \in Seq(Nat) /\ Len(end) = 1
  BY <1>1 DEF Nul
<1> HIDE DEF length, end
<1>3. front \in Seq(Nat) /\ Len(front) = Len(length) + Len(s)
  BY <1>1, <1>2, Concatenation
<1> HIDE DEF front
<1>4. front \o end \in Seq(Nat) /\ Len(front \o end) = Len(front) + Len(end)
  BY <1>2, <1>3, Concatenation
<1>5. Str(s) = front \o end
  BY DEF Str, front, length, end
<1> QED
  BY <1>1, <1>2, <1>3, <1>4, <1>5

\* The cells of a node.
LEMMA NodeType ==
  ASSUME NEW pair \in Pairs
  PROVE  /\ pair[1] \in Strings /\ pair[2] \in Nat /\ <<pair[1], pair[2]>> = pair
         /\ Node(pair) \in Seq(Nat) /\ Len(Node(pair)) = Len(pair[1]) + 3
<1>1. pair[1] \in Strings /\ pair[2] \in Nat /\ <<pair[1], pair[2]>> = pair
  BY DEF Pairs
<1> DEFINE str == Str(pair[1])
           number == <<pair[2]>>
<1>2. str \in Seq(Nat) /\ Len(str) = Len(pair[1]) + 2
  BY <1>1, StrType
<1>3. number \in Seq(Nat) /\ Len(number) = 1 /\ Len(pair[1]) \in Nat
  BY <1>1 DEF Strings
<1> HIDE DEF str, number
<1>4. str \o number \in Seq(Nat) /\ Len(str \o number) = Len(str) + Len(number)
  BY <1>2, <1>3, Concatenation
<1> QED
  BY <1>1, <1>2, <1>3, <1>4 DEF Node, str, number

\* The fields of what LoadNode returns.
LEMMA LoadNodeIs ==
  ASSUME NEW mes \in Seq(Nat), NEW r \in NodeLoads
  PROVE  LET s == LoadString(mes, r)
             x == LoadNode(mes, r)
         IN /\ x \in NodeLoads
            /\ x.at = s.at + 1 /\ x.ok = s.ok
            /\ x.list = Append(s.list, <<InBuf(s), Cell(mes, s.at)>>)
<1> DEFINE s == LoadString(mes, r)
           x == LoadNode(mes, r)
           pair == <<InBuf(s), Cell(mes, s.at)>>
<1>1. s \in NodeLoads /\ InBuf(s) \in Seq(Nat)
  BY LoadStringType DEF NodeLoads
<1>2. pair \in Seq(Nat) \X Nat
  BY <1>1, CellType
<1>3. x = [s EXCEPT !.at = s.at + 1, !.list = Append(s.list, pair)]
  BY DEF LoadNode
<1> HIDE DEF s, x, pair
<1>4. /\ s = [at |-> s.at, buf |-> s.buf, list |-> s.list, ok |-> s.ok]
      /\ s.at \in Nat \ {0} /\ s.buf \in Seq(Nat) /\ s.list \in Seq(Seq(Nat) \X Nat)
      /\ s.ok \in BOOLEAN
  BY <1>1 DEF NodeLoads, LoadsOf
<1>5. x = [at |-> s.at + 1, buf |-> s.buf, list |-> Append(s.list, pair), ok |-> s.ok]
  BY <1>3, <1>4
<1>6. s.at + 1 \in Nat \ {0} /\ Append(s.list, pair) \in Seq(Seq(Nat) \X Nat)
  BY <1>2, <1>4
<1>7. x \in NodeLoads
  BY <1>4, <1>5, <1>6, IsLoad DEF NodeLoads
<1>8. x.at = s.at + 1 /\ x.ok = s.ok /\ x.list = Append(s.list, pair)
  BY <1>5
<1> QED
  BY <1>7, <1>8 DEF s, x, pair

\* A load moves on by a cell.
LEMMA OnNext ==
  ASSUME NEW k \in Nat, NEW x \in Nat, NEW at \in Nat, On(x, k, at)
  PROVE  On(x + 1, k, at + 1)
BY DEF On

\* A load of a node goes on behind the node, or in the zeros before that place.
LEMMA LoadNodeOn ==
  ASSUME NEW mes, NEW full, NEW k, Truncated(mes, full, k),
         NEW pair \in Pairs, NEW at, Has(full, at, Node(pair)),
         NEW r \in NodeLoads, On(r.at, k, at)
  PROVE  LET x == LoadNode(mes, r) IN
         /\ On(x.at, k, at + Len(Node(pair)))
         /\ k = Len(full) /\ r.ok => x.ok /\ x.list = Append(r.list, pair)
<1> DEFINE s == LoadString(mes, r)
           x == LoadNode(mes, r)
           str == Str(pair[1])
           number == <<pair[2]>>
           next == at + (Len(pair[1]) + 2)
<1>1. /\ pair[1] \in Strings /\ pair[2] \in Nat /\ <<pair[1], pair[2]>> = pair
      /\ Len(Node(pair)) = Len(pair[1]) + 3
  BY NodeType
<1>2. str \in Seq(Nat) /\ Len(str) = Len(pair[1]) + 2 /\ number \in Seq(Nat)
      /\ Len(pair[1]) \in Nat
  BY <1>1, StrType DEF Strings
<1>3. mes \in Seq(Nat) /\ full \in Seq(Nat) /\ k \in Nat /\ at \in Nat \ {0}
  BY DEF Truncated, Has
<1>4. Has(full, at, str) /\ Has(full, next, number)
  <2>1. Has(full, at, str \o number)
    BY DEF Node
  <2> HIDE DEF str, number
  <2>2. Has(full, at, str) /\ Has(full, at + Len(str), number)
    BY <1>2, <1>3, <2>1, HasBoth
  <2> QED
    BY <1>2, <2>2
<1>5. /\ On(s.at, k, next) /\ s.list = r.list
      /\ k = Len(full) /\ r.ok => s.ok /\ InBuf(s) = pair[1]
  BY <1>1, <1>4, LoadStringOn DEF NodeLoads
<1>6. s.at \in Nat \ {0}
  BY <1>3, LoadStringType DEF NodeLoads, LoadsOf
<1>7. /\ x.at = s.at + 1 /\ x.ok = s.ok
      /\ x.list = Append(s.list, <<InBuf(s), Cell(mes, s.at)>>)
  BY <1>3, LoadNodeIs
<1>8. k = Len(full) => Cell(mes, s.at) = pair[2]
  BY <1>1, <1>4, <1>5, <1>6, NumberRead
<1> HIDE DEF s, x
<1>9. On(x.at, k, at + (Len(pair[1]) + 3))
  <2>1. next \in Nat /\ next + 1 = at + (Len(pair[1]) + 3)
    BY <1>2, <1>3
  <2> HIDE DEF next
  <2>2. On(s.at + 1, k, next + 1)
    BY <1>3, <1>5, <1>6, <2>1, OnNext
  <2> QED
    BY <1>7, <2>1, <2>2
<1>10. k = Len(full) /\ r.ok => x.ok /\ x.list = Append(r.list, pair)
  BY <1>1, <1>5, <1>7, <1>8
<1> QED
  BY <1>1, <1>9, <1>10 DEF x

\* The loop over nodes.
NodeLoop(mes, r, n) == Loop(LAMBDA x : LoadNode(mes, x), r, n)

\* The loads after before its first round and after each round.
NodesLoaded(after, mes, r, n) ==
  /\ after \in [0..n -> NodeLoads]
  /\ after[0] = r /\ \A j \in 1..n : after[j] = LoadNode(mes, after[j - 1])
  /\ NodeLoop(mes, r, n) = after[n]

\* The rounds of the loop over nodes.
LEMMA NodeRounds ==
  ASSUME NEW mes \in Seq(Nat), NEW r \in NodeLoads, NEW n \in Nat
  PROVE  \E after : NodesLoaded(after, mes, r, n)
<1> DEFINE step == [x \in NodeLoads |-> LoadNode(mes, x)]
           Rounds(a) == a = [j \in 0..n |-> IF j = 0 THEN r ELSE LoadNode(mes, a[j - 1])]
           after == CHOOSE a : Rounds(a)
<1>1. step \in [NodeLoads -> NodeLoads]
  BY LoadNodeIs
<1>2. PICK a \in [0..n -> NodeLoads] : Iterated(a, step, r, n)
  <2> HIDE DEF step
  <2> QED
    BY <1>1, Iterates
<1>3. Rounds(a)
  <2>1. ASSUME NEW j \in 0..n
        PROVE  a[j] = IF j = 0 THEN r ELSE LoadNode(mes, a[j - 1])
    <3>1. a[j] = IF j = 0 THEN r ELSE step[a[j - 1]]
      BY <1>2 DEF Iterated
    <3>2. j # 0 => a[j - 1] \in NodeLoads
      OBVIOUS
    <3> QED
      BY <3>1, <3>2
  <2>2. a = [j \in 0..n |-> a[j]]
    OBVIOUS
  <2> QED
    BY <2>1, <2>2
<1>4. Rounds(after)
  <2> HIDE DEF Rounds
  <2> QED
    BY <1>3
<1>5. NodeLoop(mes, r, n) = after[n]
  BY DEF NodeLoop, Loop
<1> HIDE DEF after
<1>6. after[0] = r /\ \A j \in 1..n : after[j] = LoadNode(mes, after[j - 1])
  BY <1>4
<1>7. \A j \in 0..n : after[j] \in NodeLoads
  <2> DEFINE S == {j \in 0..n : after[j] \in NodeLoads}
  <2>1. 0 \in S
    BY <1>6
  <2>2. ASSUME NEW j \in 1..n, j - 1 \in S PROVE j \in S
    BY <1>6, <2>2, LoadNodeIs
  <2> HIDE DEF S
  <2>3. \A j \in 0..n : j \in S
    BY <2>1, <2>2, UpTo
  <2> QED
    BY <2>3 DEF S
<1>8. after \in [0..n -> NodeLoads]
  BY <1>4, <1>7
<1>9. NodesLoaded(after, mes, r, n)
  BY <1>5, <1>6, <1>8 DEF NodesLoaded
<1> QED
  BY <1>9

\* A number and what follows it.
LEMMA HasNumber ==
  ASSUME NEW full \in Seq(Nat), NEW at, NEW c \in Nat, NEW q \in Seq(Nat),
         Has(full, at, <<c>> \o q)
  PROVE  Has(full, at, <<c>>) /\ Has(full, at + 1, q)
<1> DEFINE number == <<c>>
<1>1. number \in Seq(Nat) /\ Len(number) = 1
  OBVIOUS
<1> HIDE DEF number
<1>2. Has(full, at, number) /\ Has(full, at + Len(number), q)
  BY <1>1, HasBoth DEF number
<1> QED
  BY <1>1, <1>2 DEF number

\* What Each puts one behind the other, for cells of nodes.
LEMMA EachNode ==
  ASSUME NEW list \in Seq(Pairs)
  PROVE  LET seqs == [j \in 1..Len(list) |-> Node(list[j])] IN
         /\ seqs \in Seq(Seq(Nat)) /\ Len(seqs) = Len(list)
         /\ \A j \in 1..Len(list) : seqs[j] = Node(list[j])
         /\ Each(Node, list) = FlattenSeq(seqs) /\ Each(Node, list) \in Seq(Nat)
<1> DEFINE seqs == [j \in 1..Len(list) |-> Node(list[j])]
<1>1. \A j \in 1..Len(list) : list[j] \in Pairs
  OBVIOUS
<1>2. seqs \in [1..Len(list) -> Seq(Nat)]
  BY <1>1, NodeType
<1>3. DOMAIN list = 1..Len(list) /\ Len(list) \in Nat
  OBVIOUS
<1>4. Each(Node, list) = FlattenSeq(seqs)
  BY <1>3 DEF Each
<1>5. \A j \in 1..Len(list) : seqs[j] = Node(list[j])
  OBVIOUS
<1> HIDE DEF seqs
<1>6. FlattenSeq(seqs) \in Seq(Nat)
  BY <1>2, <1>3, FlattenPlaces
<1>7. seqs \in Seq(Seq(Nat)) /\ Len(seqs) = Len(list)
  BY <1>2, <1>3
<1> QED
  BY <1>4, <1>5, <1>6, <1>7 DEF seqs

\* What LoadNodes returns is a load.
LEMMA LoadNodesType ==
  ASSUME NEW mes \in Seq(Nat), NEW r \in NodeLoads
  PROVE  LET start == [r EXCEPT !.at = r.at + 1]
             c == Cell(mes, r.at)
         IN /\ start \in NodeLoads /\ start.at = r.at + 1
            /\ start.list = r.list /\ start.ok = r.ok
            /\ c \in Nat
            /\ LoadNodes(mes, r) = NodeLoop(mes, start, c)
            /\ LoadNodes(mes, r) \in NodeLoads
<1> DEFINE start == [r EXCEPT !.at = r.at + 1]
           c == Cell(mes, r.at)
<1>1. r.at + 1 \in Nat \ {0}
  BY DEF NodeLoads, LoadsOf
<1>2. start \in NodeLoads
  BY <1>1, MovedOn DEF NodeLoads
<1>3. start.at = r.at + 1 /\ start.list = r.list /\ start.ok = r.ok
  BY <1>1, MovedOn DEF NodeLoads
<1>5. c \in Nat
  BY CellType
<1>6. LoadNodes(mes, r) = NodeLoop(mes, start, c)
  BY DEF LoadNodes, NodeLoop
<1> HIDE DEF start, c
<1>7. PICK after : NodesLoaded(after, mes, start, c)
  BY <1>2, <1>5, NodeRounds
<1>8. LoadNodes(mes, r) \in NodeLoads
  BY <1>5, <1>6, <1>7 DEF NodesLoaded
<1> QED
  BY <1>2, <1>3, <1>5, <1>6, <1>8 DEF start, c

\* A load of a list goes on behind it, or in the zeros before that place, and
\* has its nodes if the message is whole.
LEMMA LoadNodesOn ==
  ASSUME NEW mes, NEW full, NEW k, Truncated(mes, full, k),
         NEW list \in Seq(Pairs), NEW at,
         Has(full, at, <<Len(list)>>), Has(full, at + 1, Each(Node, list)),
         NEW r \in NodeLoads, r.list = <<>>, On(r.at, k, at)
  PROVE  LET x == LoadNodes(mes, r) IN
         /\ On(x.at, k, at + (Len(Each(Node, list)) + 1))
         /\ k = Len(full) /\ r.ok => x.ok /\ x.list = list
<1> DEFINE start == [r EXCEPT !.at = r.at + 1]
           c == Cell(mes, r.at)
           n == Len(list)
           x == LoadNodes(mes, r)
           all == Each(Node, list)
<1>1. mes \in Seq(Nat) /\ full \in Seq(Nat) /\ k \in Nat /\ n \in Nat
  BY DEF Truncated
<1>2. all \in Seq(Nat)
  BY EachNode
<1>3. Has(full, at, <<n>>) /\ Has(full, at + 1, all)
  OBVIOUS
<1>4. /\ start \in NodeLoads /\ start.at = r.at + 1
      /\ start.list = <<>> /\ start.ok = r.ok /\ c \in Nat
      /\ x = NodeLoop(mes, start, c)
  BY <1>1, LoadNodesType
<1>5. r.at \in Nat \ {0} /\ at \in Nat \ {0} /\ Len(all) \in Nat
  BY <1>2, <1>3 DEF NodeLoads, LoadsOf, Has
<1>6. /\ \/ r.at = at /\ c = n
         \/ r.at > k /\ c = Nul
      /\ k = Len(full) => r.at = at /\ c = n
  BY <1>1, <1>3, <1>5, NumberRead
<1>7. PICK after :
        /\ after \in [0..c -> NodeLoads]
        /\ after[0] = start /\ \A j \in 1..c : after[j] = LoadNode(mes, after[j - 1])
        /\ x = after[c]
  <2> HIDE DEF start, c, x
  <2>1. PICK after : NodesLoaded(after, mes, start, c)
    BY <1>1, <1>4, NodeRounds
  <2> QED
    BY <1>4, <2>1 DEF NodesLoaded
<1> HIDE DEF start, c, x, all
<1>8. CASE r.at = at /\ c = n
  <2>1. PICK seqs : /\ seqs \in Seq(Seq(Nat)) /\ Len(seqs) = n
                    /\ \A j \in 1..n : seqs[j] = Node(list[j])
                    /\ all = FlattenSeq(seqs)
    BY EachNode DEF all
  <2>2. Has(full, at + 1, FlattenSeq(seqs)) /\ On(after[0].at, k, at + 1)
        /\ after[0].list = <<>>
    BY <1>3, <1>4, <1>7, <1>8, <2>1 DEF On
  <2>3. ASSUME NEW j \in 1..n, NEW p \in Nat \ {0},
               Has(full, p, seqs[j]), On(after[j - 1].at, k, p)
        PROVE  /\ On(after[j].at, k, p + Len(seqs[j]))
               /\ k = Len(full) /\ after[j - 1].ok =>
                    after[j].ok /\ after[j].list = Append(after[j - 1].list, list[j])
    <3> DEFINE y == after[j - 1]
    <3>1. y \in NodeLoads /\ after[j] = LoadNode(mes, y)
      BY <1>7, <1>8
    <3>0. list[j] \in Pairs
      OBVIOUS
    <3>2. list[j] \in Pairs /\ seqs[j] = Node(list[j])
      BY <2>1, <3>0, Zenon
    <3>3. Has(full, p, Node(list[j])) /\ On(y.at, k, p)
      BY <2>3, <3>2
    <3> HIDE DEF y
    <3>4. /\ On(LoadNode(mes, y).at, k, p + Len(Node(list[j])))
          /\ k = Len(full) /\ y.ok =>
               LoadNode(mes, y).ok /\ LoadNode(mes, y).list = Append(y.list, list[j])
      BY <3>1, <3>2, <3>3, LoadNodeOn
    <3> QED
      BY <3>1, <3>2, <3>4 DEF y
  <2>6. StepsOn(full, k, seqs, list, after)
    BY <2>3 DEF StepsOn
  <2>4. /\ On(after[n].at, k, (at + 1) + Len(all))
        /\ k = Len(full) /\ after[0].ok => after[n].ok /\ after[n].list = list
    BY <2>1, <2>2, <2>6, RoundsOn
  <2>5. (at + 1) + Len(all) = at + (Len(all) + 1)
    BY <1>5
  <2> QED
    BY <1>4, <1>7, <1>8, <2>4, <2>5 DEF x, all
<1>9. CASE r.at > k /\ c = Nul /\ k # Len(full)
  <2>1. x = start
    BY <1>7, <1>9 DEF Nul
  <2>2. k < r.at + 1 /\ r.at + 1 <= at + (Len(all) + 1)
    BY <1>1, <1>5, <1>9 DEF On
  <2> QED
    BY <1>4, <1>9, <2>1, <2>2 DEF On, x, all
<1> QED
  BY <1>6, <1>8, <1>9

-----------------------------------------------------------------------------
(* Loading terms. *)

TermLoads == LoadsOf(Seq(Nat) \X Seq(Seq(Nat) \X Nat))

\* A load with another list.
WithList(r, l) == [r EXCEPT !.list = l]

\* A load with another list is a load.
LEMMA Relisted ==
  ASSUME NEW N, NEW r \in LoadsOf(N), NEW M, NEW l \in Seq(M)
  PROVE  /\ WithList(r, l) \in LoadsOf(M)
         /\ WithList(r, l).at = r.at /\ WithList(r, l).list = l
         /\ WithList(r, l).ok = r.ok
<1> DEFINE x == WithList(r, l)
<1>1. /\ r = [at |-> r.at, buf |-> r.buf, list |-> r.list, ok |-> r.ok]
      /\ r.at \in Nat \ {0} /\ r.buf \in Seq(Nat) /\ r.ok \in BOOLEAN
  BY DEF LoadsOf
<1>2. x = [at |-> r.at, buf |-> r.buf, list |-> l, ok |-> r.ok]
  BY <1>1 DEF WithList
<1> HIDE DEF x
<1>3. x \in LoadsOf(M)
  BY <1>1, <1>2, IsLoad
<1>4. x.at = r.at /\ x.list = l /\ x.ok = r.ok
  BY <1>2
<1> QED
  BY <1>3, <1>4 DEF x

\* The values of Indexes have these terms.
Terms == Strings \X Seq(Pairs)

\* The cells of a term.
LEMMA TermType ==
  ASSUME NEW t \in Terms
  PROVE  /\ t[1] \in Strings /\ t[2] \in Seq(Pairs) /\ <<t[1], t[2]>> = t
         /\ Term(t) \in Seq(Nat)
         /\ Len(Term(t)) = (Len(t[1]) + 3) + Len(Each(Node, t[2]))
         /\ Len(Each(Node, t[2])) \in Nat
<1>1. t[1] \in Strings /\ t[2] \in Seq(Pairs) /\ <<t[1], t[2]>> = t
  BY DEF Terms
<1> DEFINE str == Str(t[1])
           number == <<Len(t[2])>>
           nodes == Each(Node, t[2])
           front == str \o number
<1>2. str \in Seq(Nat) /\ Len(str) = Len(t[1]) + 2
  BY <1>1, StrType
<1>3. number \in Seq(Nat) /\ Len(number) = 1
  BY <1>1
<1>4. nodes \in Seq(Nat)
  BY <1>1, EachNode
<1>5. Len(t[1]) \in Nat
  BY <1>1 DEF Strings
<1> HIDE DEF str, number, nodes
<1>6. front \in Seq(Nat) /\ Len(front) = Len(str) + Len(number)
  BY <1>2, <1>3, Concatenation
<1> HIDE DEF front
<1>7. front \o nodes \in Seq(Nat) /\ Len(front \o nodes) = Len(front) + Len(nodes)
  BY <1>4, <1>6, Concatenation
<1>8. Term(t) = front \o nodes
  BY DEF Term, front, str, number, nodes
<1>9. Len(nodes) \in Nat /\ Len(front) = Len(t[1]) + 3
  BY <1>2, <1>3, <1>4, <1>5, <1>6
<1> QED
  BY <1>1, <1>7, <1>8, <1>9 DEF nodes

\* The fields of what LoadTerm returns.
LEMMA LoadTermIs ==
  ASSUME NEW mes \in Seq(Nat), NEW r \in TermLoads
  PROVE  LET s == LoadString(mes, r)
             docs == LoadNodes(mes, [s EXCEPT !.list = <<>>])
             x == LoadTerm(mes, r)
         IN /\ [s EXCEPT !.list = <<>>] \in NodeLoads
            /\ [s EXCEPT !.list = <<>>].at = s.at
            /\ [s EXCEPT !.list = <<>>].list = <<>>
            /\ [s EXCEPT !.list = <<>>].ok = s.ok
            /\ x \in TermLoads
            /\ x.at = docs.at /\ x.ok = docs.ok
            /\ x.list = Append(r.list, <<InBuf(s), docs.list>>)
<1> DEFINE s == LoadString(mes, r)
           first == [s EXCEPT !.list = <<>>]
           docs == LoadNodes(mes, first)
           x == LoadTerm(mes, r)
           l == Append(r.list, <<InBuf(s), docs.list>>)
<1>1. s \in TermLoads /\ InBuf(s) \in Seq(Nat)
  BY LoadStringType DEF TermLoads
<1>2. /\ first \in NodeLoads
      /\ first.at = s.at /\ first.list = <<>> /\ first.ok = s.ok
  <2> DEFINE M == Seq(Nat) \X Nat
             N == Seq(Nat) \X Seq(Seq(Nat) \X Nat)
  <2>1. <<>> \in Seq(M) /\ s \in LoadsOf(N)
    BY <1>1 DEF TermLoads
  <2>3. first = WithList(s, <<>>)
    BY DEF WithList
  <2> HIDE DEF s, M, N, first
  <2>2. /\ first \in LoadsOf(M)
        /\ first.at = s.at /\ first.list = <<>> /\ first.ok = s.ok
    BY <2>1, <2>3, Relisted
  <2> QED
    BY <2>2 DEF NodeLoads, M
<1>3. docs \in NodeLoads
  <2> HIDE DEF first
  <2> QED
    BY <1>2, LoadNodesType
<1>4. l \in Seq(Seq(Nat) \X Seq(Seq(Nat) \X Nat))
  <2>1. docs.list \in Seq(Seq(Nat) \X Nat)
    <3> HIDE DEF docs
    <3> QED
      BY <1>3 DEF NodeLoads, LoadsOf
  <2>2. <<InBuf(s), docs.list>> \in Seq(Nat) \X Seq(Seq(Nat) \X Nat)
    <3> HIDE DEF docs, s
    <3> QED
      BY <1>1, <2>1
  <2>3. r.list \in Seq(Seq(Nat) \X Seq(Seq(Nat) \X Nat))
    BY DEF TermLoads, LoadsOf
  <2> HIDE DEF docs, s
  <2> QED
    BY <2>2, <2>3
<1>5. x = [docs EXCEPT !.list = l]
  BY DEF LoadTerm
<1> HIDE DEF x, docs, l, first, s
<1>6. x \in TermLoads /\ x.at = docs.at /\ x.list = l /\ x.ok = docs.ok
  <2> DEFINE M == Seq(Nat) \X Nat
             N == Seq(Nat) \X Seq(Seq(Nat) \X Nat)
  <2>1. docs \in LoadsOf(M) /\ l \in Seq(N)
    BY <1>3, <1>4 DEF NodeLoads
  <2>2. x = WithList(docs, l)
    BY <1>5 DEF WithList
  <2> HIDE DEF M, N
  <2>3. x \in LoadsOf(N) /\ x.at = docs.at /\ x.list = l /\ x.ok = docs.ok
    BY <2>1, <2>2, Relisted
  <2> QED
    BY <2>3 DEF TermLoads, N
<1> QED
  BY <1>2, <1>6 DEF x, docs, l, first, s
\* A load of a term goes on behind the term, or in the zeros before that place.
LEMMA LoadTermOn ==
  ASSUME NEW mes, NEW full, NEW k, Truncated(mes, full, k),
         NEW t \in Terms, NEW at, Has(full, at, Term(t)),
         NEW r \in TermLoads, On(r.at, k, at)
  PROVE  LET x == LoadTerm(mes, r) IN
         /\ On(x.at, k, at + Len(Term(t)))
         /\ k = Len(full) /\ r.ok => x.ok /\ x.list = Append(r.list, t)
<1> DEFINE s == LoadString(mes, r)
           first == [s EXCEPT !.list = <<>>]
           docs == LoadNodes(mes, first)
           x == LoadTerm(mes, r)
           str == Str(t[1])
           number == <<Len(t[2])>>
           nodes == Each(Node, t[2])
           front == str \o number
           next == at + (Len(t[1]) + 2)
<1>1. /\ t[1] \in Strings /\ t[2] \in Seq(Pairs) /\ <<t[1], t[2]>> = t
      /\ Len(Term(t)) = (Len(t[1]) + 3) + Len(nodes) /\ Len(nodes) \in Nat
  BY TermType
<1>2. /\ str \in Seq(Nat) /\ Len(str) = Len(t[1]) + 2
      /\ number \in Seq(Nat) /\ Len(number) = 1 /\ Len(t[1]) \in Nat /\ nodes \in Seq(Nat)
  <2>1. str \in Seq(Nat) /\ Len(str) = Len(t[1]) + 2
    BY <1>1, StrType
  <2>2. number \in Seq(Nat) /\ Len(number) = 1 /\ Len(t[1]) \in Nat
    BY <1>1 DEF Strings
  <2>3. nodes \in Seq(Nat)
    BY <1>1, EachNode
  <2> QED
    BY <2>1, <2>2, <2>3
<1>3. mes \in Seq(Nat) /\ full \in Seq(Nat) /\ k \in Nat /\ at \in Nat \ {0}
  BY DEF Truncated, Has
<1>4. Has(full, at, str) /\ Has(full, next, number) /\ Has(full, next + 1, nodes)
  <2>1. Has(full, at, front \o nodes)
    BY DEF Term
  <2> HIDE DEF str, number, nodes
  <2>2. front \in Seq(Nat) /\ Len(front) = Len(str) + Len(number)
    BY <1>2, Concatenation
  <2> HIDE DEF front
  <2>3. Has(full, at, front) /\ Has(full, at + Len(front), nodes)
    BY <1>2, <1>3, <2>1, <2>2, HasBoth
  <2>4. Has(full, at, str) /\ Has(full, at + Len(str), number)
    <3>1. Has(full, at, str \o number)
      BY <2>3 DEF front
    <3> QED
      BY <1>2, <1>3, <3>1, HasBoth
  <2>5. at + Len(front) = next + 1
    BY <1>2, <1>3, <2>2
  <2> QED
    BY <1>2, <2>3, <2>4, <2>5
<1>5. /\ On(s.at, k, next) /\ s.list = r.list
      /\ k = Len(full) /\ r.ok => s.ok /\ InBuf(s) = t[1]
  <2> HIDE DEF next
  <2>1. /\ On(s.at, k, at + (Len(t[1]) + 2)) /\ s.list = r.list
        /\ k = Len(full) /\ r.ok => s.ok /\ InBuf(s) = t[1]
    BY <1>1, <1>4, LoadStringOn DEF TermLoads
  <2> QED
    BY <2>1 DEF next
<1>6. /\ first \in NodeLoads /\ first.at = s.at /\ first.list = <<>> /\ first.ok = s.ok
      /\ x.at = docs.at /\ x.ok = docs.ok
      /\ x.list = Append(r.list, <<InBuf(s), docs.list>>)
  BY <1>3, LoadTermIs
<1>7. /\ On(docs.at, k, next + (Len(nodes) + 1))
      /\ k = Len(full) /\ s.ok => docs.ok /\ docs.list = t[2]
  <2> HIDE DEF next, first, s
  <2>1. On(first.at, k, next)
    BY <1>5, <1>6
  <2>2. /\ On(LoadNodes(mes, first).at, k, next + (Len(Each(Node, t[2])) + 1))
        /\ k = Len(full) /\ first.ok =>
             LoadNodes(mes, first).ok /\ LoadNodes(mes, first).list = t[2]
    BY <1>1, <1>4, <1>6, <2>1, LoadNodesOn
  <2> QED
    BY <1>6, <2>2
<1>8. next + (Len(nodes) + 1) = at + Len(Term(t))
  <2> HIDE DEF nodes
  <2> QED
    BY <1>1, <1>2, <1>3
<1> HIDE DEF s, x, docs, first, next, nodes
<1> QED
  BY <1>1, <1>5, <1>6, <1>7, <1>8 DEF x

\* The loop over terms.
TermLoop(mes, r, n) == Loop(LAMBDA x : LoadTerm(mes, x), r, n)

\* The loads after before its first round and after each round.
TermsLoaded(after, mes, r, n) ==
  /\ after \in [0..n -> TermLoads]
  /\ after[0] = r /\ \A j \in 1..n : after[j] = LoadTerm(mes, after[j - 1])
  /\ TermLoop(mes, r, n) = after[n]

\* The rounds of the loop over terms.
LEMMA TermRounds ==
  ASSUME NEW mes \in Seq(Nat), NEW r \in TermLoads, NEW n \in Nat
  PROVE  \E after : TermsLoaded(after, mes, r, n)
<1> DEFINE step == [x \in TermLoads |-> LoadTerm(mes, x)]
           Rounds(a) == a = [j \in 0..n |-> IF j = 0 THEN r ELSE LoadTerm(mes, a[j - 1])]
           after == CHOOSE a : Rounds(a)
<1>0. \A x \in TermLoads : LoadTerm(mes, x) \in TermLoads
  BY LoadTermIs
<1>1. step \in [TermLoads -> TermLoads]
  BY <1>0
<1>2. PICK a \in [0..n -> TermLoads] : Iterated(a, step, r, n)
  <2> HIDE DEF step
  <2> QED
    BY <1>1, Iterates
<1>3. Rounds(a)
  <2>1. ASSUME NEW j \in 0..n
        PROVE  a[j] = IF j = 0 THEN r ELSE LoadTerm(mes, a[j - 1])
    <3>1. a[j] = IF j = 0 THEN r ELSE step[a[j - 1]]
      BY <1>2 DEF Iterated
    <3>2. j # 0 => a[j - 1] \in TermLoads
      OBVIOUS
    <3> QED
      BY <3>1, <3>2
  <2>2. a = [j \in 0..n |-> a[j]]
    OBVIOUS
  <2> QED
    BY <2>1, <2>2
<1>4. Rounds(after)
  <2> HIDE DEF Rounds
  <2> QED
    BY <1>3
<1>5. TermLoop(mes, r, n) = after[n]
  BY DEF TermLoop, Loop
<1> HIDE DEF after
<1>6. after[0] = r /\ \A j \in 1..n : after[j] = LoadTerm(mes, after[j - 1])
  BY <1>4
<1>7. \A j \in 0..n : after[j] \in TermLoads
  <2> DEFINE S == {j \in 0..n : after[j] \in TermLoads}
  <2>1. 0 \in S
    BY <1>6
  <2>2. ASSUME NEW j \in 1..n, j - 1 \in S PROVE j \in S
    BY <1>0, <1>6, <2>2
  <2> HIDE DEF S
  <2>3. \A j \in 0..n : j \in S
    BY <2>1, <2>2, UpTo
  <2> QED
    BY <2>3 DEF S
<1>8. after \in [0..n -> TermLoads]
  BY <1>4, <1>7
<1>9. TermsLoaded(after, mes, r, n)
  BY <1>5, <1>6, <1>8 DEF TermsLoaded
<1> QED
  BY <1>9

\* What Each puts one behind the other, for cells of terms.
LEMMA EachTerm ==
  ASSUME NEW list \in Seq(Terms)
  PROVE  LET seqs == [j \in 1..Len(list) |-> Term(list[j])] IN
         /\ seqs \in Seq(Seq(Nat)) /\ Len(seqs) = Len(list)
         /\ \A j \in 1..Len(list) : seqs[j] = Term(list[j])
         /\ Each(Term, list) = FlattenSeq(seqs) /\ Each(Term, list) \in Seq(Nat)
<1> DEFINE seqs == [j \in 1..Len(list) |-> Term(list[j])]
<1>1. \A j \in 1..Len(list) : list[j] \in Terms
  OBVIOUS
<1>2. seqs \in [1..Len(list) -> Seq(Nat)]
  BY <1>1, TermType
<1>3. DOMAIN list = 1..Len(list) /\ Len(list) \in Nat
  OBVIOUS
<1>4. Each(Term, list) = FlattenSeq(seqs)
  BY <1>3 DEF Each
<1>5. \A j \in 1..Len(list) : seqs[j] = Term(list[j])
  OBVIOUS
<1> HIDE DEF seqs
<1>6. FlattenSeq(seqs) \in Seq(Nat)
  BY <1>2, <1>3, FlattenPlaces
<1>7. seqs \in Seq(Seq(Nat)) /\ Len(seqs) = Len(list)
  BY <1>2, <1>3
<1> QED
  BY <1>4, <1>5, <1>6, <1>7 DEF seqs
-----------------------------------------------------------------------------
(* Loading the terms of a query. *)

WordLoads == LoadsOf(Seq(Nat))

\* The fields of what LoadTermOfQuery returns.
LEMMA LoadWordIs ==
  ASSUME NEW mes \in Seq(Nat), NEW r \in WordLoads
  PROVE  LET s == LoadString(mes, r)
             x == LoadTermOfQuery(mes, r)
         IN /\ x \in WordLoads
            /\ x.at = s.at /\ x.ok = s.ok
            /\ x.list = Append(s.list, InBuf(s))
<1> DEFINE s == LoadString(mes, r)
           x == LoadTermOfQuery(mes, r)
           l == Append(s.list, InBuf(s))
<1>1. s \in WordLoads /\ InBuf(s) \in Seq(Nat)
  BY LoadStringType DEF WordLoads
<1>2. l \in Seq(Seq(Nat))
  <2> HIDE DEF s
  <2>1. s.list \in Seq(Seq(Nat))
    BY <1>1 DEF WordLoads, LoadsOf
  <2> QED
    BY <1>1, <2>1
<1>3. x = [s EXCEPT !.list = l]
  BY DEF LoadTermOfQuery
<1> HIDE DEF x, l, s
<1>4. x \in WordLoads /\ x.at = s.at /\ x.list = l /\ x.ok = s.ok
  <2>1. x = WithList(s, l)
    BY <1>3 DEF WithList
  <2>2. s \in LoadsOf(Seq(Nat))
    BY <1>1 DEF WordLoads
  <2> QED
    BY <1>2, <2>1, <2>2, Relisted DEF WordLoads
<1> QED
  BY <1>4 DEF x, l, s

\* A load of a term goes on behind it, or in the zeros before that place.
LEMMA LoadWordOn ==
  ASSUME NEW mes, NEW full, NEW k, Truncated(mes, full, k),
         NEW word \in Strings, NEW at, Has(full, at, Str(word)),
         NEW r \in WordLoads, On(r.at, k, at)
  PROVE  LET x == LoadTermOfQuery(mes, r) IN
         /\ On(x.at, k, at + Len(Str(word)))
         /\ k = Len(full) /\ r.ok => x.ok /\ x.list = Append(r.list, word)
<1> DEFINE s == LoadString(mes, r)
           x == LoadTermOfQuery(mes, r)
<1>1. /\ On(s.at, k, at + (Len(word) + 2)) /\ s.list = r.list
      /\ k = Len(full) /\ r.ok => s.ok /\ InBuf(s) = word
  BY LoadStringOn DEF WordLoads
<1>2. x.at = s.at /\ x.ok = s.ok /\ x.list = Append(s.list, InBuf(s))
  <2>1. mes \in Seq(Nat)
    BY DEF Truncated
  <2> QED
    BY <2>1, LoadWordIs
<1>3. Len(Str(word)) = Len(word) + 2
  BY StrType
<1> HIDE DEF s, x
<1> QED
  BY <1>1, <1>2, <1>3 DEF x

\* The loop over the terms of a query.
WordLoop(mes, r, n) == Loop(LAMBDA x : LoadTermOfQuery(mes, x), r, n)

\* The loads after before its first round and after each round.
WordsLoaded(after, mes, r, n) ==
  /\ after \in [0..n -> WordLoads]
  /\ after[0] = r /\ \A j \in 1..n : after[j] = LoadTermOfQuery(mes, after[j - 1])
  /\ WordLoop(mes, r, n) = after[n]

\* The rounds of the loop over terms of a query.
LEMMA WordRounds ==
  ASSUME NEW mes \in Seq(Nat), NEW r \in WordLoads, NEW n \in Nat
  PROVE  \E after : WordsLoaded(after, mes, r, n)
<1> DEFINE step == [x \in WordLoads |-> LoadTermOfQuery(mes, x)]
           Rounds(a) == a = [j \in 0..n |-> IF j = 0 THEN r ELSE LoadTermOfQuery(mes, a[j - 1])]
           after == CHOOSE a : Rounds(a)
<1>0. \A x \in WordLoads : LoadTermOfQuery(mes, x) \in WordLoads
  BY LoadWordIs
<1>1. step \in [WordLoads -> WordLoads]
  BY <1>0
<1>2. PICK a \in [0..n -> WordLoads] : Iterated(a, step, r, n)
  <2> HIDE DEF step
  <2> QED
    BY <1>1, Iterates
<1>3. Rounds(a)
  <2>1. ASSUME NEW j \in 0..n
        PROVE  a[j] = IF j = 0 THEN r ELSE LoadTermOfQuery(mes, a[j - 1])
    <3>1. a[j] = IF j = 0 THEN r ELSE step[a[j - 1]]
      BY <1>2 DEF Iterated
    <3>2. j # 0 => a[j - 1] \in WordLoads
      OBVIOUS
    <3> QED
      BY <3>1, <3>2
  <2>2. a = [j \in 0..n |-> a[j]]
    OBVIOUS
  <2> QED
    BY <2>1, <2>2
<1>4. Rounds(after)
  <2> HIDE DEF Rounds
  <2> QED
    BY <1>3
<1>5. WordLoop(mes, r, n) = after[n]
  BY DEF WordLoop, Loop
<1> HIDE DEF after
<1>6. after[0] = r /\ \A j \in 1..n : after[j] = LoadTermOfQuery(mes, after[j - 1])
  BY <1>4
<1>7. \A j \in 0..n : after[j] \in WordLoads
  <2> DEFINE S == {j \in 0..n : after[j] \in WordLoads}
  <2>1. 0 \in S
    BY <1>6
  <2>2. ASSUME NEW j \in 1..n, j - 1 \in S PROVE j \in S
    BY <1>0, <1>6, <2>2
  <2> HIDE DEF S
  <2>3. \A j \in 0..n : j \in S
    BY <2>1, <2>2, UpTo
  <2> QED
    BY <2>3 DEF S
<1>8. after \in [0..n -> WordLoads]
  BY <1>4, <1>7
<1>9. WordsLoaded(after, mes, r, n)
  BY <1>5, <1>6, <1>8 DEF WordsLoaded
<1> QED
  BY <1>9

\* What Each puts one behind the other, for cells of strings.
LEMMA EachWord ==
  ASSUME NEW list \in Seq(Strings)
  PROVE  LET seqs == [j \in 1..Len(list) |-> Str(list[j])] IN
         /\ seqs \in Seq(Seq(Nat)) /\ Len(seqs) = Len(list)
         /\ \A j \in 1..Len(list) : seqs[j] = Str(list[j])
         /\ Each(Str, list) = FlattenSeq(seqs) /\ Each(Str, list) \in Seq(Nat)
<1> DEFINE seqs == [j \in 1..Len(list) |-> Str(list[j])]
<1>1. \A j \in 1..Len(list) : list[j] \in Strings
  OBVIOUS
<1>2. seqs \in [1..Len(list) -> Seq(Nat)]
  BY <1>1, StrType
<1>3. DOMAIN list = 1..Len(list) /\ Len(list) \in Nat
  OBVIOUS
<1>4. Each(Str, list) = FlattenSeq(seqs)
  BY <1>3 DEF Each
<1>5. \A j \in 1..Len(list) : seqs[j] = Str(list[j])
  OBVIOUS
<1> HIDE DEF seqs
<1>6. FlattenSeq(seqs) \in Seq(Nat)
  BY <1>2, <1>3, FlattenPlaces
<1>7. seqs \in Seq(Seq(Nat)) /\ Len(seqs) = Len(list)
  BY <1>2, <1>3
<1> QED
  BY <1>4, <1>5, <1>6, <1>7 DEF seqs
-----------------------------------------------------------------------------
(* Loading messages. *)

\* A load of a message begins as a load of anything.
LEMMA FreshIs ==
  ASSUME NEW N
  PROVE  /\ Fresh \in LoadsOf(N)
         /\ Fresh.at = 3 /\ Fresh.list = <<>> /\ Fresh.ok
         /\ \A k \in Nat : On(Fresh.at, k, 3)
BY DEF Fresh, LoadsOf, On

\* The string that a message begins with.
LEMMA FirstString ==
  ASSUME NEW mes, NEW full, NEW k, Truncated(mes, full, k),
         NEW name \in Strings, Has(full, 3, Str(name)), NEW N
  PROVE  LET s == LoadString(mes, Fresh) IN
         /\ s \in LoadsOf(N) /\ s.at \in Nat \ {0} /\ s.list = <<>>
         /\ On(s.at, k, 5 + Len(name))
         /\ k = Len(full) => s.ok /\ InBuf(s) = name
<1> DEFINE r == Fresh
           s == LoadString(mes, r)
<1>1. mes \in Seq(Nat) /\ k \in Nat /\ Len(name) \in Nat
  BY DEF Truncated, Strings
<1>2. r \in LoadsOf(N) /\ r.at = 3 /\ r.list = <<>> /\ r.ok /\ On(r.at, k, 3)
  BY <1>1, FreshIs
<1> HIDE DEF r
<1>3. /\ On(s.at, k, 3 + (Len(name) + 2)) /\ s.list = r.list
      /\ k = Len(full) /\ r.ok => s.ok /\ InBuf(s) = name
  BY <1>2, LoadStringOn
<1>4. s \in LoadsOf(N)
  BY <1>1, <1>2, LoadStringType
<1>5. s.at \in Nat \ {0}
  BY <1>4 DEF LoadsOf
<1>6. 3 + (Len(name) + 2) = 5 + Len(name)
  BY <1>1
<1> QED
  BY <1>2, <1>3, <1>4, <1>5, <1>6 DEF r

\* So does one that has read the length of a list.
LEMMA StartedIs ==
  ASSUME NEW N
  PROVE  LET x == [Fresh EXCEPT !.at = Fresh.at + 1] IN
         x \in LoadsOf(N) /\ x.at = 4 /\ x.list = <<>> /\ x.ok
<1> DEFINE x == [Fresh EXCEPT !.at = Fresh.at + 1]
<1>1. x = [at |-> 4, buf |-> <<>>, list |-> <<>>, ok |-> TRUE]
  <2>1. Fresh.at + 1 = 4
    BY DEF Fresh
  <2>2. x = [Fresh EXCEPT !.at = 4]
    BY <2>1
  <2> HIDE DEF x
  <2> QED
    BY <2>2 DEF Fresh
<1> HIDE DEF x
<1>2. x \in LoadsOf(N) /\ x.at = 4 /\ x.list = <<>> /\ x.ok
  BY <1>1 DEF LoadsOf
<1> QED
  BY <1>2 DEF x

\* What a loader returns has the fields it is given.
LEMMA GivingIs ==
  ASSUME NEW r, NEW v
  PROVE  Giving(r, v).at = r.at /\ Giving(r, v).ok = r.ok /\ Giving(r, v).value = v
BY DEF Giving

\* The number that a loader reads where a string ends, and what is behind it.
LEMMA DocCells ==
  ASSUME NEW v \in Docs
  PROVE  /\ v.name \in Strings /\ v.data \in Seq(Nat) /\ Len(v.data) \in Nat
         /\ v = [type |-> DOC, name |-> v.name, data |-> v.data]
         /\ Append(v.data, Nul) \in Seq(Nat)
         /\ Len(Append(v.data, Nul)) = Len(v.data) + 1
         /\ DumpDoc(v) \in Seq(Nat)
         /\ Len(DumpDoc(v)) = (Len(v.name) + 3) + (Len(v.data) + 1)
         /\ DumpDoc(v) = (Str(v.name) \o <<Len(v.data) + 1>>) \o Append(v.data, Nul)
<1> DEFINE str == Str(v.name)
           number == <<Len(v.data) + 1>>
           bytes == Append(v.data, Nul)
           front == str \o number
           end == <<Nul>>
<1>1. /\ v.name \in Strings /\ v.data \in Seq(Nat) /\ Len(v.data) \in Nat
      /\ v = [type |-> DOC, name |-> v.name, data |-> v.data]
  BY DEF Docs
<1>2. str \in Seq(Nat) /\ Len(str) = Len(v.name) + 2
  BY <1>1, StrType
<1>3. number \in Seq(Nat) /\ Len(number) = 1
  BY <1>1
<1>4. bytes \in Seq(Nat) /\ Len(bytes) = Len(v.data) + 1 /\ end \in Seq(Nat)
      /\ bytes = v.data \o end
  BY <1>1 DEF Nul
<1>5. Len(v.name) \in Nat
  BY <1>1 DEF Strings
<1> HIDE DEF str, number, bytes, end
<1>6. front \in Seq(Nat) /\ Len(front) = Len(v.name) + 3
  <2>1. front \in Seq(Nat) /\ Len(front) = Len(str) + Len(number)
    BY <1>2, <1>3, Concatenation
  <2> HIDE DEF front
  <2> QED
    BY <1>2, <1>3, <1>5, <2>1
<1> HIDE DEF front
<1>7. /\ front \o bytes \in Seq(Nat)
      /\ Len(front \o bytes) = (Len(v.name) + 3) + (Len(v.data) + 1)
  <2>1. front \o bytes \in Seq(Nat) /\ Len(front \o bytes) = Len(front) + Len(bytes)
    BY <1>4, <1>6, Concatenation
  <2> QED
    BY <1>4, <1>6, <2>1
<1>8. DumpDoc(v) = front \o bytes
  <2>1. DumpDoc(v) = (front \o v.data) \o end
    BY DEF DumpDoc, front, str, number, end
  <2>2. (front \o v.data) \o end = front \o (v.data \o end)
    BY <1>1, <1>4, <1>6, Regrouped
  <2> QED
    BY <1>4, <2>1, <2>2
<1> QED
  BY <1>1, <1>4, <1>7, <1>8 DEF front, str, number, bytes

\* What is loaded of a document has the '\0' of its dump.
WithEnd(v) == [v EXCEPT !.data = Append(v.data, Nul)]

\* A load of a document reads it to its end, or not as far.
LEMMA LoadDocOn ==
  ASSUME NEW mes, NEW full, NEW k, Truncated(mes, full, k),
         NEW v \in Docs, Has(full, 3, DumpDoc(v))
  PROVE  LET x == LoadDoc(mes) IN
         /\ On(x.at, k, 3 + Len(DumpDoc(v)))
         /\ k = Len(full) => x.ok /\ x.value = WithEnd(v)
<1> DEFINE s == LoadString(mes, Fresh)
           size == Cell(mes, s.at)
           after == [s EXCEPT !.at = (s.at + 1) + size]
           got == [j \in 1..size |-> Cell(mes, s.at + j)]
           x == LoadDoc(mes)
           str == Str(v.name)
           number == <<Len(v.data) + 1>>
           bytes == Append(v.data, Nul)
           front == str \o number
           next == 5 + Len(v.name)
<1>1. /\ v.name \in Strings /\ v.data \in Seq(Nat) /\ Len(v.data) \in Nat
      /\ v = [type |-> DOC, name |-> v.name, data |-> v.data]
      /\ bytes \in Seq(Nat) /\ Len(bytes) = Len(v.data) + 1
      /\ Len(DumpDoc(v)) = (Len(v.name) + 3) + (Len(v.data) + 1)
      /\ DumpDoc(v) = front \o bytes
  BY DocCells
<1>2. /\ mes \in Seq(Nat) /\ full \in Seq(Nat) /\ k \in Nat /\ k <= Len(full)
      /\ Len(full) \in Nat
  BY DEF Truncated
<1>3. str \in Seq(Nat) /\ Len(str) = Len(v.name) + 2 /\ Len(v.name) \in Nat
      /\ number \in Seq(Nat) /\ Len(number) = 1
  <2>1. str \in Seq(Nat) /\ Len(str) = Len(v.name) + 2
    BY <1>1, StrType
  <2>2. Len(v.name) \in Nat /\ number \in Seq(Nat) /\ Len(number) = 1
    BY <1>1 DEF Strings
  <2> QED
    BY <2>1, <2>2
<1>4. Has(full, 3, str) /\ Has(full, next, number) /\ Has(full, next + 1, bytes)
  <2>1. Has(full, 3, front \o bytes)
    BY <1>1
  <2> HIDE DEF str, number, bytes
  <2>2. front \in Seq(Nat) /\ Len(front) = Len(str) + Len(number)
    BY <1>3, Concatenation
  <2> HIDE DEF front
  <2>3. Has(full, 3, front) /\ Has(full, 3 + Len(front), bytes)
    BY <1>1, <1>2, <2>1, <2>2, HasBoth
  <2>4. Has(full, 3, str) /\ Has(full, 3 + Len(str), number)
    <3>1. Has(full, 3, str \o number)
      BY <2>3 DEF front
    <3> QED
      BY <1>2, <1>3, <3>1, HasBoth
  <2>5. 3 + Len(front) = next + 1
    BY <1>3, <2>2
  <2> QED
    BY <1>3, <2>3, <2>4, <2>5
<1>5. /\ On(s.at, k, next)
      /\ k = Len(full) => s.ok /\ InBuf(s) = v.name
  <2> HIDE DEF next
  <2>1. /\ On(s.at, k, 5 + Len(v.name))
        /\ k = Len(full) => s.ok /\ InBuf(s) = v.name
    BY <1>1, <1>4, FirstString
  <2> QED
    BY <2>1 DEF next
<1>6. s.at \in Nat \ {0} /\ s \in LoadsOf(Nat)
  <2>1. s \in LoadsOf(Nat)
    BY <1>2, FreshIs, LoadStringType
  <2> QED
    BY <2>1 DEF LoadsOf
<1>7. size \in Nat
  BY <1>2, CellType
<1>8. /\ \/ s.at = next /\ s.at <= k /\ size = Len(v.data) + 1
         \/ s.at > k /\ size = Nul
      /\ k = Len(full) => s.at = next /\ size = Len(v.data) + 1
  <2>1. Len(v.data) + 1 \in Nat
    BY <1>1
  <2> QED
    BY <1>4, <1>5, <1>6, <2>1, NumberRead
<1>9. after.at = (s.at + 1) + size /\ after.ok = s.ok
  <2>1. (s.at + 1) + size \in Nat \ {0}
    BY <1>6, <1>7
  <2> HIDE DEF s, size
  <2> QED
    BY <1>6, <2>1, MovedOn
<1>10. /\ x.at = after.at /\ x.ok = after.ok
       /\ x.value = [type |-> DOC, name |-> InBuf(s), data |-> got]
  <2>1. x = Giving(after, [type |-> DOC, name |-> InBuf(s), data |-> got])
    BY DEF LoadDoc
  <2> HIDE DEF x, after, got, s
  <2> QED
    BY <2>1, GivingIs
<1> HIDE DEF x, after
<1>11. On(x.at, k, 3 + Len(DumpDoc(v)))
  <2> HIDE DEF s, size
  <2>1. CASE s.at = next /\ size = Len(v.data) + 1
    BY <1>1, <1>3, <1>9, <1>10, <2>1 DEF On
  <2>2. CASE s.at > k /\ size = Nul
    <3>1. x.at = s.at + 1 /\ s.at <= next
      BY <1>2, <1>3, <1>5, <1>6, <1>9, <1>10, <2>2 DEF On, Nul
    <3>2. next \in Nat /\ 3 + Len(DumpDoc(v)) \in Nat /\ next + 1 <= 3 + Len(DumpDoc(v))
      BY <1>1, <1>3
    <3> HIDE DEF next
    <3>3. k < x.at /\ x.at <= 3 + Len(DumpDoc(v))
      BY <1>2, <1>6, <2>2, <3>1, <3>2
    <3> QED
      BY <3>3 DEF On
  <2> QED
    BY <1>8, <2>1, <2>2
<1>12. ASSUME k = Len(full)
       PROVE  x.ok /\ x.value = [v EXCEPT !.data = bytes]
  <2>1. s.at = next /\ size = Len(bytes)
    BY <1>1, <1>8, <1>12
  <2>2. ASSUME NEW j \in 1..size PROVE Cell(mes, s.at + j) = bytes[j]
    <3>1. full[(next + 1) + (j - 1)] = bytes[j] /\ (next + 1) + Len(bytes) <= Len(full) + 1
      BY <1>4, <2>1 DEF Has
    <3>2. s.at + j = (next + 1) + (j - 1) /\ s.at + j \in Nat \ {0} /\ s.at + j <= k
      <4>1. j \in 1..Len(bytes) /\ Len(bytes) \in Nat
        BY <1>1, <2>1
      <4>0. next \in Nat \ {0}
        BY <1>3
      <4>2. (next + 1) + Len(bytes) <= k + 1 /\ s.at = next /\ next \in Nat \ {0}
        BY <1>12, <2>1, <3>1, <4>0, Zenon
      <4> HIDE DEF s, size, bytes, next
      <4> QED
        BY <1>2, <4>1, <4>2
    <3>3. Cell(mes, s.at + j) = full[s.at + j]
      BY <3>2, CellRead
    <3> QED
      BY <3>1, <3>2, <3>3
  <2>3. got = bytes
    <3>1. bytes = [j \in 1..size |-> bytes[j]]
      BY <1>1, <2>1
    <3> HIDE DEF bytes, size, s
    <3> QED
      BY <2>2, <3>1
  <2>4. x.value = [type |-> DOC, name |-> v.name, data |-> bytes]
    <3> HIDE DEF bytes, s, got
    <3> QED
      BY <1>5, <1>10, <1>12, <2>3
  <2>5. [v EXCEPT !.data = bytes] = [type |-> DOC, name |-> v.name, data |-> bytes]
    <3>1. v = [type |-> DOC, name |-> v.name, data |-> v.data]
      BY <1>1
    <3> HIDE DEF bytes
    <3> QED
      BY <3>1
  <2>6. x.ok
    BY <1>5, <1>9, <1>10, <1>12
  <2> QED
    BY <2>4, <2>5, <2>6
<1> QED
  BY <1>11, <1>12 DEF x, WithEnd
\* Two numbers, each at its place.
LEMMA HasPair ==
  ASSUME NEW full \in Seq(Nat), NEW at, NEW c \in Nat, NEW d \in Nat,
         Has(full, at, <<c, d>>)
  PROVE  Has(full, at, <<c>>) /\ Has(full, at + 1, <<d>>)
<1> DEFINE both == <<c, d>>
<1>1. Len(both) = 2 /\ both[1] = c /\ both[2] = d
  OBVIOUS
<1> HIDE DEF both
<1>2. /\ at \in Nat \ {0} /\ at + 2 <= Len(full) + 1
      /\ full[at + (1 - 1)] = c /\ full[at + (2 - 1)] = d
  <2>1. 1 \in 1..Len(both) /\ 2 \in 1..Len(both)
    BY <1>1
  <2>2. /\ at \in Nat \ {0} /\ at + Len(both) <= Len(full) + 1
        /\ \A j \in 1..Len(both) : full[at + (j - 1)] = both[j]
    BY DEF Has, both
  <2> QED
    BY <1>1, <2>1, <2>2
<1>3. Len(full) \in Nat
  OBVIOUS
<1> DEFINE first == <<c>>
           second == <<d>>
<1>4. /\ first \in Seq(Nat) /\ Len(first) = 1 /\ first[1] = c
      /\ second \in Seq(Nat) /\ Len(second) = 1 /\ second[1] = d
  OBVIOUS
<1> HIDE DEF first, second
<1>5. Has(full, at, first)
  BY <1>2, <1>3, <1>4 DEF Has
<1>6. Has(full, at + 1, second)
  <2>1. (at + 1) + (1 - 1) = at + (2 - 1) /\ at + 1 \in Nat \ {0}
        /\ (at + 1) + 1 <= Len(full) + 1
    BY <1>2, <1>3
  <2>2. full[(at + 1) + (1 - 1)] = d
    BY <1>2, <2>1, Zenon
  <2>3. \A j \in 1..Len(second) : full[(at + 1) + (j - 1)] = second[j]
    BY <1>4, <2>2
  <2> QED
    BY <1>4, <2>1, <2>3 DEF Has
<1> QED
  BY <1>5, <1>6 DEF first, second

\* The cells of a count.
LEMMA CountCells ==
  ASSUME NEW v \in Counts
  PROVE  /\ v.name \in Strings /\ v.whole \in Nat /\ v.list \in Seq(Pairs)
         /\ v = [type |-> COUNT, name |-> v.name, whole |-> v.whole, list |-> v.list]
         /\ DumpCount(v) \in Seq(Nat)
         /\ Len(DumpCount(v)) = (Len(v.name) + 4) + Len(Each(Node, v.list))
         /\ \A full \in Seq(Nat) :
              Has(full, 3, DumpCount(v)) =>
                /\ Has(full, 3, Str(v.name))
                /\ Has(full, 5 + Len(v.name), <<v.whole>>)
                /\ Has(full, 6 + Len(v.name), <<Len(v.list)>>)
                /\ Has(full, 7 + Len(v.name), Each(Node, v.list))
<1> DEFINE str == Str(v.name)
           number == <<v.whole, Len(v.list)>>
           nodes == Each(Node, v.list)
           front == str \o number
<1>1. /\ v.name \in Strings /\ v.whole \in Nat /\ v.list \in Seq(Pairs)
      /\ v = [type |-> COUNT, name |-> v.name, whole |-> v.whole, list |-> v.list]
  BY DEF Counts
<1>2. str \in Seq(Nat) /\ Len(str) = Len(v.name) + 2
  BY <1>1, StrType
<1>3. number \in Seq(Nat) /\ Len(number) = 2 /\ Len(v.list) \in Nat
  BY <1>1
<1>4. nodes \in Seq(Nat) /\ Len(v.name) \in Nat
  <2>1. nodes \in Seq(Nat)
    BY <1>1, EachNode
  <2>2. Len(v.name) \in Nat
    BY <1>1 DEF Strings
  <2> QED
    BY <2>1, <2>2
<1> HIDE DEF str, number, nodes
<1>5. front \in Seq(Nat) /\ Len(front) = Len(v.name) + 4
  <2>1. front \in Seq(Nat) /\ Len(front) = Len(str) + Len(number)
    BY <1>2, <1>3, Concatenation
  <2> HIDE DEF front
  <2> QED
    BY <1>2, <1>3, <1>4, <2>1
<1>6. DumpCount(v) = front \o nodes
  BY DEF DumpCount, front, str, number, nodes
<1>7. DumpCount(v) \in Seq(Nat) /\ Len(DumpCount(v)) = (Len(v.name) + 4) + Len(nodes)
  <2> HIDE DEF front
  <2>1. front \o nodes \in Seq(Nat) /\ Len(front \o nodes) = Len(front) + Len(nodes)
    BY <1>4, <1>5, Concatenation
  <2> QED
    BY <1>5, <1>6, <2>1
<1>8. ASSUME NEW full \in Seq(Nat), Has(full, 3, DumpCount(v))
      PROVE  /\ Has(full, 3, str)
             /\ Has(full, 5 + Len(v.name), <<v.whole>>)
             /\ Has(full, 6 + Len(v.name), <<Len(v.list)>>)
             /\ Has(full, 7 + Len(v.name), nodes)
  <2>1. Has(full, 3, front) /\ Has(full, 3 + Len(front), nodes)
    <3> HIDE DEF front
    <3> QED
      BY <1>4, <1>5, <1>6, <1>8, HasBoth
  <2>2. Has(full, 3, str) /\ Has(full, 3 + Len(str), number)
    BY <1>2, <1>3, <2>1, HasBoth
  <2>3. /\ 3 + Len(front) = 7 + Len(v.name) /\ 3 + Len(str) = 5 + Len(v.name)
        /\ (5 + Len(v.name)) + 1 = 6 + Len(v.name)
    <3> HIDE DEF front
    <3> QED
      BY <1>2, <1>4, <1>5
  <2> DEFINE place == 5 + Len(v.name)
  <2>4. Has(full, place, <<v.whole, Len(v.list)>>)
    BY <2>2, <2>3 DEF number
  <2> HIDE DEF place
  <2>5. Has(full, place, <<v.whole>>) /\ Has(full, place + 1, <<Len(v.list)>>)
    BY <1>1, <1>3, <2>4, HasPair
  <2> QED
    BY <2>1, <2>2, <2>3, <2>5 DEF place
<1> QED
  BY <1>1, <1>7, <1>8 DEF str, nodes

\* A load of a count reads it to its end, or not as far.
LEMMA LoadCountOn ==
  ASSUME NEW mes, NEW full, NEW k, Truncated(mes, full, k),
         NEW v \in Counts, Has(full, 3, DumpCount(v))
  PROVE  LET x == LoadCount(mes) IN
         /\ On(x.at, k, 3 + Len(DumpCount(v)))
         /\ k = Len(full) => x.ok /\ x.value = v
<1> DEFINE s == LoadString(mes, Fresh)
           start == [s EXCEPT !.at = s.at + 1]
           r == LoadNodes(mes, start)
           x == LoadCount(mes)
           nodes == Each(Node, v.list)
           next == 5 + Len(v.name)
<1>1. /\ v.name \in Strings /\ v.whole \in Nat /\ v.list \in Seq(Pairs)
      /\ v = [type |-> COUNT, name |-> v.name, whole |-> v.whole, list |-> v.list]
      /\ Len(DumpCount(v)) = (Len(v.name) + 4) + Len(nodes)
  BY CountCells
<1>2. mes \in Seq(Nat) /\ full \in Seq(Nat) /\ k \in Nat
  BY DEF Truncated
<1>3. /\ Has(full, 3, Str(v.name)) /\ Has(full, next, <<v.whole>>)
      /\ Has(full, 6 + Len(v.name), <<Len(v.list)>>)
      /\ Has(full, 7 + Len(v.name), nodes)
  BY <1>2, CountCells
<1>4. Len(v.name) \in Nat /\ Len(nodes) \in Nat
  <2>1. nodes \in Seq(Nat)
    BY <1>1, EachNode
  <2> QED
    BY <1>1, <2>1 DEF Strings
<1>5. /\ 6 + Len(v.name) = next + 1 /\ 7 + Len(v.name) = (next + 1) + 1
      /\ next \in Nat \ {0}
  BY <1>4
<1> HIDE DEF nodes
<1>6. /\ s \in NodeLoads /\ s.at \in Nat \ {0} /\ s.list = <<>>
      /\ On(s.at, k, 5 + Len(v.name))
      /\ k = Len(full) => s.ok /\ InBuf(s) = v.name
  BY <1>1, <1>3, FirstString DEF NodeLoads
<1> HIDE DEF s
<1>7. /\ start \in NodeLoads /\ start.at = s.at + 1 /\ start.list = <<>>
      /\ start.ok = s.ok
  <2>1. s.at + 1 \in Nat \ {0}
    BY <1>6
  <2> QED
    BY <1>6, <2>1, MovedOn DEF NodeLoads
<1> HIDE DEF start
<1>8. On(start.at, k, next + 1)
  BY <1>2, <1>5, <1>6, <1>7 DEF On
<1>9. k = Len(full) => Cell(mes, s.at) = v.whole
  <2>1. On(s.at, k, next)
    BY <1>6
  <2> HIDE DEF next
  <2> QED
    BY <1>1, <1>3, <1>6, <2>1, NumberRead
<1>10. /\ On(r.at, k, (next + 1) + (Len(nodes) + 1))
       /\ k = Len(full) /\ start.ok => r.ok /\ r.list = v.list
  <2> DEFINE a == next + 1
  <2>1. Has(full, a, <<Len(v.list)>>) /\ Has(full, a + 1, Each(Node, v.list))
    BY <1>3, <1>5 DEF nodes
  <2>2. On(start.at, k, a)
    BY <1>8
  <2> HIDE DEF a
  <2>3. /\ On(r.at, k, a + (Len(Each(Node, v.list)) + 1))
        /\ k = Len(full) /\ start.ok => r.ok /\ r.list = v.list
    BY <1>1, <1>7, <2>1, <2>2, LoadNodesOn
  <2> QED
    BY <2>3 DEF a, nodes
<1>11. /\ x.at = r.at /\ x.ok = r.ok
       /\ x.value = [type |-> COUNT, name |-> InBuf(s), whole |-> Cell(mes, s.at),
                     list |-> r.list]
  <2>1. x = Giving(r, [type |-> COUNT, name |-> InBuf(s), whole |-> Cell(mes, s.at),
                       list |-> r.list])
    BY DEF LoadCount, s, r, start
  <2> HIDE DEF x, r
  <2> QED
    BY <2>1, GivingIs
<1> HIDE DEF x, r
<1>12. (next + 1) + (Len(nodes) + 1) = 3 + Len(DumpCount(v))
  BY <1>1, <1>4
<1> HIDE DEF next
<1>13. k = Len(full) => x.ok /\ x.value = v
  BY <1>1, <1>6, <1>7, <1>9, <1>10, <1>11
<1> QED
  BY <1>10, <1>11, <1>12, <1>13 DEF x
\* A load of the results reads them to their end, or not as far.
LEMMA LoadQueryRslOn ==
  ASSUME NEW mes, NEW full, NEW k, Truncated(mes, full, k),
         NEW v \in Results, Has(full, 3, DumpQueryRsl(v))
  PROVE  LET x == LoadQueryRsl(mes) IN
         /\ On(x.at, k, 3 + Len(DumpQueryRsl(v)))
         /\ k = Len(full) => x.ok /\ x.value = v
<1> DEFINE start == Fresh
           r == LoadNodes(mes, start)
           x == LoadQueryRsl(mes)
           nodes == Each(Node, v.list)
           number == <<Len(v.list)>>
<1>1. v.list \in Seq(Pairs) /\ v = [type |-> QUERY_RSL, list |-> v.list]
      /\ Len(v.list) \in Nat
  BY DEF Results
<1>2. mes \in Seq(Nat) /\ full \in Seq(Nat) /\ k \in Nat
  BY DEF Truncated
<1>3. nodes \in Seq(Nat) /\ Len(nodes) \in Nat
  <2>1. nodes \in Seq(Nat)
    BY <1>1, EachNode
  <2> QED
    BY <2>1
<1>4. Len(DumpQueryRsl(v)) = 1 + Len(nodes) /\ Has(full, 3, <<Len(v.list)>>)
      /\ Has(full, 3 + 1, nodes)
  <2>1. number \in Seq(Nat) /\ Len(number) = 1
    BY <1>1
  <2>2. Has(full, 3, number \o nodes)
    BY DEF DumpQueryRsl
  <2> HIDE DEF nodes
  <2>3. Has(full, 3, <<Len(v.list)>>) /\ Has(full, 3 + 1, nodes)
    BY <1>1, <1>2, <1>3, <2>2, HasNumber
  <2> HIDE DEF number
  <2>4. Len(number \o nodes) = Len(number) + Len(nodes)
    BY <1>3, <2>1, Concatenation
  <2>5. DumpQueryRsl(v) = number \o nodes
    BY DEF DumpQueryRsl, number, nodes
  <2> QED
    BY <2>1, <2>3, <2>4, <2>5
<1>5. start \in NodeLoads /\ start.list = <<>> /\ start.ok /\ On(start.at, k, 3)
  BY <1>2, FreshIs DEF NodeLoads
<1> HIDE DEF start
<1>6. /\ On(r.at, k, 3 + (Len(nodes) + 1))
      /\ k = Len(full) => r.ok /\ r.list = v.list
  BY <1>1, <1>4, <1>5, LoadNodesOn
<1>7. x.at = r.at /\ x.ok = r.ok /\ x.value = [type |-> QUERY_RSL, list |-> r.list]
  <2>1. x = Giving(r, [type |-> QUERY_RSL, list |-> r.list])
    BY DEF LoadQueryRsl, r, start
  <2> HIDE DEF x, r
  <2> QED
    BY <2>1, GivingIs
<1> HIDE DEF x, r, nodes
<1>8. 3 + (Len(nodes) + 1) = 3 + Len(DumpQueryRsl(v))
  BY <1>3, <1>4
<1> QED
  BY <1>1, <1>6, <1>7, <1>8 DEF x

\* A load of an index reads it to its end, or not as far.
LEMMA LoadIndexOn ==
  ASSUME NEW mes, NEW full, NEW k, Truncated(mes, full, k),
         NEW v \in Indexes, Has(full, 3, DumpIndex(v))
  PROVE  LET x == LoadIndex(mes) IN
         /\ On(x.at, k, 3 + Len(DumpIndex(v)))
         /\ k = Len(full) => x.ok /\ x.value = v
<1> DEFINE start == [Fresh EXCEPT !.at = Fresh.at + 1]
           c == Cell(mes, Fresh.at)
           r == TermLoop(mes, start, c)
           x == LoadIndex(mes)
           list == v.list
           n == Len(list)
           all == Each(Term, list)
           number == <<n>>
<1>1. list \in Seq(Terms) /\ v = [type |-> INDEX, list |-> list] /\ n \in Nat
  BY DEF Indexes, Terms
<1>2. mes \in Seq(Nat) /\ full \in Seq(Nat) /\ k \in Nat
  BY DEF Truncated
<1> HIDE DEF list
<1>3. PICK seqs : /\ seqs \in Seq(Seq(Nat)) /\ Len(seqs) = n
                  /\ \A j \in 1..n : seqs[j] = Term(list[j])
                  /\ all = FlattenSeq(seqs) /\ all \in Seq(Nat)
  BY <1>1, EachTerm
<1>4. Len(DumpIndex(v)) = 1 + Len(all) /\ Has(full, 3, number) /\ Has(full, 4, all)
      /\ Len(all) \in Nat
  <2>1. number \in Seq(Nat) /\ Len(number) = 1 /\ Len(all) \in Nat
    BY <1>1, <1>3
  <2>2. Has(full, 3, number \o all)
    BY DEF DumpIndex, list
  <2> HIDE DEF all
  <2>3. Has(full, 3, number) /\ Has(full, 3 + 1, all)
    BY <1>1, <1>2, <1>3, <2>2, HasNumber
  <2> HIDE DEF number
  <2>4. Len(number \o all) = Len(number) + Len(all)
    BY <1>3, <2>1, Concatenation
  <2>5. DumpIndex(v) = number \o all
    BY DEF DumpIndex, number, all, list
  <2> QED
    BY <2>1, <2>3, <2>4, <2>5
<1>5. start \in TermLoads /\ start.list = <<>> /\ start.ok /\ start.at = 4
  BY StartedIs DEF TermLoads
<1>6. /\ c \in Nat
      /\ c = n \/ (k < 3 /\ c = Nul)
      /\ k = Len(full) => c = n
  <2>1. c = Cell(mes, 3)
    BY FreshIs
  <2>2. On(3, k, 3) /\ 3 \in Nat \ {0}
    BY DEF On
  <2>3. Cell(mes, 3) \in Nat
    BY <1>2, CellType
  <2> HIDE DEF c, number
  <2>4. Has(full, 3, <<n>>)
    BY <1>4 DEF number
  <2> HIDE DEF n
  <2> QED
    BY <1>1, <1>2, <2>1, <2>2, <2>3, <2>4, NumberRead
<1> HIDE DEF start, c, all
<1>7. PICK after :
        /\ after \in [0..c -> TermLoads]
        /\ after[0] = start /\ \A j \in 1..c : after[j] = LoadTerm(mes, after[j - 1])
        /\ r = after[c]
  <2>2. r = TermLoop(mes, start, c)
    OBVIOUS
  <2> HIDE DEF r
  <2>1. PICK after : TermsLoaded(after, mes, start, c)
    <3>1. mes \in Seq(Nat) /\ start \in TermLoads /\ c \in Nat
      BY <1>2, <1>5, <1>6
    <3> HIDE DEF x
    <3> QED
      BY <3>1, TermRounds
  <2> QED
    BY <2>1, <2>2 DEF TermsLoaded
<1> HIDE DEF r
<1>8. ASSUME c = n
      PROVE  /\ On(r.at, k, 4 + Len(all))
             /\ k = Len(full) => r.ok /\ r.list = list
  <2>1. Has(full, 4, FlattenSeq(seqs)) /\ On(after[0].at, k, 4) /\ after[0].list = <<>>
    BY <1>3, <1>4, <1>5, <1>7 DEF On
  <2>2. ASSUME NEW j \in 1..n, NEW p \in Nat \ {0},
               Has(full, p, seqs[j]), On(after[j - 1].at, k, p)
        PROVE  /\ On(after[j].at, k, p + Len(seqs[j]))
               /\ k = Len(full) /\ after[j - 1].ok =>
                    after[j].ok /\ after[j].list = Append(after[j - 1].list, list[j])
    <3> DEFINE y == after[j - 1]
    <3>1. y \in TermLoads /\ after[j] = LoadTerm(mes, y)
      BY <1>7, <1>8
    <3>2. list[j] \in Terms
      BY <1>1
    <3>3. seqs[j] = Term(list[j])
      BY <1>3, Zenon
    <3>4. Has(full, p, Term(list[j])) /\ On(y.at, k, p)
      BY <2>2, <3>3
    <3> HIDE DEF y
    <3>5. /\ On(LoadTerm(mes, y).at, k, p + Len(Term(list[j])))
          /\ k = Len(full) /\ y.ok =>
               LoadTerm(mes, y).ok /\ LoadTerm(mes, y).list = Append(y.list, list[j])
      BY <3>1, <3>2, <3>4, LoadTermOn
    <3> QED
      BY <3>1, <3>3, <3>5 DEF y
  <2>3. StepsOn(full, k, seqs, list, after)
    BY <2>2 DEF StepsOn
  <2>4. /\ On(after[n].at, k, 4 + Len(all))
        /\ k = Len(full) /\ after[0].ok => after[n].ok /\ after[n].list = list
    BY <1>1, <1>3, <2>1, <2>3, RoundsOn
  <2> QED
    BY <1>5, <1>7, <1>8, <2>4
<1>9. ASSUME k < 3, c = Nul, c # n
      PROVE  /\ On(r.at, k, 4 + Len(all))
             /\ k = Len(full) => r.ok /\ r.list = list
  <2>1. r = start
    BY <1>7, <1>9 DEF Nul
  <2>2. k < 4 /\ 4 <= 4 + Len(all)
    BY <1>2, <1>4, <1>9
  <2> QED
    BY <1>5, <1>6, <1>9, <2>1, <2>2 DEF On
<1>10. /\ On(r.at, k, 4 + Len(all))
       /\ k = Len(full) => r.ok /\ r.list = list
  BY <1>5, <1>6, <1>8, <1>9
<1>11. x.at = r.at /\ x.ok = r.ok /\ x.value = [type |-> INDEX, list |-> r.list]
  <2>1. x = Giving(r, [type |-> INDEX, list |-> r.list])
    BY DEF LoadIndex, TermLoop, r, start, c
  <2> HIDE DEF x
  <2> QED
    BY <2>1, GivingIs
<1> HIDE DEF x
<1>12. 4 + Len(all) = 3 + Len(DumpIndex(v))
  BY <1>4
<1> QED
  BY <1>1, <1>10, <1>11, <1>12 DEF x
\* A load of a query that has terms reads it to its end, or not as far.
LEMMA LoadQueryOn ==
  ASSUME NEW mes, NEW full, NEW k, Truncated(mes, full, k),
         NEW v \in Queries, Has(full, 3, DumpQuery(v)),
         v.list # <<>>
  PROVE  LET x == LoadQuery(mes) IN
         /\ On(x.at, k, 3 + Len(DumpQuery(v)))
         /\ k = Len(full) => x.ok /\ x.value = v
<1> DEFINE start == [Fresh EXCEPT !.at = Fresh.at + 1]
           len == Cell(mes, Fresh.at)
           c == IF len = 0 THEN 1 ELSE len
           r == WordLoop(mes, start, c)
           x == LoadQuery(mes)
           list == v.list
           n == Len(list)
           all == Each(Str, list)
           number == <<n>>
<1>1. list \in Seq(Strings) /\ v = [type |-> QUERY, list |-> list] /\ n \in Nat /\ n # 0
  BY DEF Queries
<1>2. mes \in Seq(Nat) /\ full \in Seq(Nat) /\ k \in Nat
  BY DEF Truncated
<1> HIDE DEF list
<1>3. PICK seqs : /\ seqs \in Seq(Seq(Nat)) /\ Len(seqs) = n
                  /\ \A j \in 1..n : seqs[j] = Str(list[j])
                  /\ all = FlattenSeq(seqs) /\ all \in Seq(Nat)
  BY <1>1, EachWord
<1>4. Len(DumpQuery(v)) = 1 + Len(all) /\ Has(full, 3, number) /\ Has(full, 4, all)
      /\ Len(all) \in Nat
  <2>1. number \in Seq(Nat) /\ Len(number) = 1 /\ Len(all) \in Nat
    BY <1>1, <1>3
  <2>2. Has(full, 3, number \o all)
    BY DEF DumpQuery, list
  <2> HIDE DEF all
  <2>3. Has(full, 3, number) /\ Has(full, 3 + 1, all)
    BY <1>1, <1>2, <1>3, <2>2, HasNumber
  <2> HIDE DEF number
  <2>4. Len(number \o all) = Len(number) + Len(all)
    BY <1>3, <2>1, Concatenation
  <2>5. DumpQuery(v) = number \o all
    BY DEF DumpQuery, number, all, list
  <2> QED
    BY <2>1, <2>3, <2>4, <2>5
<1>5. start \in WordLoads /\ start.list = <<>> /\ start.ok /\ start.at = 4
  BY StartedIs DEF WordLoads
<1>6. /\ c \in Nat
      /\ c = n \/ (k < 3 /\ c = 1)
      /\ k = Len(full) => c = n
  <2>1. len = Cell(mes, 3)
    BY FreshIs
  <2>2. On(3, k, 3) /\ 3 \in Nat \ {0}
    BY DEF On
  <2>3. Cell(mes, 3) \in Nat
    BY <1>2, CellType
  <2> HIDE DEF len, number
  <2>4. Has(full, 3, <<n>>)
    BY <1>4 DEF number
  <2> HIDE DEF n
  <2>5. /\ len = n \/ (k < 3 /\ len = Nul)
        /\ k = Len(full) => len = n
    BY <1>1, <1>2, <2>1, <2>2, <2>3, <2>4, NumberRead
  <2> QED
    BY <1>1, <2>1, <2>3, <2>5 DEF Nul
<1> HIDE DEF start, c, all
<1>7. PICK after :
        /\ after \in [0..c -> WordLoads]
        /\ after[0] = start /\ \A j \in 1..c : after[j] = LoadTermOfQuery(mes, after[j - 1])
        /\ r = after[c]
  <2>2. r = WordLoop(mes, start, c)
    OBVIOUS
  <2> HIDE DEF r
  <2>1. PICK after : WordsLoaded(after, mes, start, c)
    <3>1. mes \in Seq(Nat) /\ start \in WordLoads /\ c \in Nat
      BY <1>2, <1>5, <1>6
    <3> HIDE DEF x
    <3> QED
      BY <3>1, WordRounds
  <2> QED
    BY <2>1, <2>2 DEF WordsLoaded
<1> HIDE DEF r
<1>8. ASSUME c = n
      PROVE  /\ On(r.at, k, 4 + Len(all))
             /\ k = Len(full) => r.ok /\ r.list = list
  <2>1. Has(full, 4, FlattenSeq(seqs)) /\ On(after[0].at, k, 4) /\ after[0].list = <<>>
    BY <1>3, <1>4, <1>5, <1>7 DEF On
  <2>2. ASSUME NEW j \in 1..n, NEW p \in Nat \ {0},
               Has(full, p, seqs[j]), On(after[j - 1].at, k, p)
        PROVE  /\ On(after[j].at, k, p + Len(seqs[j]))
               /\ k = Len(full) /\ after[j - 1].ok =>
                    after[j].ok /\ after[j].list = Append(after[j - 1].list, list[j])
    <3> DEFINE y == after[j - 1]
    <3>1. y \in WordLoads /\ after[j] = LoadTermOfQuery(mes, y)
      BY <1>7, <1>8
    <3>2. list[j] \in Strings
      BY <1>1
    <3>3. seqs[j] = Str(list[j])
      BY <1>3, Zenon
    <3>4. Has(full, p, Str(list[j])) /\ On(y.at, k, p)
      BY <2>2, <3>3
    <3> HIDE DEF y
    <3>5. /\ On(LoadTermOfQuery(mes, y).at, k, p + Len(Str(list[j])))
          /\ k = Len(full) /\ y.ok =>
               LoadTermOfQuery(mes, y).ok /\ LoadTermOfQuery(mes, y).list = Append(y.list, list[j])
      BY <3>1, <3>2, <3>4, LoadWordOn
    <3> QED
      BY <3>1, <3>3, <3>5 DEF y
  <2>3. StepsOn(full, k, seqs, list, after)
    BY <2>2 DEF StepsOn
  <2>4. /\ On(after[n].at, k, 4 + Len(all))
        /\ k = Len(full) /\ after[0].ok => after[n].ok /\ after[n].list = list
    BY <1>1, <1>3, <2>1, <2>3, RoundsOn
  <2> QED
    BY <1>5, <1>7, <1>8, <2>4
<1>9. ASSUME k < 3, c = 1, c # n
      PROVE  /\ On(r.at, k, 4 + Len(all))
             /\ k = Len(full) => r.ok /\ r.list = list
  <2>1. r = LoadTermOfQuery(mes, start)
    <3>1. 1 \in 1..c /\ 1 - 1 = 0
      BY <1>9
    <3> QED
      BY <1>7, <1>9, <3>1
  <2>2. r.at = LoadString(mes, start).at
    BY <1>2, <1>5, <2>1, LoadWordIs
  <2>3. Cell(mes, 4) = Nul
    BY <1>2, <1>9, CellRead
  <2>4. r.at = 5
    <3>1. LoadString(mes, start).at = (start.at + 1) + Cell(mes, start.at)
      BY <1>5, LoadStringIs DEF WordLoads
    <3> QED
      BY <1>5, <2>2, <2>3, <3>1 DEF Nul
  <2>5. Len(all) >= 1
    <3>1. PICK place : EachAt(place, full, 4, seqs) /\ place[n] = 4 + Len(all)
      <4>1. /\ full \in Seq(Nat) /\ seqs \in Seq(Seq(Nat)) /\ Len(seqs) = n
            /\ all = FlattenSeq(seqs) /\ Has(full, 4, FlattenSeq(seqs))
        BY <1>2, <1>3, <1>4
      <4>2. \E place : /\ EachAt(place, full, 4, seqs)
                       /\ place[Len(seqs)] = 4 + Len(FlattenSeq(seqs))
        BY <4>1, HasEach
      <4> HIDE DEF x, n
      <4> QED
        BY <4>1, <4>2
    <3>2. /\ place[0] = 4
          /\ \A j \in 1..n : place[j] = place[j - 1] + Len(seqs[j])
      BY <1>3, <3>1 DEF EachAt
    <3>3. ASSUME NEW j \in 1..n PROVE Len(seqs[j]) \in Nat /\ Len(seqs[j]) >= 2
      <4>1. list[j] \in Strings /\ seqs[j] = Str(list[j])
        <5>1. list[j] \in Strings
          BY <1>1
        <5> QED
          BY <1>3, <5>1, Zenon
      <4>2. Len(seqs[j]) = Len(list[j]) + 2
        BY <4>1, StrType
      <4>3. Len(list[j]) \in Nat
        BY <4>1 DEF Strings
      <4> QED
        BY <4>2, <4>3
    <3> DEFINE S == {j \in 0..n : place[j] \in Nat /\ (j # 0 => place[j] >= 5) /\ place[j] >= 4}
    <3>4. 0 \in S
      BY <1>1, <3>2
    <3>5. ASSUME NEW j \in 1..n, j - 1 \in S PROVE j \in S
      <4>1. place[j - 1] \in Nat /\ place[j - 1] >= 4 /\ j \in 0..n
        BY <1>1, <3>5
      <4>2. place[j] \in Nat /\ place[j] >= 5
        BY <3>2, <3>3, <4>1
      <4> QED
        BY <4>1, <4>2
    <3>6. n \in S
      <4> HIDE DEF S
      <4>1. n \in 0..n
        BY <1>1
      <4> QED
        BY <1>1, <3>4, <3>5, <4>1, UpTo
    <3>7. place[n] >= 5
      BY <1>1, <3>6
    <3> QED
      BY <1>4, <3>1, <3>7
  <2> QED
    BY <1>2, <1>4, <1>6, <1>9, <2>4, <2>5 DEF On
<1>10. /\ On(r.at, k, 4 + Len(all))
       /\ k = Len(full) => r.ok /\ r.list = list
  BY <1>5, <1>6, <1>8, <1>9
<1>11. x.at = r.at /\ x.ok = r.ok /\ x.value = [type |-> QUERY, list |-> r.list]
  <2>1. x = Giving(r, [type |-> QUERY, list |-> r.list])
    BY DEF LoadQuery, WordLoop, r, start, c, len
  <2> HIDE DEF x
  <2> QED
    BY <2>1, GivingIs
<1> HIDE DEF x
<1>12. 4 + Len(all) = 3 + Len(DumpQuery(v))
  BY <1>4
<1> QED
  BY <1>1, <1>10, <1>11, <1>12 DEF x
\* Whatever a loader finds, it returns the place of a cell.
LEMMA LoadersType ==
  ASSUME NEW mes \in Seq(Nat)
  PROVE  /\ LoadDoc(mes).at \in Nat \ {0}
         /\ LoadCount(mes).at \in Nat \ {0}
         /\ LoadIndex(mes).at \in Nat \ {0}
         /\ LoadQuery(mes).at \in Nat \ {0}
         /\ LoadQueryRsl(mes).at \in Nat \ {0}
<1> DEFINE s == LoadString(mes, Fresh)
           start == [Fresh EXCEPT !.at = Fresh.at + 1]
           c == Cell(mes, Fresh.at)
<1>1. s \in NodeLoads
  BY FreshIs, LoadStringType DEF NodeLoads
<1>2. s.at \in Nat \ {0} /\ s.at + 1 \in Nat \ {0}
  <2> HIDE DEF s
  <2> QED
    BY <1>1 DEF NodeLoads, LoadsOf
<1>3. c \in Nat
  BY CellType
<1>4. start \in TermLoads /\ start \in WordLoads
  BY StartedIs DEF TermLoads, WordLoads
<1>5. LoadDoc(mes).at \in Nat \ {0}
  <2> DEFINE size == Cell(mes, s.at)
             after == [s EXCEPT !.at = (s.at + 1) + size]
             got == [j \in 1..size |-> Cell(mes, s.at + j)]
             x == LoadDoc(mes)
  <2>1. (s.at + 1) + size \in Nat \ {0}
    <3>1. size \in Nat
      BY CellType
    <3> HIDE DEF s, size
    <3> QED
      BY <1>2, <3>1
  <2>2. after.at = (s.at + 1) + size
    <3> HIDE DEF s, size
    <3> QED
      BY <1>1, <2>1, MovedOn DEF NodeLoads
  <2>3. x = Giving(after, [type |-> DOC, name |-> InBuf(s), data |-> got])
    BY DEF LoadDoc
  <2> HIDE DEF after, got, s, size, x
  <2>4. x.at = after.at
    BY <2>3, GivingIs
  <2> QED
    BY <2>1, <2>2, <2>4 DEF x
<1>6. LoadCount(mes).at \in Nat \ {0}
  <2> DEFINE next == [s EXCEPT !.at = s.at + 1]
             r == LoadNodes(mes, next)
             v == [type |-> COUNT, name |-> InBuf(s), whole |-> Cell(mes, s.at),
                   list |-> r.list]
  <2>1. LoadCount(mes) = Giving(r, v)
    BY DEF LoadCount
  <2>2. next \in NodeLoads
    <3> HIDE DEF s
    <3> QED
      BY <1>1, <1>2, MovedOn DEF NodeLoads
  <2> HIDE DEF next, v
  <2>3. r \in NodeLoads
    BY <2>2, LoadNodesType
  <2> HIDE DEF r
  <2>4. r.at \in Nat \ {0}
    BY <2>3 DEF NodeLoads, LoadsOf
  <2> QED
    BY <2>1, <2>4, GivingIs
<1>7. LoadQueryRsl(mes).at \in Nat \ {0}
  <2> DEFINE r == LoadNodes(mes, Fresh)
             v == [type |-> QUERY_RSL, list |-> r.list]
  <2>1. LoadQueryRsl(mes) = Giving(r, v)
    BY DEF LoadQueryRsl
  <2>2. r \in NodeLoads
    BY FreshIs, LoadNodesType DEF NodeLoads
  <2> HIDE DEF r, v
  <2>3. r.at \in Nat \ {0}
    BY <2>2 DEF NodeLoads, LoadsOf
  <2> QED
    BY <2>1, <2>3, GivingIs
<1>8. LoadIndex(mes).at \in Nat \ {0}
  <2> DEFINE r == TermLoop(mes, start, c)
             v == [type |-> INDEX, list |-> r.list]
  <2>1. LoadIndex(mes) = Giving(r, v)
    BY DEF LoadIndex, TermLoop
  <2>2. r \in TermLoads
    <3> HIDE DEF start, c, s
    <3>1. PICK after : TermsLoaded(after, mes, start, c)
      BY <1>3, <1>4, TermRounds
    <3> QED
      BY <1>3, <3>1 DEF TermsLoaded
  <2> HIDE DEF r, v
  <2>3. r.at \in Nat \ {0}
    BY <2>2 DEF TermLoads, LoadsOf
  <2> QED
    BY <2>1, <2>3, GivingIs
<1>9. LoadQuery(mes).at \in Nat \ {0}
  <2> DEFINE len == IF c = 0 THEN 1 ELSE c
             r == WordLoop(mes, start, len)
             v == [type |-> QUERY, list |-> r.list]
  <2>1. LoadQuery(mes) = Giving(r, v)
    BY DEF LoadQuery, WordLoop
  <2>2. r \in WordLoads
    <3>1. len \in Nat
      BY <1>3
    <3> HIDE DEF start, c, s, len
    <3>2. PICK after : WordsLoaded(after, mes, start, len)
      BY <1>4, <3>1, WordRounds
    <3> QED
      BY <3>1, <3>2 DEF WordsLoaded
  <2> HIDE DEF r, v
  <2>3. r.at \in Nat \ {0}
    BY <2>2 DEF WordLoads, LoadsOf
  <2> QED
    BY <2>1, <2>3, GivingIs
<1> QED
  BY <1>5, <1>6, <1>7, <1>8, <1>9

\* What the dumps make are cells.
LEMMA DumpsType ==
  /\ \A v \in Docs : DumpDoc(v) \in Seq(Nat)
  /\ \A v \in Counts : DumpCount(v) \in Seq(Nat)
  /\ \A v \in Indexes : DumpIndex(v) \in Seq(Nat)
  /\ \A v \in Queries : DumpQuery(v) \in Seq(Nat)
  /\ \A v \in Results : DumpQueryRsl(v) \in Seq(Nat)
<1>1. ASSUME NEW v \in Indexes PROVE DumpIndex(v) \in Seq(Nat)
  <2>1. v.list \in Seq(Terms)
    BY DEF Indexes, Terms
  <2>2. Each(Term, v.list) \in Seq(Nat)
    BY <2>1, EachTerm
  <2>3. <<Len(v.list)>> \in Seq(Nat)
    BY <2>1
  <2> QED
    BY <2>2, <2>3, Concatenation DEF DumpIndex
<1>2. ASSUME NEW v \in Queries PROVE DumpQuery(v) \in Seq(Nat)
  <2>1. v.list \in Seq(Strings)
    BY DEF Queries
  <2>2. Each(Str, v.list) \in Seq(Nat)
    BY <2>1, EachWord
  <2>3. <<Len(v.list)>> \in Seq(Nat)
    BY <2>1
  <2> QED
    BY <2>2, <2>3, Concatenation DEF DumpQuery
<1>3. ASSUME NEW v \in Results PROVE DumpQueryRsl(v) \in Seq(Nat)
  <2>1. v.list \in Seq(Pairs)
    BY DEF Results
  <2>2. Each(Node, v.list) \in Seq(Nat)
    BY <2>1, EachNode
  <2>3. <<Len(v.list)>> \in Seq(Nat)
    BY <2>1
  <2> QED
    BY <2>2, <2>3, Concatenation DEF DumpQueryRsl
<1> QED
  BY <1>1, <1>2, <1>3, DocCells, CountCells

\* A message with the flag f, the type t and this dump.
Headed(f, t, dump) == <<f>> \o (<<t>> \o dump)

\* full has the flag f, the type t and this dump, each at its place.
Framed(full, f, t, dump) ==
  /\ full \in Seq(Nat) /\ Len(full) = 2 + Len(dump) /\ Len(dump) \in Nat
  /\ full[1] = f /\ full[2] = t /\ Has(full, 3, dump)

\* The flag, the type and the dump of a message, each at its place.
LEMMA Header ==
  ASSUME NEW f \in Nat, NEW t \in Nat, NEW dump \in Seq(Nat)
  PROVE  Framed(Headed(f, t, dump), f, t, dump)
<1> DEFINE flag == <<f>>
           type == <<t>>
           content == type \o dump
           full == flag \o content
<1>1. /\ flag \in Seq(Nat) /\ Len(flag) = 1 /\ flag[1] = f
      /\ type \in Seq(Nat) /\ Len(type) = 1 /\ type[1] = t
  OBVIOUS
<1> HIDE DEF flag, type
<1>2. /\ content \in Seq(Nat) /\ Len(content) = Len(type) + Len(dump)
      /\ \A j \in 1..Len(type) : content[j] = type[j]
      /\ \A j \in 1..Len(dump) : content[Len(type) + j] = dump[j]
  BY <1>1, Concatenation
<1> HIDE DEF content
<1>3. /\ full \in Seq(Nat) /\ Len(full) = Len(flag) + Len(content)
      /\ \A j \in 1..Len(flag) : full[j] = flag[j]
      /\ \A j \in 1..Len(content) : full[Len(flag) + j] = content[j]
  BY <1>1, <1>2, Concatenation
<1> HIDE DEF full
<1>4. Len(dump) \in Nat /\ Len(content) = 1 + Len(dump) /\ Len(full) = 2 + Len(dump)
  <2>1. Len(dump) \in Nat
    OBVIOUS
  <2> QED
    BY <1>1, <1>2, <1>3, <2>1
<1>5. full[1] = f /\ full[2] = t
  <2>1. 1 \in 1..Len(flag) /\ 1 \in 1..Len(content) /\ 1 \in 1..Len(type) /\ 1 + 1 = 2
    BY <1>1, <1>4
  <2> QED
    BY <1>1, <1>2, <1>3, <2>1
<1>6. Has(full, 3, dump)
  <2>1. ASSUME NEW j \in 1..Len(dump) PROVE full[3 + (j - 1)] = dump[j]
    <3>1. 1 + j \in 1..Len(content) /\ 3 + (j - 1) = 1 + (1 + j)
      BY <1>4
    <3>2. full[1 + (1 + j)] = content[1 + j] /\ content[1 + j] = dump[j]
      BY <1>1, <1>2, <1>3, <3>1
    <3> QED
      BY <3>1, <3>2
  <2>2. 3 \in Nat \ {0} /\ 3 + Len(dump) <= Len(full) + 1
    BY <1>4
  <2> QED
    BY <2>1, <2>2 DEF Has
<1>7. Framed(full, f, t, dump)
  BY <1>3, <1>4, <1>5, <1>6 DEF Framed
<1>8. Headed(f, t, dump) = full
  BY DEF Headed, full, content, flag, type
<1> QED
  BY <1>7, <1>8
-----------------------------------------------------------------------------
(* Whatever the struct. *)

Values == {talk.value : talk \in Talks} \cup Answers

\* Whatever is sent.
Sendable == Docs \cup Queries \cup Indexes \cup Ports \cup Counts \cup Results \cup Texts

\* What is sent is of one of the structs.
LEMMA ValuesSendable == Values \subseteq Sendable
<1>1. ASSUME NEW talk \in Talks PROVE talk.value \in Sendable
  <2>1. talk.caller \in DOMAIN RequestsOf /\ talk.value \in RequestsOf[talk.caller]
    BY MessageAssumption
  <2> QED
    BY <2>1 DEF RequestsOf, Sendable
<1>2. Answers \subseteq Sendable
  BY MessageAssumption DEF Sendable
<1> QED
  BY <1>1, <1>2 DEF Values

\* The type of a struct tells what it is.
LEMMA TypeOfValue ==
  ASSUME NEW v \in Sendable
  PROVE  /\ v \in Docs <=> v.type = DOC
         /\ v \in Counts <=> v.type = COUNT
         /\ v \in Indexes <=> v.type = INDEX
         /\ v \in Queries <=> v.type = QUERY
         /\ v \in Results <=> v.type = QUERY_RSL
         /\ v \in Ports <=> v.type = PORT
         /\ v \in Texts <=> v.type = TEXT
         /\ v.type \in 0..6
<1>1. /\ v \in Docs => v.type = 0
      /\ v \in Counts => v.type = 1
      /\ v \in Indexes => v.type = 2
      /\ v \in Queries => v.type = 3
      /\ v \in Results => v.type = 4
      /\ v \in Ports => v.type = 5
      /\ v \in Texts => v.type = 6
  BY DEF Docs, Counts, Indexes, Queries, Results, Ports, Texts,
         DOC, COUNT, INDEX, QUERY, QUERY_RSL, PORT, TEXT
<1>2. \/ v \in Docs \/ v \in Queries \/ v \in Indexes \/ v \in Ports
      \/ v \in Counts \/ v \in Results \/ v \in Texts
  BY DEF Sendable
<1> QED
  BY <1>1, <1>2 DEF DOC, COUNT, INDEX, QUERY, QUERY_RSL, PORT, TEXT

\* Two cells, one behind the other.
LEMMA TwoCells ==
  ASSUME NEW a \in Nat, NEW b \in Nat PROVE <<a, b>> = <<a>> \o <<b>>
<1> DEFINE p == <<a>>
           q == <<b>>
           both == <<a, b>>
<1>1. /\ p \in Seq(Nat) /\ Len(p) = 1 /\ p[1] = a
      /\ q \in Seq(Nat) /\ Len(q) = 1 /\ q[1] = b
      /\ both \in Seq(Nat) /\ Len(both) = 2 /\ both[1] = a /\ both[2] = b
  OBVIOUS
<1> HIDE DEF p, q, both
<1> DEFINE r == p \o q
<1>2. /\ r \in Seq(Nat) /\ Len(r) = Len(p) + Len(q)
      /\ \A j \in 1..Len(p) : r[j] = p[j]
      /\ \A j \in 1..Len(q) : r[Len(p) + j] = q[j]
  BY <1>1, Concatenation
<1> HIDE DEF r
<1>3. Len(r) = 2 /\ r[1] = a /\ r[2] = b
  <2>1. 1 \in 1..Len(p) /\ 1 \in 1..Len(q) /\ Len(p) + 1 = 2
    BY <1>1
  <2> QED
    BY <1>1, <1>2, <2>1
<1>4. r = both
  <2>1. r = [j \in 1..2 |-> r[j]] /\ both = [j \in 1..2 |-> both[j]]
    BY <1>1, <1>2, <1>3
  <2>2. \A j \in 1..2 : r[j] = both[j]
    BY <1>1, <1>3
  <2> QED
    BY <2>1, <2>2
<1> QED
  BY <1>4 DEF r, both, p, q

\* The cells of a message behind its flag.
LEMMA ContentIs ==
  ASSUME NEW v \in Sendable
  PROVE  /\ v \in Texts => /\ Content(v) = v.text /\ v.text \in Seq(Nat)
                           /\ Contains(v.text, Nul)
         /\ v \in Ports => /\ Content(v) = <<v.port>> \o <<Nul>>
                           /\ v.port \in Nat
         /\ v \in Docs => Content(v) = <<DOC>> \o DumpDoc(v)
         /\ v \in Counts => Content(v) = <<COUNT>> \o DumpCount(v)
         /\ v \in Indexes => Content(v) = <<INDEX>> \o DumpIndex(v)
         /\ v \in Queries => Content(v) = <<QUERY>> \o DumpQuery(v)
         /\ v \in Results => Content(v) = <<QUERY_RSL>> \o DumpQueryRsl(v)
<1> USE DEF DOC, COUNT, INDEX, QUERY, QUERY_RSL, PORT, TEXT
<1>1. v \in Texts => /\ Content(v) = v.text /\ v.text \in Seq(Nat)
                     /\ Contains(v.text, Nul)
  BY DEF Content, Texts
<1>2. v \in Ports => Content(v) = <<v.port>> \o <<Nul>> /\ v.port \in Nat
  <2>1. ASSUME v \in Ports PROVE Content(v) = <<v.port, Nul>> /\ v.port \in Nat
    BY <2>1 DEF Content, Ports
  <2> QED
    BY <2>1, TwoCells DEF Nul
<1>3. v.type \notin {PORT, TEXT} => Content(v) = <<v.type>> \o Dump(v)
  BY DEF Content
<1>4. /\ v.type = DOC => Dump(v) = DumpDoc(v)
      /\ v.type = COUNT => Dump(v) = DumpCount(v)
      /\ v.type = INDEX => Dump(v) = DumpIndex(v)
      /\ v.type = QUERY => Dump(v) = DumpQuery(v)
      /\ v.type = QUERY_RSL => Dump(v) = DumpQueryRsl(v)
  BY DEF Dump
<1> DEFINE type == v.type
           content == Content(v)
           dump == Dump(v)
<1>5. /\ v \in Docs => type = 0
      /\ v \in Counts => type = 1
      /\ v \in Indexes => type = 2
      /\ v \in Queries => type = 3
      /\ v \in Results => type = 4
  BY TypeOfValue
<1>6. type \notin {5, 6} => content = <<type>> \o dump
  BY <1>3
<1>7. /\ type = 0 => dump = DumpDoc(v)
      /\ type = 1 => dump = DumpCount(v)
      /\ type = 2 => dump = DumpIndex(v)
      /\ type = 3 => dump = DumpQuery(v)
      /\ type = 4 => dump = DumpQueryRsl(v)
  BY <1>4
<1> HIDE DEF type, content, dump
<1>8. /\ v \in Docs => content = <<DOC>> \o DumpDoc(v)
      /\ v \in Counts => content = <<COUNT>> \o DumpCount(v)
      /\ v \in Indexes => content = <<INDEX>> \o DumpIndex(v)
      /\ v \in Queries => content = <<QUERY>> \o DumpQuery(v)
      /\ v \in Results => content = <<QUERY_RSL>> \o DumpQueryRsl(v)
  <2>1. v \in Docs => content = <<DOC>> \o DumpDoc(v)
    BY <1>5, <1>6, <1>7
  <2>2. v \in Counts => content = <<COUNT>> \o DumpCount(v)
    BY <1>5, <1>6, <1>7
  <2>3. v \in Indexes => content = <<INDEX>> \o DumpIndex(v)
    BY <1>5, <1>6, <1>7
  <2>4. v \in Queries => content = <<QUERY>> \o DumpQuery(v)
    BY <1>5, <1>6, <1>7
  <2>5. v \in Results => content = <<QUERY_RSL>> \o DumpQueryRsl(v)
    BY <1>5, <1>6, <1>7
  <2> QED
    BY <2>1, <2>2, <2>3, <2>4, <2>5
<1> QED
  BY <1>1, <1>2, <1>8 DEF content

\* What goes over the wire of a value, with the flag f.
Wire(f, v) == IF v \in Texts THEN Content(v) ELSE <<f>> \o Content(v)

\* What the loader of each type does, by its name.
LEMMA LoadAsIs ==
  ASSUME NEW mes
  PROVE  /\ LoadAs(DOC, mes) = LoadDoc(mes)
         /\ LoadAs(COUNT, mes) = LoadCount(mes)
         /\ LoadAs(INDEX, mes) = LoadIndex(mes)
         /\ LoadAs(QUERY, mes) = LoadQuery(mes)
         /\ LoadAs(QUERY_RSL, mes) = LoadQueryRsl(mes)
         /\ LoadAs(PORT, mes) = LoadPort(mes)
         /\ LoadAs(TEXT, mes) = LoadText(mes)
BY DEF LoadAs, DOC, COUNT, INDEX, QUERY, QUERY_RSL, PORT, TEXT

\* A loader makes a struct of its own type.
LEMMA LoadersGive ==
  ASSUME NEW mes
  PROVE  /\ LoadDoc(mes).value.type = DOC
         /\ LoadCount(mes).value.type = COUNT
         /\ LoadIndex(mes).value.type = INDEX
         /\ LoadQuery(mes).value.type = QUERY
         /\ LoadQueryRsl(mes).value.type = QUERY_RSL
         /\ LoadPort(mes).value.type = PORT
         /\ LoadText(mes).value.type = TEXT
<1>1. LoadDoc(mes).value.type = DOC
  BY DEF LoadDoc, Giving
<1>2. LoadCount(mes).value.type = COUNT
  BY DEF LoadCount, Giving
<1>3. LoadIndex(mes).value.type = INDEX
  BY DEF LoadIndex, Giving
<1>4. LoadQuery(mes).value.type = QUERY
  BY DEF LoadQuery, Giving
<1>5. LoadQueryRsl(mes).value.type = QUERY_RSL
  BY DEF LoadQueryRsl, Giving
<1>6. LoadPort(mes).value.type = PORT
  BY DEF LoadPort, Giving
<1>7. LoadText(mes).value.type = TEXT
  BY DEF LoadText, Giving
<1> QED
  BY <1>1, <1>2, <1>3, <1>4, <1>5, <1>6, <1>7
\* A load that is told the type of v stays within what was received, and has v
\* if all of it was.
Received(mes, full, k, v) ==
  LET r == LoadAs(v.type, mes) IN
  /\ r.at \in Nat \ {0} /\ r.value.type = v.type
  /\ ~Overrun(mes, r)
  /\ k = Len(full) => r.ok /\ r.value = AsLoaded(v) /\ ~NoEnd(r.value)

\* So it is with every value but a query without terms.
LEMMA LoadReceived ==
  ASSUME NEW v \in Sendable, NEW f \in Nat, NEW mes, NEW k,
         Truncated(mes, Wire(f, v), k), ~(v.type = QUERY /\ v.list = <<>>)
  PROVE  Received(mes, Wire(f, v), k, v)
<1> DEFINE full == Wire(f, v)
<1>1. mes \in Seq(Nat) /\ full \in Seq(Nat) /\ Len(mes) = Len(full) /\ k \in Nat
      /\ k <= Len(full) /\ Len(full) \in Nat /\ Truncated(mes, full, k)
  BY DEF Truncated
<1>2. ASSUME v \in Docs PROVE Received(mes, full, k, v)
  <2> DEFINE x == LoadDoc(mes)
             dump == DumpDoc(v)
  <2>1. dump \in Seq(Nat) /\ DOC \in Nat
    BY <1>2, DumpsType DEF DOC
  <2>2. full = Headed(f, DOC, dump) /\ v.type = DOC
    <3>1. v.type = DOC /\ Content(v) = <<DOC>> \o dump /\ v \notin Texts
      <4>1. v.type = DOC
        BY <1>2, TypeOfValue
      <4>2. Content(v) = <<DOC>> \o dump
        BY <1>2, ContentIs
      <4>3. v \notin Texts
        BY <4>1, TypeOfValue DEF DOC, TEXT
      <4> QED
        BY <4>1, <4>2, <4>3
    <3> QED
      BY <3>1 DEF Wire, Headed
  <2> HIDE DEF dump, full
  <2>3. Has(full, 3, dump) /\ Len(full) = 2 + Len(dump) /\ Len(dump) \in Nat
    <3>1. Framed(full, f, DOC, dump)
      BY <2>1, <2>2, Header
    <3> QED
      BY <3>1 DEF Framed
  <2>4. /\ On(x.at, k, 3 + Len(dump))
        /\ k = Len(full) => x.ok /\ x.value = WithEnd(v)
    BY <1>1, <1>2, <2>3, LoadDocOn DEF dump
  <2>5. x = LoadAs(v.type, mes) /\ x.at \in Nat \ {0} /\ x.value.type = v.type
    <3>1. x = LoadAs(v.type, mes)
      BY <2>2, LoadAsIs
    <3>2. x.at \in Nat \ {0}
      BY <1>1, LoadersType
    <3>3. x.value.type = v.type
      BY <2>2, LoadersGive
    <3> QED
      BY <3>1, <3>2, <3>3
  <2> HIDE DEF x
  <2>6. ~Overrun(mes, x)
    BY <1>1, <2>3, <2>4, <2>5 DEF On, Overrun
  <2>7. k = Len(full) => AsLoaded(v) = x.value /\ ~NoEnd(x.value)
    <3>1. AsLoaded(v) = WithEnd(v)
      BY <2>2 DEF AsLoaded, WithEnd
    <3>2. Contains(WithEnd(v).data, Nul)
      <4>1. v.data \in Seq(Nat)
        BY <1>2 DEF Docs
      <4>2. WithEnd(v).data = Append(v.data, Nul)
        BY <1>2 DEF Docs, WithEnd
      <4>3. /\ Len(v.data) + 1 \in 1..Len(Append(v.data, Nul))
            /\ Append(v.data, Nul)[Len(v.data) + 1] = Nul
        BY <4>1
      <4> QED
        BY <4>2, <4>3 DEF Contains
    <3> QED
      BY <2>4, <3>1, <3>2 DEF NoEnd
  <2> QED
    BY <2>4, <2>5, <2>6, <2>7 DEF Received
<1>3. ASSUME v \in Counts PROVE Received(mes, full, k, v)
  <2> DEFINE x == LoadCount(mes)
             dump == DumpCount(v)
  <2>1. dump \in Seq(Nat) /\ COUNT \in Nat
    BY <1>3, DumpsType DEF COUNT
  <2>2. full = Headed(f, COUNT, dump) /\ v.type = COUNT
    <3>1. v.type = COUNT /\ Content(v) = <<COUNT>> \o dump /\ v \notin Texts
      <4>1. v.type = COUNT
        BY <1>3, TypeOfValue
      <4>2. Content(v) = <<COUNT>> \o dump
        BY <1>3, ContentIs
      <4>3. v \notin Texts
        BY <4>1, TypeOfValue DEF COUNT, TEXT
      <4> QED
        BY <4>1, <4>2, <4>3
    <3> QED
      BY <3>1 DEF Wire, Headed
  <2> HIDE DEF dump, full
  <2>3. Has(full, 3, dump) /\ Len(full) = 2 + Len(dump) /\ Len(dump) \in Nat
    <3>1. Framed(full, f, COUNT, dump)
      BY <2>1, <2>2, Header
    <3> QED
      BY <3>1 DEF Framed
  <2>4. /\ On(x.at, k, 3 + Len(dump))
        /\ k = Len(full) => x.ok /\ x.value = v
    BY <1>1, <1>3, <2>3, LoadCountOn DEF dump
  <2>5. x = LoadAs(v.type, mes) /\ x.at \in Nat \ {0} /\ x.value.type = v.type
    <3>1. x = LoadAs(v.type, mes)
      BY <2>2, LoadAsIs
    <3>2. x.at \in Nat \ {0}
      BY <1>1, LoadersType
    <3>3. x.value.type = v.type
      BY <2>2, LoadersGive
    <3> QED
      BY <3>1, <3>2, <3>3
  <2> HIDE DEF x
  <2>6. ~Overrun(mes, x)
    BY <1>1, <2>3, <2>4, <2>5 DEF On, Overrun
  <2>7. k = Len(full) => AsLoaded(v) = x.value /\ ~NoEnd(x.value)
    BY <2>2, <2>4 DEF AsLoaded, NoEnd, DOC, COUNT, TEXT
  <2> QED
    BY <2>4, <2>5, <2>6, <2>7 DEF Received
<1>4. ASSUME v \in Indexes PROVE Received(mes, full, k, v)
  <2> DEFINE x == LoadIndex(mes)
             dump == DumpIndex(v)
  <2>1. dump \in Seq(Nat) /\ INDEX \in Nat
    BY <1>4, DumpsType DEF INDEX
  <2>2. full = Headed(f, INDEX, dump) /\ v.type = INDEX
    <3>1. v.type = INDEX /\ Content(v) = <<INDEX>> \o dump /\ v \notin Texts
      <4>1. v.type = INDEX
        BY <1>4, TypeOfValue
      <4>2. Content(v) = <<INDEX>> \o dump
        BY <1>4, ContentIs
      <4>3. v \notin Texts
        BY <4>1, TypeOfValue DEF INDEX, TEXT
      <4> QED
        BY <4>1, <4>2, <4>3
    <3> QED
      BY <3>1 DEF Wire, Headed
  <2> HIDE DEF dump, full
  <2>3. Has(full, 3, dump) /\ Len(full) = 2 + Len(dump) /\ Len(dump) \in Nat
    <3>1. Framed(full, f, INDEX, dump)
      BY <2>1, <2>2, Header
    <3> QED
      BY <3>1 DEF Framed
  <2>4. /\ On(x.at, k, 3 + Len(dump))
        /\ k = Len(full) => x.ok /\ x.value = v
    BY <1>1, <1>4, <2>3, LoadIndexOn DEF dump
  <2>5. x = LoadAs(v.type, mes) /\ x.at \in Nat \ {0} /\ x.value.type = v.type
    <3>1. x = LoadAs(v.type, mes)
      BY <2>2, LoadAsIs
    <3>2. x.at \in Nat \ {0}
      BY <1>1, LoadersType
    <3>3. x.value.type = v.type
      BY <2>2, LoadersGive
    <3> QED
      BY <3>1, <3>2, <3>3
  <2> HIDE DEF x
  <2>6. ~Overrun(mes, x)
    BY <1>1, <2>3, <2>4, <2>5 DEF On, Overrun
  <2>7. k = Len(full) => AsLoaded(v) = x.value /\ ~NoEnd(x.value)
    BY <2>2, <2>4 DEF AsLoaded, NoEnd, DOC, INDEX, TEXT
  <2> QED
    BY <2>4, <2>5, <2>6, <2>7 DEF Received
<1>5. ASSUME v \in Queries PROVE Received(mes, full, k, v)
  <2> DEFINE x == LoadQuery(mes)
             dump == DumpQuery(v)
  <2>1. dump \in Seq(Nat) /\ QUERY \in Nat
    BY <1>5, DumpsType DEF QUERY
  <2>2. full = Headed(f, QUERY, dump) /\ v.type = QUERY
    <3>1. v.type = QUERY /\ Content(v) = <<QUERY>> \o dump /\ v \notin Texts
      <4>1. v.type = QUERY
        BY <1>5, TypeOfValue
      <4>2. Content(v) = <<QUERY>> \o dump
        BY <1>5, ContentIs
      <4>3. v \notin Texts
        BY <4>1, TypeOfValue DEF QUERY, TEXT
      <4> QED
        BY <4>1, <4>2, <4>3
    <3> QED
      BY <3>1 DEF Wire, Headed
  <2> HIDE DEF dump, full
  <2>3. Has(full, 3, dump) /\ Len(full) = 2 + Len(dump) /\ Len(dump) \in Nat
    <3>1. Framed(full, f, QUERY, dump)
      BY <2>1, <2>2, Header
    <3> QED
      BY <3>1 DEF Framed
  <2>4. /\ On(x.at, k, 3 + Len(dump))
        /\ k = Len(full) => x.ok /\ x.value = v
    BY <1>1, <1>5, <2>2, <2>3, LoadQueryOn DEF dump
  <2>5. x = LoadAs(v.type, mes) /\ x.at \in Nat \ {0} /\ x.value.type = v.type
    <3>1. x = LoadAs(v.type, mes)
      BY <2>2, LoadAsIs
    <3>2. x.at \in Nat \ {0}
      BY <1>1, LoadersType
    <3>3. x.value.type = v.type
      BY <2>2, LoadersGive
    <3> QED
      BY <3>1, <3>2, <3>3
  <2> HIDE DEF x
  <2>6. ~Overrun(mes, x)
    BY <1>1, <2>3, <2>4, <2>5 DEF On, Overrun
  <2>7. k = Len(full) => AsLoaded(v) = x.value /\ ~NoEnd(x.value)
    BY <2>2, <2>4 DEF AsLoaded, NoEnd, DOC, QUERY, TEXT
  <2> QED
    BY <2>4, <2>5, <2>6, <2>7 DEF Received
<1>6. ASSUME v \in Results PROVE Received(mes, full, k, v)
  <2> DEFINE x == LoadQueryRsl(mes)
             dump == DumpQueryRsl(v)
  <2>1. dump \in Seq(Nat) /\ QUERY_RSL \in Nat
    BY <1>6, DumpsType DEF QUERY_RSL
  <2>2. full = Headed(f, QUERY_RSL, dump) /\ v.type = QUERY_RSL
    <3>1. v.type = QUERY_RSL /\ Content(v) = <<QUERY_RSL>> \o dump /\ v \notin Texts
      <4>1. v.type = QUERY_RSL
        BY <1>6, TypeOfValue
      <4>2. Content(v) = <<QUERY_RSL>> \o dump
        BY <1>6, ContentIs
      <4>3. v \notin Texts
        BY <4>1, TypeOfValue DEF QUERY_RSL, TEXT
      <4> QED
        BY <4>1, <4>2, <4>3
    <3> QED
      BY <3>1 DEF Wire, Headed
  <2> HIDE DEF dump, full
  <2>3. Has(full, 3, dump) /\ Len(full) = 2 + Len(dump) /\ Len(dump) \in Nat
    <3>1. Framed(full, f, QUERY_RSL, dump)
      BY <2>1, <2>2, Header
    <3> QED
      BY <3>1 DEF Framed
  <2>4. /\ On(x.at, k, 3 + Len(dump))
        /\ k = Len(full) => x.ok /\ x.value = v
    BY <1>1, <1>6, <2>3, LoadQueryRslOn DEF dump
  <2>5. x = LoadAs(v.type, mes) /\ x.at \in Nat \ {0} /\ x.value.type = v.type
    <3>1. x = LoadAs(v.type, mes)
      BY <2>2, LoadAsIs
    <3>2. x.at \in Nat \ {0}
      BY <1>1, LoadersType
    <3>3. x.value.type = v.type
      BY <2>2, LoadersGive
    <3> QED
      BY <3>1, <3>2, <3>3
  <2> HIDE DEF x
  <2>6. ~Overrun(mes, x)
    BY <1>1, <2>3, <2>4, <2>5 DEF On, Overrun
  <2>7. k = Len(full) => AsLoaded(v) = x.value /\ ~NoEnd(x.value)
    BY <2>2, <2>4 DEF AsLoaded, NoEnd, DOC, QUERY_RSL, TEXT
  <2> QED
    BY <2>4, <2>5, <2>6, <2>7 DEF Received
<1>7. ASSUME v \in Ports PROVE Received(mes, full, k, v)
  <2> DEFINE x == LoadPort(mes)
  <2>1. v.port \in Nat /\ full = Headed(f, v.port, <<Nul>>) /\ v.type = PORT
    <3>1. v.type = PORT /\ Content(v) = <<v.port>> \o <<Nul>> /\ v.port \in Nat
          /\ v \notin Texts
      BY <1>7, ContentIs, TypeOfValue DEF PORT, TEXT
    <3> QED
      BY <3>1 DEF Wire, Headed
  <2> DEFINE end == <<Nul>>
  <2>2. end \in Seq(Nat) /\ Len(end) = 1
    BY DEF Nul
  <2> HIDE DEF full, end
  <2>3. Len(full) = 2 + Len(end) /\ full[2] = v.port
    <3>1. full = Headed(f, v.port, end)
      BY <2>1 DEF end
    <3>2. Framed(full, f, v.port, end)
      BY <2>1, <2>2, <3>1, Header
    <3> QED
      BY <3>2 DEF Framed
  <2>4. /\ x = LoadAs(v.type, mes) /\ x.value.type = v.type /\ x.at = 3 /\ x.ok
        /\ x.value = [type |-> PORT, port |-> mes[2]]
    <3>1. x = LoadAs(v.type, mes) /\ x.value.type = v.type
      BY <2>1, LoadAsIs, LoadersGive
    <3>2. x.at = 3 /\ x.ok /\ x.value = [type |-> PORT, port |-> mes[2]]
      BY FreshIs, GivingIs DEF LoadPort
    <3> QED
      BY <3>1, <3>2
  <2>5. k = Len(full) => mes[2] = v.port
    <3>1. 2 \in 1..Len(full)
      BY <2>2, <2>3
    <3> QED
      BY <1>1, <2>3, <3>1 DEF Truncated
  <2>6. v = [type |-> PORT, port |-> v.port]
    BY <1>7 DEF Ports
  <2>7. AsLoaded(v) = v
    BY <2>1 DEF AsLoaded, PORT, DOC, TEXT
  <2>8. x.value = [type |-> PORT, port |-> mes[2]] => ~NoEnd(x.value)
    BY DEF NoEnd, PORT, DOC
  <2> HIDE DEF x
  <2>9. ~Overrun(mes, x)
    BY <1>1, <2>2, <2>3, <2>4 DEF Overrun
  <2> QED
    BY <2>4, <2>5, <2>6, <2>7, <2>8, <2>9 DEF Received
<1>8. ASSUME v \in Texts PROVE Received(mes, full, k, v)
  <2> DEFINE x == LoadText(mes)
             at == SelectInSeq(mes, LAMBDA c : c = Nul)
             y == [Fresh EXCEPT !.at = IF at = 0 THEN Len(mes) + 2 ELSE at + 1]
             text == [type |-> TEXT, text |-> SubSeq(mes, 1, at)]
  <2>1. full = v.text /\ Contains(v.text, Nul) /\ v.type = TEXT
        /\ v = [type |-> TEXT, text |-> v.text]
    <3>1. Content(v) = v.text /\ Contains(v.text, Nul) /\ v.type = TEXT
      BY <1>8, ContentIs, TypeOfValue
    <3>2. v = [type |-> TEXT, text |-> v.text]
      BY <1>8 DEF Texts
    <3> QED
      BY <1>8, <3>1, <3>2 DEF Wire
  <2> HIDE DEF full
  <2>2. Contains(mes, Nul)
    <3>1. PICK i \in 1..Len(full) : full[i] = Nul
      BY <2>1 DEF Contains
    <3>2. mes[i] = IF i <= k THEN full[i] ELSE Nul
      BY <1>1 DEF Truncated
    <3> QED
      BY <1>1, <3>1, <3>2 DEF Contains
  <2>3. at \in 1..Len(mes)
    BY <1>1, <2>2, FirstNul
  <2>4. x = Giving(y, text)
    BY DEF LoadText
  <2>5. y.at = at + 1 /\ y.ok
    <3> HIDE DEF at
    <3> QED
      BY <2>3 DEF Fresh
  <2>6. x = LoadAs(v.type, mes) /\ x.value.type = v.type
    BY <2>1, LoadAsIs, LoadersGive
  <2>7. x.at = at + 1 /\ x.ok /\ x.value = text
    <3> HIDE DEF x, y, text
    <3> QED
      BY <2>4, <2>5, GivingIs
  <2>8. k = Len(full) => mes = full
    <3>1. mes = [j \in 1..Len(full) |-> mes[j]] /\ full = [j \in 1..Len(full) |-> full[j]]
      BY <1>1
    <3>2. k = Len(full) => \A j \in 1..Len(full) : mes[j] = full[j]
      BY <1>1 DEF Truncated
    <3> QED
      BY <3>1, <3>2
  <2>9. k = Len(full) => AsLoaded(v) = text
    <3>1. ASSUME k = Len(full) PROVE AsLoaded(v) = text
      <4>1. mes = v.text
        BY <2>1, <2>8, <3>1
      <4>2. AsLoaded(v) = [v EXCEPT !.text = SubSeq(v.text, 1, at)]
        BY <2>1, <4>1 DEF AsLoaded, TEXT, DOC
      <4> HIDE DEF at
      <4> QED
        BY <2>1, <4>1, <4>2
    <3> QED
      BY <3>1
  <2>10. ~NoEnd(text)
    BY DEF NoEnd, TEXT, DOC
  <2> HIDE DEF x, text, at
  <2>11. x.at \in Nat \ {0} /\ ~Overrun(mes, x)
    BY <1>1, <2>3, <2>7 DEF Overrun
  <2> QED
    BY <2>6, <2>7, <2>9, <2>10, <2>11 DEF Received
<1> HIDE DEF full
<1> QED
  BY <1>2, <1>3, <1>4, <1>5, <1>6, <1>7, <1>8 DEF Sendable, full

\* A message is a sequence of cells and not empty; but for a text, it has its
\* flag and, but for a port, its type.
LEMMA WireType ==
  ASSUME NEW v \in Sendable, NEW f \in Nat
  PROVE  /\ Wire(f, v) \in Seq(Nat) /\ Len(Wire(f, v)) \in Nat \ {0}
         /\ v \notin Texts => /\ Len(Wire(f, v)) >= 2 /\ Wire(f, v)[1] = f
                              /\ v \notin Ports => Wire(f, v)[2] = v.type
<1>1. ASSUME NEW t \in Nat, NEW dump \in Seq(Nat), Wire(f, v) = Headed(f, t, dump)
      PROVE  /\ Wire(f, v) \in Seq(Nat) /\ Len(Wire(f, v)) \in Nat \ {0}
             /\ Len(Wire(f, v)) >= 2 /\ Wire(f, v)[1] = f /\ Wire(f, v)[2] = t
  <2>1. Framed(Wire(f, v), f, t, dump)
    BY <1>1, Header
  <2> QED
    BY <2>1 DEF Framed
<1>2. CASE v \in Texts
  <2>1. Wire(f, v) = v.text /\ v.text \in Seq(Nat) /\ Contains(v.text, Nul)
    BY <1>2, ContentIs DEF Wire
  <2>2. PICK i \in 1..Len(v.text) : v.text[i] = Nul
    BY <2>1 DEF Contains
  <2> QED
    BY <1>2, <2>1, <2>2
<1>3. CASE v \in Ports
  <2>1. v \notin Texts /\ Content(v) = <<v.port>> \o <<Nul>> /\ v.port \in Nat
    BY <1>3, ContentIs, TypeOfValue DEF PORT, TEXT
  <2>2. Wire(f, v) = Headed(f, v.port, <<Nul>>)
    BY <2>1 DEF Wire, Headed
  <2>3. <<Nul>> \in Seq(Nat)
    BY DEF Nul
  <2> QED
    BY <1>1, <1>3, <2>1, <2>2, <2>3
<1>4. CASE v \in Docs \cup Counts \cup Indexes \cup Queries \cup Results
  <2>1. v.type \in 0..4 /\ v \notin Texts
    BY <1>4, TypeOfValue DEF DOC, COUNT, INDEX, QUERY, QUERY_RSL, TEXT
  <2>2. \E dump \in Seq(Nat) : Content(v) = <<v.type>> \o dump
    <3>1. CASE v \in Docs
      <4>1. Content(v) = <<v.type>> \o DumpDoc(v) /\ DumpDoc(v) \in Seq(Nat)
        BY <3>1, ContentIs, TypeOfValue, DumpsType
      <4> QED
        BY <4>1
    <3>2. CASE v \in Counts
      <4>1. Content(v) = <<v.type>> \o DumpCount(v) /\ DumpCount(v) \in Seq(Nat)
        BY <3>2, ContentIs, TypeOfValue, DumpsType
      <4> QED
        BY <4>1
    <3>3. CASE v \in Indexes
      <4>1. Content(v) = <<v.type>> \o DumpIndex(v) /\ DumpIndex(v) \in Seq(Nat)
        BY <3>3, ContentIs, TypeOfValue, DumpsType
      <4> QED
        BY <4>1
    <3>4. CASE v \in Queries
      <4>1. Content(v) = <<v.type>> \o DumpQuery(v) /\ DumpQuery(v) \in Seq(Nat)
        BY <3>4, ContentIs, TypeOfValue, DumpsType
      <4> QED
        BY <4>1
    <3>5. CASE v \in Results
      <4>1. Content(v) = <<v.type>> \o DumpQueryRsl(v) /\ DumpQueryRsl(v) \in Seq(Nat)
        BY <3>5, ContentIs, TypeOfValue, DumpsType
      <4> QED
        BY <4>1
    <3> QED
      BY <1>4, <3>1, <3>2, <3>3, <3>4, <3>5
  <2>3. PICK dump \in Seq(Nat) : Content(v) = <<v.type>> \o dump
    BY <2>2
  <2>4. Wire(f, v) = Headed(f, v.type, dump) /\ v.type \in Nat
    BY <2>1, <2>3 DEF Wire, Headed
  <2> QED
    BY <1>1, <2>1, <2>4
<1> QED
  BY <1>2, <1>3, <1>4 DEF Sendable

\* Whatever it is told to load, a load comes to some cell.
LEMMA LoadIsAt ==
  ASSUME NEW mes \in Seq(Nat), NEW t \in 0..6
  PROVE  LoadAs(t, mes).at \in Nat \ {0}
<1>1. LoadPort(mes).at \in Nat \ {0}
  BY DEF LoadPort, Giving, Fresh
<1>2. LoadText(mes).at \in Nat \ {0}
  <2> DEFINE at == SelectInSeq(mes, LAMBDA c : c = Nul)
             y == [Fresh EXCEPT !.at = IF at = 0 THEN Len(mes) + 2 ELSE at + 1]
             text == [type |-> TEXT, text |-> SubSeq(mes, 1, at)]
  <2>1. LoadText(mes) = Giving(y, text)
    BY DEF LoadText
  <2>2. at \in 0..Len(mes)
    <3> HIDE DEF y, text
    <3> QED
      BY FirstNul
  <2>4. Len(mes) \in Nat
    OBVIOUS
  <2> HIDE DEF at, text
  <2>3. y.at \in Nat \ {0}
    BY <2>2, <2>4 DEF Fresh
  <2> HIDE DEF y
  <2> QED
    BY <2>1, <2>3, GivingIs
<1>3. \/ t = DOC \/ t = COUNT \/ t = INDEX \/ t = QUERY \/ t = QUERY_RSL
      \/ t = PORT \/ t = TEXT
  BY DEF DOC, COUNT, INDEX, QUERY, QUERY_RSL, PORT, TEXT
<1>4. CASE t = DOC
  BY <1>4, LoadAsIs, LoadersType
<1>5. CASE t = COUNT
  BY <1>5, LoadAsIs, LoadersType
<1>6. CASE t = INDEX
  BY <1>6, LoadAsIs, LoadersType
<1>7. CASE t = QUERY
  BY <1>7, LoadAsIs, LoadersType
<1>8. CASE t = QUERY_RSL
  BY <1>8, LoadAsIs, LoadersType
<1> QED
  BY <1>1, <1>2, <1>3, <1>4, <1>5, <1>6, <1>7, <1>8, LoadAsIs

\* The load of a query without terms reads beyond its message.
LEMMA EmptyQueryLoad ==
  ASSUME NEW v \in Queries, v.list = <<>>, NEW f \in Nat, NEW mes, NEW k,
         Truncated(mes, Wire(f, v), k)
  PROVE  Overrun(mes, LoadAs(QUERY, mes))
<1> DEFINE full == Wire(f, v)
           start == [Fresh EXCEPT !.at = Fresh.at + 1]
           c == Cell(mes, Fresh.at)
           len == IF c = 0 THEN 1 ELSE c
           r == WordLoop(mes, start, len)
           got == [type |-> QUERY, list |-> r.list]
<1>1. mes \in Seq(Nat) /\ full \in Seq(Nat) /\ Len(mes) = Len(full)
      /\ k \in 0..Len(full) /\ Len(full) \in Nat
      /\ \A j \in 1..Len(full) : mes[j] = IF j <= k THEN full[j] ELSE Nul
  <2>1. Truncated(mes, full, k)
    OBVIOUS
  <2> HIDE DEF full, r, got, len, start, c
  <2> QED
    BY <2>1 DEF Truncated
<1>2. DumpQuery(v) = <<Nul>>
  <2>1. Each(Str, <<>>) = <<>>
    <3>1. [j \in DOMAIN <<>> |-> Str(<<>>[j])] = <<>>
      OBVIOUS
    <3>2. FlattenSeq(<<>>) = <<>>
      <4> DEFINE seqs == <<>>
      <4>1. seqs \in [1..0 -> Seq({})]
        OBVIOUS
      <4>2. FlattenSeq(seqs) \in Seq({})
        <5> HIDE DEF seqs
        <5> QED
          BY <4>1, FlattenPlaces
      <4>3. \A s \in Seq({}) : s = <<>>
        <5>1. SUFFICES ASSUME NEW s \in Seq({}), Len(s) # 0 PROVE FALSE
          OBVIOUS
        <5>2. 1 \in 1..Len(s)
          BY <5>1
        <5> QED
          BY <5>2
      <4> QED
        BY <4>2, <4>3
    <3> QED
      BY <3>1, <3>2 DEF Each
  <2>2. Len(v.list) = Nul
    BY DEF Nul
  <2> DEFINE number == <<Nul>>
  <2>3. DumpQuery(v) = number \o <<>>
    BY <2>1, <2>2 DEF DumpQuery
  <2>4. number \in Seq(Nat)
    BY DEF Nul
  <2> HIDE DEF number
  <2>5. number \o <<>> = number
    BY <2>4
  <2> QED
    BY <2>3, <2>5 DEF number
<1>3. Len(full) = 3 /\ full[3] = Nul
  <2> DEFINE dump == <<Nul>>
  <2>1. dump \in Seq(Nat) /\ Len(dump) = 1 /\ dump[1] = Nul /\ QUERY \in Nat
    BY DEF Nul, QUERY
  <2>2. full = Headed(f, QUERY, dump)
    <3>1. v \in Sendable
      BY DEF Sendable
    <3>2. Content(v) = <<QUERY>> \o dump
      BY <1>2, <3>1, ContentIs
    <3>3. v \notin Texts
      BY DEF Queries, Texts, QUERY, TEXT
    <3> QED
      BY <3>2, <3>3 DEF Wire, Headed
  <2> HIDE DEF dump, full, r, got, len, start, c
  <2>3. Has(full, 3, dump) /\ Len(full) = 2 + Len(dump)
    <3>1. Framed(full, f, QUERY, dump)
      BY <2>1, <2>2, Header
    <3> QED
      BY <3>1 DEF Framed
  <2>4. full[3 + (1 - 1)] = dump[1]
    BY <2>1, <2>3 DEF Has
  <2> QED
    BY <2>1, <2>3, <2>4
<1> HIDE DEF full
<1>4. Len(mes) = 3 /\ mes[3] = Nul
  BY <1>1, <1>3
<1>5. c = Nul /\ len = 1
  <2>1. c = Cell(mes, 3)
    BY FreshIs
  <2>2. 3 \in DOMAIN mes
    BY <1>1, <1>4
  <2> HIDE DEF c
  <2> QED
    BY <1>4, <2>1, <2>2 DEF Cell, Nul
<1>6. start \in WordLoads /\ start.at = 4
  BY StartedIs DEF WordLoads
<1> HIDE DEF start, c, len
<1>7. r = LoadTermOfQuery(mes, start)
  <2>1. PICK after :
          /\ after \in [0..len -> WordLoads]
          /\ after[0] = start /\ \A j \in 1..len : after[j] = LoadTermOfQuery(mes, after[j - 1])
          /\ r = after[len]
    <3>2. r = WordLoop(mes, start, len)
      OBVIOUS
    <3> HIDE DEF r
    <3>1. PICK after : WordsLoaded(after, mes, start, len)
      <4>1. mes \in Seq(Nat) /\ start \in WordLoads /\ len \in Nat
        BY <1>1, <1>5, <1>6
      <4> HIDE DEF got
      <4> QED
        BY <4>1, WordRounds
    <3> QED
      BY <3>1, <3>2 DEF WordsLoaded
  <2>2. after[1] = LoadTermOfQuery(mes, after[1 - 1])
    <3>1. 1 \in 1..len
      BY <1>5
    <3> QED
      BY <2>1, <3>1
  <2> QED
    BY <1>5, <2>1, <2>2
<1>8. r.at = 5
  <2> DEFINE s == LoadString(mes, start)
             x == LoadTermOfQuery(mes, start)
  <2>1. x.at = s.at
    BY <1>1, <1>6, LoadWordIs
  <2>2. s.at = (start.at + 1) + Cell(mes, start.at)
    BY <1>6, LoadStringIs DEF WordLoads
  <2>3. Cell(mes, 4) = Nul
    <3>1. 4 \notin DOMAIN mes
      BY <1>1, <1>4
    <3> QED
      BY <3>1 DEF Cell
  <2> HIDE DEF s, x, r
  <2>4. r = x
    BY <1>7 DEF x
  <2> QED
    BY <1>6, <2>1, <2>2, <2>3, <2>4 DEF Nul
<1>9. LoadAs(QUERY, mes) = Giving(r, got)
  BY LoadAsIs DEF LoadQuery, WordLoop, start, len, c
<1> HIDE DEF r, got
<1>10. LoadAs(QUERY, mes).at = 5
  BY <1>8, <1>9, GivingIs
<1> QED
  BY <1>4, <1>10 DEF Overrun
-----------------------------------------------------------------------------
(* What is on the way, and what has come. *)

Types ==
  /\ caller \in {talk.caller : talk \in Talks}
  /\ said \in [End -> Values \cup {None}]
  /\ pc \in [End -> PC]
  /\ left \in [End -> Nat]
  /\ wire \in [End -> Seq(Nat)]
  /\ data \in [End -> Seq(Nat)]
  /\ want \in [End -> Nat]

\* Labels at which an end has not begun to send, and those at which it has not
\* begun to receive.
Unsent(e) ==
  pc[e] \in IF e = "asker" THEN {"connect", "length"}
                           ELSE {"wait", "fill", "load", "length"}
Unread(e) ==
  pc[e] \in IF e = "asker" THEN {"connect", "length", "body", "wait"} ELSE {"wait"}

\* An end that is to send has something to say.
Sayable(e) == pc[e] \in {"connect", "length", "body"} => said[e] \in Values

\* Before an end sends, nothing is on its way or has come.  What is sent to a
\* dead process is gone.
Quiet(e) ==
  /\ Unsent(e) => wire[e] = <<>> /\ data[Peer(e)] = <<>>
  /\ Dead(Peer(e)) => wire[e] = <<>>
  /\ Unread(Peer(e)) => data[Peer(e)] = <<>>

\* Before the other end has its length, a message is on the way from there on.
Announced(e) ==
  data[Peer(e)] = <<>> /\ pc[Peer(e)] # "short" =>
    /\ wire[e] # <<>> =>
         /\ wire[e][1] = Len(Cells(e))
         /\ Len(Cells(e)) \in Nat \ {0}
         /\ Len(wire[e]) <= Len(Cells(e)) + 1
         /\ \A j \in 2..Len(wire[e]) : wire[e][j] = Cells(e)[j - 1]
         /\ pc[e] = "body" => left[e] = Len(Cells(e)) + 1 - Len(wire[e])
    /\ wire[e] = <<>> => pc[e] # "body" \/ Dead(Peer(e))

\* After it has, what is on the way follows what has come.
Following(e) ==
  LET p == Peer(e) IN
  data[p] # <<>> =>
    /\ Len(data[p]) = Len(Cells(e))
    /\ want[p] <= Len(data[p])
    /\ \A j \in DOMAIN data[p] :
         data[p][j] = IF j <= Len(data[p]) - want[p] THEN Cells(e)[j] ELSE Nul
    /\ Len(wire[e]) <= want[p]
    /\ \A j \in DOMAIN wire[e] :
         wire[e][j] = Cells(e)[Len(data[p]) - want[p] + j]
    /\ pc[e] = "body" /\ ~Dead(p) => left[e] = want[p] - Len(wire[e])

\* send_data stays within its message.
Within(e) == pc[e] = "body" => left[e] <= Len(Cells(e))

Stream(e) == Quiet(e) /\ Announced(e) /\ Following(e) /\ Within(e)

\* An end that waits for cells has the memory for them.
Receiving(e) == pc[e] = "fill" => data[e] # <<>>

IInv == Types /\ \A e \in End : Sayable(e) /\ Receiving(e) /\ Stream(e)

-----------------------------------------------------------------------------
\* The two ends of a conversation are each other's peers.
LEMMA Peers ==
  \A e \in End : Peer(e) \in End /\ Peer(e) # e /\ Peer(Peer(e)) = e
                 /\ \A f \in End : f = e \/ f = Peer(e)
BY DEF End, Peer

\* The flag of an end's message.
FlagBy(e) == IF e = "asker" THEN Flag ELSE Nul

\* The flag of a request is a cell.
LEMMA FlagType ==
  ASSUME caller \in {talk.caller : talk \in Talks}
  PROVE  /\ caller \in DOMAIN RequestsOf
         /\ \A e \in End : FlagBy(e) \in Nat
<1>1. caller \in DOMAIN RequestsOf
  BY MessageAssumption
<1>2. Flag \in Nat
  BY <1>1 DEF RequestsOf, Flag, FlagOf, INDEX, CMD_INDEX, CMD_RETRIEVE, CMD_UPDATE,
              CMD_REGISTER
<1> QED
  BY <1>1, <1>2 DEF FlagBy, Nul

\* What an end sends is its flag, if it has one, and what it has to say.
LEMMA CellsAreWire ==
  ASSUME NEW e, said[e] \in Sendable
  PROVE  Cells(e) = Wire(FlagBy(e), said[e])
<1>1. said[e] \in Texts <=> said[e].type = TEXT
  BY TypeOfValue
<1> QED
  BY <1>1 DEF Cells, Wire, FlagBy

\* A message is a sequence of cells, and is not empty.
LEMMA CellsType ==
  ASSUME NEW e \in End, Types, said[e] \in Values
  PROVE  Cells(e) \in Seq(Nat) /\ Len(Cells(e)) > 0
<1>1. said[e] \in Sendable /\ FlagBy(e) \in Nat
  BY ValuesSendable, FlagType DEF Types
<1>2. Wire(FlagBy(e), said[e]) \in Seq(Nat) /\ Len(Wire(FlagBy(e), said[e])) \in Nat \ {0}
  BY <1>1, WireType
<1> QED
  BY <1>1, <1>2, CellsAreWire

\* A message stays what it is as long as its sender does not choose another.
LEMMA CellsSame ==
  ASSUME NEW e, caller' = caller, said'[e] = said[e]
  PROVE  Cells(e)' = Cells(e)
BY DEF Cells, Flag

\* The invariant holds before anything is sent.
LEMMA InitInv == Init => IInv
<1> SUFFICES ASSUME Init PROVE IInv
  OBVIOUS
<1>1. Types
  BY DEF Init, Types, Values, End, PC, Ended
<1>2. ASSUME NEW e \in End PROVE Sayable(e) /\ Receiving(e) /\ Stream(e)
  BY DEF Init, Sayable, Receiving, Stream, Quiet, Announced, Following, Within, Unsent,
         Unread, Values, End, Peer, Dead
<1> QED
  BY <1>1, <1>2 DEF IInv
-----------------------------------------------------------------------------
(* Pieces of messages. *)

\* What a piece of a message is.
LEMMA Slice ==
  ASSUME NEW mes \in Seq(Nat), NEW k \in Nat, NEW n \in Nat, k + n <= Len(mes)
  PROVE  /\ SubSeq(mes, k + 1, k + n) \in Seq(Nat)
         /\ Len(SubSeq(mes, k + 1, k + n)) = n
         /\ \A j \in 1..n : SubSeq(mes, k + 1, k + n)[j] = mes[k + j]
<1>1. Len(SubSeq(mes, k + 1, k + n)) = n
  OBVIOUS
<1>2. \A j \in 1..n : SubSeq(mes, k + 1, k + n)[j] = mes[k + j]
  OBVIOUS
<1>3. SubSeq(mes, k + 1, k + n) \in Seq(Nat)
  OBVIOUS
<1> QED
  BY <1>1, <1>2, <1>3

\* s is w and the n cells of mes where all but rest of it have been sent.
Appended(s, w, mes, rest, n) ==
  /\ s \in Seq(Nat) /\ Len(s) = Len(w) + n /\ s # <<>>
  /\ \A j \in 1..Len(w) : s[j] = w[j]
  /\ \A j \in 1..n : s[Len(w) + j] = mes[Len(mes) - rest + j]

\* What a call of send appends to what is on the way.
LEMMA AppendPart ==
  ASSUME NEW w \in Seq(Nat), NEW mes \in Seq(Nat),
         NEW rest \in Nat, rest <= Len(mes), NEW n \in 1..rest
  PROVE  Appended(w \o Part(mes, rest, n), w, mes, rest, n)
<1> DEFINE k == Len(mes) - rest
           part == SubSeq(mes, k + 1, k + n)
<1>1. k \in Nat /\ n \in Nat /\ n > 0 /\ k + n <= Len(mes)
  OBVIOUS
<1> HIDE DEF k
<1>2. /\ part \in Seq(Nat) /\ Len(part) = n
      /\ \A j \in 1..n : part[j] = mes[k + j]
  BY <1>1, Slice
<1>3. Part(mes, rest, n) = part
  BY DEF Part, k
<1> HIDE DEF part
<1>4. /\ w \o part \in Seq(Nat) /\ Len(w \o part) = Len(w) + n
      /\ \A j \in 1..Len(w) : (w \o part)[j] = w[j]
      /\ \A j \in 1..n : (w \o part)[Len(w) + j] = part[j]
  BY <1>2, Concatenation
<1>5. w \o part # <<>>
  BY <1>1, <1>4
<1> DEFINE s == w \o part
<1> HIDE DEF s
<1>6. Appended(s, w, mes, rest, n)
  BY <1>2, <1>4, <1>5 DEF Appended, k, s
<1> QED
  BY <1>3, <1>6 DEF s

\* w is the length of mes and its cells, all but the last rest of them.
AllBut(w, mes, rest) ==
  /\ w # <<>> /\ w[1] = Len(mes)
  /\ \A j \in 2..Len(w) : w[j] = mes[j - 1]
  /\ Len(w) + rest = Len(mes) + 1

\* The length and the cells up to those still to be sent, and some more.
LEMMA AppendAnnounced ==
  ASSUME NEW w \in Seq(Nat), NEW mes \in Seq(Nat),
         NEW rest \in Nat, rest <= Len(mes), NEW n \in 1..rest,
         AllBut(w, mes, rest), NEW s, Appended(s, w, mes, rest, n)
  PROVE  AllBut(s, mes, rest - n)
<1> DEFINE k == Len(mes)
           l == Len(w)
           after == Len(s)
<1>1. /\ after = l + n /\ s # <<>>
      /\ \A j \in 1..l : s[j] = w[j]
      /\ \A j \in 1..n : s[l + j] = mes[(k - rest) + j]
  BY DEF Appended
<1>2. l \in Nat \ {0} /\ k \in Nat /\ l + rest = k + 1 /\ n \in Nat /\ n > 0 /\ n <= rest
  BY DEF AllBut
<1>3. /\ w[1] = k /\ \A j \in 2..l : w[j] = mes[j - 1]
  BY DEF AllBut
<1> HIDE DEF k, l, after
<1>4. ASSUME NEW j \in 2..after PROVE s[j] = mes[j - 1]
  <2>1. CASE j <= l
    <3>1. j \in 1..l /\ j \in 2..l
      BY <1>2, <2>1
    <3> QED
      BY <1>1, <1>3, <3>1
  <2>2. CASE j > l
    <3> DEFINE i == j - l
    <3>1. i \in 1..n /\ l + i = j /\ (k - rest) + i = j - 1
      BY <1>1, <1>2, <2>2
    <3> HIDE DEF i
    <3>2. s[l + i] = mes[(k - rest) + i]
      BY <1>1, <3>1
    <3> QED
      BY <3>1, <3>2
  <2>3. j <= l \/ j > l
    BY <1>2
  <2> QED
    BY <2>1, <2>2, <2>3
<1>5. s[1] = k
  <2>1. 1 \in 1..l
    BY <1>2
  <2> QED
    BY <1>1, <1>3, <2>1
<1>6. after + (rest - n) = k + 1
  BY <1>1, <1>2
<1> QED
  BY <1>1, <1>4, <1>5, <1>6 DEF AllBut, k, after

\* w is the cells of mes behind the first got, all but the last rest of them.
Between(w, mes, got, rest) ==
  /\ \A j \in 1..Len(w) : w[j] = mes[got + j]
  /\ Len(w) + rest = Len(mes) - got

\* The cells between those that have come and those still to be sent, and more.
LEMMA AppendFollowing ==
  ASSUME NEW w \in Seq(Nat), NEW mes \in Seq(Nat),
         NEW rest \in Nat, rest <= Len(mes), NEW n \in 1..rest,
         NEW got \in Nat, Between(w, mes, got, rest),
         NEW s, Appended(s, w, mes, rest, n)
  PROVE  Between(s, mes, got, rest - n)
<1> DEFINE k == Len(mes)
           l == Len(w)
           after == Len(s)
<1>1. /\ after = l + n
      /\ \A j \in 1..l : s[j] = w[j]
      /\ \A j \in 1..n : s[l + j] = mes[(k - rest) + j]
  BY DEF Appended
<1>2. l \in Nat /\ k \in Nat /\ l + rest = k - got /\ n \in Nat /\ n > 0 /\ n <= rest
  BY DEF Between
<1>3. \A j \in 1..l : w[j] = mes[got + j]
  BY DEF Between
<1> HIDE DEF k, l, after
<1>4. ASSUME NEW j \in 1..after PROVE s[j] = mes[got + j]
  <2>1. CASE j <= l
    <3>1. j \in 1..l
      BY <1>2, <2>1
    <3> QED
      BY <1>1, <1>3, <3>1
  <2>2. CASE j > l
    <3> DEFINE i == j - l
    <3>1. i \in 1..n /\ l + i = j /\ (k - rest) + i = got + j
      BY <1>1, <1>2, <2>2
    <3> HIDE DEF i
    <3>2. s[l + i] = mes[(k - rest) + i]
      BY <1>1, <3>1
    <3> QED
      BY <3>1, <3>2
  <2>3. j <= l \/ j > l
    BY <1>2
  <2> QED
    BY <2>1, <2>2, <2>3
<1>5. after + (rest - n) = k - got
  BY <1>1, <1>2
<1> QED
  BY <1>4, <1>5 DEF Between, k, after

-----------------------------------------------------------------------------
(* The steps. *)

\* What the receiver's labels can do to a stream.
LEMMA ReceiverMoves ==
  ASSUME NEW e \in End, Stream(e), Types, Cells(e)' = Cells(e), Types',
         UNCHANGED <<wire[e], left[e], pc[e], data[Peer(e)], want[Peer(e)]>>,
         pc[Peer(e)] \notin {"dead", "short"},
         Dead(Peer(e))' => wire[e] = <<>>,
         Unread(Peer(e))' => Unread(Peer(e))
  PROVE  Stream(e)'
<1>1. PICK p \in End : p = Peer(e)
  BY Peers
<1>2. Unsent(e)' <=> Unsent(e)
  BY DEF Unsent
<1>3. Quiet(e)'
  BY <1>1, <1>2 DEF Stream, Quiet
<1>4. Announced(e)'
  BY <1>1 DEF Stream, Announced, Dead
<1>5. Following(e)'
  BY <1>1 DEF Stream, Following, Dead
<1> QED
  BY <1>3, <1>4, <1>5 DEF Stream, Within

\* What the sender's labels can, if it does not send.
LEMMA SenderMoves ==
  ASSUME NEW e \in End, Stream(e), Types,
         Cells(e)' = Cells(e) \/ Unsent(e),
         UNCHANGED <<wire[e], left[e], pc[Peer(e)], data[Peer(e)], want[Peer(e)]>>,
         pc'[e] # "body",
         Unsent(e)' => Unsent(e)
  PROVE  Stream(e)'
<1>1. PICK p \in End : p = Peer(e)
  BY Peers
<1>2. Unread(p)' <=> Unread(p)
  BY <1>1 DEF Unread
<1>3. Quiet(e)'
  BY <1>1, <1>2 DEF Stream, Quiet, Dead
<1>4. Unsent(e) => wire[e] = <<>> /\ data[p] = <<>>
  BY <1>1 DEF Stream, Quiet
<1>5. Announced(e)'
  BY <1>1, <1>4 DEF Stream, Announced, Dead
<1>6. Following(e)'
  BY <1>1, <1>4 DEF Stream, Following, Dead
<1> QED
  BY <1>3, <1>5, <1>6 DEF Stream, Within

\* A step that only takes an end to another label, and perhaps gives it
\* something to say that has not begun to send.
LEMMA LabelStep ==
  ASSUME IInv, NEW a \in End, NEW label \in PC \ {"connect", "body", "fill"},
         UNCHANGED <<caller, left, wire, data, want>>,
         pc' = [pc EXCEPT ![a] = label],
         said' \in [End -> Values \cup {None}],
         said' = said \/ (Unsent(a) /\ \E v : said' = [said EXCEPT ![a] = v]),
         ~Dead(a), pc[a] # "short",
         label = "dead" => wire[Peer(a)] = <<>>,
         Unsent(a)' => Unsent(a), Unread(a)' => Unread(a),
         label = "length" => said'[a] \in Values
  PROVE  IInv'
<1>1. Types'
  BY DEF IInv, Types
<1>2. PICK p \in End : p = Peer(a) /\ a = Peer(p) /\ p # a /\ End = {a, p}
  BY Peers DEF End
<1>3. pc'[a] = label /\ pc'[p] = pc[p] /\ said'[p] = said[p]
  BY <1>2 DEF IInv, Types
<1>4. /\ Sayable(a)' /\ Sayable(p)'
      /\ Receiving(a)' /\ Receiving(p)'
  BY <1>2, <1>3 DEF IInv, Sayable, Receiving
<1>5. Stream(p)'
  <2>1. Cells(p)' = Cells(p)
    BY <1>3, CellsSame
  <2>2. pc[a] \notin {"dead", "short"} /\ (Dead(a)' => wire[p] = <<>>)
    BY <1>2, <1>3 DEF Dead
  <2> QED
    BY <1>1, <1>2, <1>3, <2>1, <2>2, ReceiverMoves DEF IInv
<1>6. Stream(a)'
  <2>1. Cells(a)' = Cells(a) \/ Unsent(a)
    BY CellsSame
  <2> QED
    BY <1>2, <1>3, <2>1, SenderMoves DEF IInv
<1> QED
  BY <1>1, <1>2, <1>4, <1>5, <1>6 DEF IInv

\* Connect keeps the invariant.
LEMMA ConnectInv == ASSUME IInv, Connect PROVE IInv'
<1> DEFINE label == IF Dead("answerer") THEN "undefined" ELSE "length"
<1>1. label \in PC \ {"connect", "body", "fill"} /\ "asker" \in End
  BY DEF PC, Ended, End
<1>2. pc["asker"] = "connect" /\ said["asker"] \in Values
  BY <1>1 DEF Connect, IInv, Sayable
<1> QED
  BY <1>1, <1>2, LabelStep
  DEF Connect, Goto, IInv, Types, Dead, Unsent, Unread

\* RecvNoLength keeps the invariant.
LEMMA RecvNoLengthInv ==
  ASSUME IInv, NEW a \in End, RecvNoLength(a) PROVE IInv'
<1>1. PICK label \in {"undefined", "dead", "done"} :
        pc' = [pc EXCEPT ![a] = label]
  BY Zenon DEF RecvNoLength, Goto
<1>2. pc'[a] = label
  BY <1>1 DEF IInv, Types
<1>3. label \in PC \ {"connect", "body", "fill"}
  BY DEF PC, Ended
<1> QED
  BY <1>1, <1>2, <1>3, LabelStep
  DEF RecvNoLength, IInv, Types, Dead, Unsent, Unread

\* RecvEnd keeps the invariant.
LEMMA RecvEndInv ==
  ASSUME IInv, NEW a \in End, RecvEnd(a) PROVE IInv'
<1>1. "load" \in PC \ {"connect", "body", "fill"}
  BY DEF PC
<1>2. pc[a] = "fill" /\ pc' = [pc EXCEPT ![a] = "load"] /\ pc'[a] = "load"
  BY DEF RecvEnd, Goto, IInv, Types
<1> QED
  BY <1>1, <1>2, LabelStep
  DEF RecvEnd, IInv, Types, Dead, Unsent, Unread

\* LoadAnswer keeps the invariant.
LEMMA LoadAnswerInv == ASSUME IInv, LoadAnswer PROVE IInv'
<1>1. "asker" \in End /\ pc["asker"] = "load"
  BY DEF End, LoadAnswer
<1>2. PICK label \in {"done", "undefined"} : pc' = [pc EXCEPT !["asker"] = label]
  BY Zenon DEF LoadAnswer, Goto
<1>3. label \in PC \ {"connect", "body", "fill"} /\ pc'["asker"] = label
  BY <1>1, <1>2 DEF PC, Ended, IInv, Types
<1>4. UNCHANGED <<caller, said, left, wire, data, want>>
  BY DEF LoadAnswer
<1> QED
  BY <1>1, <1>2, <1>3, <1>4, LabelStep DEF IInv, Types, Dead, Unsent, Unread

\* Handle keeps the invariant.
LEMMA HandleInv == ASSUME IInv, Handle PROVE IInv'
<1>1. "answerer" \in End /\ pc["answerer"] = "load"
  BY DEF End, Handle
<1>2. PICK label \in {"done", "undefined", "length"} :
        /\ pc' = [pc EXCEPT !["answerer"] = label]
        /\ \/ label # "length" /\ said' = said
           \/ label = "length"
              /\ \E v \in Answers : said' = [said EXCEPT !["answerer"] = v]
  BY Zenon DEF Handle, Goto, FreeResp, Replies
<1>3. label \in PC \ {"connect", "body", "fill"} /\ pc'["answerer"] = label
  BY <1>1, <1>2 DEF PC, Ended, IInv, Types
<1>4. UNCHANGED <<caller, left, wire, data, want>>
  BY DEF Handle
<1>5. /\ said' \in [End -> Values \cup {None}]
      /\ label = "length" => said'["answerer"] \in Values
      /\ said' = said \/ \E v : said' = [said EXCEPT !["answerer"] = v]
  BY <1>1, <1>2 DEF IInv, Types, Values
<1>6. Unsent("answerer") /\ ~Unread("answerer")' /\ ~Dead("answerer")
  BY <1>1, <1>3 DEF Unsent, Unread, Dead
<1>7. said' = said \/ (Unsent("answerer")
                       /\ \E v : said' = [said EXCEPT !["answerer"] = v])
  BY <1>5, <1>6
<1> QED
  BY <1>1, <1>2, <1>3, <1>4, <1>5, <1>6, <1>7, LabelStep

\* SendLength and SendSome have the types and the other direction in common.
LEMMA SendFrame ==
  ASSUME IInv, NEW a \in End, pc[a] \in {"length", "body"},
         NEW label \in PC, label \in {"body", "wait", "done"},
         pc' = [pc EXCEPT ![a] = label],
         NEW n \in Nat, left' = [left EXCEPT ![a] = n],
         NEW s \in Seq(Nat), wire' = [wire EXCEPT ![a] = s],
         UNCHANGED <<caller, said, data, want>>,
         label = "wait" => a = "asker",
         pc[a] = "length" => label = "body",
         Stream(a)'
  PROVE  IInv'
<1>1. Types'
  BY DEF IInv, Types
<1>2. PICK p \in End : p = Peer(a) /\ a = Peer(p) /\ p # a /\ End = {a, p}
  BY Peers DEF End
<1>3. /\ pc'[a] = label /\ pc'[p] = pc[p]
      /\ wire'[p] = wire[p] /\ left'[p] = left[p]
  BY <1>2 DEF IInv, Types
<1>4. Cells(p)' = Cells(p)
  BY CellsSame
<1>5. /\ Sayable(a)' /\ Sayable(p)'
      /\ Receiving(a)' /\ Receiving(p)'
  BY <1>2, <1>3 DEF IInv, Sayable, Receiving
<1>6. ~Dead(a) /\ pc[a] # "short" /\ ~Dead(a)' /\ (Unread(a)' => Unread(a))
  BY <1>3 DEF Dead, Unread
<1>7. Stream(p)'
  BY <1>1, <1>2, <1>3, <1>4, <1>6, ReceiverMoves DEF IInv, Dead
<1> QED
  BY <1>1, <1>2, <1>5, <1>7 DEF IInv

\* The length goes out in one piece, or its end sees the error.
LEMMA SendLengthInv ==
  ASSUME IInv, NEW a \in End, SendLength(a) PROVE IInv'
<1>1. PICK p \in End : p = Peer(a) /\ a = Peer(p) /\ p # a /\ End = {a, p}
  BY Peers DEF End
<1> DEFINE n == Len(Cells(a))
           s == OnTheWay(a, <<n>>)
<1>2. pc[a] = "length" /\ Stream(a) /\ Types /\ said[a] \in Values
  BY DEF SendLength, IInv, Sayable
<1>3. Cells(a) \in Seq(Nat) /\ n \in Nat \ {0}
  BY <1>2, CellsType
<1>4. wire[a] = <<>> /\ data[p] = <<>>
  BY <1>1, <1>2 DEF Stream, Quiet, Unsent
<1>5. s = IF Dead(p) THEN <<>> ELSE <<n>>
  BY <1>1, <1>4 DEF OnTheWay
<1>6. /\ pc' = [pc EXCEPT ![a] = "body"]
      /\ left' = [left EXCEPT ![a] = n]
      /\ wire' = [wire EXCEPT ![a] = s]
      /\ UNCHANGED <<caller, said, data, want>>
  BY DEF SendLength, Goto
<1>7. /\ pc'[a] = "body" /\ pc'[p] = pc[p] /\ left'[a] = n
      /\ wire'[a] = s /\ data'[p] = <<>>
  BY <1>1, <1>2, <1>4, <1>6 DEF Types
<1>8. Cells(a)' = Cells(a)
  BY <1>6, CellsSame
<1>9. Stream(a)'
  <2>1. ~Unsent(a)'
    BY <1>7 DEF Unsent
  <2>2. Quiet(a)'
    BY <1>1, <1>5, <1>7, <2>1 DEF Quiet, Dead
  <2>3. Announced(a)'
    <3>1. CASE Dead(p)
      BY <1>1, <1>5, <1>7, <3>1 DEF Announced, Dead
    <3>2. CASE ~Dead(p)
      <4>1. s = <<n>> /\ Len(s) = 1 /\ s[1] = n /\ s # <<>>
        BY <1>5, <3>2
      <4> HIDE DEF s, n
      <4> QED
        BY <1>1, <1>3, <1>7, <1>8, <4>1 DEF Announced, n
    <3> QED
      BY <3>1, <3>2
  <2>4. Following(a)' /\ Within(a)'
    BY <1>1, <1>3, <1>7, <1>8 DEF Following, Within
  <2> QED
    BY <2>2, <2>3, <2>4 DEF Stream
<1>10. s \in Seq(Nat) /\ "body" \in PC
  <2>1. <<n>> \in Seq(Nat) /\ <<>> \in Seq(Nat)
    BY <1>3
  <2> HIDE DEF s, n
  <2> QED
    BY <1>5, <2>1 DEF PC
<1> QED
  BY <1>2, <1>3, <1>6, <1>9, <1>10, SendFrame

\* A send takes any number of cells off what is left.
LEMMA SendSomeInv ==
  ASSUME IInv, NEW a \in End, SendSome(a) PROVE IInv'
<1>1. PICK p \in End : p = Peer(a) /\ a = Peer(p) /\ p # a /\ End = {a, p}
  BY Peers DEF End
<1>2. pc[a] = "body" /\ Stream(a) /\ Types /\ said[a] \in Values
  BY DEF SendSome, IInv, Sayable
<1>3. Cells(a) \in Seq(Nat) /\ Len(Cells(a)) \in Nat \ {0}
  BY <1>2, CellsType
<1>4. PICK n \in 1..left[a] :
        /\ wire' = [wire EXCEPT ![a] = OnTheWay(a, Part(Cells(a), left[a], n))]
        /\ left' = [left EXCEPT ![a] = left[a] - n]
        /\ pc' = [pc EXCEPT ![a] = IF n = left[a] THEN AfterSend(a) ELSE "body"]
  BY <1>2 DEF SendSome, Goto, Types
<1> DEFINE part == Part(Cells(a), left[a], n)
           s == OnTheWay(a, part)
           label == IF n = left[a] THEN AfterSend(a) ELSE "body"
<1>5. left[a] \in Nat /\ left[a] <= Len(Cells(a)) /\ n \in Nat /\ n <= left[a]
  BY <1>2 DEF Stream, Within, Types
<1>6. wire[a] \in Seq(Nat) /\ s \in Seq(Nat)
  <2>1. wire[a] \in Seq(Nat)
    BY <1>2 DEF Types
  <2>2. Appended(wire[a] \o part, wire[a], Cells(a), left[a], n)
    BY <1>3, <1>5, <2>1, AppendPart
  <2>3. wire[a] \o part \in Seq(Nat)
    BY <2>2 DEF Appended
  <2> QED
    BY <2>1, <2>3 DEF OnTheWay
<1>7. UNCHANGED <<caller, said, data, want>>
  BY DEF SendSome
<1>8. /\ pc'[a] = label /\ pc'[p] = pc[p] /\ left'[a] = left[a] - n
      /\ wire'[a] = s /\ data'[p] = data[p] /\ want'[p] = want[p]
  BY <1>1, <1>2, <1>4, <1>7 DEF Types
<1>9. Cells(a)' = Cells(a)
  BY <1>7, CellsSame
<1>10. label \in {"body", "wait", "done"} /\ (label = "wait" => a = "asker")
  BY DEF AfterSend
<1>11. ~Unsent(a)'
  BY <1>1, <1>8, <1>10 DEF Unsent
<1>12. Stream(a)'
  <2>1. Unread(p)' <=> Unread(p)
    BY <1>8 DEF Unread
  <2>2. CASE Dead(p)
    <3>1. s = wire[a] /\ wire[a] = <<>>
      BY <1>1, <1>2, <2>2 DEF OnTheWay, Stream, Quiet
    <3>2. Quiet(a)'
      BY <1>1, <1>2, <1>8, <1>11, <2>1, <3>1 DEF Stream, Quiet, Dead
    <3>3. Announced(a)'
      BY <1>1, <1>8, <2>2, <3>1 DEF Announced, Dead
    <3>4. Following(a)'
      BY <1>1, <1>2, <1>8, <1>9, <2>2, <3>1 DEF Stream, Following, Dead
    <3> QED
      BY <1>3, <1>5, <1>8, <1>9, <3>2, <3>3, <3>4 DEF Stream, Within
  <2>3. CASE ~Dead(p)
    <3>1. Appended(s, wire[a], Cells(a), left[a], n) /\ s # <<>>
      <4>1. s = wire[a] \o part
        BY <1>1, <2>3 DEF OnTheWay
      <4>2. Appended(s, wire[a], Cells(a), left[a], n)
        BY <1>3, <1>5, <1>6, <4>1, AppendPart
      <4>3. s # <<>>
        BY <4>2 DEF Appended
      <4> QED
        BY <4>2, <4>3
    <3>2. Quiet(a)'
      BY <1>1, <1>2, <1>8, <1>11, <2>1, <2>3 DEF Stream, Quiet, Dead
    <3>3. Announced(a)'
      <4>1. SUFFICES ASSUME data[p] = <<>>, pc[p] # "short"
                     PROVE  Announced(a)'
        BY <1>1, <1>8 DEF Announced
      <4>2. /\ wire[a] # <<>> /\ wire[a][1] = Len(Cells(a))
            /\ \A j \in 2..Len(wire[a]) : wire[a][j] = Cells(a)[j - 1]
            /\ left[a] = Len(Cells(a)) + 1 - Len(wire[a])
        BY <1>1, <1>2, <2>3, <4>1 DEF Stream, Announced
      <4>3. /\ s[1] = Len(Cells(a)) /\ Len(s) <= Len(Cells(a)) + 1
            /\ \A j \in 2..Len(s) : s[j] = Cells(a)[j - 1]
            /\ left[a] - n = Len(Cells(a)) + 1 - Len(s)
        <5> HIDE DEF s
        <5> QED
          <6> DEFINE w == wire[a]
                     mes == Cells(a)
                     rest == left[a]
          <6>1. /\ w \in Seq(Nat) /\ mes \in Seq(Nat) /\ rest \in Nat
                /\ rest <= Len(mes) /\ n \in 1..rest
                /\ w # <<>> /\ w[1] = Len(mes)
                /\ \A j \in 2..Len(w) : w[j] = mes[j - 1]
            BY <1>3, <1>5, <1>6, <4>2
          <6>2. Len(w) + rest = Len(mes) + 1
            BY <1>3, <1>6, <4>2
          <6>3. Appended(s, w, mes, rest, n)
            BY <3>1
          <6> HIDE DEF w, mes, rest
          <6>4. AllBut(w, mes, rest)
            BY <6>1, <6>2 DEF AllBut
          <6>5. AllBut(s, mes, rest - n)
            BY <6>1, <6>3, <6>4, AppendAnnounced
          <6>6. /\ s[1] = Len(mes) /\ \A j \in 2..Len(s) : s[j] = mes[j - 1]
                /\ Len(s) + (rest - n) = Len(mes) + 1
            BY <6>5 DEF AllBut
          <6>7. Len(s) \in Nat /\ Len(mes) \in Nat /\ rest - n \in Nat
            BY <1>6, <6>1
          <6>8. Len(s) <= Len(mes) + 1 /\ rest - n = Len(mes) + 1 - Len(s)
            BY <6>6, <6>7
          <6> QED
            BY <6>6, <6>8 DEF mes, rest
      <4> HIDE DEF s, label
      <4> QED
        BY <1>1, <1>3, <1>8, <1>9, <3>1, <4>3 DEF Announced
    <3>4. Following(a)'
      <4>1. SUFFICES ASSUME data[p] # <<>>
                     PROVE  Following(a)'
        BY <1>1, <1>8 DEF Following
      <4> DEFINE got == Len(data[p]) - want[p]
      <4>2. /\ Len(data[p]) = Len(Cells(a)) /\ want[p] <= Len(data[p])
            /\ \A j \in DOMAIN data[p] :
                 data[p][j] = IF j <= got THEN Cells(a)[j] ELSE Nul
            /\ \A j \in DOMAIN wire[a] : wire[a][j] = Cells(a)[got + j]
            /\ left[a] = want[p] - Len(wire[a])
        BY <1>1, <1>2, <2>3, <4>1 DEF Stream, Following
      <4>3. want[p] \in Nat /\ Len(data[p]) \in Nat /\ Len(wire[a]) \in Nat
            /\ DOMAIN wire[a] = 1..Len(wire[a]) /\ Len(s) \in Nat
            /\ DOMAIN s = 1..Len(s)
        BY <1>2, <1>6 DEF Types
      <4>4. /\ got \in Nat /\ Len(wire[a]) + left[a] = Len(Cells(a)) - got
        BY <4>2, <4>3
      <4>5. \A j \in 1..Len(wire[a]) : wire[a][j] = Cells(a)[got + j]
        BY <4>2, <4>3
      <4> HIDE DEF s, got
      <4>6. /\ \A j \in 1..Len(s) : s[j] = Cells(a)[got + j]
            /\ Len(s) + (left[a] - n) = Len(Cells(a)) - got
        <5> DEFINE w == wire[a]
                   mes == Cells(a)
                   rest == left[a]
        <5>1. /\ w \in Seq(Nat) /\ mes \in Seq(Nat) /\ rest \in Nat
              /\ rest <= Len(mes) /\ n \in 1..rest /\ got \in Nat
          BY <1>3, <1>5, <1>6, <4>4
        <5>2. Len(w) + rest = Len(mes) - got
          BY <4>4
        <5>3. \A j \in 1..Len(w) : w[j] = mes[got + j]
          BY <4>5
        <5>4. Appended(s, w, mes, rest, n)
          BY <3>1
        <5> HIDE DEF w, mes, rest
        <5>5. Between(w, mes, got, rest)
          BY <5>2, <5>3 DEF Between
        <5>6. Between(s, mes, got, rest - n)
          BY <5>1, <5>4, <5>5, AppendFollowing
        <5> QED
          BY <5>6 DEF Between, mes, rest
      <4>7. Len(s) <= want[p] /\ left[a] - n = want[p] - Len(s)
        <5>1. Len(Cells(a)) - got = want[p]
          BY <4>2, <4>3 DEF got
        <5>2. Len(s) + (left[a] - n) = want[p]
          BY <4>6, <5>1
        <5> QED
          BY <1>5, <4>3, <5>2
      <4> HIDE DEF label
      <4> QED
        BY <1>1, <1>8, <1>9, <4>2, <4>3, <4>6, <4>7 DEF Following, got
    <3> QED
      BY <1>3, <1>5, <1>8, <1>9, <3>2, <3>3, <3>4 DEF Stream, Within
  <2> QED
    BY <2>2, <2>3
<1>13. label \in PC /\ left[a] - n \in Nat
  BY <1>5, <1>10 DEF PC, Ended
<1> HIDE DEF s, label
<1> QED
  BY <1>2, <1>4, <1>6, <1>7, <1>10, <1>12, <1>13, SendFrame DEF s, label

\* RecvLength and RecvSome have the types and the other direction in common.
LEMMA ReceiveFrame ==
  ASSUME IInv, NEW a \in End, NEW p \in End, p = Peer(a),
         pc[a] \in {"wait", "fill"},
         NEW label \in {"fill", "load", "short"},
         pc' = [pc EXCEPT ![a] = label],
         NEW s \in Seq(Nat), wire' = [wire EXCEPT ![p] = s],
         NEW d \in Seq(Nat), data' = [data EXCEPT ![a] = d],
         NEW i \in Nat, want' = [want EXCEPT ![a] = i],
         UNCHANGED <<caller, said, left>>,
         label = "fill" => d # <<>>,
         Stream(p)'
  PROVE  IInv'
<1>1. Types'
  BY DEF IInv, Types, PC, Ended
<1>2. a = Peer(p) /\ p # a /\ End = {a, p}
  BY Peers DEF End
<1>3. /\ pc'[a] = label /\ pc'[p] = pc[p] /\ data'[a] = d
      /\ wire'[a] = wire[a] /\ data'[p] = data[p] /\ want'[p] = want[p]
  BY <1>2 DEF IInv, Types
<1>4. /\ Sayable(a)' /\ Sayable(p)'
      /\ Receiving(a)' /\ Receiving(p)'
  BY <1>2, <1>3 DEF IInv, Sayable, Receiving
<1>5. Cells(a)' = Cells(a)
  BY CellsSame
<1>6. Unsent(a)' => Unsent(a)
  <2>1. CASE a = "asker"
    BY <1>3, <2>1 DEF Unsent
  <2>2. CASE a # "asker"
    BY <2>2 DEF Unsent
  <2> QED
    BY <2>1, <2>2
<1>7. Stream(a)'
  BY <1>1, <1>2, <1>3, <1>5, <1>6, SenderMoves DEF IInv
<1> QED
  BY <1>1, <1>2, <1>4, <1>7 DEF IInv

\* The length comes in whole, and memory of that size is set to zero.
LEMMA RecvLengthInv ==
  ASSUME IInv, NEW a \in End, RecvLength(a) PROVE IInv'
<1>1. PICK p \in End : p = Peer(a) /\ a = Peer(p) /\ p # a /\ End = {a, p}
  BY Peers DEF End
<1> DEFINE w == wire[p]
           len == Head(w)
           zeros == [j \in 1..len |-> Nul]
<1>2. pc[a] = "wait" /\ Types /\ Stream(p) /\ w \in Seq(Nat) /\ w # <<>>
  BY <1>1 DEF RecvLength, IInv, Types
<1>3. ~Unsent(p) /\ data[a] = <<>>
  BY <1>1, <1>2 DEF Stream, Quiet, Unread
<1>4. /\ w[1] = Len(Cells(p)) /\ Len(Cells(p)) \in Nat \ {0}
      /\ Len(w) <= Len(Cells(p)) + 1
      /\ \A j \in 2..Len(w) : w[j] = Cells(p)[j - 1]
      /\ pc[p] = "body" => left[p] = Len(Cells(p)) + 1 - Len(w)
  BY <1>1, <1>2, <1>3 DEF Stream, Announced
<1>5. len = Len(Cells(p)) /\ len \in Nat \ {0}
  BY <1>2, <1>4
<1>6. Tail(w) \in Seq(Nat) /\ Len(Tail(w)) = Len(w) - 1
      /\ \A j \in 1..Len(Tail(w)) : Tail(w)[j] = w[j + 1]
  BY <1>2
<1>7. Cells(p)' = Cells(p)
  BY CellsSame DEF RecvLength
<1>8. /\ wire' = [wire EXCEPT ![p] = Tail(w)]
      /\ UNCHANGED <<caller, said, left>>
  BY <1>1 DEF RecvLength
<1>9. wire'[p] = Tail(w) /\ left'[p] = left[p]
  BY <1>1, <1>2, <1>8 DEF Types
<1>10. CASE /\ data' = [data EXCEPT ![a] = zeros]
            /\ want' = [want EXCEPT ![a] = len]
            /\ pc' = [pc EXCEPT ![a] = "fill"]
  <2>1. zeros \in Seq(Nat) /\ Len(zeros) = len /\ DOMAIN zeros = 1..len
        /\ zeros # <<>> /\ \A j \in 1..len : zeros[j] = Nul
    BY <1>5 DEF Nul
  <2> HIDE DEF zeros, w, len
  <2>2. /\ data'[a] = zeros /\ want'[a] = len
        /\ pc'[a] = "fill" /\ pc'[p] = pc[p]
    BY <1>1, <1>2, <1>10 DEF Types
  <2>3. Quiet(p)'
    BY <1>1, <1>3, <2>2 DEF Quiet, Unsent, Unread, Dead
  <2>4. Announced(p)'
    BY <1>1, <2>1, <2>2 DEF Announced
  <2>5. Following(p)'
    <3>1. /\ Len(Tail(w)) <= len
          /\ pc[p] = "body" => left[p] = len - Len(Tail(w))
      BY <1>2, <1>4, <1>5, <1>6
    <3>2. DOMAIN Tail(w) = 1..Len(Tail(w)) /\ Len(Tail(w)) \in Nat
      BY <1>6
    <3>3. ASSUME NEW j \in 1..Len(Tail(w))
          PROVE  Tail(w)[j] = Cells(p)[len - len + j]
      <4>1. j + 1 \in 2..Len(w) /\ (j + 1) - 1 = j /\ len - len + j = j
        BY <1>2, <1>5, <1>6
      <4>2. w[j + 1] = Cells(p)[(j + 1) - 1]
        BY <1>4, <4>1
      <4> QED
        BY <1>6, <4>1, <4>2
    <3>4. ASSUME NEW j \in 1..len
          PROVE  zeros[j] = IF j <= len - len THEN Cells(p)[j] ELSE Nul
      BY <1>5, <2>1
    <3>5. /\ Len(data'[a]) = Len(Cells(p)') /\ want'[a] <= Len(data'[a])
          /\ Len(wire'[p]) <= want'[a]
          /\ pc'[p] = "body" => left'[p] = want'[a] - Len(wire'[p])
      BY <1>5, <1>7, <1>9, <2>1, <2>2, <3>1
    <3>6. \A j \in DOMAIN data'[a] :
            data'[a][j] = IF j <= Len(data'[a]) - want'[a] THEN Cells(p)'[j]
                                                           ELSE Nul
      BY <1>7, <2>1, <2>2, <3>4
    <3>7. \A j \in DOMAIN wire'[p] :
            wire'[p][j] = Cells(p)'[Len(data'[a]) - want'[a] + j]
      BY <1>7, <1>9, <2>1, <2>2, <3>2, <3>3
    <3> QED
      BY <1>1, <3>5, <3>6, <3>7 DEF Following
  <2>6. Within(p)'
    BY <1>1, <1>2, <1>7, <1>9, <2>2 DEF Stream, Within
  <2> QED
    BY <1>1, <1>2, <1>5, <1>6, <1>8, <1>10, <2>1, <2>3, <2>4, <2>5, <2>6,
       ReceiveFrame
    DEF Stream
<1>11. CASE data' = data /\ want' = want /\ pc' = [pc EXCEPT ![a] = "short"]
  <2>1. /\ data'[a] = <<>> /\ pc'[a] = "short" /\ pc'[p] = pc[p]
    BY <1>1, <1>2, <1>3, <1>11 DEF Types
  <2>2. Quiet(p)'
    BY <1>1, <1>3, <2>1 DEF Quiet, Unsent, Unread, Dead
  <2>3. Announced(p)' /\ Following(p)'
    BY <1>1, <2>1 DEF Announced, Following
  <2>4. Within(p)'
    BY <1>1, <1>2, <1>7, <1>9, <2>1 DEF Stream, Within
  <2>5. /\ data' = [data EXCEPT ![a] = data[a]] /\ data[a] \in Seq(Nat)
        /\ want' = [want EXCEPT ![a] = want[a]] /\ want[a] \in Nat
    BY <1>2, <1>11 DEF Types
  <2> HIDE DEF w
  <2> QED
    BY <1>1, <1>2, <1>6, <1>8, <1>11, <2>2, <2>3, <2>4, <2>5, ReceiveFrame
    DEF Stream
<1> QED
  BY <1>1, <1>10, <1>11 DEF RecvLength, Goto

\* s is w without its first n cells.
Dropped(s, w, n) ==
  /\ s \in Seq(Nat) /\ Len(s) + n = Len(w)
  /\ \A j \in 1..Len(s) : s[j] = w[n + j]

\* What is left on the wire.
LEMMA DropCells ==
  ASSUME NEW w \in Seq(Nat), NEW n \in Nat, n <= Len(w)
  PROVE  Dropped(SubSeq(w, n + 1, Len(w)), w, n)
<1> DEFINE k == Len(w) - n
<1>1. k \in Nat /\ n + k = Len(w) /\ n + k <= Len(w)
  OBVIOUS
<1> HIDE DEF k
<1>2. /\ SubSeq(w, n + 1, n + k) \in Seq(Nat)
      /\ Len(SubSeq(w, n + 1, n + k)) = k
      /\ \A j \in 1..k : SubSeq(w, n + 1, n + k)[j] = w[n + j]
  BY <1>1, Slice
<1>3. SubSeq(w, n + 1, Len(w)) = SubSeq(w, n + 1, n + k)
  BY <1>1
<1> DEFINE s == SubSeq(w, n + 1, n + k)
<1> HIDE DEF s
<1>4. Dropped(s, w, n)
  <2>1. /\ s \in Seq(Nat) /\ Len(s) = k
        /\ \A j \in 1..k : s[j] = w[n + j]
    BY <1>2 DEF s
  <2> QED
    BY <1>1, <2>1 DEF Dropped
<1> QED
  BY <1>3, <1>4 DEF s

\* What is on the way when its sender dies.
LEMMA KeepCells ==
  ASSUME NEW w \in Seq(Nat), NEW n \in 0..Len(w)
  PROVE  LET s == SubSeq(w, 1, n) IN
         /\ s \in Seq(Nat) /\ Len(s) = n
         /\ \A j \in 1..n : s[j] = w[j]
         /\ w = <<>> => s = <<>>
<1>1. /\ SubSeq(w, 1, n) \in Seq(Nat) /\ Len(SubSeq(w, 1, n)) = n
      /\ \A j \in 1..n : SubSeq(w, 1, n)[j] = w[j]
  OBVIOUS
<1>2. w = <<>> => n = 0
  OBVIOUS
<1> QED
  BY <1>1, <1>2

\* a receives n of the cells that have come from p.
Took(a, p, n) ==
  /\ n <= Len(wire[p])
  /\ data' = [data EXCEPT ![a] =
                [j \in DOMAIN data[a] |->
                   IF j \in Ptr(a) + 1..Ptr(a) + n THEN wire[p][j - Ptr(a)]
                                                   ELSE data[a][j]]]
  /\ want' = [want EXCEPT ![a] = want[a] - n]
  /\ wire' = [wire EXCEPT ![p] = SubSeq(wire[p], n + 1, Len(wire[p]))]
  /\ pc' = [pc EXCEPT ![a] = IF Filled(want[a] - n) THEN "load" ELSE "fill"]

\* A receive takes some of what has come from the other end.
LEMMA RecvTakes ==
  ASSUME NEW a, RecvSome(a) PROVE \E n \in 1..want[a] : Took(a, Peer(a), n)
BY DEF RecvSome, Took, Goto

\* A receive takes any number of the cells that have arrived.
LEMMA RecvSomeInv ==
  ASSUME IInv, NEW a \in End, RecvSome(a) PROVE IInv'
<1>1. PICK p \in End : p = Peer(a) /\ a = Peer(p) /\ p # a /\ End = {a, p}
  BY Peers DEF End
<1> DEFINE w == wire[p]
           d == data[a]
           i == want[a]
           got == Len(d) - i
           mes == Cells(p)
<1>2. /\ pc[a] = "fill" /\ Types /\ Stream(p) /\ d # <<>>
      /\ w \in Seq(Nat) /\ d \in Seq(Nat) /\ i \in Nat
  BY <1>1 DEF RecvSome, IInv, Types, Receiving
<1>3. PICK n \in 1..i :
        /\ n <= Len(w)
        /\ data' = [data EXCEPT ![a] =
                      [j \in DOMAIN d |-> IF j \in got + 1..got + n THEN w[j - got]
                                                                    ELSE d[j]]]
        /\ want' = [want EXCEPT ![a] = i - n]
        /\ wire' = [wire EXCEPT ![p] = SubSeq(w, n + 1, Len(w))]
        /\ pc' = [pc EXCEPT ![a] = IF Filled(i - n) THEN "load" ELSE "fill"]
  <2>1. PICK n \in 1..want[a] : Took(a, p, n)
    BY <1>1, RecvTakes
  <2> QED
    BY <2>1 DEF Took, Ptr
<1> DEFINE filled == [j \in DOMAIN d |->
                        IF j \in got + 1..got + n THEN w[j - got] ELSE d[j]]
           s == SubSeq(w, n + 1, Len(w))
           label == IF Filled(i - n) THEN "load" ELSE "fill"
<1>4. Len(w) \in Nat /\ Len(d) \in Nat /\ DOMAIN w = 1..Len(w)
      /\ DOMAIN d = 1..Len(d) /\ n \in Nat /\ n > 0 /\ i - n \in Nat
  <2>1. Len(w) \in Nat /\ Len(d) \in Nat /\ DOMAIN w = 1..Len(w) /\ DOMAIN d = 1..Len(d)
    BY <1>2
  <2>2. i \in Nat /\ n \in 1..i
    BY <1>2, <1>3
  <2> HIDE DEF w, d, i
  <2> QED
    BY <2>1, <2>2
<1>5. ~Unsent(p)
  BY <1>1, <1>2, <1>3, <1>4 DEF Stream, Quiet
<1>6. /\ Len(d) = Len(mes) /\ i <= Len(d) /\ Len(w) <= i
      /\ \A j \in DOMAIN d : d[j] = IF j <= got THEN mes[j] ELSE Nul
      /\ \A j \in DOMAIN w : w[j] = mes[got + j]
      /\ pc[p] = "body" => left[p] = i - Len(w)
  BY <1>1, <1>2 DEF Stream, Following, Dead
<1>7. got \in Nat /\ got + Len(w) <= Len(d)
  BY <1>2, <1>4, <1>6
<1>8. /\ Cells(p)' = mes
      /\ UNCHANGED <<caller, said, left>>
  BY CellsSame DEF RecvSome
<1>9. /\ data'[a] = filled /\ want'[a] = i - n /\ wire'[p] = s
      /\ pc'[a] = label /\ pc'[p] = pc[p] /\ left'[p] = left[p]
  BY <1>1, <1>2, <1>3, <1>8 DEF Types
<1> HIDE DEF w, d, mes
<1>10. /\ filled \in Seq(Nat) /\ Len(filled) = Len(d)
       /\ \A j \in 1..Len(d) : filled[j] = IF j <= got + n THEN mes[j] ELSE Nul
  <2> HIDE DEF got
  <2>1. ASSUME NEW j \in 1..Len(d)
        PROVE  /\ filled[j] \in Nat
               /\ filled[j] = IF j <= got + n THEN mes[j] ELSE Nul
    <3>1. CASE j \in got + 1..got + n
      <4>1. j - got \in 1..Len(w) /\ got + (j - got) = j /\ j <= got + n
        BY <1>3, <1>4, <1>7, <3>1
      <4>2. w[j - got] = mes[got + (j - got)] /\ w[j - got] \in Nat
        BY <1>2, <1>4, <1>6, <4>1
      <4>3. filled[j] = w[j - got]
        BY <1>4, <3>1
      <4> QED
        BY <4>1, <4>2, <4>3
    <3>2. CASE j \notin got + 1..got + n
      <4>1. filled[j] = d[j] /\ d[j] \in Nat
        BY <1>2, <1>4, <3>2
      <4>2. (j <= got) <=> (j <= got + n)
        BY <1>4, <1>7, <3>2
      <4>3. d[j] = IF j <= got THEN mes[j] ELSE Nul
        BY <1>4, <1>6
      <4> QED
        BY <4>1, <4>2, <4>3
    <3> QED
      BY <3>1, <3>2
  <2>2. filled \in [1..Len(d) -> Nat]
    <3>1. filled = [j \in 1..Len(d) |-> filled[j]]
      BY <1>4
    <3> QED
      BY <2>1, <3>1
  <2>3. filled \in Seq(Nat) /\ Len(filled) = Len(d)
    BY <1>4, <2>2
  <2> QED
    BY <2>1, <2>3
<1>11. /\ s \in Seq(Nat) /\ Len(s) + n = Len(w)
       /\ \A j \in 1..Len(s) : s[j] = w[n + j]
  <2>1. Dropped(s, w, n)
    BY <1>2, <1>3, <1>4, DropCells DEF s
  <2> QED
    BY <2>1 DEF Dropped
<1>12. label \in {"fill", "load"}
  OBVIOUS
<1> HIDE DEF filled, s, label
<1>13. filled # <<>>
  BY <1>2, <1>10
<1>14. Quiet(p)' /\ Announced(p)'
  BY <1>1, <1>5, <1>9, <1>12, <1>13 DEF Quiet, Announced, Unsent, Unread, Dead
<1>15. Following(p)'
  <2>1. /\ Len(filled) = Len(mes) /\ i - n <= Len(filled) /\ Len(s) <= i - n
        /\ pc[p] = "body" => left[p] = (i - n) - Len(s)
    <3>1. Len(filled) = Len(mes) /\ i - n <= Len(filled)
      BY <1>2, <1>4, <1>6, <1>10
    <3>2. Len(s) <= i - n /\ i - Len(w) = (i - n) - Len(s)
      <4>1. Len(s) \in Nat /\ Len(w) <= i /\ i \in Nat
        BY <1>2, <1>6, <1>11
      <4> HIDE DEF i
      <4> QED
        BY <1>4, <1>11, <4>1
    <3> QED
      BY <1>6, <3>1, <3>2
  <2>2. Len(filled) - (i - n) = got + n
    BY <1>2, <1>4, <1>10
  <2>3. \A j \in DOMAIN filled :
          filled[j] = IF j <= Len(filled) - (i - n) THEN mes[j] ELSE Nul
    <3>1. DOMAIN filled = 1..Len(d)
      BY <1>10
    <3> QED
      BY <1>10, <2>2, <3>1
  <2>4. ASSUME NEW j \in DOMAIN s PROVE s[j] = mes[Len(filled) - (i - n) + j]
    <3>1. j \in 1..Len(s) /\ n + j \in 1..Len(w)
      BY <1>4, <1>11
    <3>2. s[j] = w[n + j] /\ w[n + j] = mes[got + (n + j)]
      BY <1>4, <1>6, <1>11, <3>1
    <3>3. got + (n + j) = Len(filled) - (i - n) + j
      BY <1>4, <1>7, <2>2, <3>1
    <3> QED
      BY <3>2, <3>3
  <2> HIDE DEF got, i
  <2> QED
    BY <1>1, <1>8, <1>9, <2>1, <2>3, <2>4 DEF Following
<1>16. Within(p)'
  BY <1>2, <1>8, <1>9 DEF Stream, Within, mes
<1>17. /\ pc' = [pc EXCEPT ![a] = label] /\ wire' = [wire EXCEPT ![p] = s]
       /\ data' = [data EXCEPT ![a] = filled]
       /\ want' = [want EXCEPT ![a] = i - n]
  BY <1>3 DEF label, s, filled
<1> HIDE DEF i
<1> QED
  BY <1>1, <1>2, <1>4, <1>8, <1>10, <1>11, <1>12, <1>13, <1>14, <1>15, <1>16,
     <1>17, ReceiveFrame
  DEF Stream

\* A process dies; what it sent may be cut off anywhere.
LEMMA DieInv ==
  ASSUME IInv, NEW a \in End, Die(a) PROVE IInv'
<1>1. PICK p \in End : p = Peer(a) /\ a = Peer(p) /\ p # a /\ End = {a, p}
  BY Peers DEF End
<1>2. Types /\ Stream(a) /\ Stream(p) /\ wire[a] \in Seq(Nat)
  BY <1>1 DEF IInv, Types
<1>3. PICK n \in 0..Len(wire[a]) :
        wire' = [wire EXCEPT ![a] = SubSeq(wire[a], 1, n), ![p] = <<>>]
  BY <1>1, <1>2 DEF Die, Types
<1> DEFINE w == wire[a]
           s == SubSeq(w, 1, n)
<1>4. /\ s \in Seq(Nat) /\ Len(s) = n /\ \A j \in 1..n : s[j] = w[j]
      /\ w = <<>> => s = <<>>
  BY <1>2, KeepCells
<1>5. /\ pc' = [pc EXCEPT ![a] = "dead"]
      /\ UNCHANGED <<caller, said, left, data, want>>
  BY DEF Die, Goto
<1>6. /\ pc'[a] = "dead" /\ pc'[p] = pc[p] /\ wire'[a] = s /\ wire'[p] = <<>>
      /\ wire' \in [End -> Seq(Nat)]
  <2>1. <<>> \in Seq(Nat)
    OBVIOUS
  <2> QED
    BY <1>1, <1>2, <1>3, <1>4, <1>5, <2>1 DEF Types
<1>7. Cells(a)' = Cells(a) /\ Cells(p)' = Cells(p)
  BY <1>5, CellsSame
<1>8. Types'
  BY <1>2, <1>5, <1>6 DEF Types, PC, Ended
<1>9. /\ Sayable(a)' /\ Sayable(p)'
      /\ Receiving(a)' /\ Receiving(p)'
  BY <1>1, <1>5, <1>6 DEF IInv, Sayable, Receiving
<1>10. Stream(p)'
  <2>0. Quiet(p)'
    <3>1. Unsent(p)' => Unsent(p)
      BY <1>6 DEF Unsent
    <3>2. ~Unread(a)'
      BY <1>6 DEF Unread
    <3> QED
      BY <1>1, <1>2, <1>5, <1>6, <3>1, <3>2 DEF Stream, Quiet
  <2>1. Announced(p)'
    BY <1>1, <1>6 DEF Announced, Dead
  <2>2. Following(p)'
    <3>1. Len(wire'[p]) = 0 /\ DOMAIN wire'[p] = {} /\ want[a] \in Nat
      BY <1>1, <1>2, <1>6 DEF Types
    <3> QED
      BY <1>1, <1>2, <1>5, <1>6, <1>7, <3>1 DEF Stream, Following, Dead
  <2>3. Within(p)'
    BY <1>2, <1>5, <1>6, <1>7 DEF Stream, Within
  <2> QED
    BY <2>0, <2>1, <2>2, <2>3 DEF Stream
<1>11. Stream(a)'
  <2>1. ~Unsent(a)' /\ pc'[a] # "body"
    BY <1>6 DEF Unsent
  <2>2. n <= Len(w) /\ Len(w) \in Nat /\ n \in Nat
        /\ DOMAIN w = 1..Len(w) /\ DOMAIN s = 1..n
    BY <1>2, <1>4
  <2> HIDE DEF s
  <2>3. Quiet(a)'
    BY <1>1, <1>2, <1>4, <1>5, <1>6, <2>1 DEF Stream, Quiet, Unread, Dead
  <2>4. Announced(a)'
    <3>1. SUFFICES ASSUME data[p] = <<>>, pc[p] # "short", s # <<>>
                   PROVE  /\ s[1] = Len(Cells(a)) /\ Len(Cells(a)) \in Nat \ {0}
                          /\ Len(s) <= Len(Cells(a)) + 1
                          /\ \A j \in 2..Len(s) : s[j] = Cells(a)[j - 1]
      BY <1>1, <1>5, <1>6, <1>7, <2>1 DEF Announced
    <3>2. n > 0 /\ w # <<>>
      BY <1>4, <2>2, <3>1
    <3>3. /\ w[1] = Len(Cells(a)) /\ Len(Cells(a)) \in Nat \ {0}
          /\ Len(w) <= Len(Cells(a)) + 1
          /\ \A j \in 2..Len(w) : w[j] = Cells(a)[j - 1]
      BY <1>1, <1>2, <3>1, <3>2 DEF Stream, Announced
    <3>4. ASSUME NEW j \in 2..Len(s) PROVE s[j] = Cells(a)[j - 1]
      <4>1. j \in 1..n /\ j \in 2..Len(w)
        BY <1>4, <2>2
      <4> QED
        BY <1>4, <3>3, <4>1
    <3>5. 1 \in 1..n
      BY <2>2, <3>2
    <3>6. s[1] = Len(Cells(a))
      BY <1>4, <3>3, <3>5
    <3>7. Len(s) <= Len(Cells(a)) + 1
      BY <1>4, <2>2, <3>3
    <3> QED
      BY <3>3, <3>4, <3>6, <3>7
  <2>5. Following(a)'
    <3>1. SUFFICES ASSUME data[p] # <<>>
                   PROVE  Following(a)'
      BY <1>1, <1>5 DEF Following
    <3>2. /\ Len(data[p]) = Len(Cells(a)) /\ want[p] <= Len(data[p])
          /\ \A j \in DOMAIN data[p] :
               data[p][j] = IF j <= Len(data[p]) - want[p] THEN Cells(a)[j]
                                                           ELSE Nul
          /\ Len(w) <= want[p]
          /\ \A j \in DOMAIN w : w[j] = Cells(a)[Len(data[p]) - want[p] + j]
      BY <1>1, <1>2, <3>1 DEF Stream, Following
    <3>3. want[p] \in Nat
      BY <1>2 DEF Types
    <3>4. /\ Len(s) <= want[p]
          /\ \A j \in DOMAIN s : s[j] = Cells(a)[Len(data[p]) - want[p] + j]
      <4>1. Len(s) <= want[p]
        BY <1>4, <2>2, <3>2, <3>3
      <4>2. ASSUME NEW j \in DOMAIN s
            PROVE  s[j] = Cells(a)[Len(data[p]) - want[p] + j]
        <5>1. j \in 1..n /\ j \in DOMAIN w
          BY <2>2
        <5> QED
          BY <1>4, <3>2, <5>1
      <4> QED
        BY <4>1, <4>2
    <3> QED
      BY <1>1, <1>5, <1>6, <1>7, <2>1, <3>2, <3>4 DEF Following
  <2> QED
    BY <2>1, <2>3, <2>4, <2>5 DEF Stream, Within
<1> QED
  BY <1>1, <1>8, <1>9, <1>10, <1>11 DEF IInv

-----------------------------------------------------------------------------
\* The invariant is kept by every step.
LEMMA NextInv == ASSUME IInv, [Next]_vars PROVE IInv'
<1>1. CASE Next
  <2>1. PICK e \in End : Transfer(e) \/ Load(e) \/ Die(e)
    BY <1>1 DEF Next
  <2>2. CASE Transfer(e)
    BY <2>2, ConnectInv, SendLengthInv, SendSomeInv, RecvLengthInv,
       RecvNoLengthInv, RecvSomeInv, RecvEndInv
    DEF Transfer
  <2>3. CASE Load(e)
    BY <2>3, LoadAnswerInv, HandleInv DEF Load
  <2> QED
    BY <2>1, <2>2, <2>3, DieInv
<1>2. CASE UNCHANGED vars
  <2>1. UNCHANGED <<caller, said, pc, left, wire, data, want>>
    BY <1>2 DEF vars
  <2>2. Types'
    BY <2>1 DEF IInv, Types
  <2>3. ASSUME NEW e \in End PROVE (Sayable(e) /\ Receiving(e) /\ Stream(e))'
    <3>1. Cells(e)' = Cells(e)
      BY <2>1, CellsSame
    <3>2. Sayable(e)' /\ Receiving(e)'
      BY <2>1 DEF IInv, Sayable, Receiving
    <3>3. Quiet(e)'
      BY <2>1 DEF IInv, Stream, Quiet, Unsent, Unread, Dead
    <3>4. Announced(e)'
      BY <2>1, <3>1 DEF IInv, Stream, Announced, Dead
    <3>5. Following(e)' /\ Within(e)'
      BY <2>1, <3>1 DEF IInv, Stream, Following, Within, Dead
    <3> QED
      BY <3>2, <3>3, <3>4, <3>5 DEF Stream
  <2> QED
    BY <2>2, <2>3 DEF IInv
<1> QED
  BY <1>1, <1>2

\* In whatever pieces the kernel passes a message on, and whoever dies when,
\* what receive_data returns is what send_data was given, cut off at most.
THEOREM MessageIsDelivered == Spec => []Delivered
<1>1. IInv => Delivered
  <2>1. SUFFICES ASSUME IInv, NEW e \in End, data[e] # <<>>
                 PROVE  /\ Len(data[e]) = Len(Cells(Peer(e)))
                        /\ \A j \in DOMAIN data[e] :
                             data[e][j] = IF j <= Len(data[e]) - want[e]
                                          THEN Cells(Peer(e))[j] ELSE Nul
    BY DEF Delivered
  <2>2. PICK p \in End : p = Peer(e) /\ e = Peer(p)
    BY Peers
  <2> QED
    BY <2>1, <2>2 DEF IInv, Stream, Following
<1>2. IInv /\ [Next]_vars => IInv'
  BY NextInv
<1> QED
  BY <1>1, <1>2, InitInv, PTL DEF Spec
-----------------------------------------------------------------------------
(* Loading. *)

\* What the functions behind each request return.
AnswersTo == [index_agent |-> Counts, retr_agent |-> Results, do_update |-> {},
              req_index |-> Texts, req_retr |-> Texts, regis |-> Texts]

\* An asker has a request of its own to dump, and the answerer an answer to it
\* before anything of that is on its way.
Spoken ==
  /\ said["asker"] \in RequestsOf[caller]
  /\ said["answerer"] # None => said["answerer"] \in AnswersTo[caller]
  /\ wire["answerer"] # <<>> \/ data["asker"] # <<>> => said["answerer"] # None

\* do_update receives nothing.
OneWay == caller = "do_update" => pc["asker"] \notin {"wait", "fill", "load"}

\* Labels at which an end has sent all of its message.
HasSent(e) ==
  IF e = "asker" THEN pc[e] \in {"wait", "fill", "load", "done"}
                 ELSE pc[e] = "done" /\ caller # "do_update"

\* From then on, what the other end still waits for is on its way.
Complete(e) ==
  HasSent(e) /\ ~Dead(Peer(e)) /\ pc[Peer(e)] # "short" =>
    /\ said[e] # None
    /\ Len(wire[e]) = IF data[Peer(e)] = <<>> THEN Len(Cells(e)) + 1 ELSE want[Peer(e)]

\* So an end that waits for cells gets them, or the other end is dead.
Waiting(e) ==
  /\ pc[e] = "fill" => want[e] # 0
  /\ pc[e] = "load" => data[e] # <<>> /\ (want[e] # 0 => Dead(Peer(e)))

\* What an end has loaded of the whole message is what the other end dumped.
HasLoaded(e) ==
  loaded[e] # None =>
    /\ data[e] # <<>> /\ pc[e] \notin {"fill", "load"}
    /\ want[e] = 0 => loaded[e] = AsLoaded(said[Peer(e)])

\* What ReadsWithin and OnlyLossConfuses say of one end.
ReadWithin(e) == read[e] <= Len(data[e]) \/ EmptyQuery
Excused(e) ==
  pc[e] = "undefined" => Dead(Peer(e)) \/ caller = "do_update" \/ EmptyQuery

Sound(e) == Waiting(e) /\ HasLoaded(e) /\ ReadWithin(e) /\ Excused(e)

LoadInv ==
  /\ loaded = [e \in End |-> loaded[e]] /\ read \in [End -> Nat]
  /\ Spoken /\ OneWay
  /\ \A e \in End : Complete(e) /\ Sound(e)

-----------------------------------------------------------------------------
\* The two ends of a step.
LEMMA TwoEnds ==
  ASSUME NEW a \in End
  PROVE  \E p \in End : p = Peer(a) /\ a = Peer(p) /\ p # a /\ End = {a, p}
BY Peers DEF End

\* Requests and answers are of the structs that are sent, and no answer is a
\* query.
LEMMA SpokenType ==
  ASSUME Types, Spoken
  PROVE  /\ said["asker"] \in Sendable
         /\ said["answerer"] # None =>
              /\ said["answerer"] \in Sendable /\ said["answerer"].type # QUERY
              /\ caller # "do_update"
<1>1. caller \in DOMAIN RequestsOf
  BY FlagType DEF Types
<1>2. said["asker"] \in Sendable
  BY <1>1 DEF Spoken, RequestsOf, Sendable
<1>3. ASSUME said["answerer"] # None
      PROVE  /\ said["answerer"] \in Sendable /\ said["answerer"].type # QUERY
             /\ caller # "do_update"
  <2>1. said["answerer"] \in AnswersTo[caller]
    BY <1>3 DEF Spoken
  <2>2. said["answerer"] \in Counts \cup Results \cup Texts /\ caller # "do_update"
    BY <1>1, <2>1 DEF RequestsOf, AnswersTo
  <2>3. said["answerer"] \in Sendable
    BY <2>2 DEF Sendable
  <2> QED
    BY <2>2, <2>3 DEF Counts, Results, Texts, COUNT, QUERY, QUERY_RSL, TEXT
<1> QED
  BY <1>2, <1>3

\* The other end of a step has loaded and read what it had before.
LEMMA OtherEnd ==
  ASSUME IInv, LoadInv, NEW a \in End, NEW p \in End, p = Peer(a), a = Peer(p),
         caller' = caller, said'["asker"] = said["asker"],
         said'[a] = said[a] \/ Unsent(a),
         UNCHANGED <<pc[p], data[p], want[p], loaded[p], read[p]>>,
         Dead(a) => Dead(a)'
  PROVE  Sound(p)'
<1>1. Waiting(p)'
  BY DEF LoadInv, Sound, Waiting
<1>2. HasLoaded(p)'
  <2>1. Unsent(a) => data[p] = <<>>
    BY DEF IInv, Stream, Quiet
  <2> QED
    BY <2>1 DEF LoadInv, Sound, HasLoaded
<1>3. EmptyQuery' <=> EmptyQuery
  BY DEF EmptyQuery
<1>4. ReadWithin(p)' /\ Excused(p)'
  BY <1>3 DEF LoadInv, Sound, ReadWithin, Excused
<1> QED
  BY <1>1, <1>2, <1>4 DEF Sound

\* So has the end itself, if it neither receives nor loads.
LEMMA OwnEnd ==
  ASSUME LoadInv, NEW a \in End, NEW p \in End, p = Peer(a),
         caller' = caller, said'["asker"] = said["asker"], said'[p] = said[p],
         UNCHANGED <<data[a], want[a], loaded[a], read[a], pc[p]>>,
         pc'[a] \notin {"fill", "load"},
         pc'[a] = "undefined" => Dead(p) \/ caller = "do_update" \/ EmptyQuery
  PROVE  Sound(a)'
<1>1. Waiting(a)'
  BY DEF Waiting
<1>2. HasLoaded(a)'
  BY DEF LoadInv, Sound, HasLoaded
<1>3. (EmptyQuery' <=> EmptyQuery) /\ (Dead(p)' <=> Dead(p))
  BY DEF EmptyQuery, Dead
<1>4. ReadWithin(a)' /\ Excused(a)'
  BY <1>3 DEF LoadInv, Sound, ReadWithin, Excused
<1> QED
  BY <1>1, <1>2, <1>4 DEF Sound

\* What is on its way to an end is as complete as before if neither end of it
\* has changed.
LEMMA StaysComplete ==
  ASSUME NEW e \in End, Complete(e), caller' = caller,
         UNCHANGED <<said[e], wire[e], data[Peer(e)], want[Peer(e)]>>,
         HasSent(e)' => HasSent(e),
         Dead(Peer(e)) \/ pc[Peer(e)] = "short" =>
           Dead(Peer(e))' \/ pc'[Peer(e)] = "short"
  PROVE  Complete(e)'
<1>1. Cells(e)' = Cells(e)
  BY CellsSame
<1>2. PICK p \in End : p = Peer(e)
  BY Peers
<1> QED
  BY <1>1, <1>2 DEF Complete

\* Nobody says anything new.
LEMMA StaysSpoken ==
  ASSUME Spoken, UNCHANGED <<caller, said>>,
         wire'["answerer"] # <<>> \/ data'["asker"] # <<>> =>
           said["answerer"] # None
  PROVE  Spoken'
BY DEF Spoken

\* The invariant holds before anything is sent.
LEMMA InitLoad == Init => LoadInv
<1> SUFFICES ASSUME Init PROVE LoadInv
  OBVIOUS
<1>1. PICK talk \in Talks : caller = talk.caller
                            /\ said = [asker |-> talk.value, answerer |-> None]
  BY DEF Init
<1>2. talk.value \in RequestsOf[caller]
  BY <1>1, MessageAssumption
<1>3. Spoken
  BY <1>1, <1>2 DEF Init, Spoken, End
<1>4. OneWay
  BY DEF Init, OneWay
<1>5. loaded = [e \in End |-> loaded[e]] /\ read \in [End -> Nat]
  BY DEF Init
<1>6. ASSUME NEW e \in End PROVE Complete(e) /\ Sound(e)
  <2>1. pc[e] = IF e = "asker" THEN "connect" ELSE "wait"
    BY DEF Init, End
  <2>2. Complete(e)
    BY <2>1 DEF Complete, HasSent
  <2>3. Waiting(e) /\ HasLoaded(e) /\ Excused(e)
    BY <2>1 DEF Init, Waiting, HasLoaded, Excused
  <2>4. ReadWithin(e)
    BY DEF Init, ReadWithin
  <2> QED
    BY <2>2, <2>3, <2>4 DEF Sound
<1> QED
  BY <1>3, <1>4, <1>5, <1>6 DEF LoadInv

-----------------------------------------------------------------------------
\* An end that loads what the other sent of v, with the loader of its type,
\* finds it unusable only if it was cut off or is an empty query, and has read
\* no more than there is unless it is one.
LEMMA LoadSound ==
  ASSUME NEW v \in Sendable, NEW f \in Nat, NEW mes, NEW k,
         Truncated(mes, Wire(f, v), k)
  PROVE  LET r == LoadAs(v.type, mes)
             empty == v.type = QUERY /\ v.list = <<>>
         IN /\ r.at \in Nat \ {0}
            /\ k = Len(mes) /\ ~empty => ~Unusable(v.type, mes, r)
            /\ k = Len(mes) /\ ~Unusable(v.type, mes, r) => r.value = AsLoaded(v)
            /\ WrongType(v.type, mes) => 2 <= Len(mes)
            /\ r.at - 1 <= Len(mes) \/ empty
            /\ ~Unusable(v.type, mes, r) => r.value.type = v.type
<1> DEFINE r == LoadAs(v.type, mes)
           full == Wire(f, v)
           empty == v.type = QUERY /\ v.list = <<>>
<1>1. mes \in Seq(Nat) /\ Len(mes) = Len(full) /\ Len(full) \in Nat
      /\ \A j \in 1..Len(full) : mes[j] = IF j <= k THEN full[j] ELSE Nul
  BY DEF Truncated
<1>2. v.type \in 0..6 /\ (v.type \in 0..4 => v \notin Texts /\ v \notin Ports)
  BY TypeOfValue DEF PORT, TEXT
<1>3. r.at \in Nat \ {0}
  BY <1>1, <1>2, LoadIsAt
<1>4. v.type \in DOC..QUERY_RSL => 2 <= Len(full) /\ full[2] = v.type
  BY <1>2, WireType DEF DOC, QUERY_RSL
<1>5. WrongType(v.type, mes) => 2 <= Len(mes)
  BY <1>1, <1>4 DEF WrongType
<1>6. k = Len(mes) => ~WrongType(v.type, mes)
  <2>1. ASSUME k = Len(mes), v.type \in DOC..QUERY_RSL PROVE mes[2] = v.type
    <3>1. 2 \in 1..Len(full) /\ 2 <= k
      BY <1>1, <1>4, <2>1
    <3> QED
      BY <1>1, <1>4, <2>1, <3>1
  <2> QED
    BY <2>1 DEF WrongType
<1> HIDE DEF r
<1>7. ASSUME ~empty
      PROVE  /\ k = Len(mes) => ~Unusable(v.type, mes, r) /\ r.value = AsLoaded(v)
             /\ r.at - 1 <= Len(mes)
             /\ r.value.type = v.type
  <2>1. Received(mes, full, k, v)
    BY <1>7, LoadReceived
  <2>2. /\ ~Overrun(mes, r) /\ r.value.type = v.type
        /\ k = Len(full) => r.ok /\ r.value = AsLoaded(v) /\ ~NoEnd(r.value)
    BY <2>1 DEF Received, r
  <2>3. r.at - 1 <= Len(mes)
    BY <1>1, <1>3, <2>2 DEF Overrun
  <2>4. k = Len(mes) => ~Unusable(v.type, mes, r) /\ r.value = AsLoaded(v)
    BY <1>1, <1>6, <2>2, Zenon DEF Unusable
  <2> QED
    BY <2>2, <2>3, <2>4
<1>8. ASSUME empty PROVE Unusable(v.type, mes, r)
  <2>1. v \in Queries /\ v.list = <<>> /\ v.type = QUERY
    BY <1>8, TypeOfValue
  <2>2. Overrun(mes, LoadAs(QUERY, mes))
    BY <2>1, EmptyQueryLoad
  <2> QED
    BY <2>1, <2>2 DEF Unusable, r
<1> HIDE DEF full, empty
<1>9. /\ k = Len(mes) /\ ~empty => ~Unusable(v.type, mes, r)
      /\ k = Len(mes) /\ ~Unusable(v.type, mes, r) => r.value = AsLoaded(v)
  BY <1>7, <1>8
<1>10. /\ r.at - 1 <= Len(mes) \/ empty
       /\ ~Unusable(v.type, mes, r) => r.value.type = v.type
  BY <1>7, <1>8
<1> QED
  BY <1>3, <1>5, <1>9, <1>10 DEF r, empty

\* What an end is about to load is what the other end sent, up to where it was
\* cut off.
LEMMA ToLoad ==
  ASSUME IInv, LoadInv, NEW e \in End, pc[e] = "load"
  PROVE  LET p == Peer(e) IN
         /\ said[p] \in Sendable /\ FlagBy(p) \in Nat
         /\ Truncated(data[e], Wire(FlagBy(p), said[p]), Len(data[e]) - want[e])
         /\ data[e] \in Seq(Nat) /\ want[e] \in Nat
         /\ want[e] # 0 => Dead(p)
         /\ said[p].type = QUERY => p = "asker"
<1>1. PICK p \in End : p = Peer(e) /\ e = Peer(p) /\ p # e /\ End = {e, p}
  BY TwoEnds
<1>2. data[e] # <<>> /\ (want[e] # 0 => Dead(p))
  BY <1>1 DEF LoadInv, Sound, Waiting
<1>3. Types /\ Spoken /\ data[e] \in Seq(Nat) /\ want[e] \in Nat
  BY DEF IInv, LoadInv, Types
<1>4. said[p] \in Sendable /\ (p = "asker" \/ said[p].type # QUERY)
  <2>1. CASE p = "asker"
    BY <1>3, <2>1, SpokenType
  <2>2. CASE p = "answerer"
    <3>1. e = "asker"
      BY <1>1, <2>2 DEF Peer
    <3>2. said["answerer"] # None
      BY <1>2, <1>3, <3>1 DEF Spoken
    <3> QED
      BY <1>3, <2>2, <3>2, SpokenType
  <2> QED
    BY <2>1, <2>2 DEF End
<1>5. FlagBy(p) \in Nat
  BY <1>3, FlagType DEF Types
<1>6. Cells(p) = Wire(FlagBy(p), said[p])
  BY <1>4, CellsAreWire
<1>7. Wire(FlagBy(p), said[p]) \in Seq(Nat)
  BY <1>4, <1>5, WireType
<1> DEFINE mes == data[e]
           full == Cells(p)
           k == Len(mes) - want[e]
<1>8. /\ Len(mes) = Len(full) /\ want[e] <= Len(mes)
      /\ \A j \in DOMAIN mes : mes[j] = IF j <= k THEN full[j] ELSE Nul
  BY <1>1, <1>2 DEF IInv, Stream, Following
<1>9. mes \in Seq(Nat) /\ full \in Seq(Nat) /\ want[e] \in Nat
  BY <1>3, <1>6, <1>7
<1> HIDE DEF full, mes
<1>10. k \in 0..Len(full) /\ DOMAIN mes = 1..Len(full)
  BY <1>8, <1>9
<1>11. Truncated(mes, full, k)
  <2> HIDE DEF k
  <2> QED
    BY <1>8, <1>9, <1>10 DEF Truncated
<1> QED
  BY <1>1, <1>2, <1>3, <1>4, <1>5, <1>6, <1>11 DEF mes, full

\* An end that has loaded has what it should, and its other end what it had.
LEMMA LoadsEnd ==
  ASSUME IInv, LoadInv, NEW a \in End, NEW p \in End, p = Peer(a), p # a,
         End = {a, p}, pc[a] = "load",
         Loads(a, said[p].type, LoadAs(said[p].type, data[a])),
         caller' = caller, said'["asker"] = said["asker"], said'[p] = said[p],
         UNCHANGED <<data[a], want[a], pc[p]>>,
         pc'[a] \notin {"fill", "load"},
         pc'[a] = "undefined" =>
           \/ caller = "do_update"
           \/ Unusable(said[p].type, data[a], LoadAs(said[p].type, data[a]))
  PROVE  /\ Sound(a)'
         /\ loaded' = [e \in End |-> loaded'[e]] /\ read' \in [End -> Nat]
         /\ UNCHANGED <<loaded[p], read[p]>>
<1> DEFINE v == said[p]
           t == v.type
           mes == data[a]
           k == Len(mes) - want[a]
           r == LoadAs(t, mes)
           empty == t = QUERY /\ v.list = <<>>
           far == IF WrongType(t, mes) THEN 2 ELSE r.at - 1
<1>1. /\ v \in Sendable /\ FlagBy(p) \in Nat
      /\ Truncated(mes, Wire(FlagBy(p), v), k)
      /\ mes \in Seq(Nat) /\ want[a] \in Nat
      /\ want[a] # 0 => Dead(p)
      /\ t = QUERY => p = "asker"
  BY ToLoad
<1>2. /\ r.at \in Nat \ {0}
      /\ k = Len(mes) /\ ~empty => ~Unusable(t, mes, r)
      /\ k = Len(mes) /\ ~Unusable(t, mes, r) => r.value = AsLoaded(v)
      /\ WrongType(t, mes) => 2 <= Len(mes)
      /\ r.at - 1 <= Len(mes) \/ empty
  <2> HIDE DEF mes, v, k
  <2> QED
    BY <1>1, LoadSound
<1>3. empty => EmptyQuery
  BY <1>1 DEF EmptyQuery
<1>4. /\ loaded' = [loaded EXCEPT ![a] = IF Unusable(t, mes, r) THEN loaded[a]
                                         ELSE r.value]
      /\ read' = [read EXCEPT ![a] = far]
  BY DEF Loads
<1>5. loaded = [e \in End |-> loaded[e]] /\ read \in [End -> Nat]
  BY DEF LoadInv
<1>6. want[a] = 0 => k = Len(mes)
  BY <1>1
<1> HIDE DEF r, k, empty, t
<1>7. far \in Nat /\ (far <= Len(mes) \/ EmptyQuery)
  BY <1>2, <1>3
<1> HIDE DEF far, mes
<1>8. /\ loaded'[a] = IF Unusable(t, mes, r) THEN loaded[a] ELSE r.value
      /\ read'[a] = far
  BY <1>4, <1>5
<1>9. /\ loaded' = [e \in End |-> loaded'[e]] /\ read' \in [End -> Nat]
      /\ UNCHANGED <<loaded[p], read[p]>>
  BY <1>4, <1>5, <1>7
<1>10. (EmptyQuery' <=> EmptyQuery) /\ (Dead(p)' <=> Dead(p))
  BY DEF EmptyQuery, Dead
<1>11. ReadWithin(a)'
  BY <1>7, <1>8, <1>10 DEF ReadWithin, mes
<1>12. HasLoaded(a)'
  <2>1. loaded[a] = None /\ data[a] # <<>>
    BY DEF LoadInv, Sound, HasLoaded, Waiting
  <2>2. ASSUME loaded'[a] # None, want[a] = 0 PROVE loaded'[a] = AsLoaded(v)
    BY <1>2, <1>6, <1>8, <2>1, <2>2
  <2>3. AsLoaded(v)' = AsLoaded(v)
    BY DEF v
  <2> QED
    BY <2>1, <2>2, <2>3 DEF HasLoaded, v
<1>13. Excused(a)'
  <2>1. Unusable(t, mes, r) => Dead(p) \/ EmptyQuery
    BY <1>1, <1>2, <1>3, <1>6
  <2> QED
    BY <1>10, <2>1 DEF Excused, t, mes, r, v
<1>14. Waiting(a)'
  BY DEF Waiting
<1> QED
  BY <1>9, <1>11, <1>12, <1>13, <1>14 DEF Sound
-----------------------------------------------------------------------------
(* The steps, once more. *)

\* Steps at which an end neither receives nor loads nor dies.
LEMMA SpeakingStep ==
  ASSUME IInv, LoadInv, NEW a \in End, NEW p \in End, p = Peer(a), a = Peer(p),
         p # a, End = {a, p},
         UNCHANGED <<caller, said, data, want, loaded, read>>,
         wire'[p] = wire[p], pc'[p] = pc[p],
         wire'[a] = <<>> \/ said[a] # None \/ wire'[a] = wire[a],
         pc'[a] \notin {"fill", "load"}, ~Dead(a), pc[a] # "short",
         pc'[a] = "undefined" => Dead(p) \/ caller = "do_update" \/ EmptyQuery,
         Complete(a)', OneWay'
  PROVE  LoadInv'
<1>1. Sound(a)'
  BY OwnEnd
<1>2. Sound(p)'
  BY OtherEnd
<1>3. Complete(p)'
  <2>1. HasSent(p)' => HasSent(p)
    BY DEF HasSent
  <2> QED
    BY <2>1, StaysComplete DEF LoadInv
<1>4. Spoken'
  <2>1. wire'["answerer"] # <<>> =>
          wire["answerer"] # <<>> \/ said["answerer"] # None
    BY DEF End
  <2> QED
    BY <2>1, StaysSpoken DEF LoadInv, Spoken
<1>5. loaded' = [e \in End |-> loaded'[e]] /\ read' \in [End -> Nat]
  BY DEF LoadInv
<1> QED
  BY <1>1, <1>2, <1>3, <1>4, <1>5 DEF LoadInv

\* Connect keeps the invariant.
LEMMA ConnectLoad == ASSUME IInv, LoadInv, Connect PROVE LoadInv'
<1> DEFINE a == "asker"
<1>1. PICK p \in End : p = Peer(a) /\ a = Peer(p) /\ p # a /\ End = {a, p} /\ a \in End
  BY TwoEnds DEF End
<1>2. /\ pc[a] = "connect"
      /\ pc'[a] = IF Dead(p) THEN "undefined" ELSE "length"
      /\ pc'[p] = pc[p]
      /\ UNCHANGED <<caller, said, left, wire, data, want, loaded, read>>
  BY <1>1 DEF Connect, Goto, IInv, Types, Peer
<1>3. Complete(a)' /\ OneWay'
  BY <1>2 DEF Complete, HasSent, OneWay
<1> QED
  BY <1>1, <1>2, <1>3, SpeakingStep DEF Dead

\* SendLength keeps the invariant.
LEMMA SendLengthLoad ==
  ASSUME IInv, LoadInv, NEW a \in End, SendLength(a) PROVE LoadInv'
<1>1. PICK p \in End : p = Peer(a) /\ a = Peer(p) /\ p # a /\ End = {a, p}
  BY TwoEnds
<1>2. /\ pc[a] = "length" /\ pc'[a] = "body" /\ pc'[p] = pc[p]
      /\ wire'[p] = wire[p] /\ said[a] \in Values
      /\ UNCHANGED <<caller, said, data, want, loaded, read>>
  BY <1>1 DEF SendLength, Goto, IInv, Types, Sayable
<1>3. said[a] # None
  BY <1>2, MessageAssumption DEF Values
<1>4. Complete(a)' /\ OneWay'
  <2>1. Complete(a)'
    BY <1>2 DEF Complete, HasSent
  <2>2. pc'["asker"] = pc["asker"] \/ pc'["asker"] = "body"
    BY <1>1, <1>2 DEF End
  <2> QED
    BY <1>2, <2>1, <2>2 DEF OneWay, LoadInv
<1> QED
  BY <1>1, <1>2, <1>3, <1>4, SpeakingStep DEF Dead

\* SendSome keeps the invariant: once all is sent, all that the other end lacks
\* is on its way.
LEMMA SendSomeLoad ==
  ASSUME IInv, LoadInv, NEW a \in End, SendSome(a) PROVE LoadInv'
<1>1. PICK p \in End : p = Peer(a) /\ a = Peer(p) /\ p # a /\ End = {a, p}
  BY TwoEnds
<1>2. /\ pc[a] = "body" /\ said[a] \in Values /\ Types
      /\ UNCHANGED <<caller, said, data, want, loaded, read>>
  BY DEF SendSome, IInv, Sayable
<1>3. PICK n \in 1..left[a] :
        /\ wire' = [wire EXCEPT ![a] = OnTheWay(a, Part(Cells(a), left[a], n))]
        /\ pc' = [pc EXCEPT ![a] = IF n = left[a] THEN AfterSend(a) ELSE "body"]
  BY DEF SendSome, Goto
<1>4. /\ wire'[a] = OnTheWay(a, Part(Cells(a), left[a], n)) /\ wire'[p] = wire[p]
      /\ pc'[a] = (IF n = left[a] THEN AfterSend(a) ELSE "body") /\ pc'[p] = pc[p]
  BY <1>1, <1>2, <1>3 DEF Types
<1>5. said[a] # None
  BY <1>2, MessageAssumption DEF Values
<1>6. Cells(a) \in Seq(Nat) /\ Len(Cells(a)) \in Nat /\ Cells(a)' = Cells(a)
  BY <1>2, CellsType, CellsSame
<1>7. pc'[a] \in {"body", "wait", "done"} /\ (caller = "do_update" => pc'[a] # "wait")
  BY <1>4 DEF AfterSend
<1>8. OneWay'
  BY <1>1, <1>2, <1>4, <1>7 DEF OneWay, LoadInv, AfterSend, End
<1>9. Complete(a)'
  <2> DEFINE w == wire[a]
             mes == Cells(a)
             rest == left[a]
             part == Part(mes, rest, n)
  <2>1. SUFFICES ASSUME HasSent(a)', ~Dead(p), pc[p] # "short"
                 PROVE  Len(wire'[a]) = IF data[p] = <<>> THEN Len(mes) + 1 ELSE want[p]
    BY <1>1, <1>2, <1>4, <1>5, <1>6 DEF Complete, Dead
  <2>2. n = rest
    BY <1>4, <2>1 DEF HasSent
  <2>3. /\ w \in Seq(Nat) /\ mes \in Seq(Nat) /\ rest \in Nat /\ rest <= Len(mes)
        /\ want[p] \in Nat /\ data[p] \in Seq(Nat)
    BY <1>1, <1>2, <1>6 DEF Types, IInv, Stream, Within
  <2>4. wire'[a] = w \o part
    BY <1>1, <1>4, <2>1 DEF OnTheWay
  <2>9. n \in 1..rest
    OBVIOUS
  <2> HIDE DEF w, mes, rest
  <2>5. Len(w \o part) = Len(w) + n
    <3>1. Appended(w \o part, w, mes, rest, n)
      BY <2>3, <2>9, AppendPart
    <3> QED
      BY <3>1 DEF Appended
  <2>6. CASE data[p] = <<>>
    <3>1. w # <<>>
      BY <1>1, <1>2, <2>1, <2>6 DEF IInv, Stream, Announced, w
    <3>2. rest = Len(mes) + 1 - Len(w)
      BY <1>1, <1>2, <2>1, <2>6, <3>1 DEF IInv, Stream, Announced, w, rest, mes
    <3> QED
      BY <2>2, <2>3, <2>4, <2>5, <2>6, <3>2
  <2>7. CASE data[p] # <<>>
    <3>1. rest = want[p] - Len(w)
      BY <1>1, <1>2, <2>1, <2>7 DEF IInv, Stream, Following, w, rest
    <3> QED
      BY <2>2, <2>3, <2>4, <2>5, <2>7, <3>1
  <2> QED
    BY <2>6, <2>7
<1> QED
  BY <1>1, <1>2, <1>4, <1>5, <1>7, <1>8, <1>9, SpeakingStep DEF Dead

\* When all of a message is sent to an end that has nothing of it, it is on its
\* way.
LEMMA SomethingComes ==
  ASSUME IInv, LoadInv, NEW a \in End, NEW p \in End, p = Peer(a), a = Peer(p),
         pc[a] \in {"wait", "fill"}, pc[p] = "done", Closed(p)
  PROVE  wire[p] # <<>>
<1>1. HasSent(p) /\ ~Dead(p) /\ ~Dead(a) /\ pc[a] # "short"
  BY DEF HasSent, Closed, Dead, End
<1>2. /\ said[p] # None
      /\ Len(wire[p]) = IF data[a] = <<>> THEN Len(Cells(p)) + 1 ELSE want[a]
  BY <1>1 DEF LoadInv, Complete
<1>3. Types /\ said[p] \in Values
  BY <1>2 DEF IInv, Types
<1>4. Len(Cells(p)) \in Nat
  BY <1>3, CellsType
<1>5. pc[a] = "fill" => data[a] # <<>> /\ want[a] # 0
  BY DEF IInv, Receiving, LoadInv, Sound, Waiting
<1>6. pc[a] = "wait" => data[a] = <<>>
  BY DEF IInv, Stream, Quiet, Unread
<1>7. Len(wire[p]) # 0
  BY <1>2, <1>4, <1>5, <1>6
<1> QED
  BY <1>7

\* RecvNoLength keeps the invariant.
LEMMA RecvNoLengthLoad ==
  ASSUME IInv, LoadInv, NEW a \in End, RecvNoLength(a) PROVE LoadInv'
<1>1. PICK p \in End : p = Peer(a) /\ a = Peer(p) /\ p # a /\ End = {a, p}
  BY TwoEnds
<1>2. PICK label \in {"undefined", "dead", "done"} :
        pc' = [pc EXCEPT ![a] = label]
  BY Zenon DEF RecvNoLength, Goto
<1>3. /\ pc[a] = "wait" /\ wire[p] = <<>> /\ Closed(p)
      /\ UNCHANGED <<caller, said, left, wire, data, want, loaded, read>>
  BY <1>1 DEF RecvNoLength
<1>4. pc'[a] = label /\ pc'[p] = pc[p]
  BY <1>1, <1>2 DEF IInv, Types
<1>5. Dead(p)
  BY <1>1, <1>3, SomethingComes DEF Closed
<1>6. Complete(a)'
  <2>1. Dead(p)'
    BY <1>4, <1>5 DEF Dead
  <2> QED
    BY <1>1, <2>1 DEF Complete
<1>7. OneWay'
  BY <1>1, <1>3, <1>4 DEF LoadInv, OneWay, End
<1> QED
  BY <1>1, <1>3, <1>4, <1>5, <1>6, <1>7, SpeakingStep DEF Dead

\* RecvEnd keeps the invariant.
LEMMA RecvEndLoad ==
  ASSUME IInv, LoadInv, NEW a \in End, RecvEnd(a) PROVE LoadInv'
<1>1. PICK p \in End : p = Peer(a) /\ a = Peer(p) /\ p # a /\ End = {a, p}
  BY TwoEnds
<1>2. /\ pc[a] = "fill" /\ wire[p] = <<>> /\ Closed(p)
      /\ UNCHANGED <<caller, said, left, wire, data, want, loaded, read>>
      /\ pc'[a] = "load" /\ pc'[p] = pc[p]
  BY <1>1 DEF RecvEnd, Goto, IInv, Types
<1>3. Dead(p) /\ Dead(p)'
  BY <1>1, <1>2, SomethingComes DEF Closed, Dead
<1>4. Complete(a)'
  BY <1>1, <1>3 DEF Complete
<1>5. Complete(p)'
  <2>1. HasSent(p)' => HasSent(p)
    BY <1>2 DEF HasSent
  <2> QED
    BY <1>1, <1>2, <2>1, StaysComplete DEF LoadInv, Dead
<1>6. Sound(p)'
  BY <1>1, <1>2, OtherEnd DEF Dead
<1>7. Sound(a)'
  <2>1. Waiting(a)'
    BY <1>1, <1>2, <1>3 DEF Waiting, IInv, Receiving
  <2>2. HasLoaded(a)'
    BY <1>2 DEF LoadInv, Sound, HasLoaded
  <2>3. ReadWithin(a)' /\ Excused(a)'
    BY <1>2 DEF LoadInv, Sound, ReadWithin, Excused, EmptyQuery
  <2> QED
    BY <2>1, <2>2, <2>3 DEF Sound
<1>8. Spoken' /\ OneWay'
  BY <1>1, <1>2, StaysSpoken DEF LoadInv, Spoken, OneWay, End
<1>9. loaded' = [e \in End |-> loaded'[e]] /\ read' \in [End -> Nat]
  BY <1>2 DEF LoadInv
<1> QED
  BY <1>1, <1>4, <1>5, <1>6, <1>7, <1>8, <1>9 DEF LoadInv

\* RecvLength keeps the invariant.
LEMMA RecvLengthLoad ==
  ASSUME IInv, LoadInv, NEW a \in End, RecvLength(a) PROVE LoadInv'
<1>1. PICK p \in End : p = Peer(a) /\ a = Peer(p) /\ p # a /\ End = {a, p}
  BY TwoEnds
<1> DEFINE w == wire[p]
           len == Head(w)
           zeros == [j \in 1..len |-> Nul]
<1>2. /\ pc[a] = "wait" /\ w # <<>> /\ w \in Seq(Nat) /\ data[a] = <<>> /\ Types
      /\ wire' = [wire EXCEPT ![p] = Tail(w)]
      /\ UNCHANGED <<caller, said, left, loaded, read>>
  BY <1>1 DEF RecvLength, IInv, Types, Stream, Quiet, Unread
<1>3. w[1] = Len(Cells(p)) /\ Len(Cells(p)) \in Nat \ {0} /\ len = w[1]
  <2>1. Announced(p) /\ data[Peer(p)] = <<>> /\ pc[Peer(p)] # "short"
    BY <1>1, <1>2 DEF IInv, Stream
  <2>2. w[1] = Len(Cells(p)) /\ Len(Cells(p)) \in Nat \ {0}
    BY <1>2, <2>1 DEF Announced
  <2> QED
    BY <1>2, <2>2
<1>4. wire'[p] = Tail(w) /\ wire'[a] = wire[a] /\ Len(Tail(w)) = Len(w) - 1
      /\ Len(w) \in Nat
  BY <1>1, <1>2 DEF Types
<1> HIDE DEF w
<1>5. CASE data' = [data EXCEPT ![a] = zeros] /\ want' = [want EXCEPT ![a] = len]
           /\ pc' = [pc EXCEPT ![a] = "fill"]
  <2>1. /\ data'[a] = zeros /\ data'[p] = data[p] /\ want'[a] = len /\ want'[p] = want[p]
        /\ pc'[a] = "fill" /\ pc'[p] = pc[p]
    BY <1>1, <1>2, <1>5 DEF Types
  <2>2. zeros \in Seq(Nat) /\ Len(zeros) = len /\ zeros # <<>> /\ len # 0
    <3>1. len \in Nat \ {0}
      BY <1>3
    <3> HIDE DEF len
    <3> QED
      BY <3>1 DEF Nul
  <2> HIDE DEF zeros
  <2>3. Sound(p)'
    BY <1>1, <1>2, <2>1, OtherEnd DEF Dead
  <2>4. Complete(a)'
    <3>1. HasSent(a)' => HasSent(a)
      BY <1>2, <2>1 DEF HasSent
    <3> QED
      BY <1>1, <1>2, <1>4, <2>1, <3>1, StaysComplete DEF LoadInv, Dead
  <2>5. Complete(p)'
    <3>1. SUFFICES ASSUME HasSent(p)'
                   PROVE  said[p] # None /\ Len(Tail(w)) = len
      BY <1>1, <1>2, <1>4, <2>1, <2>2 DEF Complete
    <3>2. HasSent(p) /\ ~Dead(a) /\ pc[a] # "short"
      BY <1>2, <2>1, <3>1 DEF HasSent, Dead
    <3>3. said[p] # None /\ Len(w) = Len(Cells(p)) + 1
      BY <1>1, <1>2, <3>2 DEF LoadInv, Complete, w
    <3> QED
      BY <1>3, <1>4, <3>3
  <2>6. Sound(a)'
    <3>1. Waiting(a)'
      BY <2>1, <2>2 DEF Waiting
    <3>2. HasLoaded(a)'
      BY <1>2 DEF LoadInv, Sound, HasLoaded
    <3>3. ReadWithin(a)'
      <4>1. read[a] <= 0 \/ EmptyQuery
        BY <1>2 DEF LoadInv, Sound, ReadWithin
      <4>2. Len(data'[a]) \in Nat /\ read[a] \in Nat
        BY <2>1, <2>2 DEF LoadInv
      <4>3. read[a] <= 0 => read[a] <= Len(data'[a])
        BY <4>2
      <4> QED
        BY <1>2, <4>1, <4>3 DEF ReadWithin, EmptyQuery
    <3>4. Excused(a)'
      BY <2>1 DEF Excused
    <3> QED
      BY <3>1, <3>2, <3>3, <3>4 DEF Sound
  <2>7. OneWay' /\ Spoken'
    <3>1. OneWay'
      BY <1>1, <1>2, <2>1 DEF LoadInv, OneWay, End
    <3>2. wire'["answerer"] # <<>> \/ data'["asker"] # <<>> => said["answerer"] # None
      <4>1. CASE p = "answerer"
        BY <1>2, <4>1 DEF LoadInv, Spoken, w
      <4>2. CASE p = "asker"
        <5>1. a = "answerer"
          BY <1>1, <4>2 DEF Peer
        <5> QED
          BY <1>4, <2>1, <4>2, <5>1 DEF LoadInv, Spoken
      <4> QED
        BY <4>1, <4>2 DEF End
    <3> QED
      BY <1>2, <3>1, <3>2, StaysSpoken DEF LoadInv
  <2>8. loaded' = [e \in End |-> loaded'[e]] /\ read' \in [End -> Nat]
    BY <1>2 DEF LoadInv
  <2> QED
    BY <1>1, <2>3, <2>4, <2>5, <2>6, <2>7, <2>8 DEF LoadInv
<1>6. CASE data' = data /\ want' = want /\ pc' = [pc EXCEPT ![a] = "short"]
  <2>1. pc'[a] = "short" /\ pc'[p] = pc[p]
    BY <1>1, <1>2, <1>6 DEF Types
  <2>2. Sound(p)'
    BY <1>1, <1>2, <1>6, <2>1, OtherEnd DEF Dead
  <2>3. Sound(a)'
    BY <1>1, <1>2, <1>6, <2>1, OwnEnd
  <2>4. Complete(a)' /\ Complete(p)'
    BY <1>1, <2>1 DEF Complete, HasSent
  <2>5. OneWay'
    BY <1>1, <1>2, <2>1 DEF LoadInv, OneWay, End
  <2>6. Spoken'
    <3>1. wire'["answerer"] # <<>> => wire["answerer"] # <<>>
      BY <1>1, <1>2, <1>4 DEF End, w
    <3> QED
      BY <1>2, <1>6, <3>1, StaysSpoken DEF LoadInv, Spoken
  <2>7. loaded' = [e \in End |-> loaded'[e]] /\ read' \in [End -> Nat]
    BY <1>2 DEF LoadInv
  <2> QED
    BY <1>1, <2>2, <2>3, <2>4, <2>5, <2>6, <2>7 DEF LoadInv
<1> QED
  BY <1>1, <1>5, <1>6 DEF RecvLength, Goto, w

\* RecvSome keeps the invariant.
LEMMA RecvSomeLoad ==
  ASSUME IInv, IInv', LoadInv, NEW a \in End, RecvSome(a) PROVE LoadInv'
<1>1. PICK p \in End : p = Peer(a) /\ a = Peer(p) /\ p # a /\ End = {a, p}
  BY TwoEnds
<1> DEFINE w == wire[p]
           d == data[a]
           i == want[a]
<1>2. /\ pc[a] = "fill" /\ Types /\ d # <<>>
      /\ w \in Seq(Nat) /\ d \in Seq(Nat) /\ i \in Nat
      /\ UNCHANGED <<caller, said, left, loaded, read>>
  BY <1>1 DEF RecvSome, IInv, Types, Receiving
<1>3. PICK n \in 1..i :
        /\ n <= Len(w)
        /\ data' = [data EXCEPT ![a] =
                      [j \in DOMAIN d |-> IF j \in Ptr(a) + 1..Ptr(a) + n
                                          THEN w[j - Ptr(a)] ELSE d[j]]]
        /\ want' = [want EXCEPT ![a] = i - n]
        /\ wire' = [wire EXCEPT ![p] = SubSeq(w, n + 1, Len(w))]
        /\ pc' = [pc EXCEPT ![a] = IF Filled(i - n) THEN "load" ELSE "fill"]
  <2>1. PICK n \in 1..want[a] : Took(a, p, n)
    BY <1>1, RecvTakes
  <2> QED
    BY <2>1 DEF Took
<1>4. /\ want'[a] = i - n /\ want'[p] = want[p] /\ data'[p] = data[p]
      /\ wire'[p] = SubSeq(w, n + 1, Len(w)) /\ wire'[a] = wire[a]
      /\ pc'[a] = (IF Filled(i - n) THEN "load" ELSE "fill") /\ pc'[p] = pc[p]
      /\ DOMAIN data'[a] = DOMAIN d
  BY <1>1, <1>2, <1>3 DEF Types
<1>5. Len(data'[a]) = Len(d) /\ data'[a] # <<>>
  <2>1. data'[a] \in Seq(Nat)
    BY DEF IInv, Types
  <2> HIDE DEF d
  <2> QED
    BY <1>2, <1>4, <2>1
<1>6. Len(wire'[p]) = Len(w) - n /\ Len(w) \in Nat /\ n \in Nat
  <2>1. Len(w) \in Nat /\ n \in Nat /\ n <= Len(w) /\ w \in Seq(Nat)
    BY <1>2, <1>3
  <2>2. wire'[p] = SubSeq(w, n + 1, Len(w))
    BY <1>4
  <2> HIDE DEF w
  <2>3. Dropped(wire'[p], w, n)
    BY <2>1, <2>2, DropCells
  <2>4. Len(wire'[p]) + n = Len(w) /\ Len(wire'[p]) \in Nat
    BY <2>3 DEF Dropped
  <2> QED
    BY <2>1, <2>4
<1> HIDE DEF w, d, i
<1>7. Sound(p)'
  BY <1>1, <1>2, <1>4, OtherEnd DEF Dead
<1>8. Complete(a)'
  <2>1. HasSent(a)' => HasSent(a)
    BY <1>2, <1>4 DEF HasSent
  <2> QED
    BY <1>1, <1>2, <1>4, <2>1, StaysComplete DEF LoadInv, Dead
<1>9. Complete(p)'
  <2>1. SUFFICES ASSUME HasSent(p)'
                 PROVE  said[p] # None /\ Len(wire'[p]) = i - n
    BY <1>1, <1>2, <1>4, <1>5 DEF Complete
  <2>2. HasSent(p) /\ ~Dead(a) /\ pc[a] # "short"
    BY <1>2, <1>4, <2>1 DEF HasSent, Dead
  <2>3. said[p] # None /\ Len(w) = i
    BY <1>1, <1>2, <2>2 DEF LoadInv, Complete, w, d, i
  <2> QED
    BY <1>6, <2>3
<1>10. Sound(a)'
  <2>1. Waiting(a)'
    BY <1>4, <1>5 DEF Waiting, Filled
  <2>2. HasLoaded(a)'
    BY <1>2 DEF LoadInv, Sound, HasLoaded
  <2>3. ReadWithin(a)' /\ Excused(a)'
    BY <1>2, <1>4, <1>5 DEF LoadInv, Sound, ReadWithin, Excused, EmptyQuery, d
  <2> QED
    BY <2>1, <2>2, <2>3 DEF Sound
<1>11. OneWay'
  BY <1>1, <1>2, <1>4 DEF LoadInv, OneWay, End
<1>12. Spoken'
  <2>1. wire'["answerer"] # <<>> \/ data'["asker"] # <<>> =>
          wire["answerer"] # <<>> \/ data["asker"] # <<>>
    <3>1. wire'[p] # <<>> => w # <<>>
      <4>1. w = <<>> => Len(wire'[p]) = 0 - n /\ Len(w) = 0 /\ n > 0
        BY <1>3, <1>6, <1>2
      <4> QED
        BY <1>3, <1>6, <4>1
    <3> QED
      BY <1>1, <1>2, <1>4, <3>1 DEF End, w, d
  <2> QED
    BY <1>2, <2>1, StaysSpoken DEF LoadInv, Spoken
<1>13. loaded' = [e \in End |-> loaded'[e]] /\ read' \in [End -> Nat]
  BY <1>2 DEF LoadInv
<1> QED
  BY <1>1, <1>7, <1>8, <1>9, <1>10, <1>11, <1>12, <1>13 DEF LoadInv

\* A death keeps the invariant.
LEMMA DieLoad ==
  ASSUME IInv, LoadInv, NEW a \in End, Die(a) PROVE LoadInv'
<1>1. PICK p \in End : p = Peer(a) /\ a = Peer(p) /\ p # a /\ End = {a, p}
  BY TwoEnds
<1>2. /\ Types /\ UNCHANGED <<caller, said, left, data, want, loaded, read>>
      /\ pc'[a] = "dead" /\ pc'[p] = pc[p] /\ ~Dead(a)
  BY <1>1 DEF Die, Goto, IInv, Types, Dead
<1>3. Sound(a)'
  BY <1>1, <1>2, OwnEnd
<1>4. Sound(p)'
  BY <1>1, <1>2, OtherEnd
<1>5. Complete(a)' /\ Complete(p)'
  BY <1>1, <1>2 DEF Complete, HasSent, Dead
<1>6. OneWay'
  BY <1>1, <1>2 DEF LoadInv, OneWay, End
<1>7. Spoken'
  <2>1. PICK n \in 0..Len(wire[a]) :
          wire' = [wire EXCEPT ![a] = SubSeq(wire[a], 1, n), ![p] = <<>>]
    BY <1>1, <1>2 DEF Die, Types
  <2> DEFINE s == SubSeq(wire[a], 1, n)
  <2>2. wire[a] = <<>> => s = <<>>
    BY <1>2, KeepCells DEF Types
  <2> HIDE DEF s
  <2>3. wire'[a] = s /\ wire'[p] = <<>>
    BY <1>1, <1>2, <2>1 DEF Types, s
  <2>4. wire'["answerer"] # <<>> => wire["answerer"] # <<>>
    BY <1>1, <2>2, <2>3 DEF End
  <2> QED
    BY <1>2, <2>4, StaysSpoken DEF LoadInv, Spoken
<1>8. loaded' = [e \in End |-> loaded'[e]] /\ read' \in [End -> Nat]
  BY <1>2 DEF LoadInv
<1> QED
  BY <1>1, <1>3, <1>4, <1>5, <1>6, <1>7, <1>8 DEF LoadInv

\* The type of each request.
LEMMA RequestTypes ==
  ASSUME Types, Spoken
  PROVE  /\ caller \in {"index_agent", "req_index"} => said["asker"].type = DOC
         /\ caller \in {"retr_agent", "req_retr"} => said["asker"].type = QUERY
         /\ caller = "do_update" => said["asker"].type = INDEX
         /\ caller = "regis" => said["asker"].type = PORT
<1>1. /\ caller \in {"index_agent", "req_index"} => said["asker"] \in Docs
      /\ caller \in {"retr_agent", "req_retr"} => said["asker"] \in Queries
      /\ caller = "do_update" => said["asker"] \in Indexes
      /\ caller = "regis" => said["asker"] \in Ports
  BY DEF Spoken, RequestsOf
<1>2. said["asker"] \in Sendable
  BY SpokenType
<1> QED
  BY <1>1, <1>2, TypeOfValue

\* The type of each answer.
LEMMA AnswerTypes ==
  ASSUME Types, Spoken, said["answerer"] # None
  PROVE  /\ caller = "index_agent" => said["answerer"].type = COUNT
         /\ caller = "retr_agent" => said["answerer"].type = QUERY_RSL
         /\ caller \in {"req_index", "req_retr"} => said["answerer"].type = TEXT
<1>1. /\ caller = "index_agent" => said["answerer"] \in Counts
      /\ caller = "retr_agent" => said["answerer"] \in Results
      /\ caller \in {"req_index", "req_retr"} => said["answerer"] \in Texts
  BY DEF Spoken, AnswersTo
<1>2. said["answerer"] \in Sendable
  BY SpokenType
<1> QED
  BY <1>1, <1>2, TypeOfValue

\* What the answerer loads for the flag of each request is what its asker dumps,
\* and what the askers load is what answers their requests.
LEMMA TypesAgree ==
  ASSUME Types, Spoken
  PROVE  /\ RequestType(Flag) = said["asker"].type
         /\ RequestType(Nul) = None
         /\ said["asker"].type \in 0..6 /\ said["asker"].type # None
         /\ caller = "regis" => AnswerType = None
         /\ said["answerer"] # None /\ caller # "regis" =>
              AnswerType = said["answerer"].type /\ AnswerType # None
<1>1. caller \in {"index_agent", "retr_agent", "do_update", "req_index", "req_retr",
                  "regis"}
  BY FlagType DEF Types, RequestsOf
<1>2. said["asker"] \in RequestsOf[caller] /\ None \notin Nat
  BY MessageAssumption DEF Spoken
<1>3. said["asker"].type \in 0..6 /\ said["asker"].type # None
  BY <1>2, SpokenType, TypeOfValue
<1>4. RequestType(Nul) = None
  BY DEF RequestType, Nul, CMD_INDEX, CMD_RETRIEVE, CMD_UPDATE, CMD_REGISTER
<1>5. RequestType(Flag) = said["asker"].type
  <2>1. /\ caller \in {"index_agent", "req_index"} => said["asker"].type = DOC
        /\ caller \in {"retr_agent", "req_retr"} => said["asker"].type = QUERY
        /\ caller = "do_update" => said["asker"].type = INDEX
        /\ caller = "regis" => said["asker"].type = PORT
    BY RequestTypes
  <2>2. /\ caller \in {"index_agent", "req_index"} => Flag = CMD_INDEX
        /\ caller \in {"retr_agent", "req_retr"} => Flag = CMD_RETRIEVE
        /\ caller = "do_update" => Flag = CMD_UPDATE
        /\ caller = "regis" => Flag = CMD_REGISTER
    BY DEF Flag, FlagOf, INDEX, CMD_INDEX
  <2>3. /\ RequestType(CMD_INDEX) = DOC
        /\ RequestType(CMD_RETRIEVE) = QUERY
        /\ caller = "do_update" => RequestType(CMD_UPDATE) = INDEX
        /\ caller = "regis" => RequestType(CMD_REGISTER) = PORT
    BY DEF RequestType, OnNode, CMD_INDEX, CMD_RETRIEVE, CMD_UPDATE, CMD_REGISTER
  <2> QED
    BY <1>1, <2>1, <2>2, <2>3
<1>6. caller = "regis" => AnswerType = None
  BY DEF AnswerType
<1>7. ASSUME said["answerer"] # None, caller # "regis"
      PROVE  AnswerType = said["answerer"].type /\ AnswerType # None
  <2>1. said["answerer"] \in AnswersTo[caller] /\ caller # "do_update"
    BY <1>7, SpokenType DEF Spoken
  <2>2. /\ caller = "index_agent" => said["answerer"].type = COUNT
        /\ caller = "retr_agent" => said["answerer"].type = QUERY_RSL
        /\ caller \in {"req_index", "req_retr"} => said["answerer"].type = TEXT
    BY <1>7, AnswerTypes
  <2>3. /\ caller = "index_agent" => AnswerType = COUNT
        /\ caller = "retr_agent" => AnswerType = QUERY_RSL
        /\ caller \in {"req_index", "req_retr"} => AnswerType = TEXT
    BY DEF AnswerType
  <2>4. {COUNT, QUERY_RSL, TEXT} \subseteq Nat
    BY DEF COUNT, QUERY_RSL, TEXT
  <2> QED
    BY <1>1, <1>2, <1>7, <2>1, <2>2, <2>3, <2>4
<1> QED
  BY <1>3, <1>4, <1>5, <1>6, <1>7

\* Whatever the functions make of a request, it answers that request.
LEMMA RepliesAnswer ==
  ASSUME Types, Spoken, NEW v, v.type = said["asker"].type, v.type # INDEX,
         NEW x \in Replies(v)
  PROVE  x \in AnswersTo[caller] /\ x \in Answers
<1>1. caller \in {"index_agent", "retr_agent", "do_update", "req_index", "req_retr",
                  "regis"}
  BY FlagType DEF Types, RequestsOf
<1>2. x \in Answers /\ x \in Sendable
  BY ValuesSendable DEF Replies, Values
<1>3. /\ x.type = COUNT => x \in Counts
      /\ x.type = QUERY_RSL => x \in Results
      /\ x.type = TEXT => x \in Texts
  BY <1>2, TypeOfValue
<1>4. /\ ~OnNode => x.type = TEXT
      /\ OnNode /\ v.type = DOC => x.type = COUNT
      /\ OnNode /\ v.type # DOC => x.type = QUERY_RSL
  BY DEF Replies
<1>6. /\ caller = "index_agent" => v.type = DOC
      /\ caller = "retr_agent" => v.type = QUERY
      /\ caller # "do_update"
  BY RequestTypes
<1> QED
  BY <1>1, <1>2, <1>3, <1>4, <1>6 DEF OnNode, AnswersTo, DOC, QUERY

\* LoadAnswer keeps the invariant.
LEMMA LoadAnswerLoad == ASSUME IInv, LoadInv, LoadAnswer PROVE LoadInv'
<1> DEFINE a == "asker"
           p == "answerer"
           r == LoadAs(AnswerType, data[a])
<1>1. p = Peer(a) /\ a = Peer(p) /\ p # a /\ End = {a, p} /\ a \in End /\ p \in End
  BY DEF End, Peer
<1>2. /\ pc[a] = "load" /\ Types /\ Spoken
      /\ UNCHANGED <<caller, said, left, wire, data, want>>
  BY DEF LoadAnswer, IInv, LoadInv
<1>3. pc'[p] = pc[p] /\ pc'[a] \in {"done", "undefined"}
  BY <1>2 DEF LoadAnswer, Goto, Types, End
<1>4. said[p] # None
  BY <1>1, <1>2 DEF LoadInv, Sound, Waiting, Spoken
<1>5. /\ Sound(a)'
      /\ loaded' = [e \in End |-> loaded'[e]] /\ read' \in [End -> Nat]
      /\ UNCHANGED <<loaded[p], read[p]>>
  <2>1. CASE AnswerType = None
    <3>1. UNCHANGED <<loaded, read>> /\ pc'[a] = "done"
      BY <1>2, <2>1 DEF LoadAnswer, Goto, Types, End
    <3>2. Sound(a)'
      <4>1. pc'[a] \notin {"fill", "load"} /\ pc'[a] # "undefined"
        BY <3>1
      <4> QED
        BY <1>1, <1>2, <1>3, <3>1, <4>1, OwnEnd
    <3> QED
      BY <3>1, <3>2 DEF LoadInv
  <2>2. CASE AnswerType # None
    <3>1. caller # "regis" /\ AnswerType = said[p].type
      BY <1>2, <1>4, <2>2, TypesAgree
    <3>2. /\ Loads(a, AnswerType, r)
          /\ pc'[a] = IF Unusable(AnswerType, data[a], r) THEN "undefined" ELSE "done"
      BY <1>2, <2>2 DEF LoadAnswer, Goto, Types, End
    <3>3. Loads(a, said[p].type, LoadAs(said[p].type, data[a]))
      BY <3>1, <3>2
    <3>4. pc'[a] = "undefined" =>
            Unusable(said[p].type, data[a], LoadAs(said[p].type, data[a]))
      BY <3>1, <3>2
    <3>5. UNCHANGED <<caller, said["asker"], said[p], data[a], want[a], pc[p]>>
      BY <1>2, <1>3
    <3>6. pc'[a] \notin {"fill", "load"} /\ pc[a] = "load"
      BY <1>2, <1>3
    <3> QED
      BY <1>1, <3>3, <3>4, <3>5, <3>6, LoadsEnd
  <2> QED
    BY <2>1, <2>2
<1>6. Sound(p)'
  <2>1. ~Dead(a)
    BY <1>2 DEF Dead
  <2>2. UNCHANGED <<pc[p], data[p], want[p], loaded[p], read[p]>>
    BY <1>2, <1>3, <1>5
  <2> QED
    BY <1>1, <1>2, <2>1, <2>2, OtherEnd
<1>7. Complete(a)'
  <2>1. HasSent(a)
    BY <1>2 DEF HasSent
  <2> QED
    BY <1>1, <1>2, <1>3, <2>1, StaysComplete DEF LoadInv, Dead
<1>8. Complete(p)'
  <2>1. HasSent(p)' => HasSent(p)
    BY <1>2, <1>3 DEF HasSent
  <2> QED
    BY <1>1, <1>2, <1>3, <2>1, StaysComplete DEF LoadInv, Dead
<1>9. Spoken'
  BY <1>2, StaysSpoken DEF Spoken
<1>10. OneWay'
  BY <1>3 DEF OneWay
<1> QED
  BY <1>1, <1>5, <1>6, <1>7, <1>8, <1>9, <1>10 DEF LoadInv

\* The flag that the answerer finds is that of the request or was cut off, and so
\* tells it the type of the request or nothing.
LEMMA FlagRead ==
  ASSUME IInv, LoadInv, pc["answerer"] = "load"
  PROVE  LET type == RequestType(data["answerer"][1]) IN
         /\ type \in {None, said["asker"].type} /\ said["asker"].type # None
         /\ type = None => want["answerer"] # 0
<1> DEFINE a == "answerer"
           p == "asker"
           mes == data[a]
           full == Wire(FlagBy(p), said[p])
           k == Len(mes) - want[a]
<1>1. p = Peer(a) /\ a \in End /\ Types /\ Spoken
  BY DEF End, Peer, IInv, LoadInv
<1>2. /\ said[p] \in Sendable /\ FlagBy(p) \in Nat
      /\ Truncated(mes, full, k) /\ mes \in Seq(Nat) /\ want[a] \in Nat
  BY <1>1, ToLoad
<1>3. said[p] \notin Texts
  <2>1. caller \in DOMAIN RequestsOf /\ said[p] \in RequestsOf[caller]
    BY <1>1, FlagType DEF Types, Spoken
  <2> QED
    BY <2>1 DEF RequestsOf, Docs, Queries, Indexes, Ports, Texts, DOC, QUERY, INDEX,
                PORT, TEXT
<1>4. full[1] = Flag /\ Len(full) \in Nat \ {0}
  BY <1>2, <1>3, WireType DEF FlagBy
<1>5. /\ mes[1] = IF 1 <= k THEN full[1] ELSE Nul
      /\ Len(mes) = Len(full)
  <2>1. Truncated(mes, full, k) /\ 1 \in 1..Len(full)
    BY <1>2, <1>4
  <2> HIDE DEF full, mes, k
  <2> QED
    BY <2>1 DEF Truncated
<1> HIDE DEF full, mes
<1>6. mes[1] \in {Flag, Nul} /\ (mes[1] # Flag => want[a] # 0)
  BY <1>2, <1>4, <1>5
<1> QED
  BY <1>1, <1>6, TypesAgree DEF mes

\* Handle keeps the invariant.
LEMMA HandleLoad == ASSUME IInv, LoadInv, Handle PROVE LoadInv'
<1> DEFINE a == "answerer"
           p == "asker"
           mes == data[a]
           type == RequestType(mes[1])
           r == LoadAs(type, mes)
<1>1. p = Peer(a) /\ a = Peer(p) /\ p # a /\ End = {a, p} /\ a \in End /\ p \in End
  BY DEF End, Peer
<1>2. /\ pc[a] = "load" /\ Types /\ Spoken
      /\ UNCHANGED <<caller, left, wire, data, want>>
  BY DEF Handle, IInv, LoadInv
<1>3. /\ pc'[p] = pc[p] /\ pc'[a] \in {"done", "undefined", "length"}
      /\ said'[p] = said[p]
  <2>1. /\ \E label \in {"done", "undefined", "length"} : pc' = [pc EXCEPT ![a] = label]
        /\ said' = said \/ \E v : said' = [said EXCEPT ![a] = v]
    BY Zenon DEF Handle, Goto, FreeResp
  <2> QED
    BY <1>1, <1>2, <2>1 DEF Types
<1>4. /\ said[p] \in Sendable /\ FlagBy(p) \in Nat
      /\ Truncated(mes, Wire(FlagBy(p), said[p]), Len(mes) - want[a])
      /\ mes \in Seq(Nat) /\ want[a] \in Nat
      /\ want[a] # 0 => Dead(p)
  BY <1>1, <1>2, ToLoad
<1>5. /\ type \in {None, said[p].type} /\ said[p].type # None
      /\ type = None => want[a] # 0
  BY <1>2, FlagRead
<1>6. CASE type = None
  <2>1. UNCHANGED <<said, loaded, read>> /\ Dead(p) /\ pc'[a] \in {"done", "undefined"}
    BY <1>2, <1>4, <1>5, <1>6 DEF Handle, FreeResp, Goto, Types, End
  <2>2. Sound(a)'
    <3>1. pc'[a] \notin {"fill", "load"}
      BY <2>1
    <3> QED
      BY <1>1, <1>2, <1>3, <2>1, <3>1, OwnEnd
  <2>3. Sound(p)'
    <3>1. ~Dead(a)
      BY <1>2 DEF Dead
    <3> QED
      BY <1>1, <1>2, <1>3, <2>1, <3>1, OtherEnd
  <2>4. Complete(a)'
    <3>1. Dead(p)'
      BY <1>3, <2>1 DEF Dead
    <3> QED
      BY <1>1, <3>1 DEF Complete
  <2>5. Complete(p)'
    <3>1. HasSent(p)' => HasSent(p)
      BY <1>2, <1>3 DEF HasSent
    <3> QED
      BY <1>1, <1>2, <1>3, <2>1, <3>1, StaysComplete DEF LoadInv, Dead
  <2>6. Spoken' /\ OneWay'
    BY <1>2, <1>3, <2>1, StaysSpoken DEF LoadInv, Spoken, OneWay
  <2>7. loaded' = [e \in End |-> loaded'[e]] /\ read' \in [End -> Nat]
    BY <2>1 DEF LoadInv
  <2> QED
    BY <1>1, <2>2, <2>3, <2>4, <2>5, <2>6, <2>7 DEF LoadInv
<1>7. CASE type # None
  <2>1. type = said[p].type
    BY <1>5, <1>7
  <2>2. /\ Loads(a, type, r)
        /\ \/ type = INDEX /\ said' = said /\ pc'[a] # "length"
           \/ type # INDEX /\ Unusable(type, mes, r) /\ said' = said
              /\ pc'[a] = "undefined"
           \/ type # INDEX /\ ~Unusable(type, mes, r) /\ pc'[a] = "length"
              /\ \E x \in Replies(r.value) : said' = [said EXCEPT ![a] = x]
    <3>1. /\ Loads(a, type, r)
          /\ IF type = INDEX THEN FreeResp /\ UNCHANGED said
             ELSE IF Unusable(type, mes, r)
             THEN Goto(a, "undefined") /\ UNCHANGED said
             ELSE /\ Goto(a, "length")
                  /\ \E x \in Replies(r.value) : said' = [said EXCEPT ![a] = x]
      BY <1>7, Zenon DEF Handle
    <3>2. \A label : Goto(a, label) => pc'[a] = label
      BY <1>1, <1>2 DEF Goto, Types
    <3>3. FreeResp => pc'[a] # "length"
      BY <3>2 DEF FreeResp
    <3> HIDE DEF type, r, mes
    <3> QED
      BY <3>1, <3>2, <3>3
  <2>3. type = INDEX => caller = "do_update"
    <3>1. caller \in {"index_agent", "retr_agent", "do_update", "req_index",
                      "req_retr", "regis"}
      BY <1>2, FlagType DEF Types, RequestsOf
    <3>2. said[p].type = INDEX => caller = "do_update"
      BY <1>2, <3>1, RequestTypes DEF DOC, QUERY, INDEX, PORT
    <3> QED
      BY <2>1, <3>2
  <2>4. ~Unusable(type, mes, r) => r.value.type = said[p].type
    <3> DEFINE k == Len(mes) - want[a]
    <3>1. Truncated(mes, Wire(FlagBy(p), said[p]), k)
      BY <1>4
    <3> HIDE DEF mes, k
    <3> QED
      BY <1>4, <2>1, <3>1, LoadSound
  <2>5. said' = said \/ \E x \in Answers : x \in AnswersTo[caller]
                                          /\ said' = [said EXCEPT ![a] = x]
    <3>1. ASSUME type # INDEX, ~Unusable(type, mes, r), NEW x \in Replies(r.value)
          PROVE  x \in AnswersTo[caller] /\ x \in Answers
      <4>1. r.value.type = said["asker"].type /\ r.value.type # INDEX
        BY <2>1, <2>4, <3>1
      <4> HIDE DEF r
      <4> QED
        BY <1>2, <3>1, <4>1, RepliesAnswer
    <3> HIDE DEF r, type, mes
    <3> QED
      BY <2>2, <3>1
  <2>6. /\ Sound(a)'
        /\ loaded' = [e \in End |-> loaded'[e]] /\ read' \in [End -> Nat]
        /\ UNCHANGED <<loaded[p], read[p]>>
    <3>1. Loads(a, said[p].type, LoadAs(said[p].type, data[a]))
      BY <2>1, <2>2
    <3>2. pc'[a] = "undefined" =>
            caller = "do_update"
            \/ Unusable(said[p].type, data[a], LoadAs(said[p].type, data[a]))
      BY <2>1, <2>2, <2>3
    <3>3. UNCHANGED <<caller, said["asker"], said[p], data[a], want[a], pc[p]>>
      BY <1>2, <1>3
    <3>4. pc'[a] \notin {"fill", "load"} /\ pc[a] = "load"
      BY <1>2, <1>3
    <3> QED
      BY <1>1, <3>1, <3>2, <3>3, <3>4, LoadsEnd
  <2>7. Sound(p)'
    <3>1. ~Dead(a) /\ Unsent(a)
      BY <1>2 DEF Dead, Unsent
    <3>2. UNCHANGED <<pc[p], data[p], want[p], loaded[p], read[p], said["asker"]>>
      BY <1>2, <1>3, <2>6
    <3> QED
      BY <1>1, <1>2, <3>1, <3>2, OtherEnd
  <2>8. Complete(a)'
    <3>1. HasSent(a)' => FALSE
      BY <1>2, <2>2, <2>3 DEF HasSent
    <3> QED
      BY <3>1 DEF Complete
  <2>9. Complete(p)'
    <3>1. HasSent(p)' => HasSent(p)
      BY <1>2, <1>3 DEF HasSent
    <3> QED
      BY <1>1, <1>2, <1>3, <3>1, StaysComplete DEF LoadInv, Dead
  <2>10. Spoken'
    <3>1. said'["answerer"] # None => said'["answerer"] \in AnswersTo[caller]
      BY <1>1, <1>2, <2>5 DEF Types, Spoken
    <3>2. said["answerer"] # None => said'["answerer"] # None
      BY <1>1, <1>2, <2>5, MessageAssumption DEF Types
    <3> QED
      BY <1>2, <1>3, <3>1, <3>2 DEF Spoken
  <2>11. OneWay'
    BY <1>2, <1>3 DEF LoadInv, OneWay
  <2> QED
    BY <1>1, <2>6, <2>7, <2>8, <2>9, <2>10, <2>11 DEF LoadInv
<1> QED
  BY <1>6, <1>7

\* Both invariants are kept by every step.
LEMMA NextLoad == ASSUME IInv, LoadInv, [Next]_vars PROVE IInv' /\ LoadInv'
<1>1. IInv'
  BY NextInv
<1>2. CASE Next
  <2>1. PICK e \in End : Transfer(e) \/ Load(e) \/ Die(e)
    BY <1>2 DEF Next
  <2>2. CASE Transfer(e)
    BY <1>1, <2>2, ConnectLoad, SendLengthLoad, SendSomeLoad, RecvLengthLoad,
       RecvNoLengthLoad, RecvSomeLoad, RecvEndLoad
    DEF Transfer
  <2>3. CASE Load(e)
    BY <1>1, <2>3, LoadAnswerLoad, HandleLoad DEF Load
  <2> QED
    BY <1>1, <2>1, <2>2, <2>3, DieLoad
<1>3. CASE UNCHANGED vars
  <2>1. UNCHANGED <<caller, said, pc, left, wire, data, want, loaded, read>>
    BY <1>3 DEF vars
  <2>2. ASSUME NEW e \in End PROVE (Complete(e) /\ Sound(e))'
    <3>1. PICK p \in End : p = Peer(e) /\ e = Peer(p) /\ p # e /\ End = {e, p}
      BY TwoEnds
    <3>2. Sound(e)'
      BY <2>1, <3>1, OtherEnd DEF Dead
    <3>3. Complete(e)'
      <4>1. HasSent(e)' => HasSent(e)
        BY <2>1 DEF HasSent
      <4> QED
        BY <2>1, <4>1, StaysComplete DEF LoadInv, Dead
    <3> QED
      BY <3>2, <3>3
  <2>3. Spoken' /\ OneWay'
    BY <2>1, StaysSpoken DEF LoadInv, Spoken, OneWay
  <2>4. loaded' = [e \in End |-> loaded'[e]] /\ read' \in [End -> Nat]
    BY <2>1 DEF LoadInv
  <2> QED
    BY <1>1, <2>2, <2>3, <2>4 DEF LoadInv
<1> QED
  BY <1>2, <1>3

\* Both hold for ever.
LEMMA LoadInvHolds == Spec => [](IInv /\ LoadInv)
<1>1. Init => IInv /\ LoadInv
  BY InitInv, InitLoad
<1>2. IInv /\ LoadInv /\ [Next]_vars => (IInv /\ LoadInv)'
  BY NextLoad
<1> QED
  BY <1>1, <1>2, PTL DEF Spec

\* No call of send_data, receive_data or a loader takes a variable out of its
\* domain: no length, offset or number of cells becomes negative.
THEOREM TypeCorrect == Spec => []TypeOK
<1>1. IInv /\ LoadInv => TypeOK
  BY DEF IInv, LoadInv, Types, Values, TypeOK
<1> QED
  BY <1>1, LoadInvHolds, PTL

\* load_doc, load_count, load_query, load_query_rsl and load_index give back what
\* dump_doc and the others were given, for structs of any size, over a
\* connection that cuts messages anywhere, whichever processes die and when.
THEOREM LoadedIsSentHolds == Spec => []LoadedIsSent
<1>1. IInv /\ LoadInv => LoadedIsSent
  BY DEF LoadInv, Sound, HasLoaded, LoadedIsSent
<1> QED
  BY <1>1, LoadInvHolds, PTL

\* The loaders trust the lengths in a message, but no part of a message, with
\* zeros for its rest, takes them out of the memory it was received in: only
\* the query without terms does, which load_query reads a term of.
THEOREM ReadsWithinHolds == Spec => []ReadsWithin
<1>1. IInv /\ LoadInv => ReadsWithin
  BY DEF LoadInv, Sound, ReadWithin, ReadsWithin
<1> QED
  BY <1>1, LoadInvHolds, PTL

\* As long as the other end lives and lengths come in one piece, work(), dispatch()
\* and the agents never go on with a pointer that a failed receive_data or loader
\* did not set: that end has
\* not closed the connection before all is sent, and sends what they can load.
\* Only work() does after an update, and any of them for the empty query.
THEOREM OnlyLossHolds == Spec => []OnlyLossConfuses
<1>1. IInv /\ LoadInv => OnlyLossConfuses
  BY DEF LoadInv, Sound, Excused, OnlyLossConfuses
<1> QED
  BY <1>1, LoadInvHolds, PTL

-----------------------------------------------------------------------------
(* One exchange. *)

\* An answerer that has not loaded its request has no answer yet.
Unanswered ==
  pc["answerer"] \in {"wait", "fill", "load"} => said["answerer"] = None

\* It gets one as it loads the request, and does not go back.
LEMMA NextUnanswered ==
  ASSUME Types, Unanswered, [Next]_vars PROVE Unanswered'
<1>1. CASE Next
  <2>1. PICK e \in End : Transfer(e) \/ Load(e) \/ Die(e)
    BY <1>1 DEF Next
  <2>2. pc \in [End -> PC] /\ "answerer" \in End
    BY DEF Types, End
  <2>3. CASE Load(e)
    <3>1. CASE e = "asker"
      BY <2>2, <2>3, <3>1 DEF Load, LoadAnswer, Goto, Unanswered, End
    <3>2. CASE e = "answerer"
      <4>1. \E label \in {"done", "undefined", "length"} :
              pc' = [pc EXCEPT !["answerer"] = label]
        BY <2>3, <3>2, Zenon DEF Load, Handle, Goto, FreeResp
      <4> QED
        BY <2>2, <4>1 DEF Unanswered
    <3> QED
      BY <3>1, <3>2 DEF End
  <2>4. CASE Transfer(e) \/ Die(e)
    <3>1. said' = said
      BY <2>4 DEF Transfer, Connect, SendLength, SendSome, RecvLength, RecvNoLength,
                  RecvSome, RecvEnd, Die
    <3>2. pc'["answerer"] \in {"wait", "fill", "load"} =>
            pc["answerer"] \in {"wait", "fill", "load"}
      <4>1. CASE e = "asker"
        BY <2>2, <2>4, <4>1 DEF Transfer, Connect, SendLength, SendSome, RecvLength,
           RecvNoLength, RecvSome, RecvEnd, Die, Goto, End
      <4>2. CASE e = "answerer"
        BY <2>2, <2>4, <4>2 DEF Transfer, SendLength, SendSome, AfterSend, RecvLength,
           RecvNoLength, RecvSome, RecvEnd, Die, Goto, End
      <4> QED
        BY <4>1, <4>2 DEF End
    <3> QED
      BY <3>1, <3>2 DEF Unanswered
  <2> QED
    BY <2>1, <2>3, <2>4
<1>2. CASE UNCHANGED vars
  BY <1>2 DEF vars, Unanswered
<1> QED
  BY <1>1, <1>2

\* A step is of the exchange if it only moves an end, perhaps to its death, and
\* cells that nobody has loaded yet.
LEMMA Unnoticed ==
  ASSUME pc \in [End -> PC], NEW a \in End, NEW label, Goto(a, label), ~Dead(a),
         UNCHANGED <<said, loaded>>,
         \A e \in End : want'[e] = want[e] \/ loaded[e] = None
  PROVE  Promise!Next \/ UNCHANGED Promise!vars
<1> DEFINE D == {e \in End : Dead(e)}
<1>1. \A e \in End : Whole(e)' = Whole(e)
  BY DEF Whole
<1>2. UNCHANGED <<said["asker"], said["answerer"], Whole("asker"), Whole("answerer")>>
  BY <1>1 DEF End
<1>3. \A e \in End : pc'[e] = IF e = a THEN label ELSE pc[e]
  BY DEF Goto
<1>4. D' = IF label = "dead" THEN D \cup {a} ELSE D
  BY <1>3 DEF Dead
<1>5. CASE label = "dead"
  <2>1. Promise!Die(a)
    BY <1>2, <1>4, <1>5 DEF Promise!Die
  <2> QED
    BY <2>1 DEF Promise!Next, End
<1>6. CASE label # "dead"
  BY <1>2, <1>4, <1>6 DEF Promise!vars
<1> QED
  BY <1>5, <1>6

\* An end that is to load has loaded nothing yet, and what it makes of a whole
\* message, it makes of what the other end said.
LEMMA ReadyToLoad ==
  ASSUME IInv, LoadInv, NEW a \in End, NEW p \in End, p = Peer(a), pc[a] = "load"
  PROVE  LET r == LoadAs(said[p].type, data[a]) IN
         /\ loaded[a] = None
         /\ want[a] = 0 /\ ~Unusable(said[p].type, data[a], r) =>
              r.value = AsLoaded(said[p])
         /\ ~Unusable(said[p].type, data[a], r) => r.value.type = said[p].type
         /\ want[a] # 0 => Dead(p)
<1>1. loaded[a] = None
  BY DEF LoadInv, Sound, HasLoaded
<1> DEFINE k == Len(data[a]) - want[a]
           mes == data[a]
           v == said[p]
<1>2. /\ v \in Sendable /\ FlagBy(p) \in Nat
      /\ Truncated(mes, Wire(FlagBy(p), v), k)
      /\ mes \in Seq(Nat) /\ want[a] \in Nat
      /\ want[a] # 0 => Dead(p)
  BY ToLoad
<1>3. want[a] = 0 => k = Len(mes)
  BY <1>2
<1>4. /\ k = Len(mes) /\ ~Unusable(v.type, mes, LoadAs(v.type, mes)) =>
           LoadAs(v.type, mes).value = AsLoaded(v)
      /\ ~Unusable(v.type, mes, LoadAs(v.type, mes)) =>
           LoadAs(v.type, mes).value.type = v.type
  <2> HIDE DEF k, mes, v
  <2> QED
    BY <1>2, LoadSound
<1> QED
  BY <1>1, <1>2, <1>3, <1>4

\* What changes when a end has loaded: its Whole if the message was.
LEMMA WholeLoaded ==
  ASSUME LoadInv, NEW a \in End, NEW p \in End, p # a, End = {a, p}, NEW type, NEW r,
         Loads(a, type, r), want' = want
  PROVE  /\ Whole(p)' = Whole(p)
         /\ Whole(a)' = IF want[a] = 0 /\ ~Unusable(type, data[a], r) THEN r.value
                        ELSE Whole(a)
<1>1. loaded = [e \in End |-> loaded[e]]
  BY DEF LoadInv
<1>2. loaded' = [loaded EXCEPT ![a] = IF Unusable(type, data[a], r) THEN loaded[a]
                                      ELSE r.value]
  BY DEF Loads
<1>3. /\ loaded'[p] = loaded[p]
      /\ loaded'[a] = IF Unusable(type, data[a], r) THEN loaded[a] ELSE r.value
  BY <1>1, <1>2
<1> QED
  BY <1>3 DEF Whole

\* The asker's load is Receive, or nothing.
LEMMA LoadAnswerExchange ==
  ASSUME IInv, LoadInv, LoadAnswer PROVE Promise!Next \/ UNCHANGED Promise!vars
<1> DEFINE a == "asker"
           p == "answerer"
           r == LoadAs(AnswerType, data[a])
           D == {e \in End : Dead(e)}
<1>1. p = Peer(a) /\ a = Peer(p) /\ p # a /\ End = {a, p} /\ a \in End /\ p \in End
  BY DEF End, Peer
<1>2. /\ pc[a] = "load" /\ Types /\ Spoken /\ pc \in [End -> PC]
      /\ UNCHANGED <<caller, said, left, wire, data, want>>
      /\ \E label \in {"done", "undefined"} : Goto(a, label)
  BY DEF LoadAnswer, IInv, LoadInv, Types
<1>3. said[p] # None
  BY <1>1, <1>2 DEF LoadInv, Sound, Waiting, Spoken
<1>4. CASE AnswerType = None
  <2>1. UNCHANGED loaded /\ ~Dead(a)
    BY <1>2, <1>4 DEF LoadAnswer, Dead
  <2> QED
    BY <1>1, <1>2, <2>1, Unnoticed
<1>5. CASE AnswerType # None
  <2>1. AnswerType = said[p].type
    BY <1>2, <1>3, <1>5, TypesAgree
  <2>2. Loads(a, AnswerType, r)
    BY <1>2, <1>5 DEF LoadAnswer
  <2>3. /\ loaded[a] = None
        /\ want[a] = 0 /\ ~Unusable(AnswerType, data[a], r) =>
             r.value = AsLoaded(said[p])
    BY <1>1, <1>2, <2>1, ReadyToLoad
  <2>4. /\ Whole(p)' = Whole(p)
        /\ Whole(a)' = IF want[a] = 0 /\ ~Unusable(AnswerType, data[a], r)
                       THEN r.value ELSE Whole(a)
    <3> HIDE DEF r
    <3> QED
      BY <1>1, <1>2, <2>2, WholeLoaded
  <2>5. D' = D /\ a \notin D
    BY <1>1, <1>2 DEF Dead, Goto
  <2> HIDE DEF r, D
  <2>6. CASE want[a] = 0 /\ ~Unusable(AnswerType, data[a], r)
    <3>1. Whole(a)' = AsLoaded(said[p]) /\ Whole(a) = None
      BY <2>3, <2>4, <2>6 DEF Whole
    <3>2. Promise!Receive
      BY <1>2, <1>3, <2>4, <2>5, <3>1 DEF Promise!Receive, D
    <3> QED
      BY <3>2 DEF Promise!Next
  <2>7. CASE ~(want[a] = 0 /\ ~Unusable(AnswerType, data[a], r))
    BY <1>2, <2>4, <2>5, <2>7 DEF Promise!vars, D
  <2> QED
    BY <2>6, <2>7
<1> QED
  BY <1>4, <1>5

\* The answerer's load is Serve, or ServeTheDead, or nothing.
LEMMA HandleExchange ==
  ASSUME IInv, LoadInv, Unanswered, Handle
  PROVE  Promise!Next \/ UNCHANGED Promise!vars
<1> DEFINE a == "answerer"
           p == "asker"
           mes == data[a]
           type == RequestType(mes[1])
           r == LoadAs(type, mes)
           bad == Unusable(type, mes, r)
           D == {e \in End : Dead(e)}
<1>1. p = Peer(a) /\ a = Peer(p) /\ p # a /\ End = {a, p} /\ a \in End /\ p \in End
  BY DEF End, Peer
<1>2. /\ pc[a] = "load" /\ Types /\ said \in [End -> Values \cup {None}]
      /\ pc \in [End -> PC]
      /\ UNCHANGED <<caller, left, wire, data, want>>
      /\ \E label \in {"done", "undefined", "length"} : Goto(a, label)
  <2>1. \E label \in {"done", "undefined", "length"} : Goto(a, label)
    BY Zenon DEF Handle, FreeResp
  <2> QED
    BY <2>1 DEF Handle, IInv, Types
<1>3. type \in {None, said[p].type} /\ (type = None => want[a] # 0)
  BY <1>2, FlagRead
<1>4. said[a] = None
  BY <1>2 DEF Unanswered
<1>5. CASE type = None
  <2>1. UNCHANGED <<said, loaded>> /\ ~Dead(a)
    BY <1>2, <1>5 DEF Handle, Dead
  <2> QED
    BY <1>1, <1>2, <2>1, Unnoticed
<1>6. CASE type # None
  <2>1. type = said[p].type
    BY <1>3, <1>6
  <2>2. /\ Loads(a, type, r)
        /\ \/ said' = said
           \/ ~bad /\ \E x \in Replies(r.value) : said' = [said EXCEPT ![a] = x]
    <3>1. /\ Loads(a, type, r)
          /\ IF type = INDEX THEN FreeResp /\ UNCHANGED said
             ELSE IF Unusable(type, mes, r)
             THEN Goto(a, "undefined") /\ UNCHANGED said
             ELSE /\ Goto(a, "length")
                  /\ \E x \in Replies(r.value) : said' = [said EXCEPT ![a] = x]
      BY <1>6, Zenon DEF Handle
    <3> HIDE DEF type, r, mes
    <3> QED
      BY <3>1 DEF bad
  <2>3. /\ loaded[a] = None
        /\ want[a] = 0 /\ ~bad => r.value = AsLoaded(said[p])
        /\ want[a] # 0 => Dead(p)
    BY <1>1, <1>2, <2>1, ReadyToLoad
  <2>4. /\ Whole(p)' = Whole(p)
        /\ Whole(a)' = IF want[a] = 0 /\ ~bad THEN r.value ELSE Whole(a)
    <3>1. Loads(a, type, r) /\ want' = want /\ p # a /\ End = {a, p}
      BY <1>1, <1>2, <2>2
    <3> HIDE DEF r, type
    <3> QED
      BY <3>1, WholeLoaded DEF bad, mes
  <2>5. D' = D /\ a \notin D /\ (want[a] # 0 => p \in D)
    BY <1>1, <1>2, <2>3 DEF Dead, Goto
  <2>6. \A x \in Replies(r.value) : x \in Answers /\ CountsDocument(r.value, x)
    <3>1. COUNT # TEXT /\ COUNT # QUERY_RSL
      BY DEF COUNT, TEXT, QUERY_RSL
    <3> HIDE DEF r
    <3> QED
      BY <3>1, Zenon DEF Replies, CountsDocument
  <2>7. \A x : said' = [said EXCEPT ![a] = x] => said'[p] = said[p] /\ said'[a] = x
    BY <1>1, <1>2
  <2>8. Whole(a) = None
    BY <2>3 DEF Whole
  <2> HIDE DEF r, D, bad
  <2>9. CASE want[a] = 0 /\ ~bad
    <3>1. Whole(a)' = AsLoaded(said[p])
      BY <2>3, <2>4, <2>9
    <3>2. /\ said'[p] = said[p]
          /\ \/ said'[a] = None
             \/ said'[a] \in Answers /\ CountsDocument(AsLoaded(said[p]), said'[a])
      BY <1>4, <2>2, <2>3, <2>6, <2>7, <2>9
    <3>3. CountsDocument(Whole(a)', said'[a]) <=>
            CountsDocument(AsLoaded(said[p]), said'[a])
      BY <3>1
    <3>4. Promise!Serve
      BY <1>4, <2>4, <2>5, <2>8, <3>1, <3>2, <3>3 DEF Promise!Serve, D
    <3> QED
      BY <3>4 DEF Promise!Next
  <2>10. CASE ~(want[a] = 0 /\ ~bad) /\ said' = said
    BY <2>4, <2>5, <2>10 DEF Promise!vars, D
  <2>11. CASE ~(want[a] = 0 /\ ~bad) /\ said' # said
    <3>1. p \in D /\ said'[p] = said[p] /\ said'[a] \in Answers
      BY <2>2, <2>5, <2>6, <2>7, <2>11
    <3>2. Promise!ServeTheDead
      BY <1>4, <2>4, <2>5, <2>8, <2>11, <3>1 DEF Promise!ServeTheDead, D
    <3> QED
      BY <3>2 DEF Promise!Next
  <2> QED
    BY <2>9, <2>10, <2>11
<1> QED
  BY <1>5, <1>6

\* Every step is of the exchange, or none.
LEMMA NextExchange ==
  ASSUME IInv, LoadInv, Unanswered, [Next]_vars
  PROVE  Promise!Next \/ UNCHANGED Promise!vars
<1>1. CASE Next
  <2>1. PICK e \in End : Transfer(e) \/ Load(e) \/ Die(e)
    BY <1>1 DEF Next
  <2>2. Types /\ pc \in [End -> PC] /\ want \in [End -> Nat]
    BY DEF IInv, Types
  <2>3. CASE Load(e)
    BY <2>3, HandleExchange, LoadAnswerExchange DEF Load
  <2>4. CASE Transfer(e) \/ Die(e)
    <3>1. UNCHANGED <<said, loaded>>
      BY <2>4 DEF Transfer, Connect, SendLength, SendSome, RecvLength, RecvNoLength,
                  RecvSome, RecvEnd, Die
    <3>2. ~Dead(e) /\ \E label : Goto(e, label)
      BY <2>4 DEF Transfer, Connect, SendLength, SendSome, RecvLength, RecvNoLength,
                  RecvSome, RecvEnd, Die, Dead
    <3>3. \A x \in End : want'[x] = want[x] \/ loaded[x] = None
      <4>1. ASSUME NEW x \in End, want'[x] # want[x] PROVE loaded[x] = None
        <5>1. x = e /\ pc[e] \in {"wait", "fill"}
          BY <2>2, <2>4, <4>1 DEF Transfer, Connect, SendLength, SendSome, RecvLength,
             RecvNoLength, RecvSome, RecvEnd, Die
        <5>2. pc[e] = "wait" => data[e] = <<>>
          BY TwoEnds DEF IInv, Stream, Quiet, Unread
        <5> QED
          BY <5>1, <5>2 DEF LoadInv, Sound, HasLoaded
      <4> QED
        BY <4>1
    <3> QED
      BY <2>2, <3>1, <3>2, <3>3, Unnoticed
  <2> QED
    BY <2>1, <2>3, <2>4
<1>2. CASE UNCHANGED vars
  BY <1>2 DEF vars, Promise!vars, Whole, Dead
<1> QED
  BY <1>1, <1>2

\* The functions that send and receive, dump and load, are to the two programs
\* what Exchange says: the request is taken in and answered once at most, for
\* what it was, and so is the answer; whatever is lost, somebody died.
THEOREM Refinement == Spec => ExchangeOnly
<1>1. Init => Unanswered /\ Promise!Init
  <2> SUFFICES ASSUME Init PROVE Unanswered /\ Promise!Init
    OBVIOUS
  <2>1. /\ said["asker"] \in {talk.value : talk \in Talks} /\ said["answerer"] = None
        /\ Whole("asker") = None /\ Whole("answerer") = None
        /\ {e \in End : Dead(e)} = {}
    BY DEF Init, Whole, End, Dead
  <2> QED
    BY <2>1 DEF Unanswered, Promise!Init
<1>2. IInv /\ Unanswered /\ [Next]_vars => Unanswered'
  BY NextUnanswered DEF IInv
<1>3. IInv /\ LoadInv /\ Unanswered /\ [Next]_vars => [Promise!Next]_(Promise!vars)
  BY NextExchange
<1> QED
  BY <1>1, <1>2, <1>3, LoadInvHolds, PTL DEF Spec, ExchangeOnly, Promise!Spec

\* The answerer had the request in full when it answered, and its answer is to
\* that.
Understood ==
  /\ Whole("answerer") = AsLoaded(said["asker"])
  /\ CountsDocument(Whole("answerer"), said["answerer"])

\* It may have answered less only to an asker who will not read it.
Answered ==
  /\ said["answerer"] # None => Understood \/ Dead("asker")
  /\ Whole("asker") # None => Understood /\ said["answerer"] # None

\* The exchange alone implies it.
LEMMA ExchangeAnswers ==
  ASSUME Answered, Promise!Next \/ UNCHANGED Promise!vars PROVE Answered'
<1> DEFINE D == {e \in End : Dead(e)}
           Fit(v, u, x) == u = AsLoaded(v) /\ CountsDocument(u, x)
<1>1. /\ Understood <=> Fit(said["asker"], Whole("answerer"), said["answerer"])
      /\ Understood' <=> Fit(said["asker"]', Whole("answerer")', said["answerer"]')
      /\ Dead("asker") <=> "asker" \in D
      /\ Dead("asker")' <=> "asker" \in D'
  BY DEF Understood, End, Dead
<1>2. ASSUME UNCHANGED <<said["asker"], said["answerer"], Whole("answerer")>>,
             D \subseteq D', Whole("asker")' = Whole("asker") \/ ~Dead("asker"),
             Whole("asker")' = Whole("asker") \/ said["answerer"] # None
      PROVE  Answered'
  <2>1. Understood' <=> Understood
    BY <1>1, <1>2
  <2> QED
    BY <1>1, <1>2, <2>1 DEF Answered
<1>3. CASE Promise!Serve
  <2>1. /\ Whole("asker")' = None /\ Whole("answerer")' = AsLoaded(said["asker"])
        /\ said["asker"]' = said["asker"]
        /\ \/ said["answerer"]' = None
           \/ CountsDocument(Whole("answerer")', said["answerer"]')
    BY <1>3 DEF Promise!Serve, Answered
  <2>2. said["answerer"]' # None => Understood'
    BY <1>1, <2>1
  <2> QED
    BY <2>1, <2>2 DEF Answered
<1>4. CASE Promise!ServeTheDead
  <2>1. Whole("asker")' = None /\ "asker" \in D'
    BY <1>4 DEF Promise!ServeTheDead, Answered
  <2> QED
    BY <1>1, <2>1 DEF Answered
<1>5. CASE Promise!Receive
  <2>1. /\ UNCHANGED <<said["asker"], said["answerer"], Whole("answerer"), D>>
        /\ "asker" \notin D /\ said["answerer"] # None
    BY <1>5 DEF Promise!Receive
  <2> QED
    BY <1>1, <1>2, <2>1
<1>6. CASE \E e \in {"asker", "answerer"} : Promise!Die(e)
  BY <1>2, <1>6 DEF Promise!Die
<1>7. CASE UNCHANGED Promise!vars
  BY <1>2, <1>7 DEF Promise!vars
<1> QED
  BY <1>3, <1>4, <1>5, <1>6, <1>7 DEF Promise!Next

\* Whoever gets an answer in full, whether or not the connection was cut or a
\* process died later, gets it to what it asked: of the whole message, and a count
\* of the very document it sent.
THEOREM AnswerIsToRequest == Spec => [](Whole("asker") # None => Understood)
<1>1. Init => Unanswered /\ Answered
  BY DEF Init, Unanswered, Answered, Whole, End
<1>2. IInv /\ Unanswered /\ [Next]_vars => Unanswered'
  BY NextUnanswered DEF IInv
<1>3. IInv /\ LoadInv /\ Unanswered /\ Answered /\ [Next]_vars => Answered'
  BY NextExchange, ExchangeAnswers
<1>4. Answered => (Whole("asker") # None => Understood)
  BY DEF Answered
<1> QED
  BY <1>1, <1>2, <1>3, <1>4, LoadInvHolds, PTL DEF Spec

=============================================================================
