-------------------------- MODULE SharedIndex_proofs -------------------------
(***************************************************************************)
(* Proofs about SharedIndex, with one client: whatever its documents are,  *)
(* how they are named and in which order they are sent, and whoever        *)
(* registers and dumps the index at the same time.                         *)
(***************************************************************************)
EXTENDS SharedIndex, Links_proofs

\* The links and the order of the two kinds of lists.
TNext == [x \in Node |-> tn[x].next]
TPre == [x \in Node |-> tn[x].pre]
DNext == [x \in Node |-> dn[x].next]
DPre == [x \in Node |-> dn[x].pre]
TKey == [x \in Node |-> x[2]]
DKey == [x \in Node |-> name[x[1]]]

\* The nodes that were put into the list of terms, and into that of x.
TNodes == {x \in Node : tn[x].list # NULL}
DNodes(x) == {y \in Node : y[2] = x[2] /\ dn[y].count # 0}

-----------------------------------------------------------------------------
(* The inductive invariant. *)

\* Where an insertion is: in add_count_to_index or insert_doc_to_term, with a
\* term node not yet linked or counted, or with a term that is in the index.
Linking == {"setNext", "setPre", "count", "setBack", "countLast"}
InDocs == {"insert", "before", "docPre", "append", "docBack"}
Published == Linking \cup {"docPre", "docBack"}
Writing == {"first", "walk"} \cup Linking \cup InDocs
Dumping == {"measure", "measureDocs", "again", "write", "docs", "writeDocs", "nextDoc"}
Labels == {"new", "update", "done"} \cup Writing \cup Dumping

HeapTypes ==
  /\ has \in [Doc -> Contents]
  /\ name \in Naming
  /\ index \in [list : Link, len_list : Nat]
  /\ tn \in [Node -> [next : Link, pre : Link, list : Link, len_list : Nat]]
  /\ dn \in [Node -> [next : Link, pre : Link, count : Nat]]
  /\ tnp \in [Doc -> Seq(Term)]
  /\ itnp \in [Doc -> Link]
  /\ dnode_p \in [Doc -> Link]

DumpTypes ==
  /\ M_index \in Thread \cup {NULL}
  /\ tnode \in Link /\ dnode \in Link /\ size \in Nat
  /\ data \in [len_list : Nat, recs : Seq(Nat \X Nat)]
  /\ Len(data.recs) <= size
  /\ dump \in [Thread -> [len_list : Nat, recs : Seq(Nat \X Nat)]]
  /\ pc \in [Thread -> Labels]
  /\ server \in {"running", "undefined"}

\* A client waits for its answers.
Turn == \A d \in Doc : pc[d] # "new" => \A e \in Before[d] : pc[e] = "done"

\* The thread that dumps has the mutex, and is at a node where it reads one.
Lock ==
  \A t \in Thread :
    /\ pc[t] \in Dumping => M_index = t
    /\ pc[t] \in {"measureDocs", "docs", "writeDocs", "nextDoc"} => tnode \in Node
    /\ pc[t] = "nextDoc" => dnode \in Node

\* The terms of d that are not yet in the index.
Left(d) == {tnp[d][j] : j \in (IF pc[d] \in Published THEN 2 ELSE 1)..Len(tnp[d])}

Remaining(d) ==
  /\ \A j \in 1..Len(tnp[d]) : tnp[d][j] \in has[d]
  /\ \A j, k \in 1..Len(tnp[d]) : j < k => tnp[d][j] < tnp[d][k]
  /\ pc[d] \in ({"new"} \cup Writing) \ {"walk"} => tnp[d] # <<>>
  /\ pc[d] \notin {"new"} \cup Writing => tnp[d] = <<>>
  /\ pc[d] = "new" => has[d] = Left(d)

\* Nodes that were not made yet.
Fresh ==
  /\ \A d \in Doc : \A t \in Left(d) : tn[<<d, t>>].list = NULL /\ dn[<<d, t>>].count = 0
  /\ \A x \in Node \ TNodes : tn[x].len_list = 0

\* Every document node is in the list of a term node.
Home == \A y \in Node : dn[y].count # 0 => \E x \in TNodes : x[2] = y[2]

\* The links as they will be once the insertion under way has set them all.
NextOf(d) == IF pc[d] = "setNext" THEN [TNext EXCEPT ![New(d)] = itnp[d]] ELSE TNext
PreOf(d) ==
  IF pc[d] \in {"setNext", "setPre"} THEN [TPre EXCEPT ![itnp[d]] = New(d)]
  ELSE IF pc[d] = "setBack" THEN [TPre EXCEPT ![New(d)] = itnp[d]] ELSE TPre
DPreOf(d) ==
  IF pc[d] = "docPre" THEN [DPre EXCEPT ![dnode_p[d]] = New(d)]
  ELSE IF pc[d] = "docBack" THEN [DPre EXCEPT ![New(d)] = dnode_p[d]] ELSE DPre

\* How far the lengths are behind the list of terms, and ahead of that of x.
Behind(d) == IF pc[d] \in Linking THEN 1 ELSE 0
Ahead(d, x) == IF pc[d] \in {"before", "append"} /\ x = itnp[d] THEN 1 ELSE 0

DocsLinked(d, x) ==
  /\ Linked(DNext, DPreOf(d), DKey, tn[x].list, DNodes(x))
  /\ tn[x].len_list = Cardinality(DNodes(x)) + Ahead(d, x)

TermsLinked(d) ==
  /\ Linked(NextOf(d), PreOf(d), TKey, index.list, TNodes)
  /\ index.len_list + Behind(d) = Cardinality(TNodes)

Order(d) == TermsLinked(d) /\ \A x \in TNodes : DocsLinked(d, x)

\* Where the insertion of the head of tnp is: ahead of itnp there are smaller
\* terms only, and ahead of dnode_p smaller names.
AtTerm(d) ==
  /\ pc[d] = "first" => index.list = NULL
  /\ pc[d] \in Writing \ {"first", "count"} /\ tnp[d] # <<>> => itnp[d] \in TNodes
  /\ pc[d] = "walk" /\ tnp[d] # <<>> =>
       \A y \in TNodes : y[2] < itnp[d][2] => y[2] < Head(tnp[d])
  /\ pc[d] \in Linking => New(d) \in TNodes
  /\ pc[d] \in {"setBack", "countLast"} => tn[itnp[d]].next = New(d)

AtDoc(d) ==
  /\ pc[d] \in InDocs =>
       itnp[d][2] = Head(tnp[d]) /\ dnode_p[d] \in DNodes(itnp[d])
  /\ pc[d] \in {"insert", "before"} =>
       \A y \in DNodes(itnp[d]) : DKey[y] < DKey[dnode_p[d]] => DKey[y] < name[d]
  /\ pc[d] = "before" => name[d] < DKey[dnode_p[d]]
  /\ pc[d] = "append" => DKey[dnode_p[d]] < name[d] /\ dn[dnode_p[d]].next = NULL
  /\ pc[d] \in {"docPre", "docBack"} => dn[New(d)].count # 0

\* d is the only document that is being added, if there is one.
Alone(d) == Adding \subseteq {d}

IInv ==
  /\ HeapTypes /\ DumpTypes /\ Turn /\ Lock /\ Fresh /\ Home
  /\ \A d \in Doc : Remaining(d)
  /\ \A d \in Doc : Alone(d) => Order(d)
  /\ \A d \in Adding : AtTerm(d) /\ AtDoc(d)

-----------------------------------------------------------------------------
(* Constants, and what they say of the values. *)

\* What the assumptions say of threads, nodes and terms.
LEMMA Constants ==
  /\ NULL \notin Node /\ NULL \notin Thread /\ Doc \cap Reg = {}
  /\ Doc \subseteq Thread /\ Reg \subseteq Thread
  /\ Term \subseteq Nat
  /\ \A x \in Node : x[1] \in Doc /\ x[2] \in Term /\ x = <<x[1], x[2]>>
  /\ \A d \in Doc, t \in Term : <<d, t>> \in Node
BY SharedAssumption DEF Node, Thread

\* Sets of nodes are finite, so that they have sizes.
LEMMA NodesFinite ==
  /\ IsFiniteSet(Node)
  /\ \A S \in SUBSET Node : IsFiniteSet(S) /\ Cardinality(S) \in Nat
<1>1. IsFiniteSet(Node)
  BY SharedAssumption, FS_Product DEF Node
<1> QED
  BY <1>1, FS_Subset, FS_CardinalityType

\* The keys the two kinds of lists are sorted by are numbers.
LEMMA Keys ==
  ASSUME HeapTypes
  PROVE  /\ \A d \in Doc : name[d] \in Nat
         /\ \A x \in Node : /\ TKey[x] = x[2] /\ x[2] \in Nat
                            /\ DKey[x] = name[x[1]] /\ DKey[x] \in Nat
<1>1. name \in [Doc -> Nat]
  BY SharedAssumption DEF HeapTypes
<1> QED
  BY <1>1, Constants DEF TKey, DKey

\* What is left of a list without its head.
LEMMA Tails ==
  ASSUME NEW S, NEW s \in Seq(S), s # <<>>
  PROVE  /\ Len(s) \in Nat /\ Len(s) > 0 /\ Head(s) = s[1] /\ Head(s) \in S
         /\ Tail(s) \in Seq(S) /\ Len(Tail(s)) = Len(s) - 1
         /\ \A j \in 1..(Len(s) - 1) : Tail(s)[j] = s[j + 1]
OBVIOUS

\* The terms that are left when the first of s is in the index.
AfterHead(s) == {s[j] : j \in 2..Len(s)}

\* A count's terms ascend, so those behind the head are the bigger ones.
LEMMA TailLeft ==
  ASSUME NEW s \in Seq(Term), s # <<>>,
         \A j, k \in 1..Len(s) : j < k => s[j] < s[k]
  PROVE  /\ {Tail(s)[j] : j \in 1..Len(Tail(s))} = AfterHead(s)
         /\ {s[j] : j \in 1..Len(s)} = AfterHead(s) \cup {Head(s)}
         /\ \A t \in AfterHead(s) : Head(s) < t
         /\ \A j, k \in 1..Len(Tail(s)) : j < k => Tail(s)[j] < Tail(s)[k]
         /\ Tail(s) # <<>> => Head(s) < Head(Tail(s))
<1>1. /\ Len(s) \in Nat /\ Len(s) > 0 /\ Head(s) = s[1]
      /\ Tail(s) \in Seq(Term) /\ Len(Tail(s)) = Len(s) - 1
      /\ \A j \in 1..(Len(s) - 1) : Tail(s)[j] = s[j + 1]
  BY Tails
<1> DEFINE r == Tail(s)
<1> HIDE DEF r
<1>2. {r[j] : j \in 1..Len(r)} = AfterHead(s)
  <2>1. \A j \in 1..Len(r) : j + 1 \in 2..Len(s) /\ r[j] = s[j + 1]
    BY <1>1 DEF r
  <2>2. \A j \in 2..Len(s) : j - 1 \in 1..Len(r) /\ r[j - 1] = s[j]
    BY <1>1 DEF r
  <2> QED
    BY <2>1, <2>2 DEF AfterHead
<1>3. {s[j] : j \in 1..Len(s)} = AfterHead(s) \cup {Head(s)}
  <2>1. \A j \in 1..Len(s) : j = 1 \/ j \in 2..Len(s)
    BY <1>1
  <2>2. 1 \in 1..Len(s) /\ \A j \in 2..Len(s) : j \in 1..Len(s)
    BY <1>1
  <2> QED
    BY <1>1, <2>1, <2>2 DEF AfterHead
<1>4. \A t \in AfterHead(s) : Head(s) < t
  <2>1. \A j \in 2..Len(s) : j \in 1..Len(s) /\ 1 \in 1..Len(s) /\ 1 < j
    BY <1>1
  <2> QED
    BY <1>1, <2>1 DEF AfterHead
<1>5. ASSUME NEW j \in 1..Len(r), NEW k \in 1..Len(r), j < k PROVE r[j] < r[k]
  <2>1. /\ j + 1 \in 1..Len(s) /\ k + 1 \in 1..Len(s) /\ j + 1 < k + 1
        /\ r[j] = s[j + 1] /\ r[k] = s[k + 1]
    BY <1>1, <1>5 DEF r
  <2> QED
    BY <2>1
<1>6. r # <<>> => Head(s) < Head(r)
  <2>1. r # <<>> => Head(r) = r[1] /\ 1 \in 1..Len(r)
    BY <1>1 DEF r
  <2> QED
    BY <1>2, <1>4, <2>1
<1> QED
  BY <1>2, <1>3, <1>4, <1>5, <1>6 DEF r

-----------------------------------------------------------------------------
(* One writer. *)

\* Documents of one client are added one at a time.
LEMMA OneWriter ==
  ASSUME SingleClient, Turn, NEW d \in Adding PROVE Alone(d)
<1> SUFFICES ASSUME NEW e \in Adding, e # d PROVE FALSE
  BY DEF Alone
<1>1. d \in Doc /\ e \in Doc /\ pc[d] \notin {"new", "done"} /\ pc[e] \notin {"new", "done"}
  BY DEF Adding
<1>2. d \in Before[e] \/ e \in Before[d]
  BY <1>1 DEF SingleClient
<1> QED
  BY <1>1, <1>2 DEF Turn

\* Who may begin finds nobody adding.
LEMMA NoWriter ==
  ASSUME SingleClient, Turn, NEW d \in Doc, pc[d] = "new", \A e \in Before[d] : pc[e] = "done"
  PROVE  Adding = {}
<1> SUFFICES ASSUME NEW e \in Adding PROVE FALSE
  OBVIOUS
<1>1. e \in Doc /\ pc[e] \notin {"new", "done"}
  BY DEF Adding
<1>2. d \in Before[e] \/ e \in Before[d]
  BY <1>1 DEF SingleClient
<1> QED
  BY <1>1, <1>2 DEF Turn

\* The documents that are being added, by their places.
LEMMA AddingIs == Adding = {d \in Doc : pc[d] \in Writing}
BY DEF Adding, Writing, Linking, InDocs

\* What is known when d is being added.
LEMMA Writer ==
  ASSUME SingleClient, IInv, NEW d \in Adding
  PROVE  /\ d \in Doc /\ d \in Thread /\ pc[d] \in Writing /\ Alone(d)
         /\ Remaining(d) /\ Order(d) /\ AtTerm(d) /\ AtDoc(d)
         /\ HeapTypes /\ DumpTypes /\ name[d] \in Nat /\ tnp[d] \in Seq(Term)
         /\ pc[d] # "walk" => tnp[d] # <<>>
         /\ tnp[d] # <<>> =>
              /\ Head(tnp[d]) \in Term /\ Head(tnp[d]) \in Nat
              /\ New(d) = <<d, Head(tnp[d])>> /\ New(d) \in Node /\ New(d) # NULL
              /\ New(d)[1] = d /\ New(d)[2] = Head(tnp[d])
              /\ TKey[New(d)] = Head(tnp[d]) /\ DKey[New(d)] = name[d]
<1>1. d \in Doc /\ pc[d] \in Writing /\ d \in Thread
  BY AddingIs, Constants
<1>2. Alone(d)
  BY OneWriter DEF IInv
<1>3. HeapTypes /\ DumpTypes /\ Remaining(d) /\ Order(d) /\ AtTerm(d) /\ AtDoc(d)
  BY <1>1, <1>2 DEF IInv
<1>4. tnp[d] \in Seq(Term) /\ name[d] \in Nat
  BY <1>1, <1>3, Keys DEF HeapTypes
<1>5. pc[d] # "walk" => tnp[d] # <<>>
  BY <1>1, <1>3 DEF Remaining
<1>6. tnp[d] # <<>> => Head(tnp[d]) \in Term /\ Head(tnp[d]) \in Nat
  BY <1>4, Constants
<1>7. ASSUME tnp[d] # <<>>
      PROVE  /\ New(d) = <<d, Head(tnp[d])>> /\ New(d) \in Node /\ New(d) # NULL
             /\ New(d)[1] = d /\ New(d)[2] = Head(tnp[d])
             /\ TKey[New(d)] = Head(tnp[d]) /\ DKey[New(d)] = name[d]
  <2>1. New(d) = <<d, Head(tnp[d])>>
    BY DEF New
  <2>2. New(d) \in Node /\ New(d) # NULL
    BY <1>1, <1>6, <1>7, <2>1, Constants
  <2>3. New(d)[1] = d /\ New(d)[2] = Head(tnp[d])
    BY <2>1
  <2> QED
    BY <1>3, <2>1, <2>2, <2>3, Keys
<1> QED
  BY <1>1, <1>2, <1>3, <1>4, <1>5, <1>6, <1>7

\* A step of the insertion changes the index and the insertion's own place.
LEMMA WriterKeeps ==
  ASSUME SingleClient, IInv, NEW d \in Adding, NEW l \in Writing,
         pc' = [pc EXCEPT ![d] = l], UNCHANGED <<inputs, dumping, server>>,
         \A e \in Doc : e # d => tnp'[e] = tnp[e],
         HeapTypes', Fresh', Home', Remaining(d)', Order(d)', AtTerm(d)', AtDoc(d)'
  PROVE  IInv'
<1>1. /\ d \in Doc /\ d \in Thread /\ pc[d] \in Writing /\ Alone(d) /\ DumpTypes
      /\ Adding = {d}
  BY Writer DEF Alone
<1>2. /\ pc \in [Thread -> Labels] /\ pc'[d] = l
      /\ \A t \in Thread : t # d => pc'[t] = pc[t]
      /\ l \notin Dumping /\ l \notin {"new", "done"} /\ pc[d] \notin {"new", "done"}
  BY <1>1 DEF DumpTypes, Writing, Linking, InDocs, Dumping
<1>3. Adding' = {d}
  <2>1. \A e \in Doc : e \in Thread
    BY Constants
  <2>2. \A e \in Doc : pc'[e] \in Writing <=> pc[e] \in Writing
    BY <1>1, <1>2, <2>1
  <2>3. Adding' = {e \in Doc : pc'[e] \in Writing}
    BY DEF Adding, Writing, Linking, InDocs
  <2> QED
    BY <1>1, <2>2, <2>3, AddingIs
<1>4. DumpTypes'
  <2>1. pc' \in [Thread -> Labels]
    BY <1>1, <1>2 DEF Labels
  <2> QED
    BY <1>1, <2>1 DEF DumpTypes, dumping
<1>5. Turn'
  <2>1. \A e \in Doc : e \in Thread
    BY Constants
  <2>2. \A e \in Doc : \A c \in Before[e] : c \in Doc
    BY SharedAssumption
  <2> QED
    BY <1>1, <1>2, <2>1, <2>2 DEF IInv, Turn
<1>6. Lock'
  <2>1. pc'[d] \notin {"measureDocs", "docs", "writeDocs", "nextDoc"}
    BY <1>2 DEF Dumping
  <2> QED
    BY <1>2, <2>1 DEF IInv, Lock, dumping
<1>7. \A e \in Doc : Remaining(e)'
  <2> SUFFICES ASSUME NEW e \in Doc, e # d PROVE Remaining(e)'
    OBVIOUS
  <2>1. pc'[e] = pc[e] /\ tnp'[e] = tnp[e] /\ has' = has
    BY <1>2, Constants DEF inputs
  <2>2. Left(e)' = Left(e)
    BY <2>1 DEF Left
  <2> QED
    BY <2>1, <2>2 DEF IInv, Remaining
<1>8. \A e \in Doc : Alone(e)' => Order(e)'
  BY <1>3 DEF Alone
<1>9. \A e \in Adding' : AtTerm(e)' /\ AtDoc(e)'
  BY <1>3
<1> QED
  BY <1>4, <1>5, <1>6, <1>7, <1>8, <1>9 DEF IInv

\* Lists that nothing touches, looked at by a document whose place in them is
\* the same, stay in order.
LEMMA OrderStays ==
  ASSUME NEW d \in Doc, name' = name, index' = index, tn' = tn, dn' = dn,
         NextOf(d)' = NextOf(d), PreOf(d)' = PreOf(d), DPreOf(d)' = DPreOf(d),
         Behind(d)' = Behind(d), \A x : Ahead(d, x)' = Ahead(d, x), Order(d)
  PROVE  Order(d)'
<1>1. /\ TNodes' = TNodes /\ DNext' = DNext /\ TKey' = TKey /\ DKey' = DKey
      /\ \A x : DNodes(x)' = DNodes(x)
  BY DEF TNodes, DNext, TKey, DKey, DNodes
<1>2. TermsLinked(d)'
  BY <1>1 DEF Order, TermsLinked
<1>3. ASSUME NEW x \in TNodes PROVE DocsLinked(d, x)'
  <2>1. DocsLinked(d, x)
    BY DEF Order
  <2>2. DNodes(x)' = DNodes(x) /\ Ahead(d, x)' = Ahead(d, x)
    BY <1>1
  <2> QED
    BY <1>1, <2>1, <2>2 DEF DocsLinked
<1> QED
  BY <1>1, <1>2, <1>3 DEF Order

\* A step that leaves the index and the insertions alone.
LEMMA ReaderKeeps ==
  ASSUME IInv, UNCHANGED <<inputs, heap, adding>>, DumpTypes', Lock', Turn',
         \A d \in Doc : pc'[d] = pc[d] \/ {pc[d], pc'[d]} \cap ({"new"} \cup Writing) = {}
  PROVE  IInv'
<1>1. HeapTypes' /\ Home'
  BY DEF IInv, HeapTypes, Home, TNodes, inputs, heap, adding
<1>2. Adding' = Adding
  <2>1. Adding' = {e \in Doc : pc'[e] \in Writing}
    BY DEF Adding, Writing, Linking, InDocs
  <2> QED
    BY <2>1, AddingIs
<1>3. ASSUME NEW d \in Doc
      PROVE  /\ Left(d)' = Left(d) /\ Remaining(d)'
             /\ Order(d) => Order(d)'
  <2>0. /\ tnp' = tnp /\ has' = has /\ name' = name /\ index' = index /\ tn' = tn /\ dn' = dn
        /\ itnp' = itnp /\ dnode_p' = dnode_p
    BY DEF inputs, heap, adding
  <2>1. CASE pc'[d] = pc[d]
    <3>1. Left(d)' = Left(d)
      BY <2>0, <2>1 DEF Left
    <3>2. Remaining(d)'
      BY <2>0, <2>1, <3>1 DEF IInv, Remaining
    <3>3. /\ NextOf(d)' = NextOf(d) /\ PreOf(d)' = PreOf(d) /\ DPreOf(d)' = DPreOf(d)
          /\ Behind(d)' = Behind(d) /\ \A x : Ahead(d, x)' = Ahead(d, x)
      BY <2>0, <2>1 DEF NextOf, PreOf, DPreOf, TNext, TPre, DNext, DPre, Behind, Ahead, New
    <3>4. Order(d) => Order(d)'
      BY <2>0, <3>3, OrderStays
    <3> QED
      BY <3>1, <3>2, <3>4
  <2>2. CASE {pc[d], pc'[d]} \cap ({"new"} \cup Writing) = {}
    <3>0. /\ pc[d] \notin Published /\ pc'[d] \notin Published
          /\ pc[d] \notin Linking /\ pc'[d] \notin Linking
          /\ pc[d] \notin {"before", "append", "setNext", "setPre", "setBack", "docPre", "docBack"}
          /\ pc'[d] \notin {"before", "append", "setNext", "setPre", "setBack", "docPre", "docBack"}
      BY <2>2 DEF Published, Writing, Linking, InDocs
    <3>1. Left(d)' = Left(d)
      BY <2>0, <3>0 DEF Left
    <3>2. Remaining(d)'
      <4>1. Remaining(d) /\ tnp[d] = <<>>
        BY <2>2 DEF IInv, Remaining
      <4> QED
        BY <2>0, <2>2, <4>1 DEF Remaining
    <3>3. /\ NextOf(d)' = NextOf(d) /\ PreOf(d)' = PreOf(d) /\ DPreOf(d)' = DPreOf(d)
          /\ Behind(d)' = Behind(d) /\ \A x : Ahead(d, x)' = Ahead(d, x)
      BY <2>0, <3>0 DEF NextOf, PreOf, DPreOf, TNext, TPre, DNext, DPre, Behind, Ahead
    <3>4. Order(d) => Order(d)'
      BY <2>0, <3>3, OrderStays
    <3> QED
      BY <3>1, <3>2, <3>4
  <2> QED
    BY <2>1, <2>2
<1>4. Fresh'
  <2>1. tn' = tn /\ dn' = dn /\ Fresh
    BY DEF heap, IInv
  <2>2. TNodes' = TNodes
    BY <2>1 DEF TNodes
  <2> QED
    BY <1>3, <2>1, <2>2 DEF Fresh
<1>5. \A d \in Doc : Alone(d)' => Order(d)'
  BY <1>2, <1>3 DEF Alone, IInv
<1>6. \A d \in Adding' : AtTerm(d)' /\ AtDoc(d)'
  <2> SUFFICES ASSUME NEW d \in Adding PROVE AtTerm(d)' /\ AtDoc(d)'
    BY <1>2
  <2>1. /\ pc'[d] = pc[d] /\ AtTerm(d) /\ AtDoc(d)
        /\ tnp' = tnp /\ has' = has /\ name' = name /\ index' = index /\ tn' = tn /\ dn' = dn
        /\ itnp' = itnp /\ dnode_p' = dnode_p
    BY AddingIs DEF IInv, inputs, heap, adding
  <2>2. AtTerm(d)'
    BY <2>1 DEF AtTerm, TNodes, New
  <2>3. AtDoc(d)'
    BY <2>1 DEF AtDoc, DNodes, DKey, New
  <2> QED
    BY <2>2, <2>3
<1> QED
  BY <1>1, <1>3, <1>4, <1>5, <1>6 DEF IInv

-----------------------------------------------------------------------------
(* The steps of a dump. *)

\* A thread that has the mutex, or takes it, goes on to l.
LEMMA DumpKeeps ==
  ASSUME IInv, NEW t \in Thread, NEW l \in Dumping \cup {"done"},
         pc[t] \in Dumping \/ (pc[t] = "update" /\ M_index = NULL),
         pc' = [pc EXCEPT ![t] = l], UNCHANGED <<inputs, heap, adding>>,
         l \in Dumping => M_index' = t, DumpTypes',
         l \in {"measureDocs", "docs", "writeDocs", "nextDoc"} => tnode' \in Node,
         l = "nextDoc" => dnode' \in Node
  PROVE  IInv'
<1>1. /\ pc \in [Thread -> Labels] /\ pc'[t] = l
      /\ \A r \in Thread : r # t => pc'[r] = pc[r]
      /\ pc[t] \notin {"new", "done"} \cup Writing /\ l \notin {"new"} \cup Writing
  BY DEF IInv, DumpTypes, Writing, Linking, InDocs, Dumping
<1>2. \A r \in Thread : pc[r] \in Dumping => r = t
  BY Constants DEF IInv, Lock
<1>3. Lock'
  <2> SUFFICES ASSUME NEW r \in Thread
               PROVE  /\ pc'[r] \in Dumping => M_index' = r
                      /\ pc'[r] \in {"measureDocs", "docs", "writeDocs", "nextDoc"} => tnode' \in Node
                      /\ pc'[r] = "nextDoc" => dnode' \in Node
    BY DEF Lock, Node
  <2>1. CASE r = t
    BY <1>1, <2>1
  <2>2. CASE r # t
    <3>1. pc'[r] \notin Dumping
      BY <1>1, <1>2, <2>2
    <3> QED
      BY <3>1 DEF Dumping
  <2> QED
    BY <2>1, <2>2
<1>4. Turn'
  <2>1. \A d \in Doc : d \in Thread
    BY Constants
  <2>2. \A d \in Doc : \A c \in Before[d] : c \in Doc
    BY SharedAssumption
  <2>3. \A r \in Thread : (pc'[r] # "new" => pc[r] # "new") /\ (pc[r] = "done" => pc'[r] = "done")
    BY <1>1
  <2> QED
    BY <2>1, <2>2, <2>3 DEF IInv, Turn
<1>5. \A d \in Doc : pc'[d] = pc[d] \/ {pc[d], pc'[d]} \cap ({"new"} \cup Writing) = {}
  BY <1>1, Constants
<1> QED
  BY <1>3, <1>4, <1>5, ReaderKeeps

\* The links and the first nodes of lists, where the dump follows them.
LEMMA Followed ==
  ASSUME IInv
  PROVE  /\ \A x \in Node : /\ tn[x].next \in Link /\ tn[x].list \in Link
                            /\ tn[x].len_list \in Nat /\ dn[x].next \in Link
                            /\ dn[x].count \in Nat
         /\ index.list \in Link /\ index.len_list \in Nat
         /\ \A x \in Link : x # NULL => x \in Node
BY DEF IInv, HeapTypes, Link

\* A registration comes to its do_update.
LEMMA DoRegKeeps ==
  ASSUME IInv, NEW c \in Reg, DoReg(c) PROVE IInv'
<1>1. /\ pc[c] = "new" /\ pc' = [pc EXCEPT ![c] = "update"]
      /\ UNCHANGED <<inputs, heap, adding, dumping, server>>
  BY DEF DoReg, At, Goto
<1>2. /\ pc \in [Thread -> Labels] /\ c \in Thread /\ \A d \in Doc : d \in Thread /\ d # c
      /\ pc'[c] = "update" /\ \A t \in Thread : t # c => pc'[t] = pc[t]
  BY <1>1, Constants DEF IInv, DumpTypes
<1>3. DumpTypes'
  <2>1. pc' \in [Thread -> Labels]
    BY <1>1, <1>2 DEF Labels
  <2> QED
    BY <1>1, <2>1 DEF IInv, DumpTypes, dumping
<1>4. Lock'
  BY <1>1, <1>2 DEF IInv, Lock, dumping, Dumping
<1>5. Turn'
  <2>1. \A d \in Doc : \A e \in Before[d] : e \in Doc
    BY SharedAssumption
  <2> QED
    BY <1>2, <2>1 DEF IInv, Turn
<1> QED
  BY <1>1, <1>2, <1>3, <1>4, <1>5, ReaderKeeps

\* Of the variables that a dump changes, those of its types.
LEMMA DumpTyped ==
  ASSUME IInv, NEW t \in Thread, NEW l \in Labels, pc' = [pc EXCEPT ![t] = l],
         M_index' \in Thread \cup {NULL}, tnode' \in Link, dnode' \in Link, size' \in Nat,
         data' \in [len_list : Nat, recs : Seq(Nat \X Nat)], Len(data'.recs) <= size',
         dump' \in [Thread -> [len_list : Nat, recs : Seq(Nat \X Nat)]],
         server' \in {"running", "undefined"}
  PROVE  DumpTypes'
<1>1. pc' \in [Thread -> Labels]
  BY DEF IInv, DumpTypes
<1>2. Link' = Link /\ Thread' = Thread
  BY DEF Link, Node, Thread
<1> QED
  BY <1>1, <1>2 DEF DumpTypes

\* The first pass of a dump changes no list.
LEMMA Measuring ==
  ASSUME IInv, NEW t \in Thread, LockIndex(t) \/ MeasureTerm(t) \/ MeasureDoc(t)
  PROVE  IInv'
<1>0. /\ pc \in [Thread -> Labels] /\ M_index \in Thread \cup {NULL}
      /\ tnode \in Link /\ dnode \in Link /\ size \in Nat
      /\ data \in [len_list : Nat, recs : Seq(Nat \X Nat)] /\ Len(data.recs) <= size
      /\ dump \in [Thread -> [len_list : Nat, recs : Seq(Nat \X Nat)]]
      /\ server \in {"running", "undefined"}
  BY DEF IInv, DumpTypes
<1>1. /\ Dumping \cup {"done"} \subseteq Labels
      /\ {"measure", "measureDocs"} \subseteq Dumping
  BY DEF Labels, Dumping
<1>2. pc[t] \in Dumping => M_index = t
  BY DEF IInv, Lock
<1>3. CASE LockIndex(t)
  <2>1. /\ pc[t] = "update" /\ M_index = NULL /\ M_index' = t
        /\ pc' = [pc EXCEPT ![t] = "measure"]
        /\ UNCHANGED <<inputs, heap, adding, dnode, dump, server>>
        /\ tnode' = index.list /\ size' = 0 /\ data' = [len_list |-> 0, recs |-> <<>>]
    BY <1>3 DEF LockIndex, At, Goto
  <2>2. tnode' \in Link
    BY <2>1, Followed
  <2>3. DumpTypes'
    <3>1. /\ data' \in [len_list : Nat, recs : Seq(Nat \X Nat)] /\ Len(data'.recs) = 0
          /\ 0 <= size'
      BY <2>1
    <3> QED
      BY <1>0, <1>1, <2>1, <2>2, <3>1, DumpTyped
  <2> QED
    BY <1>1, <2>1, <2>3, DumpKeeps DEF Dumping
<1>4. CASE MeasureTerm(t)
  <2>1. /\ pc[t] = "measure" /\ pc' = [pc EXCEPT ![t] = "measureDocs"] /\ tnode # NULL
        /\ size' = size + 1 /\ dnode' = tn[tnode].list
        /\ UNCHANGED <<inputs, heap, adding, M_index, tnode, data, dump, server>>
    BY <1>4 DEF MeasureTerm, At, Goto
  <2>2. tnode \in Node /\ dnode' \in Link
    BY <1>0, <2>1, Followed
  <2>3. DumpTypes'
    <3>1. size' \in Nat /\ Len(data'.recs) <= size'
      BY <1>0, <2>1
    <3> QED
      BY <1>0, <1>1, <2>1, <2>2, <3>1, DumpTyped
  <2> QED
    BY <1>1, <1>2, <2>1, <2>2, <2>3, DumpKeeps DEF Dumping
<1>5. CASE MeasureDoc(t)
  <2>1. /\ pc[t] = "measureDocs"
        /\ UNCHANGED <<inputs, heap, adding, M_index, data, dump, server>>
        /\ \/ /\ dnode # NULL /\ size' = size + 1 /\ dnode' = dn[dnode].next
              /\ tnode' = tnode /\ pc' = pc
           \/ /\ tnode' = tn[tnode].next /\ pc' = [pc EXCEPT ![t] = "measure"]
              /\ size' = size /\ dnode' = dnode
    BY <1>5 DEF MeasureDoc, At, Goto
  <2>2. tnode \in Node
    BY <2>1 DEF IInv, Lock
  <2>3. PICK l \in {"measure", "measureDocs"} :
          pc' = [pc EXCEPT ![t] = l] /\ (l = "measureDocs" => tnode' = tnode)
    <3>1. pc' = pc => pc' = [pc EXCEPT ![t] = "measureDocs"]
      BY <1>0, <2>1
    <3> QED
      BY <2>1, <3>1
  <2>4. tnode' \in Link /\ dnode' \in Link
    BY <1>0, <2>1, <2>2, Followed
  <2>5. DumpTypes'
    <3>1. size' \in Nat /\ Len(data'.recs) <= size'
      BY <1>0, <2>1
    <3> QED
      BY <1>0, <1>1, <2>1, <2>3, <2>4, <3>1, DumpTyped
  <2> QED
    BY <1>1, <1>2, <2>1, <2>2, <2>3, <2>5, DumpKeeps DEF Dumping
<1> QED
  BY <1>3, <1>4, <1>5

\* A record is written, or the dump is beyond its memory and goes no further.
LEMMA PutKeeps ==
  ASSUME IInv, NEW t \in Thread, NEW l \in {"docs", "nextDoc"}, pc[t] \in Dumping,
         NEW string \in Nat, NEW number \in Nat, Put(t, string, number, l),
         UNCHANGED <<inputs, heap, adding, M_index, tnode, dnode, size, dump>>,
         tnode \in Node, l = "nextDoc" => dnode \in Node, pc[t] = "write" \/ l = "nextDoc"
  PROVE  IInv'
<1>0. /\ pc \in [Thread -> Labels] /\ M_index \in Thread \cup {NULL}
      /\ tnode \in Link /\ dnode \in Link /\ size \in Nat
      /\ data \in [len_list : Nat, recs : Seq(Nat \X Nat)] /\ Len(data.recs) <= size
      /\ dump \in [Thread -> [len_list : Nat, recs : Seq(Nat \X Nat)]]
      /\ server \in {"running", "undefined"}
  BY DEF IInv, DumpTypes
<1>1. M_index = t /\ Dumping \subseteq Labels /\ l \in Dumping
  BY DEF IInv, Lock, Labels, Dumping
<1>2. CASE Len(data.recs) < size
  <2>1. /\ data' = [data EXCEPT !.recs = Append(data.recs, <<string, number>>)]
        /\ pc' = [pc EXCEPT ![t] = l] /\ server' = server
    BY <1>2 DEF Put, Goto
  <2>2. data' \in [len_list : Nat, recs : Seq(Nat \X Nat)] /\ Len(data'.recs) <= size
    <3>1. <<string, number>> \in Nat \X Nat /\ data.recs \in Seq(Nat \X Nat)
      BY <1>0
    <3> DEFINE longer == Append(data.recs, <<string, number>>)
    <3>2. longer \in Seq(Nat \X Nat) /\ Len(longer) = Len(data.recs) + 1
      BY <3>1
    <3> HIDE DEF longer
    <3>3. data'.recs = longer /\ data' \in [len_list : Nat, recs : Seq(Nat \X Nat)]
      BY <1>0, <2>1, <3>2 DEF longer
    <3>4. Len(data.recs) \in Nat
      BY <1>0
    <3> QED
      BY <1>0, <1>2, <3>2, <3>3, <3>4
  <2>3. DumpTypes'
    BY <1>0, <1>1, <2>1, <2>2, DumpTyped
  <2> QED
    BY <1>1, <2>1, <2>3, DumpKeeps DEF Dumping
<1>3. CASE ~(Len(data.recs) < size)
  <2>1. server' = "undefined" /\ data' = data /\ pc' = [pc EXCEPT ![t] = pc[t]]
    BY <1>0, <1>3 DEF Put
  <2>2. DumpTypes'
    BY <1>0, <1>1, <2>1, DumpTyped
  <2>3. /\ pc[t] \in {"measureDocs", "docs", "writeDocs", "nextDoc"} => tnode' \in Node
        /\ pc[t] = "nextDoc" => dnode' \in Node
    BY DEF IInv, Lock
  <2> QED
    BY <1>1, <2>1, <2>2, <2>3, DumpKeeps
<1> QED
  BY <1>2, <1>3

\* A record of a dump changes no list.
LEMMA WritingRecords ==
  ASSUME IInv, NEW t \in Thread, WriteTerm(t) \/ WriteDoc(t)
  PROVE  IInv'
<1>0. tnode \in Link /\ dnode \in Link
  BY DEF IInv, DumpTypes
<1>1. CASE WriteTerm(t)
  <2>1. /\ pc[t] = "write" /\ tnode # NULL /\ Put(t, TermOf(tnode), tn[tnode].len_list, "docs")
        /\ UNCHANGED <<inputs, heap, adding, M_index, tnode, dnode, size, dump>>
    BY <1>1 DEF WriteTerm, At
  <2>2. tnode \in Node /\ TermOf(tnode) \in Nat /\ tn[tnode].len_list \in Nat
    BY <1>0, <2>1, Followed, Keys DEF TermOf, IInv
  <2> QED
    BY <2>1, <2>2, PutKeeps DEF Dumping
<1>2. CASE WriteDoc(t)
  <2>1. /\ pc[t] = "writeDocs" /\ dnode # NULL /\ Put(t, NameOf(dnode), dn[dnode].count, "nextDoc")
        /\ UNCHANGED <<inputs, heap, adding, M_index, tnode, dnode, size, dump>>
    BY <1>2 DEF WriteDoc, At
  <2>2. dnode \in Node /\ NameOf(dnode) \in Nat /\ dn[dnode].count \in Nat
    BY <1>0, <2>1, Followed, Keys DEF NameOf, IInv
  <2>3. tnode \in Node
    BY <2>1 DEF IInv, Lock
  <2> QED
    BY <2>1, <2>2, <2>3, PutKeeps DEF Dumping
<1> QED
  BY <1>1, <1>2

\* The other steps of the second pass change no list.
LEMMA WritingWalks ==
  ASSUME IInv, NEW t \in Thread,
         \/ WriteLength(t) \/ ListAgain(t) \/ FirstDoc(t) \/ AfterDoc(t) \/ AfterTerm(t)
         \/ Dumped(t)
  PROVE  IInv'
<1>0. /\ pc \in [Thread -> Labels] /\ M_index \in Thread \cup {NULL}
      /\ tnode \in Link /\ dnode \in Link /\ size \in Nat
      /\ data \in [len_list : Nat, recs : Seq(Nat \X Nat)] /\ Len(data.recs) <= size
      /\ dump \in [Thread -> [len_list : Nat, recs : Seq(Nat \X Nat)]]
      /\ server \in {"running", "undefined"}
  BY DEF IInv, DumpTypes
<1>1. /\ Dumping \cup {"done"} \subseteq Labels
      /\ {"again", "write", "writeDocs"} \subseteq Dumping
  BY DEF Labels, Dumping
<1>2. /\ pc[t] \in Dumping => M_index = t
      /\ pc[t] \in {"measureDocs", "docs", "writeDocs", "nextDoc"} => tnode \in Node
      /\ pc[t] = "nextDoc" => dnode \in Node
  BY DEF IInv, Lock
<1>3. CASE WriteLength(t)
  <2>1. /\ pc[t] = "measure" /\ pc' = [pc EXCEPT ![t] = "again"]
        /\ data' = [len_list |-> index.len_list, recs |-> <<>>]
        /\ UNCHANGED <<inputs, heap, adding, M_index, tnode, dnode, size, dump, server>>
    BY <1>3 DEF WriteLength, At, Goto
  <2>2. data' \in [len_list : Nat, recs : Seq(Nat \X Nat)] /\ Len(data'.recs) = 0
    BY <2>1, Followed
  <2>3. Len(data'.recs) <= size'
    BY <1>0, <2>1, <2>2
  <2>4. DumpTypes'
    BY <1>0, <1>1, <2>1, <2>2, <2>3, DumpTyped
  <2> QED
    BY <1>1, <1>2, <2>1, <2>4, DumpKeeps DEF Dumping
<1>4. CASE ListAgain(t)
  <2>1. /\ pc[t] = "again" /\ pc' = [pc EXCEPT ![t] = "write"] /\ tnode' = index.list
        /\ UNCHANGED <<inputs, heap, adding, M_index, dnode, size, data, dump, server>>
    BY <1>4 DEF ListAgain, At, Goto
  <2>2. tnode' \in Link
    BY <2>1, Followed
  <2>3. DumpTypes'
    BY <1>0, <1>1, <2>1, <2>2, DumpTyped
  <2> QED
    BY <1>1, <1>2, <2>1, <2>3, DumpKeeps DEF Dumping
<1>5. CASE FirstDoc(t)
  <2>1. /\ pc[t] = "docs" /\ pc' = [pc EXCEPT ![t] = "writeDocs"] /\ dnode' = tn[tnode].list
        /\ UNCHANGED <<inputs, heap, adding, M_index, tnode, size, data, dump, server>>
    BY <1>5 DEF FirstDoc, At, Goto
  <2>2. tnode \in Node /\ dnode' \in Link
    BY <1>2, <2>1, Followed
  <2>3. DumpTypes'
    BY <1>0, <1>1, <2>1, <2>2, DumpTyped
  <2> QED
    BY <1>1, <1>2, <2>1, <2>2, <2>3, DumpKeeps DEF Dumping
<1>6. CASE AfterDoc(t)
  <2>1. /\ pc[t] = "nextDoc" /\ pc' = [pc EXCEPT ![t] = "writeDocs"] /\ dnode' = dn[dnode].next
        /\ UNCHANGED <<inputs, heap, adding, M_index, tnode, size, data, dump, server>>
    BY <1>6 DEF AfterDoc, At, Goto
  <2>2. tnode \in Node /\ dnode' \in Link
    BY <1>2, <2>1, Followed
  <2>3. DumpTypes'
    BY <1>0, <1>1, <2>1, <2>2, DumpTyped
  <2> QED
    BY <1>1, <1>2, <2>1, <2>2, <2>3, DumpKeeps DEF Dumping
<1>7. CASE AfterTerm(t)
  <2>1. /\ pc[t] = "writeDocs" /\ pc' = [pc EXCEPT ![t] = "write"] /\ tnode' = tn[tnode].next
        /\ UNCHANGED <<inputs, heap, adding, M_index, dnode, size, data, dump, server>>
    BY <1>7 DEF AfterTerm, At, Goto
  <2>2. tnode \in Node /\ tnode' \in Link
    BY <1>2, <2>1, Followed
  <2>3. DumpTypes'
    BY <1>0, <1>1, <2>1, <2>2, DumpTyped
  <2> QED
    BY <1>1, <1>2, <2>1, <2>3, DumpKeeps DEF Dumping
<1>8. CASE Dumped(t)
  <2>1. /\ pc[t] = "write" /\ pc' = [pc EXCEPT ![t] = "done"] /\ M_index' = NULL
        /\ dump' = [dump EXCEPT ![t] = data]
        /\ UNCHANGED <<inputs, heap, adding, tnode, dnode, size, data, server>>
    BY <1>8 DEF Dumped, Released, At, Goto
  <2>2. dump' \in [Thread -> [len_list : Nat, recs : Seq(Nat \X Nat)]]
    BY <1>0, <2>1
  <2>3. DumpTypes'
    BY <1>0, <1>1, <2>1, <2>2, DumpTyped
  <2> QED
    BY <1>1, <1>2, <2>1, <2>3, DumpKeeps DEF Dumping
<1> QED
  BY <1>3, <1>4, <1>5, <1>6, <1>7, <1>8

-----------------------------------------------------------------------------
(* An insertion begins, and ends. *)

\* No link and no length is half set.
Whole(d) == pc[d] \notin Linking \cup {"before", "append", "docPre", "docBack"}

\* Between two insertions the lists look the same to every document.
LEMMA WholeOrder ==
  ASSUME NEW d, NEW e, Whole(d), Whole(e)', UNCHANGED <<inputs, heap>>, Order(d)
  PROVE  Order(e)'
<1>0. name' = name /\ index' = index /\ tn' = tn /\ dn' = dn
  BY DEF inputs, heap
<1>1. /\ NextOf(d) = TNext /\ PreOf(d) = TPre /\ DPreOf(d) = DPre
      /\ Behind(d) = 0 /\ \A x : Ahead(d, x) = 0
  BY DEF Whole, NextOf, PreOf, DPreOf, Behind, Ahead, Linking
<1>2. /\ NextOf(e)' = TNext /\ PreOf(e)' = TPre /\ DPreOf(e)' = DPre
      /\ Behind(e)' = 0 /\ \A x : Ahead(e, x)' = 0
  BY <1>0 DEF Whole, NextOf, PreOf, DPreOf, Behind, Ahead, Linking, TNext, TPre, DPre
<1>3. /\ TKey' = TKey /\ DKey' = DKey /\ DNext' = DNext
      /\ TNodes' = TNodes /\ \A x : DNodes(x)' = DNodes(x)
  BY <1>0 DEF TKey, DKey, DNext, TNodes, DNodes
<1>4. TermsLinked(e)'
  <2>1. TermsLinked(d)
    BY DEF Order
  <2> QED
    BY <1>0, <1>1, <1>2, <1>3, <2>1 DEF TermsLinked
<1>5. \A x \in TNodes : DocsLinked(e, x)'
  <2>1. \A x \in TNodes : DocsLinked(d, x)
    BY DEF Order
  <2> QED
    BY <1>0, <1>1, <1>2, <1>3, <2>1 DEF DocsLinked
<1> QED
  BY <1>3, <1>4, <1>5 DEF Order

\* A document begins to be added.
LEMMA DoIndexKeeps ==
  ASSUME SingleClient, IInv, NEW d \in Doc, DoIndex(d) PROVE IInv'
<1>1. /\ pc[d] = "new" /\ \A e \in Before[d] : pc[e] = "done"
      /\ itnp' = [itnp EXCEPT ![d] = index.list]
      /\ pc' = [pc EXCEPT ![d] = IF index.list = NULL THEN "first" ELSE "walk"]
      /\ UNCHANGED <<inputs, heap, tnp, dnode_p, dumping, server>>
  BY DEF DoIndex, At, Goto
<1>2. /\ HeapTypes /\ DumpTypes /\ Turn /\ Lock /\ Fresh /\ Home /\ Remaining(d)
      /\ Adding = {} /\ Order(d)
  BY <1>1, NoWriter DEF IInv, Alone
<1>3. /\ pc \in [Thread -> Labels] /\ d \in Thread /\ itnp \in [Doc -> Link]
      /\ index.list \in Link /\ \A e \in Doc : e \in Thread
  BY <1>2, Constants DEF HeapTypes, DumpTypes
<1>4. /\ pc'[d] = (IF index.list = NULL THEN "first" ELSE "walk")
      /\ itnp'[d] = index.list
      /\ \A t \in Thread : t # d => pc'[t] = pc[t]
  BY <1>1, <1>3
<1>5. HeapTypes' /\ DumpTypes'
  <2>1. itnp' \in [Doc -> Link]
    BY <1>1, <1>3
  <2>2. pc' \in [Thread -> Labels]
    BY <1>1, <1>3 DEF Labels, Writing
  <2> QED
    BY <1>1, <1>2, <2>1, <2>2 DEF HeapTypes, DumpTypes, inputs, heap, dumping, Link
<1>6. Lock' /\ Turn'
  <2>1. pc'[d] \notin Dumping /\ pc'[d] \notin {"measureDocs", "docs", "writeDocs", "nextDoc"}
    BY <1>4 DEF Dumping
  <2>2. Lock'
    BY <1>1, <1>2, <1>4, <2>1 DEF Lock, dumping
  <2>3. \A c \in Doc : \A e \in Before[c] : e \in Doc
    BY SharedAssumption
  <2> QED
    BY <1>1, <1>2, <1>3, <1>4, <2>2, <2>3 DEF Turn
<1>7. Adding' = {d}
  <2>1. Adding' = {e \in Doc : pc'[e] \in Writing}
    BY DEF Adding, Writing, Linking, InDocs
  <2>2. pc'[d] \in Writing
    BY <1>4 DEF Writing
  <2>3. \A e \in Doc : e # d => pc'[e] \notin Writing
    BY <1>2, <1>3, <1>4, AddingIs
  <2> QED
    BY <2>1, <2>2, <2>3
<1>8. \A e \in Doc : Left(e)' = Left(e) /\ Remaining(e)'
  <2> SUFFICES ASSUME NEW e \in Doc PROVE Left(e)' = Left(e) /\ Remaining(e)'
    OBVIOUS
  <2>0. tnp' = tnp /\ has' = has /\ Remaining(e)
    BY <1>1 DEF inputs, IInv
  <2>1. CASE e # d
    <3>1. pc'[e] = pc[e]
      BY <1>3, <1>4, <2>1
    <3>2. Left(e)' = Left(e)
      BY <2>0, <3>1 DEF Left
    <3> QED
      BY <2>0, <3>1, <3>2 DEF Remaining
  <2>2. CASE e = d
    <3>1. pc[d] \notin Published /\ pc'[d] \notin Published /\ pc'[d] \in Writing
      BY <1>1, <1>4 DEF Published, Linking, Writing
    <3>2. Left(e)' = Left(e)
      BY <2>0, <2>2, <3>1 DEF Left
    <3> QED
      BY <1>1, <1>4, <2>0, <2>2, <3>1, <3>2 DEF Remaining
  <2> QED
    BY <2>1, <2>2
<1>9. Fresh' /\ Home'
  BY <1>1, <1>2, <1>8 DEF Fresh, Home, TNodes, heap
<1>10. Order(d)'
  <2>1. Whole(d) /\ Whole(d)'
    BY <1>1, <1>4 DEF Whole, Linking
  <2> QED
    BY <1>1, <1>2, <2>1, WholeOrder
<1>11. AtTerm(d)' /\ AtDoc(d)'
  <2>1. Forward(TNext, TKey, index.list, TNodes)
    <3>1. NextOf(d) = TNext
      BY <1>1 DEF NextOf
    <3> QED
      BY <1>2, <3>1 DEF Order, TermsLinked, Linked
  <2>2. index.list # NULL => index.list \in TNodes /\ \A y \in TNodes : ~(y[2] < index.list[2])
    <3>1. \A y \in TNodes : TKey[y] = y[2] /\ y[2] \in Nat
      BY <1>2, Keys DEF TNodes
    <3> QED
      BY <2>1, <3>1 DEF Forward
  <2>3. TNodes' = TNodes /\ index' = index
    BY <1>1 DEF TNodes, heap
  <2>4. AtTerm(d)'
    BY <1>4, <2>2, <2>3 DEF AtTerm, Linking
  <2>5. AtDoc(d)'
    BY <1>4 DEF AtDoc, InDocs
  <2> QED
    BY <2>4, <2>5
<1> QED
  BY <1>5, <1>6, <1>7, <1>8, <1>9, <1>10, <1>11 DEF IInv, Alone

\* A document whose terms are all in goes on to do_update.
LEMMA AllAddedKeeps ==
  ASSUME SingleClient, IInv, NEW d \in Doc, AllAdded(d) PROVE IInv'
<1>1. /\ pc[d] = "walk" /\ tnp[d] = <<>> /\ pc' = [pc EXCEPT ![d] = "update"]
      /\ UNCHANGED <<inputs, heap, adding, dumping, server>>
  BY DEF AllAdded, At, Goto
<1>2. d \in Adding
  BY <1>1, AddingIs DEF Writing
<1>3. /\ HeapTypes /\ DumpTypes /\ Turn /\ Lock /\ Fresh /\ Home
      /\ Adding = {d} /\ Order(d) /\ d \in Thread /\ \A e \in Doc : e \in Thread
  BY <1>2, Writer, Constants DEF IInv, Alone
<1>4. /\ pc \in [Thread -> Labels] /\ pc'[d] = "update" /\ \A t \in Thread : t # d => pc'[t] = pc[t]
  BY <1>1, <1>3 DEF DumpTypes
<1>5. HeapTypes' /\ DumpTypes'
  <2>1. pc' \in [Thread -> Labels]
    BY <1>1, <1>4 DEF Labels
  <2> QED
    BY <1>1, <1>3, <2>1 DEF HeapTypes, DumpTypes, inputs, heap, adding, dumping, Link
<1>6. Lock' /\ Turn'
  <2>1. Lock'
    BY <1>1, <1>3, <1>4 DEF Lock, dumping, Dumping
  <2>2. \A c \in Doc : \A e \in Before[c] : e \in Doc
    BY SharedAssumption
  <2> QED
    BY <1>1, <1>3, <1>4, <2>1, <2>2 DEF Turn
<1>7. Adding' = {}
  <2>1. Adding' = {e \in Doc : pc'[e] \in Writing}
    BY DEF Adding, Writing, Linking, InDocs
  <2>2. pc'[d] \notin Writing
    BY <1>4 DEF Writing, Linking, InDocs
  <2>3. \A e \in Doc : e # d => pc'[e] \notin Writing
    BY <1>3, <1>4, AddingIs
  <2> QED
    BY <2>1, <2>2, <2>3
<1>8. \A e \in Doc : Left(e)' = Left(e) /\ Remaining(e)'
  <2> SUFFICES ASSUME NEW e \in Doc PROVE Left(e)' = Left(e) /\ Remaining(e)'
    OBVIOUS
  <2>0. tnp' = tnp /\ has' = has /\ Remaining(e)
    BY <1>1 DEF inputs, adding, IInv
  <2>1. CASE e # d
    <3>1. pc'[e] = pc[e]
      BY <1>3, <1>4, <2>1
    <3>2. Left(e)' = Left(e)
      BY <2>0, <3>1 DEF Left
    <3> QED
      BY <2>0, <3>1, <3>2 DEF Remaining
  <2>2. CASE e = d
    <3>1. pc[d] \notin Published /\ pc'[d] \notin Published /\ pc'[d] \notin {"new"} \cup Writing
      BY <1>1, <1>4 DEF Published, Linking, Writing, InDocs
    <3>2. Left(e)' = Left(e)
      BY <2>0, <2>2, <3>1 DEF Left
    <3> QED
      BY <1>1, <1>4, <2>0, <2>2, <3>1, <3>2 DEF Remaining
  <2> QED
    BY <2>1, <2>2
<1>9. Fresh' /\ Home'
  BY <1>1, <1>3, <1>8 DEF Fresh, Home, TNodes, heap
<1>10. ASSUME NEW e \in Doc PROVE Order(e)'
  <2>1. Whole(d)
    BY <1>1 DEF Whole, Linking
  <2>2. pc'[e] \notin Writing
    <3>1. Adding' = {c \in Doc : pc'[c] \in Writing}
      BY DEF Adding, Writing, Linking, InDocs
    <3> QED
      BY <1>7, <3>1
  <2>3. Whole(e)'
    BY <2>2 DEF Whole, Writing, Linking, InDocs
  <2> QED
    BY <1>1, <1>3, <2>1, <2>3, WholeOrder
<1> QED
  BY <1>5, <1>6, <1>7, <1>8, <1>9, <1>10 DEF IInv

-----------------------------------------------------------------------------
(* What the steps of an insertion have in common. *)

\* Which terms are left, when d goes on to l.
LEMMA Moves ==
  ASSUME SingleClient, IInv, NEW d \in Adding, NEW l \in Writing,
         pc' = [pc EXCEPT ![d] = l], has' = has,
         \/ /\ tnp' = tnp /\ (l = "walk" \/ tnp[d] # <<>>)
            /\ pc[d] \in Published => l \in Published
         \/ /\ tnp' = [tnp EXCEPT ![d] = Tail(@)] /\ tnp[d] # <<>> /\ l = "walk"
  PROVE  /\ Remaining(d)' /\ tnp' \in [Doc -> Seq(Term)]
         /\ \A e \in Doc : e # d => tnp'[e] = tnp[e]
         /\ \A e \in Doc : Left(e)' \subseteq Left(e)
         /\ tnp[d] # <<>> /\ (l \in Published \/ tnp' # tnp) => Head(tnp[d]) \notin Left(d)'
         /\ tnp' # tnp /\ tnp'[d] # <<>> => Head(tnp[d]) < Head(tnp'[d])
         /\ \A e \in Doc : e # d => Left(e)' = Left(e)
         /\ (pc[d] \in Published <=> (l \in Published \/ tnp' # tnp)) => Left(d)' = Left(d)
         /\ tnp[d] # <<>> /\ pc[d] \notin Published /\ (l \in Published \/ tnp' # tnp) =>
              Head(tnp[d]) \in Left(d) /\ Left(d)' = Left(d) \ {Head(tnp[d])}
<1>1. /\ d \in Doc /\ d \in Thread /\ pc[d] \in Writing /\ Remaining(d) /\ tnp[d] \in Seq(Term)
      /\ tnp \in [Doc -> Seq(Term)] /\ pc \in [Thread -> Labels]
  BY Writer DEF HeapTypes, DumpTypes
<1>2. pc'[d] = l /\ \A e \in Doc : e # d => pc'[e] = pc[e]
  BY <1>1, Constants
<1>3. l # "new" /\ pc[d] # "new" /\ "walk" \notin Published
  BY <1>1 DEF Writing, Linking, InDocs, Published
<1>4. ASSUME NEW e \in Doc, e # d PROVE tnp'[e] = tnp[e] /\ Left(e)' = Left(e)
  <2>1. tnp'[e] = tnp[e]
    BY <1>1, <1>4
  <2> QED
    BY <1>2, <1>4, <2>1 DEF Left
<1>5. \A j, k \in 1..Len(tnp[d]) : j < k => tnp[d][j] < tnp[d][k]
  BY <1>1 DEF Remaining
<1>6. ASSUME tnp[d] # <<>>
      PROVE  /\ {tnp[d][j] : j \in 1..Len(tnp[d])} = AfterHead(tnp[d]) \cup {Head(tnp[d])}
             /\ Head(tnp[d]) \notin AfterHead(tnp[d])
             /\ Left(d) = IF pc[d] \in Published THEN AfterHead(tnp[d])
                          ELSE AfterHead(tnp[d]) \cup {Head(tnp[d])}
  <2>1. /\ {tnp[d][j] : j \in 1..Len(tnp[d])} = AfterHead(tnp[d]) \cup {Head(tnp[d])}
        /\ \A t \in AfterHead(tnp[d]) : Head(tnp[d]) < t
    BY <1>1, <1>5, <1>6, TailLeft
  <2>2. Head(tnp[d]) \notin AfterHead(tnp[d])
    <3>1. Head(tnp[d]) \in Nat
      BY <1>1, <1>6, Constants
    <3> QED
      BY <2>1, <3>1
  <2>3. pc[d] \in Published => Left(d) = AfterHead(tnp[d])
    BY DEF Left, AfterHead
  <2>4. pc[d] \notin Published => Left(d) = {tnp[d][j] : j \in 1..Len(tnp[d])}
    BY DEF Left
  <2> QED
    BY <2>1, <2>2, <2>3, <2>4
<1>7. CASE /\ tnp' = tnp /\ (l = "walk" \/ tnp[d] # <<>>)
           /\ pc[d] \in Published => l \in Published
  <2>1. Remaining(d)'
    BY <1>1, <1>2, <1>3, <1>7 DEF Remaining
  <2>2. /\ l \in Published => Left(d)' = AfterHead(tnp[d])
        /\ l \notin Published => Left(d)' = {tnp[d][j] : j \in 1..Len(tnp[d])}
    BY <1>2, <1>7 DEF Left, AfterHead
  <2>3. Left(d)' \subseteq Left(d)
    <3>1. CASE tnp[d] # <<>>
      BY <1>6, <1>7, <2>2, <3>1
    <3>2. CASE tnp[d] = <<>>
      <4>1. pc[d] \notin Published /\ l \notin Published
        BY <1>1, <1>3, <1>7, <3>2 DEF Remaining, Published, Writing, Linking, InDocs
      <4> QED
        BY <1>7, <2>2, <4>1 DEF Left
    <3> QED
      BY <3>1, <3>2
  <2>4. (pc[d] \in Published <=> l \in Published) => Left(d)' = Left(d)
    <3>1. CASE tnp[d] # <<>>
      BY <1>6, <2>2, <3>1
    <3>2. CASE tnp[d] = <<>>
      <4>1. pc[d] \notin Published
        BY <1>1, <1>3, <3>2 DEF Remaining, Published, Writing, Linking, InDocs
      <4> QED
        BY <2>2, <4>1 DEF Left
    <3> QED
      BY <3>1, <3>2
  <2> QED
    BY <1>1, <1>4, <1>6, <1>7, <2>1, <2>2, <2>3, <2>4
<1>8. CASE tnp' = [tnp EXCEPT ![d] = Tail(@)] /\ tnp[d] # <<>> /\ l = "walk"
  <2>1. tnp'[d] = Tail(tnp[d])
    BY <1>1, <1>8
  <2>2. /\ {Tail(tnp[d])[j] : j \in 1..Len(Tail(tnp[d]))} = AfterHead(tnp[d])
        /\ \A j, k \in 1..Len(Tail(tnp[d])) : j < k => Tail(tnp[d])[j] < Tail(tnp[d])[k]
        /\ Tail(tnp[d]) # <<>> => Head(tnp[d]) < Head(Tail(tnp[d]))
    BY <1>1, <1>5, <1>8, TailLeft
  <2>3. /\ Tail(tnp[d]) \in Seq(Term) /\ Len(Tail(tnp[d])) = Len(tnp[d]) - 1 /\ Len(tnp[d]) \in Nat
        /\ \A j \in 1..(Len(tnp[d]) - 1) : Tail(tnp[d])[j] = tnp[d][j + 1]
    BY <1>1, <1>8, Tails
  <2>4. Left(d)' = AfterHead(tnp[d])
    BY <1>2, <1>3, <1>8, <2>1, <2>2 DEF Left
  <2>5. Remaining(d)'
    <3>1. \A j \in 1..Len(Tail(tnp[d])) : Tail(tnp[d])[j] \in has[d]
      <4>1. \A j \in 1..Len(Tail(tnp[d])) : j + 1 \in 1..Len(tnp[d]) /\ j \in 1..(Len(tnp[d]) - 1)
        BY <2>3
      <4>2. \A j \in 1..Len(tnp[d]) : tnp[d][j] \in has[d]
        BY <1>1 DEF Remaining
      <4> QED
        BY <2>3, <4>1, <4>2
    <3>2. l = "walk" /\ l \in {"new"} \cup Writing
      BY <1>8
    <3> QED
      BY <1>2, <1>3, <2>1, <2>2, <3>1, <3>2 DEF Remaining
  <2>6. tnp' \in [Doc -> Seq(Term)]
    BY <1>1, <1>8, <2>3
  <2>7. tnp' # tnp
    <3>1. Len(tnp'[d]) # Len(tnp[d])
      BY <2>1, <2>3
    <3> QED
      BY ONLY <3>1
  <2> QED
    BY <1>4, <1>6, <1>8, <2>1, <2>2, <2>4, <2>5, <2>6, <2>7
<1> QED
  BY <1>7, <1>8

\* Nodes that were not made stay so, but for the one that is made.
LEMMA FreshStays ==
  ASSUME HeapTypes, Fresh, \A e \in Doc : Left(e)' \subseteq Left(e),
         \A x \in Node : x[2] \in Left(x[1])' =>
           tn'[x].list = tn[x].list /\ dn'[x].count = dn[x].count,
         \A x \in Node : tn'[x].list = NULL =>
           tn[x].list = NULL /\ tn'[x].len_list = tn[x].len_list
  PROVE  Fresh'
<1>1. \A d \in Doc : \A t \in Left(d)' : tn'[<<d, t>>].list = NULL /\ dn'[<<d, t>>].count = 0
  <2> SUFFICES ASSUME NEW d \in Doc, NEW t \in Left(d)'
               PROVE  tn'[<<d, t>>].list = NULL /\ dn'[<<d, t>>].count = 0
    OBVIOUS
  <2>1. t \in Left(d) /\ t \in Term
    <3>1. tnp[d] \in Seq(Term)
      BY DEF HeapTypes
    <3>2. t \in Left(d)
      OBVIOUS
    <3>3. PICK j \in (IF pc[d] \in Published THEN 2 ELSE 1)..Len(tnp[d]) : t = tnp[d][j]
      BY <3>2 DEF Left
    <3>4. Len(tnp[d]) \in Nat /\ j \in 1..Len(tnp[d])
      BY <3>1, <3>3
    <3>5. t \in Term
      BY ONLY <3>1, <3>3, <3>4
    <3> QED
      BY <3>2, <3>5
  <2>2. <<d, t>> \in Node /\ <<d, t>>[1] = d /\ <<d, t>>[2] = t
    BY <2>1, Constants
  <2>3. tn[<<d, t>>].list = NULL /\ dn[<<d, t>>].count = 0
    BY <2>1 DEF Fresh
  <2> QED
    BY <2>2, <2>3
<1>2. \A x \in Node \ TNodes' : tn'[x].len_list = 0
  BY DEF Fresh, TNodes
<1> QED
  BY <1>1, <1>2 DEF Fresh, Node


\* Steps that leave the documents' nodes alone keep their lists.
LEMMA DocsKept ==
  ASSUME NEW d, dn' = dn, name' = name, Order(d),
         {pc[d], pc'[d]} \cap {"before", "append", "docPre", "docBack"} = {},
         \A x \in Node : tn'[x].list = tn[x].list /\ tn'[x].len_list = tn[x].len_list
  PROVE  /\ TKey' = TKey /\ DKey' = DKey /\ TNodes' = TNodes /\ \A x : DNodes(x)' = DNodes(x)
         /\ Home => Home'
         /\ \A x \in TNodes' : DocsLinked(d, x)'
<1>1. /\ TKey' = TKey /\ DKey' = DKey /\ TNodes' = TNodes /\ DNext' = DNext
      /\ \A x : DNodes(x)' = DNodes(x)
  BY DEF TKey, DKey, DNext, TNodes, DNodes
<1>2. Home => Home'
  BY <1>1 DEF Home
<1>3. DPreOf(d) = DPre /\ DPreOf(d)' = DPre /\ \A x : Ahead(d, x) = 0 /\ Ahead(d, x)' = 0
  BY DEF DPreOf, DPre, Ahead
<1>4. ASSUME NEW x \in TNodes PROVE DocsLinked(d, x)'
  <2>1. DocsLinked(d, x)
    BY DEF Order
  <2>2. tn'[x].list = tn[x].list /\ tn'[x].len_list = tn[x].len_list
    BY DEF TNodes
  <2> QED
    BY <1>1, <1>3, <2>1, <2>2 DEF DocsLinked
<1> QED
  BY <1>1, <1>2, <1>4

\* Steps that leave the terms' links alone keep their list.
LEMMA TermsKept ==
  ASSUME NEW d, name' = name, index' = index, Order(d),
         {pc[d], pc'[d]} \cap Linking = {},
         \A x \in Node : /\ tn'[x].next = tn[x].next /\ tn'[x].pre = tn[x].pre
                         /\ tn'[x].list = NULL <=> tn[x].list = NULL
  PROVE  TKey' = TKey /\ DKey' = DKey /\ TNodes' = TNodes /\ TermsLinked(d)'
<1>1. TKey' = TKey /\ DKey' = DKey /\ TNodes' = TNodes /\ TNext' = TNext /\ TPre' = TPre
  BY DEF TKey, DKey, TNodes, TNext, TPre
<1>2. /\ NextOf(d) = TNext /\ PreOf(d) = TPre /\ Behind(d) = 0
      /\ NextOf(d)' = TNext /\ PreOf(d)' = TPre /\ Behind(d)' = 0
  BY <1>1 DEF NextOf, PreOf, Behind, Linking
<1>3. TermsLinked(d)
  BY DEF Order
<1> QED
  BY <1>1, <1>2, <1>3 DEF TermsLinked

\* Where an insertion is in the list of terms.
LEMMA AtTermNode ==
  ASSUME SingleClient, IInv, NEW d \in Adding, tnp[d] # <<>>, pc[d] \notin {"first", "count"}
  PROVE  /\ itnp[d] \in TNodes /\ itnp[d] \in Node /\ itnp[d] # NULL
         /\ itnp[d][2] \in Nat /\ TKey[itnp[d]] = itnp[d][2]
         /\ tn[itnp[d]].list # NULL /\ tn[itnp[d]].list \in DNodes(itnp[d])
         /\ tn[itnp[d]].next \in Link
<1>1. itnp[d] \in TNodes /\ Order(d)
  BY Writer DEF AtTerm
<1>2. itnp[d] \in Node /\ tn[itnp[d]].list # NULL
  BY <1>1 DEF TNodes
<1>3. tn[itnp[d]].list \in DNodes(itnp[d])
  BY <1>1, <1>2 DEF Order, DocsLinked, Linked, Forward
<1> QED
  BY <1>1, <1>2, <1>3, Keys, Constants, Followed DEF IInv

-----------------------------------------------------------------------------
(* The steps that set links of the list of terms. *)

\* The new term's own links, one after the other.
LEMMA SettingTerms ==
  ASSUME SingleClient, IInv, NEW d \in Adding, SetNext(d) \/ SetPre(d) \/ SetBack(d)
  PROVE  IInv'
<1>0. /\ d \in Doc /\ d \in Thread /\ pc[d] \in Linking /\ tnp[d] # <<>>
      /\ pc[d] \in {"setNext", "setPre", "setBack"}
      /\ New(d) \in Node /\ New(d) \in TNodes /\ itnp[d] \in Node /\ itnp[d] \in TNodes
      /\ Order(d) /\ AtTerm(d) /\ HeapTypes /\ DumpTypes /\ Fresh /\ Home
  <2>1. pc[d] \in {"setNext", "setPre", "setBack"}
    BY DEF SetNext, SetPre, SetBack, At
  <2>2. pc[d] \in Linking
    BY <2>1 DEF Linking
  <2>3. /\ d \in Doc /\ d \in Thread /\ tnp[d] # <<>> /\ New(d) \in Node
        /\ Order(d) /\ AtTerm(d) /\ HeapTypes /\ DumpTypes
    BY <2>1, Writer
  <2>4. itnp[d] \in Node /\ itnp[d] \in TNodes
    BY <2>1, <2>3, AtTermNode
  <2> QED
    BY <2>1, <2>2, <2>3, <2>4 DEF AtTerm, IInv
<1>1. UNCHANGED <<inputs, index, dn, adding, dumping, server>> /\ New(d)' = New(d)
  BY DEF SetNext, SetPre, SetBack, adding, New
<1> DEFINE l == CASE pc[d] = "setNext" -> "setPre"
                  [] pc[d] = "setPre" -> "count"
                  [] OTHER -> "countLast"
<1>2. /\ pc' = [pc EXCEPT ![d] = l] /\ pc'[d] = l
      /\ l \in {"setPre", "count", "countLast"}
      /\ l = "countLast" <=> pc[d] = "setBack"
  <2>1. pc \in [Thread -> Labels]
    BY <1>0 DEF DumpTypes
  <2> QED
    BY <1>0, <2>1 DEF SetNext, SetPre, SetBack, At, Goto
<1>3. /\ tn' \in [Node -> [next : Link, pre : Link, list : Link, len_list : Nat]]
      /\ \A x \in Node : tn'[x].list = tn[x].list /\ tn'[x].len_list = tn[x].len_list
      /\ NextOf(d)' = NextOf(d) /\ PreOf(d)' = PreOf(d)
      /\ pc[d] = "setBack" => tn'[itnp[d]].next = tn[itnp[d]].next
  <2>0. /\ tn \in [Node -> [next : Link, pre : Link, list : Link, len_list : Nat]]
        /\ New(d) \in Link /\ itnp[d] \in Link
    BY <1>0 DEF HeapTypes, Link
  <2>1. CASE SetNext(d)
    <3>1. pc[d] = "setNext" /\ tn' = [tn EXCEPT ![New(d)].next = itnp[d]] /\ pc'[d] = "setPre"
      BY <1>2, <2>1 DEF SetNext, At
    <3>2. tn' \in [Node -> [next : Link, pre : Link, list : Link, len_list : Nat]]
      BY <1>0, <2>0, <3>1
    <3>3. \A x \in Node : /\ tn'[x].list = tn[x].list /\ tn'[x].len_list = tn[x].len_list
                          /\ tn'[x].pre = tn[x].pre
                          /\ tn'[x].next = IF x = New(d) THEN itnp[d] ELSE tn[x].next
      BY <1>0, <2>0, <3>1
    <3>4. TPre' = TPre /\ TNext' = [TNext EXCEPT ![New(d)] = itnp[d]]
      BY <1>0, <3>3 DEF TPre, TNext
    <3> QED
      BY <1>1, <3>1, <3>2, <3>3, <3>4 DEF NextOf, PreOf, adding
  <2>2. CASE SetPre(d)
    <3>1. pc[d] = "setPre" /\ tn' = [tn EXCEPT ![itnp[d]].pre = New(d)] /\ pc'[d] = "count"
      BY <1>2, <2>2 DEF SetPre, LinkedBack, At
    <3>2. tn' \in [Node -> [next : Link, pre : Link, list : Link, len_list : Nat]]
      BY <1>0, <2>0, <3>1
    <3>3. \A x \in Node : /\ tn'[x].list = tn[x].list /\ tn'[x].len_list = tn[x].len_list
                          /\ tn'[x].next = tn[x].next
                          /\ tn'[x].pre = IF x = itnp[d] THEN New(d) ELSE tn[x].pre
      BY <1>0, <2>0, <3>1
    <3>4. TNext' = TNext /\ TPre' = [TPre EXCEPT ![itnp[d]] = New(d)]
      BY <1>0, <3>3 DEF TPre, TNext
    <3> QED
      BY <1>1, <3>1, <3>2, <3>3, <3>4 DEF NextOf, PreOf, adding
  <2>3. CASE SetBack(d)
    <3>1. pc[d] = "setBack" /\ tn' = [tn EXCEPT ![New(d)].pre = itnp[d]] /\ pc'[d] = "countLast"
      BY <1>2, <2>3 DEF SetBack, At
    <3>2. tn' \in [Node -> [next : Link, pre : Link, list : Link, len_list : Nat]]
      BY <1>0, <2>0, <3>1
    <3>3. \A x \in Node : /\ tn'[x].list = tn[x].list /\ tn'[x].len_list = tn[x].len_list
                          /\ tn'[x].next = tn[x].next
                          /\ tn'[x].pre = IF x = New(d) THEN itnp[d] ELSE tn[x].pre
      BY <1>0, <2>0, <3>1
    <3>4. TNext' = TNext /\ TPre' = [TPre EXCEPT ![New(d)] = itnp[d]]
      BY <1>0, <3>3 DEF TPre, TNext
    <3> QED
      BY <1>0, <1>1, <3>1, <3>2, <3>3, <3>4 DEF NextOf, PreOf, adding
  <2> QED
    BY <2>1, <2>2, <2>3
<1> HIDE DEF l
<1>4. l \in Writing /\ l \in Published /\ l \in Linking /\ l \notin InDocs
  BY <1>2 DEF Writing, Published, Linking, InDocs
<1>5. Remaining(d)' /\ (\A e \in Doc : Left(e)' \subseteq Left(e)) /\ tnp' = tnp
  BY <1>0, <1>1, <1>2, <1>4, Moves DEF inputs, adding
<1>6. HeapTypes'
  BY <1>0, <1>1, <1>3 DEF HeapTypes, inputs, adding, Link
<1>7. Fresh'
  BY <1>0, <1>1, <1>3, <1>5, FreshStays
<1>8. /\ TKey' = TKey /\ TNodes' = TNodes /\ Home' /\ \A x \in TNodes' : DocsLinked(d, x)'
  <2>1. {pc[d], pc'[d]} \cap {"before", "append", "docPre", "docBack"} = {}
    BY <1>0, <1>2
  <2> QED
    BY <1>0, <1>1, <1>3, <2>1, DocsKept DEF inputs
<1>9. Order(d)'
  <2>1. Behind(d) = 1 /\ Behind(d)' = 1
    BY <1>0, <1>2, <1>4 DEF Behind
  <2>2. TermsLinked(d)
    BY <1>0 DEF Order
  <2>3. TermsLinked(d)'
    BY <1>1, <1>3, <1>8, <2>1, <2>2 DEF TermsLinked
  <2> QED
    BY <1>8, <2>3 DEF Order
<1>10. AtTerm(d)' /\ AtDoc(d)'
  <2>1. itnp' = itnp /\ pc'[d] \notin {"first", "walk"}
    BY <1>1, <1>2 DEF adding
  <2>2. AtTerm(d)'
    BY <1>0, <1>1, <1>2, <1>3, <1>8, <2>1 DEF AtTerm
  <2>3. AtDoc(d)'
    BY <1>2, <1>4 DEF AtDoc
  <2> QED
    BY <2>2, <2>3
<1> QED
  BY <1>0, <1>1, <1>2, <1>4, <1>5, <1>6, <1>7, <1>8, <1>9, <1>10, WriterKeeps

\* The length of the list of terms catches up with it.
LEMMA CountTermKeeps ==
  ASSUME SingleClient, IInv, NEW d \in Adding, CountTerm(d) PROVE IInv'
<1>1. /\ pc[d] \in {"count", "countLast"}
      /\ index' = [index EXCEPT !.len_list = index.len_list + 1]
      /\ itnp' = [itnp EXCEPT ![d] = IF pc[d] = "count" THEN New(d) ELSE tn[itnp[d]].next]
      /\ tnp' = [tnp EXCEPT ![d] = Tail(@)] /\ pc' = [pc EXCEPT ![d] = "walk"]
      /\ UNCHANGED <<inputs, tn, dn, dnode_p, dumping, server>>
  BY DEF CountTerm, LengthWith, At, Goto
<1>2. /\ d \in Doc /\ d \in Thread /\ tnp[d] # <<>> /\ New(d) \in Node /\ New(d) # NULL
      /\ New(d)[2] = Head(tnp[d]) /\ Head(tnp[d]) \in Nat
      /\ Order(d) /\ AtTerm(d) /\ HeapTypes /\ DumpTypes /\ Fresh /\ Home /\ pc[d] \in Linking
  BY <1>1, Writer DEF IInv, Linking
<1>3. New(d) \in TNodes /\ (pc[d] = "countLast" => tn[itnp[d]].next = New(d))
  BY <1>1, <1>2 DEF AtTerm
<1>4. itnp'[d] = New(d) /\ pc'[d] = "walk"
  BY <1>1, <1>2, <1>3 DEF HeapTypes, DumpTypes
<1>5. HeapTypes'
  <2>1. tnp' \in [Doc -> Seq(Term)]
    BY <1>1, <1>2, Moves DEF Writing, inputs
  <2>2. index' \in [list : Link, len_list : Nat]
    <3>1. index \in [list : Link, len_list : Nat]
      BY <1>2 DEF HeapTypes
    <3>2. index' = [index EXCEPT !.len_list = index.len_list + 1]
      BY <1>1
    <3> QED
      BY ONLY <3>1, <3>2
  <2>3. itnp' \in [Doc -> Link]
    <3>1. New(d) \in Link
      BY <1>2 DEF Link
    <3>2. itnp' = [itnp EXCEPT ![d] = New(d)]
      BY <1>1, <1>3
    <3> QED
      BY <1>2, <3>1, <3>2 DEF HeapTypes
  <2> QED
    BY <1>1, <1>2, <2>1, <2>2, <2>3 DEF HeapTypes, inputs, Link
<1>6. /\ Remaining(d)' /\ (\A e \in Doc : e # d => tnp'[e] = tnp[e])
      /\ \A e \in Doc : Left(e)' \subseteq Left(e)
      /\ tnp'[d] # <<>> => Head(tnp[d]) < Head(tnp'[d])
  <2>1. tnp'[d] = Tail(tnp[d]) /\ Len(Tail(tnp[d])) = Len(tnp[d]) - 1 /\ Len(tnp[d]) \in Nat
    BY <1>1, <1>2, Writer, Tails DEF HeapTypes
  <2>2. tnp' # tnp
    <3>1. Len(tnp'[d]) # Len(tnp[d])
      BY <2>1
    <3> QED
      BY ONLY <3>1
  <2> QED
    BY <1>1, <1>2, <2>2, Moves DEF Writing, inputs
<1>7. Fresh'
  BY <1>1, <1>2, <1>6, FreshStays
<1>8. /\ TKey' = TKey /\ TNodes' = TNodes /\ Home' /\ \A x \in TNodes' : DocsLinked(d, x)'
  <2>1. {pc[d], pc'[d]} \cap {"before", "append", "docPre", "docBack"} = {}
    BY <1>1, <1>4
  <2> QED
    BY <1>1, <1>2, <2>1, DocsKept DEF inputs
<1>9. Order(d)'
  <2>1. NextOf(d) = TNext /\ PreOf(d) = TPre /\ Behind(d) = 1
    BY <1>1, <1>2 DEF NextOf, PreOf, Behind
  <2>2. NextOf(d)' = TNext /\ PreOf(d)' = TPre /\ Behind(d)' = 0
    BY <1>1, <1>4 DEF NextOf, PreOf, Behind, TNext, TPre, Linking
  <2>3. TermsLinked(d)
    BY <1>2 DEF Order
  <2>4. index'.list = index.list /\ index'.len_list = index.len_list + 1 /\ index.len_list \in Nat
    BY <1>1, <1>2 DEF HeapTypes
  <2>5. TermsLinked(d)'
    BY <1>8, <2>1, <2>2, <2>3, <2>4 DEF TermsLinked
  <2> QED
    BY <1>8, <2>5 DEF Order
<1>10. AtTerm(d)' /\ AtDoc(d)'
  <2>1. AtTerm(d)'
    <3>1. ASSUME tnp'[d] # <<>>, NEW y \in TNodes, y[2] < New(d)[2] PROVE y[2] < Head(tnp'[d])
      <4>1. Head(tnp'[d]) \in Nat /\ y[2] \in Nat
        <5>1. tnp'[d] \in Seq(Term)
          BY <1>2, <1>5 DEF HeapTypes
        <5>2. Head(tnp'[d]) \in Term
          BY <3>1, <5>1, Tails
        <5> QED
          BY <1>2, <5>2, Constants, Keys DEF TNodes
      <4> QED
        BY <1>2, <1>6, <3>1, <4>1
    <3> QED
      BY <1>3, <1>4, <1>8, <3>1 DEF AtTerm, Linking
  <2>2. AtDoc(d)'
    BY <1>4 DEF AtDoc, InDocs
  <2> QED
    BY <2>1, <2>2
<1>11. "walk" \in Writing
  BY DEF Writing
<1> QED
  BY <1>1, <1>5, <1>6, <1>7, <1>8, <1>9, <1>10, <1>11, WriterKeeps

-----------------------------------------------------------------------------
(* The steps along the list of terms. *)

\* The walk along the terms, on to the next or to the same term.
LEMMA WalkingTerms ==
  ASSUME SingleClient, IInv, NEW d \in Adding, NextTerm(d) \/ SameTerm(d) PROVE IInv'
<1>1. /\ pc[d] = "walk" /\ tnp[d] # <<>>
      /\ UNCHANGED <<inputs, heap, tnp, dumping, server>>
  BY DEF NextTerm, SameTerm, At
<1>2. /\ d \in Doc /\ d \in Thread
      /\ New(d)[2] = Head(tnp[d]) /\ Head(tnp[d]) \in Nat
      /\ Order(d) /\ AtTerm(d) /\ HeapTypes /\ DumpTypes /\ Fresh /\ Home
  BY <1>1, Writer DEF IInv
<1>3. /\ itnp[d] \in TNodes /\ itnp[d] \in Node /\ itnp[d][2] \in Nat /\ TKey[itnp[d]] = itnp[d][2]
      /\ tn[itnp[d]].list \in DNodes(itnp[d]) /\ tn[itnp[d]].next \in Link
  BY <1>1, AtTermNode
<1> DEFINE l == IF SameTerm(d) THEN "insert" ELSE "walk"
<1>4. /\ pc' = [pc EXCEPT ![d] = l] /\ pc'[d] = l
  <2>1. pc \in [Thread -> Labels]
    BY <1>2 DEF DumpTypes
  <2> QED
    BY <1>1, <1>2, <2>1 DEF NextTerm, SameTerm, Goto
<1> HIDE DEF l
<1>5. l \in {"insert", "walk"} /\ l \in Writing /\ (l = "insert" <=> SameTerm(d))
  BY DEF l, Writing, InDocs
<1>6. Remaining(d)' /\ (\A e \in Doc : Left(e)' \subseteq Left(e))
  <2>1. pc[d] \notin Published
    BY <1>1 DEF Published, Linking
  <2> QED
    BY <1>1, <1>4, <1>5, <2>1, Moves DEF inputs
<1>7. Fresh'
  BY <1>1, <1>2, <1>6, FreshStays DEF heap
<1>8. /\ TKey' = TKey /\ DKey' = DKey /\ TNodes' = TNodes /\ Home'
      /\ \A x : DNodes(x)' = DNodes(x)
      /\ Order(d)'
  <2>1. Whole(d) /\ Whole(d)'
    BY <1>1, <1>4, <1>5 DEF Whole, Linking
  <2> QED
    BY <1>1, <1>2, <2>1, WholeOrder DEF heap, inputs, TKey, DKey, TNodes, DNodes, Home
<1>9. CASE NextTerm(d)
  <2>1. /\ itnp[d][2] < Head(tnp[d]) /\ tn[itnp[d]].next # NULL
        /\ itnp' = [itnp EXCEPT ![d] = tn[itnp[d]].next]
        /\ dnode_p' = dnode_p
    BY <1>9 DEF NextTerm, TermOf, HasNext
  <2>2. l = "walk"
    <3>1. itnp[d][2] # Head(tnp[d])
      BY <1>2, <1>3, <2>1
    <3> QED
      BY <1>5, <3>1 DEF SameTerm, TermOf
  <2>3. itnp'[d] = tn[itnp[d]].next
    BY <1>2, <2>1 DEF HeapTypes
  <2>4. HeapTypes'
    <3>1. itnp' \in [Doc -> Link]
      BY <1>2, <1>3, <2>1 DEF HeapTypes
    <3> QED
      BY <1>1, <1>2, <2>1, <3>1 DEF HeapTypes, inputs, heap, Link
  <2>5. Forward(TNext, TKey, index.list, TNodes)
    <3>1. NextOf(d) = TNext
      BY <1>1 DEF NextOf
    <3> QED
      BY <1>2, <3>1 DEF Order, TermsLinked, Linked
  <2>6. TNext[itnp[d]] = tn[itnp[d]].next
    BY <1>3 DEF TNext
  <2>7. itnp'[d] \in TNodes /\ TKey[itnp[d]] < TKey[itnp'[d]]
    BY <1>3, <2>1, <2>3, <2>5, <2>6 DEF Forward
  <2>8. ASSUME NEW y \in TNodes, y[2] < itnp'[d][2] PROVE y[2] < Head(tnp[d])
    <3>1. /\ y[2] \in Nat /\ itnp'[d][2] \in Nat
          /\ TKey[y] = y[2] /\ TKey[itnp'[d]] = itnp'[d][2]
      BY <1>2, <2>7, Keys DEF TNodes
    <3>2. TKey[itnp[d]] < TKey[y] => TKey[itnp'[d]] <= TKey[y]
      BY <1>3, <2>3, <2>5, <2>6 DEF Forward
    <3> QED
      BY <1>2, <1>3, <2>1, <2>8, <3>1, <3>2
  <2>9. AtTerm(d)' /\ AtDoc(d)'
    <3>1. AtTerm(d)'
      BY <1>1, <1>4, <1>8, <2>2, <2>7, <2>8 DEF AtTerm, Linking
    <3>2. AtDoc(d)'
      BY <1>4, <2>2 DEF AtDoc, InDocs
    <3> QED
      BY <3>1, <3>2
  <2> QED
    BY <1>1, <1>4, <1>5, <1>6, <1>7, <1>8, <2>4, <2>9, WriterKeeps
<1>10. CASE SameTerm(d)
  <2>1. /\ itnp[d][2] = Head(tnp[d]) /\ itnp' = itnp
        /\ dnode_p' = [dnode_p EXCEPT ![d] = tn[itnp[d]].list]
    BY <1>10 DEF SameTerm, TermOf
  <2>2. dnode_p'[d] = tn[itnp[d]].list /\ tn' = tn /\ dn' = dn /\ name' = name /\ tnp' = tnp
    BY <1>1, <1>2, <2>1 DEF HeapTypes, heap, inputs
  <2>3. HeapTypes'
    <3>1. dnode_p' \in [Doc -> Link]
      <4>1. tn[itnp[d]].list \in Link
        BY <1>3, Followed
      <4> QED
        BY <1>2, <2>1, <4>1 DEF HeapTypes
    <3> QED
      BY <1>1, <1>2, <2>1, <3>1 DEF HeapTypes, inputs, heap, Link
  <2>4. AtTerm(d)'
    BY <1>3, <1>4, <1>5, <1>8, <1>10, <2>1 DEF AtTerm, Linking
  <2>5. AtDoc(d)'
    <3>1. Forward(DNext, DKey, tn[itnp[d]].list, DNodes(itnp[d]))
      BY <1>2, <1>3 DEF Order, DocsLinked, Linked
    <3>2. \A y \in DNodes(itnp[d]) : DKey[y] \in Nat
      BY <1>2, Keys DEF DNodes
    <3>3. \A y \in DNodes(itnp[d]) : ~(DKey[y] < DKey[tn[itnp[d]].list])
      BY <1>3, <3>1, <3>2, Constants DEF Forward
    <3> QED
      BY <1>3, <1>4, <1>5, <1>8, <1>10, <2>1, <2>2, <3>3 DEF AtDoc
  <2> QED
    BY <1>1, <1>4, <1>5, <1>6, <1>7, <1>8, <2>3, <2>4, <2>5, WriterKeeps
<1> QED
  BY <1>9, <1>10 DEF NextTerm, SameTerm

-----------------------------------------------------------------------------
(* The steps of insert_doc_to_term. *)

\* Where an insertion is in the list of documents.
LEMMA AtDocNode ==
  ASSUME SingleClient, IInv, NEW d \in Adding, pc[d] \in InDocs
  PROVE  /\ d \in Doc /\ d \in Thread /\ tnp[d] # <<>> /\ name[d] \in Nat
         /\ itnp[d] \in TNodes /\ itnp[d] \in Node /\ itnp[d][2] = Head(tnp[d])
         /\ dnode_p[d] \in DNodes(itnp[d]) /\ dnode_p[d] \in Node /\ dnode_p[d] # NULL
         /\ dn[dnode_p[d]].count # 0 /\ dnode_p[d][2] = Head(tnp[d])
         /\ DKey[dnode_p[d]] = NameOf(dnode_p[d]) /\ DKey[dnode_p[d]] \in Nat
         /\ dn[dnode_p[d]].next \in Link
         /\ New(d) \in Node /\ New(d) # NULL /\ New(d)[2] = Head(tnp[d]) /\ DKey[New(d)] = name[d]
         /\ Order(d) /\ AtTerm(d) /\ AtDoc(d) /\ HeapTypes /\ DumpTypes /\ Fresh /\ Home
         /\ DocsLinked(d, itnp[d])
<1>1. pc[d] \notin {"walk", "first", "count"}
  BY DEF InDocs
<1>2. /\ d \in Doc /\ d \in Thread /\ tnp[d] # <<>> /\ name[d] \in Nat
      /\ New(d) \in Node /\ New(d) # NULL /\ New(d)[2] = Head(tnp[d]) /\ DKey[New(d)] = name[d]
      /\ Order(d) /\ AtTerm(d) /\ AtDoc(d) /\ HeapTypes /\ DumpTypes /\ Fresh /\ Home
  BY <1>1, Writer DEF IInv
<1>3. itnp[d] \in TNodes /\ itnp[d] \in Node
  BY <1>1, <1>2, AtTermNode
<1>4. itnp[d][2] = Head(tnp[d]) /\ dnode_p[d] \in DNodes(itnp[d])
  BY <1>2 DEF AtDoc
<1>5. /\ dnode_p[d] \in Node /\ dn[dnode_p[d]].count # 0 /\ dnode_p[d][2] = Head(tnp[d])
  BY <1>4 DEF DNodes
<1>6. /\ DKey[dnode_p[d]] = NameOf(dnode_p[d]) /\ DKey[dnode_p[d]] \in Nat
      /\ dn[dnode_p[d]].next \in Link /\ dnode_p[d] # NULL
  BY <1>2, <1>5, Keys, Constants, Followed DEF NameOf
<1>7. DocsLinked(d, itnp[d])
  BY <1>2, <1>3 DEF Order
<1> QED
  BY <1>2, <1>3, <1>4, <1>5, <1>6, <1>7

\* A document is in the list of its term; the next term is due.
LEMMA InsertReturning ==
  ASSUME SingleClient, IInv, NEW d \in Adding, CountAgain(d) \/ SetDocPre(d) \/ SetDocBack(d)
  PROVE  IInv'
<1>1. /\ pc[d] \in {"insert", "docPre", "docBack"} /\ pc[d] \in InDocs
      /\ tnp' = [tnp EXCEPT ![d] = Tail(@)] /\ pc' = [pc EXCEPT ![d] = "walk"]
      /\ UNCHANGED <<inputs, index, tn, itnp, dnode_p, dumping, server>>
  BY DEF CountAgain, SetDocPre, SetDocBack, InsertReturns, At, Goto, InDocs
<1>2. /\ d \in Doc /\ d \in Thread /\ tnp[d] # <<>> /\ name[d] \in Nat
      /\ itnp[d] \in TNodes /\ itnp[d] \in Node /\ itnp[d][2] = Head(tnp[d])
      /\ dnode_p[d] \in Node /\ dn[dnode_p[d]].count # 0 /\ New(d) \in Node
      /\ Order(d) /\ HeapTypes /\ DumpTypes /\ Fresh /\ Home
  BY <1>1, AtDocNode
<1>3. pc'[d] = "walk" /\ "walk" \in Writing
  BY <1>1, <1>2 DEF DumpTypes, Writing
<1>4. /\ dn' \in [Node -> [next : Link, pre : Link, count : Nat]]
      /\ \A x \in Node : dn'[x].next = dn[x].next /\ (dn'[x].count = 0 <=> dn[x].count = 0)
      /\ \A x \in Node : dn[x].count = 0 => dn'[x].count = 0
      /\ DPreOf(d)' = DPreOf(d)
  <2>0. /\ dn \in [Node -> [next : Link, pre : Link, count : Nat]]
        /\ New(d) \in Link /\ dnode_p[d] \in Link
    BY <1>2 DEF HeapTypes, Link
  <2>1. CASE CountAgain(d)
    <3>1. pc[d] = "insert" /\ dn' = [dn EXCEPT ![dnode_p[d]].count = @ + CountOf(d)]
      BY <2>1 DEF CountAgain, At
    <3>2. CountOf(d) \in Nat
      <4>1. Head(tnp[d]) \in Term
        BY <1>1, <1>2, Writer
      <4> QED
        BY <1>2, <4>1, SharedAssumption DEF CountOf
    <3>3. dn[dnode_p[d]].count \in Nat /\ dn[dnode_p[d]].count + CountOf(d) \in Nat
      BY <1>2, <2>0, <3>2
    <3>4. dn' \in [Node -> [next : Link, pre : Link, count : Nat]]
      BY <1>2, <2>0, <3>1, <3>3
    <3>5. \A x \in Node : /\ dn'[x].next = dn[x].next /\ dn'[x].pre = dn[x].pre
                          /\ x # dnode_p[d] => dn'[x].count = dn[x].count
      BY <1>2, <2>0, <3>1
    <3>6. dn'[dnode_p[d]].count = dn[dnode_p[d]].count + CountOf(d)
      BY <1>2, <2>0, <3>1
    <3>7. dn'[dnode_p[d]].count # 0
      BY <1>2, <3>2, <3>3, <3>6
    <3>8. DPre' = DPre
      BY <3>5 DEF DPre
    <3>9. DPreOf(d)' = DPreOf(d)
      BY <1>3, <3>1, <3>8 DEF DPreOf
    <3> QED
      BY <1>2, <3>4, <3>5, <3>7, <3>9
  <2>2. CASE SetDocPre(d)
    <3>1. pc[d] = "docPre" /\ dn' = [dn EXCEPT ![dnode_p[d]].pre = New(d)]
      BY <2>2 DEF SetDocPre, At
    <3>2. dn' \in [Node -> [next : Link, pre : Link, count : Nat]]
      BY <1>2, <2>0, <3>1
    <3>3. \A x \in Node : /\ dn'[x].next = dn[x].next /\ dn'[x].count = dn[x].count
                          /\ dn'[x].pre = IF x = dnode_p[d] THEN New(d) ELSE dn[x].pre
      BY <1>2, <2>0, <3>1
    <3>4. DPre' = [DPre EXCEPT ![dnode_p[d]] = New(d)]
      BY <1>2, <3>3 DEF DPre
    <3> QED
      BY <1>3, <3>1, <3>2, <3>3, <3>4 DEF DPreOf
  <2>3. CASE SetDocBack(d)
    <3>1. pc[d] = "docBack" /\ dn' = [dn EXCEPT ![New(d)].pre = dnode_p[d]]
      BY <2>3 DEF SetDocBack, At
    <3>2. dn' \in [Node -> [next : Link, pre : Link, count : Nat]]
      BY <1>2, <2>0, <3>1
    <3>3. \A x \in Node : /\ dn'[x].next = dn[x].next /\ dn'[x].count = dn[x].count
                          /\ dn'[x].pre = IF x = New(d) THEN dnode_p[d] ELSE dn[x].pre
      BY <1>2, <2>0, <3>1
    <3>4. DPre' = [DPre EXCEPT ![New(d)] = dnode_p[d]]
      BY <1>2, <3>3 DEF DPre
    <3> QED
      BY <1>3, <3>1, <3>2, <3>3, <3>4 DEF DPreOf
  <2> QED
    BY <2>1, <2>2, <2>3
<1>5. /\ Remaining(d)' /\ (\A e \in Doc : e # d => tnp'[e] = tnp[e])
      /\ tnp' \in [Doc -> Seq(Term)]
      /\ \A e \in Doc : Left(e)' \subseteq Left(e)
      /\ tnp'[d] # <<>> => Head(tnp[d]) < Head(tnp'[d])
  <2>1. tnp'[d] = Tail(tnp[d]) /\ Len(Tail(tnp[d])) = Len(tnp[d]) - 1 /\ Len(tnp[d]) \in Nat
    BY <1>1, <1>2, Writer, Tails DEF HeapTypes
  <2>2. tnp' # tnp
    <3>1. Len(tnp'[d]) # Len(tnp[d])
      BY <2>1
    <3> QED
      BY ONLY <3>1
  <2> QED
    BY <1>1, <1>2, <1>3, <2>2, Moves DEF inputs
<1>6. HeapTypes'
  BY <1>1, <1>2, <1>4, <1>5 DEF HeapTypes, inputs, Link
<1>7. Fresh'
  <2>1. ASSUME NEW x \in Node, x[2] \in Left(x[1])' PROVE dn'[x].count = dn[x].count
    <3>1. x[1] \in Doc /\ x = <<x[1], x[2]>> /\ x[2] \in Left(x[1])
      BY <1>5, <2>1, Constants
    <3>2. dn[x].count = 0
      BY <1>2, <3>1 DEF Fresh
    <3> QED
      BY <1>4, <3>2
  <2> QED
    BY <1>1, <1>2, <1>5, <2>1, FreshStays
<1>8. TKey' = TKey /\ DKey' = DKey /\ TNodes' = TNodes /\ TermsLinked(d)'
  <2>1. {pc[d], pc'[d]} \cap Linking = {}
    BY <1>1, <1>3 DEF Linking
  <2> QED
    BY <1>1, <1>2, <2>1, TermsKept DEF inputs
<1>9. DNext' = DNext /\ \A x : DNodes(x)' = DNodes(x)
  BY <1>4 DEF DNext, DNodes
<1>10. Home'
  BY <1>2, <1>4, <1>8 DEF Home
<1>11. Order(d)'
  <2>1. \A x : Ahead(d, x) = 0 /\ Ahead(d, x)' = 0
    BY <1>1, <1>3 DEF Ahead
  <2>2. \A x \in TNodes : DocsLinked(d, x)
    BY <1>2 DEF Order
  <2>3. \A x \in TNodes : DocsLinked(d, x)'
    BY <1>1, <1>4, <1>8, <1>9, <2>1, <2>2 DEF DocsLinked
  <2> QED
    BY <1>8, <2>3 DEF Order
<1>12. AtTerm(d)' /\ AtDoc(d)'
  <2>1. ASSUME tnp'[d] # <<>>, NEW y \in TNodes, y[2] < itnp[d][2] PROVE y[2] < Head(tnp'[d])
    <3>1. Head(tnp'[d]) \in Nat /\ y[2] \in Nat /\ Head(tnp[d]) \in Nat
      <4>1. tnp'[d] \in Seq(Term) /\ tnp[d] \in Seq(Term)
        BY <1>2, <1>5 DEF HeapTypes
      <4>2. Head(tnp'[d]) \in Term /\ Head(tnp[d]) \in Term
        BY <1>2, <2>1, <4>1, Tails
      <4> QED
        BY <1>2, <4>2, Constants, Keys DEF TNodes
    <3> QED
      BY <1>2, <1>5, <2>1, <3>1
  <2>2. AtTerm(d)'
    BY <1>1, <1>2, <1>3, <1>8, <2>1 DEF AtTerm, Linking
  <2>3. AtDoc(d)'
    BY <1>3 DEF AtDoc, InDocs
  <2> QED
    BY <2>2, <2>3
<1> QED
  BY <1>1, <1>3, <1>5, <1>6, <1>7, <1>8, <1>10, <1>11, <1>12, WriterKeeps

\* The walk along a term's documents goes on.
LEMMA NextDocKeeps ==
  ASSUME SingleClient, IInv, NEW d \in Adding, NextDoc(d) PROVE IInv'
<1>1. /\ pc[d] = "insert" /\ pc[d] \in InDocs /\ NameOf(dnode_p[d]) < name[d]
      /\ dn[dnode_p[d]].next # NULL
      /\ dnode_p' = [dnode_p EXCEPT ![d] = dn[dnode_p[d]].next]
      /\ UNCHANGED <<inputs, heap, tnp, itnp, dumping, pc, server>>
  BY DEF NextDoc, At, InDocs
<1>2. /\ d \in Doc /\ d \in Thread /\ tnp[d] # <<>> /\ name[d] \in Nat
      /\ itnp[d] \in TNodes /\ itnp[d] \in Node /\ itnp[d][2] = Head(tnp[d])
      /\ dnode_p[d] \in DNodes(itnp[d]) /\ dnode_p[d] \in Node
      /\ DKey[dnode_p[d]] = NameOf(dnode_p[d]) /\ DKey[dnode_p[d]] \in Nat
      /\ dn[dnode_p[d]].next \in Link
      /\ Order(d) /\ AtTerm(d) /\ AtDoc(d) /\ HeapTypes /\ DumpTypes /\ Fresh /\ Home
      /\ DocsLinked(d, itnp[d])
  BY <1>1, AtDocNode
<1>3. dnode_p'[d] = dn[dnode_p[d]].next
  BY <1>1, <1>2 DEF HeapTypes
<1>4. pc' = [pc EXCEPT ![d] = "insert"] /\ pc'[d] = "insert" /\ "insert" \in Writing
  BY <1>1, <1>2 DEF DumpTypes, Writing, InDocs
<1>5. HeapTypes'
  <2>1. dnode_p' \in [Doc -> Link]
    BY <1>1, <1>2 DEF HeapTypes
  <2> QED
    BY <1>1, <1>2, <2>1 DEF HeapTypes, inputs, heap, Link
<1>6. Remaining(d)' /\ (\A e \in Doc : Left(e)' \subseteq Left(e))
  <2>1. pc[d] \notin Published
    BY <1>1 DEF Published, Linking
  <2> QED
    BY <1>1, <1>2, <1>4, <2>1, Moves DEF inputs
<1>7. Fresh'
  BY <1>1, <1>2, <1>6, FreshStays DEF heap
<1>8. /\ TKey' = TKey /\ DKey' = DKey /\ TNodes' = TNodes /\ Home'
      /\ \A x : DNodes(x)' = DNodes(x)
      /\ Order(d)'
  <2>1. Whole(d) /\ Whole(d)'
    BY <1>1, <1>4 DEF Whole, Linking
  <2> QED
    BY <1>1, <1>2, <2>1, WholeOrder DEF heap, inputs, TKey, DKey, TNodes, DNodes, Home
<1>9. Forward(DNext, DKey, tn[itnp[d]].list, DNodes(itnp[d]))
  BY <1>2 DEF DocsLinked, Linked
<1>10. DNext[dnode_p[d]] = dn[dnode_p[d]].next
  BY <1>2 DEF DNext
<1>11. dnode_p'[d] \in DNodes(itnp[d]) /\ DKey[dnode_p[d]] < DKey[dnode_p'[d]]
  BY <1>1, <1>2, <1>3, <1>9, <1>10 DEF Forward
<1>12. ASSUME NEW y \in DNodes(itnp[d]), DKey[y] < DKey[dnode_p'[d]] PROVE DKey[y] < name[d]
  <2>1. DKey[y] \in Nat /\ DKey[dnode_p'[d]] \in Nat
    BY <1>2, <1>11, Keys DEF DNodes
  <2>2. DKey[dnode_p[d]] < DKey[y] => DKey[dnode_p'[d]] <= DKey[y]
    BY <1>2, <1>3, <1>9, <1>10 DEF Forward
  <2> QED
    BY <1>1, <1>2, <1>12, <2>1, <2>2
<1>13. AtTerm(d)' /\ AtDoc(d)'
  <2>1. AtTerm(d)'
    BY <1>1, <1>2, <1>4, <1>8 DEF AtTerm, Linking
  <2>2. itnp' = itnp /\ tnp' = tnp /\ name' = name
    BY <1>1 DEF inputs
  <2>3. AtDoc(d)'
    BY <1>2, <1>4, <1>8, <1>11, <1>12, <2>2 DEF AtDoc
  <2> QED
    BY <2>1, <2>3
<1> QED
  BY <1>1, <1>4, <1>5, <1>6, <1>7, <1>8, <1>13, WriterKeeps

\* The length of a list of documents runs ahead of it.
LEMMA CountDocKeeps ==
  ASSUME SingleClient, IInv, NEW d \in Adding, CountDoc(d) PROVE IInv'
<1> DEFINE last == NameOf(dnode_p[d]) < name[d]
           l == IF last THEN "append" ELSE "before"
<1>1. /\ pc[d] = "insert" /\ pc[d] \in InDocs /\ NameOf(dnode_p[d]) # name[d]
      /\ last => dn[dnode_p[d]].next = NULL
      /\ tn' = [tn EXCEPT ![itnp[d]].len_list = @ + 1]
      /\ pc' = [pc EXCEPT ![d] = l]
      /\ UNCHANGED <<inputs, index, dn, adding, dumping, server>>
  BY DEF CountDoc, SameDoc, At, Goto, InDocs
<1>2. /\ d \in Doc /\ d \in Thread /\ tnp[d] # <<>> /\ name[d] \in Nat
      /\ itnp[d] \in TNodes /\ itnp[d] \in Node /\ itnp[d][2] = Head(tnp[d])
      /\ dnode_p[d] \in DNodes(itnp[d]) /\ dnode_p[d] \in Node
      /\ DKey[dnode_p[d]] = NameOf(dnode_p[d]) /\ DKey[dnode_p[d]] \in Nat
      /\ Order(d) /\ AtTerm(d) /\ AtDoc(d) /\ HeapTypes /\ DumpTypes /\ Fresh /\ Home
  BY <1>1, AtDocNode
<1>3. /\ pc'[d] = l /\ l \in {"append", "before"} /\ l \in Writing /\ pc'[d] \notin {"insert", "walk"}
  BY <1>1, <1>2 DEF DumpTypes, Writing, InDocs
<1>4. /\ tn' \in [Node -> [next : Link, pre : Link, list : Link, len_list : Nat]]
      /\ \A x \in Node : /\ tn'[x].next = tn[x].next /\ tn'[x].pre = tn[x].pre
                         /\ tn'[x].list = tn[x].list
                         /\ tn'[x].len_list = tn[x].len_list + IF x = itnp[d] THEN 1 ELSE 0
  <2>1. tn \in [Node -> [next : Link, pre : Link, list : Link, len_list : Nat]]
    BY <1>2 DEF HeapTypes
  <2>2. PICK i : i = itnp[d]
    OBVIOUS
  <2>3. i \in Node /\ tn' = [tn EXCEPT ![i].len_list = @ + 1]
    BY <1>1, <1>2, <2>2
  <2>4. ASSUME NEW x \in Node
        PROVE  /\ tn[x] \in [next : Link, pre : Link, list : Link, len_list : Nat]
               /\ tn'[x] = IF x = i THEN [tn[x] EXCEPT !.len_list = @ + 1] ELSE tn[x]
    BY <2>1, <2>3
  <2>5. ASSUME NEW x \in Node
        PROVE  /\ tn'[x] \in [next : Link, pre : Link, list : Link, len_list : Nat]
               /\ tn'[x].next = tn[x].next /\ tn'[x].pre = tn[x].pre /\ tn'[x].list = tn[x].list
               /\ tn'[x].len_list = tn[x].len_list + IF x = i THEN 1 ELSE 0
    <3>1. PICK a : a = tn[x]
      OBVIOUS
    <3>2. PICK b : b = tn'[x]
      OBVIOUS
    <3>3. /\ a \in [next : Link, pre : Link, list : Link, len_list : Nat]
          /\ b = IF x = i THEN [a EXCEPT !.len_list = @ + 1] ELSE a
      BY <2>4, <3>1, <3>2
    <3>4. /\ b \in [next : Link, pre : Link, list : Link, len_list : Nat]
          /\ b.next = a.next /\ b.pre = a.pre /\ b.list = a.list
          /\ b.len_list = a.len_list + IF x = i THEN 1 ELSE 0
      BY ONLY <3>3
    <3> QED
      BY <3>1, <3>2, <3>4
  <2>6. DOMAIN tn' = Node /\ tn' = [x \in DOMAIN tn' |-> tn'[x]]
    BY <2>1, <2>3
  <2> QED
    BY <2>2, <2>5, <2>6
<1>5. last \/ name[d] < DKey[dnode_p[d]]
  BY <1>1, <1>2
<1> HIDE DEF last, l
<1>6. HeapTypes'
  BY <1>1, <1>2, <1>4 DEF HeapTypes, inputs, adding, Link
<1>7. Remaining(d)' /\ (\A e \in Doc : Left(e)' \subseteq Left(e))
  <2>1. pc[d] \notin Published
    BY <1>1 DEF Published, Linking
  <2> QED
    BY <1>1, <1>2, <1>3, <2>1, Moves DEF inputs, adding
<1>8. Fresh'
  <2>1. itnp[d] \in Node /\ tn[itnp[d]].list # NULL
    BY <1>2 DEF TNodes
  <2>2. \A x \in Node : tn'[x].list = NULL => tn[x].list = NULL /\ tn'[x].len_list = tn[x].len_list
    <3>1. tn \in [Node -> [next : Link, pre : Link, list : Link, len_list : Nat]]
      BY <1>2 DEF HeapTypes
    <3> QED
      BY <1>4, <2>1, <3>1
  <2> QED
    BY <1>1, <1>2, <1>4, <1>7, <2>2, FreshStays
<1>9. TKey' = TKey /\ DKey' = DKey /\ TNodes' = TNodes /\ TermsLinked(d)'
  <2>1. {pc[d], pc'[d]} \cap Linking = {}
    BY <1>1, <1>3 DEF Linking
  <2> QED
    BY <1>1, <1>2, <1>4, <2>1, TermsKept DEF inputs
<1>10. DNext' = DNext /\ \A x : DNodes(x)' = DNodes(x)
  BY <1>1 DEF DNext, DNodes
<1>11. Home'
  BY <1>1, <1>2, <1>9 DEF Home
<1>12. Order(d)'
  <2>1. DPreOf(d) = DPre /\ DPreOf(d)' = DPre
    BY <1>1, <1>3 DEF DPreOf, DPre
  <2>2. \A x : Ahead(d, x) = 0 /\ Ahead(d, x)' = IF x = itnp[d] THEN 1 ELSE 0
    BY <1>1, <1>3 DEF Ahead, adding
  <2>3. ASSUME NEW x \in TNodes PROVE DocsLinked(d, x)'
    <3>1. DocsLinked(d, x)
      BY <1>2 DEF Order
    <3>2. x \in Node /\ tn'[x].list = tn[x].list
          /\ tn'[x].len_list = tn[x].len_list + Ahead(d, x)'
      BY <1>4, <2>2 DEF TNodes
    <3>3. Cardinality(DNodes(x)) \in Nat
      BY NodesFinite DEF DNodes
    <3>4. tn'[x].len_list = Cardinality(DNodes(x)) + Ahead(d, x)'
      BY <2>2, <3>1, <3>2, <3>3 DEF DocsLinked
    <3> QED
      BY <1>9, <1>10, <2>1, <3>1, <3>2, <3>4 DEF DocsLinked
  <2> QED
    BY <1>9, <2>3 DEF Order
<1>13. AtTerm(d)' /\ AtDoc(d)'
  <2>0. itnp' = itnp /\ tnp' = tnp /\ dnode_p' = dnode_p /\ name' = name /\ dn' = dn
    BY <1>1 DEF inputs, adding
  <2>1. AtTerm(d)'
    BY <1>2, <1>3, <1>9, <2>0 DEF AtTerm, Linking
  <2>2. AtDoc(d)'
    <3>1. \A y \in DNodes(itnp[d]) : DKey[y] < DKey[dnode_p[d]] => DKey[y] < name[d]
      BY <1>1, <1>2 DEF AtDoc
    <3>2. /\ l = "before" => name[d] < DKey[dnode_p[d]]
          /\ l = "append" => DKey[dnode_p[d]] < name[d] /\ dn[dnode_p[d]].next = NULL
      BY <1>1, <1>2, <1>5 DEF last, l
    <3> QED
      BY <1>2, <1>3, <1>9, <1>10, <2>0, <3>1, <3>2 DEF AtDoc
  <2> QED
    BY <2>1, <2>2
<1> QED
  BY <1>1, <1>2, <1>3, <1>6, <1>7, <1>8, <1>9, <1>11, <1>12, <1>13, WriterKeeps DEF adding

\* The node that an insertion is about to make is in no list.
LEMMA NotMade ==
  ASSUME SingleClient, IInv, NEW d \in Adding, tnp[d] # <<>>, pc[d] \notin Published
  PROVE  /\ New(d) \in Node /\ tn[New(d)].list = NULL /\ dn[New(d)].count = 0
         /\ New(d) \notin TNodes /\ \A x : New(d) \notin DNodes(x)
<1>1. /\ d \in Doc /\ tnp[d] \in Seq(Term) /\ New(d) = <<d, Head(tnp[d])>> /\ New(d) \in Node
  BY Writer
<1>2. Head(tnp[d]) \in Left(d)
  <2>1. Head(tnp[d]) = tnp[d][1] /\ 1 \in 1..Len(tnp[d])
    BY <1>1, Tails
  <2> QED
    BY <2>1 DEF Left
<1>3. tn[New(d)].list = NULL /\ dn[New(d)].count = 0
  BY <1>1, <1>2 DEF IInv, Fresh
<1> QED
  BY <1>1, <1>3 DEF TNodes, DNodes

\* A new document node is in the list of its term.
LEMMA NewDoc ==
  ASSUME SingleClient, IInv, NEW d \in Adding, pc[d] \in {"before", "append"},
         NEW l \in {"docPre", "docBack"}, pc' = [pc EXCEPT ![d] = l],
         UNCHANGED <<inputs, index, adding, dumping, server>>,
         dn' \in [Node -> [next : Link, pre : Link, count : Nat]],
         tn' \in [Node -> [next : Link, pre : Link, list : Link, len_list : Nat]],
         dn'[New(d)].count = CountOf(d),
         \A x \in Node : x # New(d) => dn'[x].count = dn[x].count,
         \A x \in Node : x[2] # Head(tnp[d]) => dn'[x].next = dn[x].next /\ dn'[x].pre = dn[x].pre,
         \A x \in Node : /\ tn'[x].next = tn[x].next /\ tn'[x].pre = tn[x].pre
                         /\ tn'[x].len_list = tn[x].len_list
                         /\ x # itnp[d] => tn'[x].list = tn[x].list,
         tn'[itnp[d]].list # NULL,
         Linked(DNext', DPreOf(d)', DKey, tn'[itnp[d]].list, DNodes(itnp[d]) \cup {New(d)})
  PROVE  IInv'
<1>1. pc[d] \in InDocs /\ pc[d] \notin Published
  BY DEF InDocs, Published, Linking
<1>2. /\ d \in Doc /\ d \in Thread /\ tnp[d] # <<>> /\ name[d] \in Nat
      /\ itnp[d] \in TNodes /\ itnp[d] \in Node /\ itnp[d][2] = Head(tnp[d])
      /\ dnode_p[d] \in DNodes(itnp[d]) /\ dnode_p[d] \in Node
      /\ New(d) \in Node /\ New(d)[2] = Head(tnp[d]) /\ New(d)[1] = d
      /\ Order(d) /\ AtTerm(d) /\ AtDoc(d) /\ HeapTypes /\ DumpTypes /\ Fresh /\ Home
  BY <1>1, AtDocNode DEF New
<1>3. /\ tn[New(d)].list = NULL /\ dn[New(d)].count = 0 /\ \A x : New(d) \notin DNodes(x)
  BY <1>1, <1>2, NotMade
<1>4. CountOf(d) \in Nat /\ CountOf(d) # 0
  <2>1. Head(tnp[d]) \in Term
    BY <1>2, Writer
  <2> QED
    BY <1>2, <2>1, SharedAssumption DEF CountOf
<1>5. /\ pc'[d] = l /\ l \in Writing /\ l \in Published /\ l \notin Linking
      /\ itnp' = itnp /\ tnp' = tnp /\ dnode_p' = dnode_p /\ name' = name /\ New(d)' = New(d)
  BY <1>2 DEF DumpTypes, Writing, InDocs, Published, Linking, adding, inputs, New
<1>6. HeapTypes'
  BY <1>2 DEF HeapTypes, inputs, adding, Link
<1>7. /\ Remaining(d)' /\ (\A e \in Doc : Left(e)' \subseteq Left(e))
      /\ Head(tnp[d]) \notin Left(d)'
  BY <1>1, <1>2, <1>5, Moves DEF inputs
<1>8. tn[itnp[d]].list # NULL /\ \A x \in Node : tn'[x].list = NULL <=> tn[x].list = NULL
  BY <1>2 DEF TNodes
<1>9. Fresh'
  <2>1. ASSUME NEW x \in Node, x[2] \in Left(x[1])'
        PROVE  tn'[x].list = tn[x].list /\ dn'[x].count = dn[x].count
    <3>1. x # New(d)
      BY <1>2, <1>7, <2>1
    <3>2. x # itnp[d]
      <4>1. x[1] \in Doc /\ x = <<x[1], x[2]>> /\ x[2] \in Left(x[1])
        BY <1>7, <2>1, Constants
      <4>2. tn[x].list = NULL
        BY <1>2, <4>1 DEF Fresh
      <4> QED
        BY <1>8, <4>2
    <3> QED
      BY <3>1, <3>2
  <2> QED
    BY <1>2, <1>7, <1>8, <2>1, FreshStays
<1>10. TKey' = TKey /\ DKey' = DKey /\ TNodes' = TNodes /\ TermsLinked(d)'
  <2>1. {pc[d], pc'[d]} \cap Linking = {}
    BY <1>5 DEF Linking
  <2> QED
    BY <1>2, <1>5, <1>8, <2>1, TermsKept DEF inputs
<1>11. /\ DNodes(itnp[d])' = DNodes(itnp[d]) \cup {New(d)}
       /\ \A x \in TNodes : x # itnp[d] => DNodes(x)' = DNodes(x) /\ x[2] # Head(tnp[d])
  <2>1. \A y \in Node : dn'[y].count # 0 <=> (y = New(d) \/ dn[y].count # 0)
    BY <1>2, <1>4
  <2>2. Forward(NextOf(d), TKey, index.list, TNodes)
    BY <1>2 DEF Order, TermsLinked, Linked
  <2>3. \A x \in TNodes : TKey[x] = x[2]
    BY <1>2, Keys DEF TNodes
  <2>4. \A x \in TNodes : x # itnp[d] => x[2] # Head(tnp[d])
    BY <1>2, <2>2, <2>3 DEF Forward
  <2>5. \A x \in TNodes : x # itnp[d] => DNodes(x)' = DNodes(x)
    BY <1>2, <2>1, <2>4 DEF DNodes
  <2>6. DNodes(itnp[d])' = DNodes(itnp[d]) \cup {New(d)}
    <3>1. DNodes(itnp[d])' = {y \in Node : y[2] = itnp[d][2] /\ dn'[y].count # 0}
      BY <1>5 DEF DNodes
    <3> QED
      BY <1>2, <2>1, <3>1 DEF DNodes
  <2> QED
    BY <2>4, <2>5, <2>6
<1>12. Home'
  BY <1>2, <1>10, <1>11 DEF Home
<1>13. Order(d)'
  <2>1. \A x : Ahead(d, x)' = 0 /\ Ahead(d, x) = IF x = itnp[d] THEN 1 ELSE 0
    BY <1>5 DEF Ahead
  <2>2. ASSUME NEW x \in TNodes, x = itnp[d] PROVE DocsLinked(d, x)'
    <3>1. tn[itnp[d]].len_list = Cardinality(DNodes(itnp[d])) + 1
      BY <1>2, <2>1 DEF Order, DocsLinked
    <3>2. Cardinality(DNodes(itnp[d]) \cup {New(d)}) = Cardinality(DNodes(itnp[d])) + 1
      <4>1. IsFiniteSet(DNodes(itnp[d]))
        BY NodesFinite DEF DNodes
      <4> QED
        BY <1>3, <4>1, FS_AddElement
    <3>3. tn'[x].len_list = Cardinality(DNodes(x)') + Ahead(d, x)'
      <4>1. Cardinality(DNodes(itnp[d])) \in Nat
        BY NodesFinite DEF DNodes
      <4>2. DNodes(x)' = DNodes(itnp[d]) \cup {New(d)}
        BY <1>5, <1>11, <2>2 DEF DNodes
      <4>3. Ahead(d, x)' = 0
        <5>1. l \notin {"before", "append"}
          OBVIOUS
        <5> QED
          BY <1>5, <5>1 DEF Ahead
      <4> QED
        BY <1>2, <2>2, <3>1, <3>2, <4>1, <4>2, <4>3
    <3>4. DNodes(x)' = DNodes(itnp[d]) \cup {New(d)}
      BY <1>5, <1>11, <2>2 DEF DNodes
    <3> QED
      BY <1>10, <2>2, <3>3, <3>4 DEF DocsLinked
  <2>3. ASSUME NEW x \in TNodes, x # itnp[d] PROVE DocsLinked(d, x)'
    <3>1. DocsLinked(d, x) /\ x \in Node /\ DNodes(x)' = DNodes(x) /\ x[2] # Head(tnp[d])
      BY <1>2, <1>11, <2>3 DEF Order, TNodes
    <3>2. \A y \in DNodes(x) : y \in Node /\ y[2] # Head(tnp[d])
      BY <3>1 DEF DNodes
    <3>3. \A y \in DNodes(x) : DNext'[y] = DNext[y]
      BY <3>2 DEF DNext
    <3>4. \A y \in DNodes(x) : DPreOf(d)'[y] = DPreOf(d)[y]
      <4>1. DPreOf(d) = DPre
        BY DEF DPreOf
      <4>2. DPreOf(d)' = [DPre' EXCEPT ![IF l = "docPre" THEN dnode_p[d] ELSE New(d)] =
                            IF l = "docPre" THEN New(d) ELSE dnode_p[d]]
        BY <1>5 DEF DPreOf
      <4>3. /\ New(d)[2] = Head(tnp[d]) /\ dnode_p[d][2] = Head(tnp[d])
        BY <1>2 DEF DNodes
      <4>4. \A y \in DNodes(x) : DPre'[y] = DPre[y] /\ y # New(d) /\ y # dnode_p[d] /\ y \in Node
        BY <3>2, <4>3 DEF DPre
      <4>5. \A y \in Node : y # (IF l = "docPre" THEN dnode_p[d] ELSE New(d)) =>
               DPreOf(d)'[y] = DPre'[y]
        BY <4>2 DEF DPre
      <4> QED
        BY <4>1, <4>4, <4>5
    <3>5. Linked(DNext', DPreOf(d)', DKey, tn[x].list, DNodes(x))
      BY <3>1, <3>3, <3>4, LinkedFrame DEF DocsLinked
    <3>6. tn'[x].list = tn[x].list /\ tn'[x].len_list = tn[x].len_list
      BY <2>3, <3>1
    <3> QED
      BY <1>10, <2>1, <2>3, <3>1, <3>5, <3>6 DEF DocsLinked
  <2> QED
    BY <1>10, <2>2, <2>3 DEF Order
<1>14. AtTerm(d)' /\ AtDoc(d)'
  <2>1. AtTerm(d)'
    BY <1>2, <1>5, <1>10 DEF AtTerm, Linking
  <2>2. AtDoc(d)'
    <3>1. dnode_p[d] \in DNodes(itnp[d])'
      BY <1>2, <1>11
    <3>2. dn'[New(d)].count # 0
      BY <1>4
    <3> QED
      BY <1>2, <1>5, <3>1, <3>2 DEF AtDoc
  <2> QED
    BY <2>1, <2>2
<1> QED
  BY <1>2, <1>5, <1>6, <1>7, <1>9, <1>12, <1>13, <1>14, WriterKeeps DEF adding

\* A document is put ahead of another.
LEMMA InsertDocKeeps ==
  ASSUME SingleClient, IInv, NEW d \in Adding, InsertDoc(d) PROVE IInv'
<1> DEFINE at == dnode_p[d]
           pre == dn[at].pre
           S == DNodes(itnp[d])
           h == tn[itnp[d]].list
<1>1. /\ pc[d] = "before" /\ pc' = [pc EXCEPT ![d] = "docPre"]
      /\ UNCHANGED <<inputs, index, adding, dumping, server>>
      /\ pre = NULL => /\ tn' = [tn EXCEPT ![itnp[d]].list = New(d)]
                       /\ dn' = NewDocNode(d, at, pre)
      /\ pre # NULL => /\ dn' = [NewDocNode(d, at, pre) EXCEPT ![pre].next = New(d)]
                       /\ tn' = tn
  BY DEF InsertDoc, NextOfNew, At, Goto
<1>2. pc[d] \in InDocs /\ pc[d] \notin Published
  BY <1>1 DEF InDocs, Published, Linking
<1>3. /\ d \in Doc /\ d \in Thread /\ tnp[d] # <<>> /\ name[d] \in Nat
      /\ itnp[d] \in TNodes /\ itnp[d] \in Node /\ itnp[d][2] = Head(tnp[d])
      /\ at \in S /\ at \in Node /\ at # NULL /\ DKey[at] \in Nat
      /\ New(d) \in Node /\ New(d) # NULL /\ New(d)[2] = Head(tnp[d]) /\ DKey[New(d)] = name[d]
      /\ AtDoc(d) /\ HeapTypes /\ DumpTypes
      /\ DocsLinked(d, itnp[d])
  BY <1>2, AtDocNode
<1>4. New(d) \notin S
  BY <1>2, <1>3, NotMade
<1>5. \A y \in S : y \in Node /\ y # NULL /\ y[2] = Head(tnp[d])
  BY <1>3, Constants DEF DNodes
<1>6. Linked(DNext, DPre, DKey, h, S)
  <2>1. DPreOf(d) = DPre
    BY <1>1 DEF DPreOf
  <2> QED
    BY <1>3, <2>1 DEF DocsLinked
<1>7. /\ dn \in [Node -> [next : Link, pre : Link, count : Nat]]
      /\ tn \in [Node -> [next : Link, pre : Link, list : Link, len_list : Nat]]
      /\ pre \in Link /\ at \in Link /\ New(d) \in Link /\ CountOf(d) \in Nat
  <2>1. CountOf(d) \in Nat
    <3>1. Head(tnp[d]) \in Term
      BY <1>3, Writer
    <3> QED
      BY <1>3, <3>1, SharedAssumption DEF CountOf
  <2> QED
    BY <1>3, <2>1 DEF HeapTypes, Link
<1>8. DPre[at] = pre
  BY <1>3 DEF DPre
<1>9. pre # NULL => pre \in S
  BY <1>3, <1>6, <1>8 DEF Linked, Backward
<1>10. at # h => pre # NULL
  BY <1>3, <1>5, <1>6, <1>8 DEF Linked, Backward
<1> HIDE DEF at, pre, S, h
<1>11. /\ dn' \in [Node -> [next : Link, pre : Link, count : Nat]]
       /\ \A x \in Node : x # New(d) => dn'[x].count = dn[x].count /\ dn'[x].pre = dn[x].pre
       /\ \A x \in Node : x # New(d) /\ x # pre => dn'[x].next = dn[x].next
       /\ dn'[New(d)].count = CountOf(d) /\ dn'[New(d)].pre = pre /\ dn'[New(d)].next = at
       /\ pre # NULL => dn'[pre].next = New(d)
  <2> DEFINE made == NewDocNode(d, at, pre)
  <2>1. /\ made \in [Node -> [next : Link, pre : Link, count : Nat]]
        /\ \A x \in Node : x # New(d) => made[x] = dn[x]
        /\ made[New(d)].count = CountOf(d) /\ made[New(d)].pre = pre /\ made[New(d)].next = at
    BY <1>3, <1>7 DEF NewDocNode
  <2> HIDE DEF made
  <2>2. CASE pre = NULL
    BY <1>1, <1>3, <2>1, <2>2, Constants DEF made
  <2>3. CASE pre # NULL
    <3>1. dn' = [made EXCEPT ![pre].next = New(d)] /\ pre \in Node /\ pre # New(d)
      BY <1>1, <1>4, <1>5, <1>9, <2>3 DEF made
    <3>2. /\ dn' \in [Node -> [next : Link, pre : Link, count : Nat]]
          /\ \A x \in Node : /\ dn'[x].count = made[x].count /\ dn'[x].pre = made[x].pre
                             /\ dn'[x].next = IF x = pre THEN New(d) ELSE made[x].next
      BY <1>7, <2>1, <3>1
    <3> QED
      BY <1>3, <2>1, <3>1, <3>2
  <2> QED
    BY <2>2, <2>3
<1>12. /\ tn' \in [Node -> [next : Link, pre : Link, list : Link, len_list : Nat]]
       /\ \A x \in Node : /\ tn'[x].next = tn[x].next /\ tn'[x].pre = tn[x].pre
                          /\ tn'[x].len_list = tn[x].len_list
                          /\ x # itnp[d] => tn'[x].list = tn[x].list
       /\ tn'[itnp[d]].list = IF pre = NULL THEN New(d) ELSE h
  <2>1. CASE pre = NULL
    <3>1. tn' = [tn EXCEPT ![itnp[d]].list = New(d)]
      BY <1>1, <2>1
    <3> QED
      BY <1>3, <1>7, <2>1, <3>1
  <2>2. CASE pre # NULL
    <3>1. tn' = tn
      BY <1>1, <2>2
    <3> QED
      BY <1>7, <2>2, <3>1 DEF h
  <2> QED
    BY <2>1, <2>2
<1>13. tn'[itnp[d]].list # NULL
  BY <1>3, <1>12 DEF TNodes, h
<1>14. \A x \in Node : x[2] # Head(tnp[d]) => dn'[x].next = dn[x].next /\ dn'[x].pre = dn[x].pre
  BY <1>3, <1>5, <1>9, <1>11, Constants
<1>15. Linked(DNext', DPreOf(d)', DKey, tn'[itnp[d]].list, S \cup {New(d)})
  <2>1. DPreOf(d)' = [DPre' EXCEPT ![at] = New(d)]
    <3>1. pc'[d] = "docPre" /\ dnode_p'[d] = at /\ New(d)' = New(d)
      BY <1>1, <1>3 DEF DumpTypes, adding, New, at
    <3> QED
      BY <3>1 DEF DPreOf
  <2>2. at # New(d)
    BY <1>3, <1>4
  <2>3. /\ DPreOf(d)'[New(d)] = DPre[at] /\ DPreOf(d)'[at] = New(d)
        /\ \A y \in S : y # at => DPreOf(d)'[y] = DPre[y]
    <3>1. DPre' = [x \in Node |-> dn'[x].pre] /\ DPre = [x \in Node |-> dn[x].pre]
      BY DEF DPre
    <3> QED
      BY <1>3, <1>4, <1>5, <1>8, <1>11, <2>1, <2>2, <3>1
  <2>4. /\ DNext'[New(d)] = at
        /\ at # h => DNext'[DPre[at]] = New(d)
        /\ \A y \in S : y # DPre[at] => DNext'[y] = DNext[y]
    <3>1. DNext' = [x \in Node |-> dn'[x].next] /\ DNext = [x \in Node |-> dn[x].next]
      BY DEF DNext
    <3> QED
      BY <1>3, <1>4, <1>5, <1>8, <1>9, <1>10, <1>11, <3>1
  <2>5. /\ NULL \notin S \cup {New(d)} /\ \A y \in S \cup {New(d)} : DKey[y] \in Nat
    BY <1>3, <1>5, Keys
  <2>6. /\ DKey[New(d)] < DKey[at]
        /\ \A y \in S : DKey[y] < DKey[at] => DKey[y] < DKey[New(d)]
    BY <1>1, <1>3 DEF AtDoc, at, S
  <2>7. Linked(DNext', DPreOf(d)', DKey, IF DPre[at] = NULL THEN New(d) ELSE h, S \cup {New(d)})
    <3> DEFINE next2 == DNext'
               pre2 == DPreOf(d)'
               x == New(d)
    <3>1. /\ at \in S /\ NULL \notin S \cup {x} /\ (\A y \in S \cup {x} : DKey[y] \in Nat)
          /\ Linked(DNext, DPre, DKey, h, S) /\ x \notin S
          /\ DKey[x] < DKey[at] /\ \A y \in S : DKey[y] < DKey[at] => DKey[y] < DKey[x]
      BY <1>3, <1>4, <1>6, <2>5, <2>6
    <3>2. /\ next2[x] = at /\ pre2[x] = DPre[at] /\ pre2[at] = x
          /\ at # h => next2[DPre[at]] = x
          /\ \A y \in S : y # DPre[at] => next2[y] = DNext[y]
          /\ \A y \in S : y # at => pre2[y] = DPre[y]
      BY <2>3, <2>4
    <3> HIDE DEF next2, pre2, x
    <3>3. Linked(next2, pre2, DKey, IF DPre[at] = NULL THEN x ELSE h, S \cup {x})
      BY ONLY <3>1, <3>2, InsertedBefore
    <3> QED
      BY <3>3 DEF next2, pre2, x
  <2> QED
    BY <1>8, <1>12, <2>7
<1>16. Linked(DNext', DPreOf(d)', DKey, tn'[itnp[d]].list, DNodes(itnp[d]) \cup {New(d)})
  BY <1>15 DEF S
<1>17. PICK l : l = "docPre"
  OBVIOUS
<1>18. /\ pc[d] \in {"before", "append"} /\ l \in {"docPre", "docBack"}
       /\ pc' = [pc EXCEPT ![d] = l]
       /\ UNCHANGED <<inputs, index, adding, dumping, server>>
  BY <1>1, <1>17
<1>19. \A x \in Node : x # New(d) => dn'[x].count = dn[x].count
  BY <1>11
<1>20. \A x \in Node : /\ tn'[x].next = tn[x].next /\ tn'[x].pre = tn[x].pre
                       /\ tn'[x].len_list = tn[x].len_list
                       /\ x # itnp[d] => tn'[x].list = tn[x].list
  BY <1>12
<1> QED
  BY <1>11, <1>12, <1>13, <1>14, <1>16, <1>18, <1>19, <1>20, NewDoc

\* A document is put at the end.
LEMMA AppendDocKeeps ==
  ASSUME SingleClient, IInv, NEW d \in Adding, AppendDoc(d) PROVE IInv'
<1> DEFINE at == dnode_p[d]
           S == DNodes(itnp[d])
           h == tn[itnp[d]].list
<1>1. /\ pc[d] = "append" /\ pc' = [pc EXCEPT ![d] = "docBack"]
      /\ UNCHANGED <<inputs, index, tn, adding, dumping, server>>
      /\ dn' = [NewDocNode(d, NULL, NULL) EXCEPT ![at].next = New(d)]
  BY DEF AppendDoc, At, Goto
<1>2. pc[d] \in InDocs /\ pc[d] \notin Published
  BY <1>1 DEF InDocs, Published, Linking
<1>3. /\ d \in Doc /\ d \in Thread /\ tnp[d] # <<>> /\ name[d] \in Nat
      /\ itnp[d] \in TNodes /\ itnp[d] \in Node /\ itnp[d][2] = Head(tnp[d])
      /\ at \in S /\ at \in Node /\ at # NULL /\ DKey[at] \in Nat
      /\ New(d) \in Node /\ New(d) # NULL /\ New(d)[2] = Head(tnp[d]) /\ DKey[New(d)] = name[d]
      /\ AtDoc(d) /\ HeapTypes /\ DumpTypes
      /\ DocsLinked(d, itnp[d])
  BY <1>2, AtDocNode
<1>4. New(d) \notin S
  BY <1>2, <1>3, NotMade
<1>5. \A y \in S : y \in Node /\ y # NULL /\ y[2] = Head(tnp[d])
  BY <1>3, Constants DEF DNodes
<1>6. Linked(DNext, DPre, DKey, h, S)
  <2>1. DPreOf(d) = DPre
    BY <1>1 DEF DPreOf
  <2> QED
    BY <1>3, <2>1 DEF DocsLinked
<1>7. /\ dn \in [Node -> [next : Link, pre : Link, count : Nat]]
      /\ tn \in [Node -> [next : Link, pre : Link, list : Link, len_list : Nat]]
      /\ NULL \in Link /\ New(d) \in Link /\ CountOf(d) \in Nat
  <2>1. CountOf(d) \in Nat
    <3>1. Head(tnp[d]) \in Term
      BY <1>3, Writer
    <3> QED
      BY <1>3, <3>1, SharedAssumption DEF CountOf
  <2> QED
    BY <1>3, <2>1 DEF HeapTypes, Link
<1>8. at # New(d) /\ DKey[at] < name[d] /\ dn[at].next = NULL
  BY <1>1, <1>3, <1>4 DEF AtDoc
<1> HIDE DEF at, S, h
<1>9. /\ dn' \in [Node -> [next : Link, pre : Link, count : Nat]]
      /\ \A x \in Node : x # New(d) => dn'[x].count = dn[x].count /\ dn'[x].pre = dn[x].pre
      /\ \A x \in Node : x # New(d) /\ x # at => dn'[x].next = dn[x].next
      /\ dn'[New(d)].count = CountOf(d) /\ dn'[New(d)].pre = NULL /\ dn'[New(d)].next = NULL
      /\ dn'[at].next = New(d)
  <2> DEFINE made == NewDocNode(d, NULL, NULL)
  <2>1. /\ made \in [Node -> [next : Link, pre : Link, count : Nat]]
        /\ \A x \in Node : x # New(d) => made[x] = dn[x]
        /\ made[New(d)].count = CountOf(d) /\ made[New(d)].pre = NULL /\ made[New(d)].next = NULL
    BY <1>3, <1>7 DEF NewDocNode
  <2> HIDE DEF made
  <2>2. dn' = [made EXCEPT ![at].next = New(d)]
    BY <1>1 DEF made
  <2>3. /\ dn' \in [Node -> [next : Link, pre : Link, count : Nat]]
        /\ \A x \in Node : /\ dn'[x].count = made[x].count /\ dn'[x].pre = made[x].pre
                           /\ dn'[x].next = IF x = at THEN New(d) ELSE made[x].next
    <3>1. PICK n : n = New(d)
      OBVIOUS
    <3>2. n \in Link /\ at \in Node /\ dn' = [made EXCEPT ![at].next = n]
      BY <1>3, <1>7, <2>2, <3>1
    <3>3. ASSUME NEW x \in Node
          PROVE  /\ made[x] \in [next : Link, pre : Link, count : Nat]
                 /\ dn'[x] = IF x = at THEN [made[x] EXCEPT !.next = n] ELSE made[x]
      BY <2>1, <3>2
    <3>4. ASSUME NEW x \in Node
          PROVE  /\ dn'[x] \in [next : Link, pre : Link, count : Nat]
                 /\ dn'[x].count = made[x].count /\ dn'[x].pre = made[x].pre
                 /\ dn'[x].next = IF x = at THEN n ELSE made[x].next
      <4>1. PICK a : a = made[x]
        OBVIOUS
      <4>2. PICK b : b = dn'[x]
        OBVIOUS
      <4>3. /\ a \in [next : Link, pre : Link, count : Nat] /\ n \in Link
            /\ b = IF x = at THEN [a EXCEPT !.next = n] ELSE a
        BY <3>2, <3>3, <4>1, <4>2
      <4>4. /\ b \in [next : Link, pre : Link, count : Nat]
            /\ b.count = a.count /\ b.pre = a.pre
            /\ b.next = IF x = at THEN n ELSE a.next
        BY ONLY <4>3
      <4> QED
        BY <4>1, <4>2, <4>4
    <3>5. DOMAIN dn' = Node /\ dn' = [x \in DOMAIN dn' |-> dn'[x]]
      BY <2>1, <3>2
    <3> QED
      BY <3>1, <3>4, <3>5
  <2> QED
    BY <1>3, <1>8, <2>1, <2>3
<1>10. tn'[itnp[d]].list # NULL /\ tn' = tn
  BY <1>1, <1>3 DEF TNodes
<1>11. \A x \in Node : x[2] # Head(tnp[d]) => dn'[x].next = dn[x].next /\ dn'[x].pre = dn[x].pre
  BY <1>3, <1>5, <1>9
<1>12. Linked(DNext', DPreOf(d)', DKey, tn'[itnp[d]].list, S \cup {New(d)})
  <2>1. DPreOf(d)' = [DPre' EXCEPT ![New(d)] = at]
    <3>1. pc'[d] = "docBack" /\ dnode_p'[d] = at /\ New(d)' = New(d)
      BY <1>1, <1>3 DEF DumpTypes, adding, New, at
    <3> QED
      BY <3>1 DEF DPreOf
  <2>2. /\ DPreOf(d)'[New(d)] = at
        /\ \A y \in S : DPreOf(d)'[y] = DPre[y]
    <3>1. DPre' = [x \in Node |-> dn'[x].pre] /\ DPre = [x \in Node |-> dn[x].pre]
      BY DEF DPre
    <3> QED
      BY <1>3, <1>4, <1>5, <1>9, <2>1, <3>1
  <2>3. /\ DNext'[New(d)] = NULL /\ DNext'[at] = New(d) /\ DNext[at] = NULL
        /\ \A y \in S : y # at => DNext'[y] = DNext[y]
    <3>1. DNext' = [x \in Node |-> dn'[x].next] /\ DNext = [x \in Node |-> dn[x].next]
      BY DEF DNext
    <3> QED
      BY <1>3, <1>4, <1>5, <1>8, <1>9, <3>1
  <2>4. /\ NULL \notin S \cup {New(d)} /\ \A y \in S \cup {New(d)} : DKey[y] \in Nat
        /\ S \cap {New(d)} = {}
    BY <1>3, <1>4, <1>5, Keys
  <2>5. Forward(DNext', DKey, New(d), {New(d)}) /\ Backward(DNext', DPreOf(d)', New(d), {New(d)})
    BY <1>3, <2>3 DEF Forward, Backward
  <2>6. Linked(DNext', DPreOf(d)', DKey, h, S \cup {New(d)})
    BY <1>3, <1>6, <1>8, <2>2, <2>3, <2>4, <2>5, Joined
  <2> QED
    BY <1>10, <2>6 DEF h
<1>13. /\ "docBack" \in {"docPre", "docBack"} /\ d \in Adding /\ pc[d] \in {"before", "append"}
       /\ pc' = [pc EXCEPT ![d] = "docBack"]
       /\ UNCHANGED <<inputs, index, adding, dumping, server>>
  BY <1>1
<1>14. /\ tn' \in [Node -> [next : Link, pre : Link, list : Link, len_list : Nat]]
       /\ \A x \in Node : /\ tn'[x].next = tn[x].next /\ tn'[x].pre = tn[x].pre
                          /\ tn'[x].len_list = tn[x].len_list
                          /\ x # itnp[d] => tn'[x].list = tn[x].list
  BY <1>7, <1>10
<1>15. Linked(DNext', DPreOf(d)', DKey, tn'[itnp[d]].list, DNodes(itnp[d]) \cup {New(d)})
  BY <1>12 DEF S
<1> QED
  BY <1>9, <1>10, <1>11, <1>13, <1>14, <1>15, NewDoc

-----------------------------------------------------------------------------
(* The steps that make a term node, with the document in its list. *)

\* A node for a term that has none is put in the list, wherever.
LEMMA NewTerm ==
  ASSUME SingleClient, IInv, NEW d \in Adding, pc[d] \in {"first", "walk"}, tnp[d] # <<>>,
         NEW l \in {"count", "setNext", "setBack"}, pc' = [pc EXCEPT ![d] = l],
         UNCHANGED <<inputs, adding, dumping, server>>, dn' = NewDocNode(d, NULL, NULL),
         tn' \in [Node -> [next : Link, pre : Link, list : Link, len_list : Nat]],
         tn'[New(d)].list = New(d), tn'[New(d)].len_list = 1,
         \A x \in Node : x # New(d) =>
           tn'[x].list = tn[x].list /\ tn'[x].len_list = tn[x].len_list,
         index' \in [list : Link, len_list : Nat], index'.len_list = index.len_list,
         \A y \in TNodes : y[2] # Head(tnp[d]),
         Linked(NextOf(d)', PreOf(d)', TKey, index'.list, TNodes \cup {New(d)}),
         l # "count" => itnp[d] \in TNodes,
         l = "setBack" => tn'[itnp[d]].next = New(d)
  PROVE  IInv'
<1>1. pc[d] \notin Published /\ pc[d] \notin Linking
  BY DEF Published, Linking
<1>2. /\ d \in Doc /\ d \in Thread /\ name[d] \in Nat
      /\ New(d) \in Node /\ New(d) # NULL /\ New(d)[2] = Head(tnp[d]) /\ New(d)[1] = d
      /\ DKey[New(d)] = name[d]
      /\ Order(d) /\ HeapTypes /\ DumpTypes /\ Fresh /\ Home
  BY Writer DEF IInv
<1>3. /\ New(d) \notin TNodes /\ tn[New(d)].list = NULL /\ dn[New(d)].count = 0
  BY <1>1, <1>2, NotMade
<1>4. CountOf(d) \in Nat /\ CountOf(d) # 0
  <2>1. Head(tnp[d]) \in Term
    BY Writer
  <2> QED
    BY <1>2, <2>1, SharedAssumption DEF CountOf
<1>5. /\ pc'[d] = l /\ l \in Writing /\ l \in Published /\ l \in Linking
      /\ itnp' = itnp /\ tnp' = tnp /\ name' = name /\ New(d)' = New(d)
  BY <1>2 DEF DumpTypes, Writing, Published, Linking, adding, inputs, New
<1>6. /\ dn' \in [Node -> [next : Link, pre : Link, count : Nat]]
      /\ \A x \in Node : x # New(d) => dn'[x] = dn[x]
      /\ dn'[New(d)].count = CountOf(d)
      /\ dn'[New(d)].next = NULL /\ dn'[New(d)].pre = NULL
  <2>1. dn \in [Node -> [next : Link, pre : Link, count : Nat]] /\ NULL \in Link
    BY <1>2 DEF HeapTypes, Link
  <2> QED
    BY <1>2, <1>4, <2>1 DEF NewDocNode
<1>7. HeapTypes'
  BY <1>2, <1>6 DEF HeapTypes, inputs, adding, Link
<1>8. /\ Remaining(d)' /\ (\A e \in Doc : Left(e)' \subseteq Left(e))
      /\ Head(tnp[d]) \notin Left(d)'
  BY <1>1, <1>2, <1>5, Moves DEF inputs
<1>9. Fresh'
  <2>1. ASSUME NEW x \in Node, x[2] \in Left(x[1])'
        PROVE  tn'[x].list = tn[x].list /\ dn'[x].count = dn[x].count
    <3>1. x # New(d)
      BY <1>2, <1>8, <2>1
    <3> QED
      BY <1>6, <3>1
  <2>2. \A x \in Node : tn'[x].list = NULL =>
          tn[x].list = NULL /\ tn'[x].len_list = tn[x].len_list
    BY <1>2
  <2> QED
    BY <1>2, <1>8, <2>1, <2>2, FreshStays
<1>10. TNodes' = TNodes \cup {New(d)} /\ TKey' = TKey /\ DKey' = DKey
  <2>1. TNodes' = TNodes \cup {New(d)}
    BY <1>2 DEF TNodes
  <2> QED
    BY <1>5, <2>1 DEF TKey, DKey
<1>11. /\ DNodes(New(d))' = {New(d)}
       /\ \A x \in TNodes : DNodes(x)' = DNodes(x)
  <2>1. \A y \in Node : dn'[y].count # 0 <=> (y = New(d) \/ dn[y].count # 0)
    BY <1>2, <1>4, <1>6
  <2>2. \A y \in Node : dn[y].count # 0 => y[2] # Head(tnp[d])
    BY <1>2 DEF Home
  <2>3. DNodes(New(d))' = {y \in Node : y[2] = New(d)[2] /\ dn'[y].count # 0}
    BY <1>5 DEF DNodes
  <2> QED
    BY <1>2, <2>1, <2>2, <2>3 DEF DNodes
<1>12. Home'
  <2> SUFFICES ASSUME NEW y \in Node, dn'[y].count # 0 PROVE \E x \in TNodes' : x[2] = y[2]
    BY DEF Home
  <2>1. CASE y = New(d)
    BY <1>10, <2>1
  <2>2. CASE y # New(d)
    BY <1>2, <1>6, <1>10, <2>2 DEF Home
  <2> QED
    BY <2>1, <2>2
<1>13. Order(d)'
  <2>1. \A x : Ahead(d, x)' = 0 /\ Ahead(d, x) = 0
    BY <1>5 DEF Ahead
  <2>2. DPreOf(d)' = DPre' /\ DPreOf(d) = DPre
    BY <1>5 DEF DPreOf
  <2>3. ASSUME NEW x \in TNodes, TRUE PROVE DocsLinked(d, x)'
    <3>1. DocsLinked(d, x) /\ x \in Node /\ x[2] # Head(tnp[d]) /\ DNodes(x)' = DNodes(x)
      BY <1>2, <1>11 DEF Order, TNodes
    <3>2. \A y \in DNodes(x) : y \in Node /\ y # New(d)
      BY <1>2, <3>1 DEF DNodes
    <3>3. \A y \in DNodes(x) : DNext'[y] = DNext[y] /\ DPre'[y] = DPre[y]
      BY <1>6, <3>2 DEF DNext, DPre
    <3>4. Linked(DNext', DPre', DKey, tn[x].list, DNodes(x))
      BY <2>2, <3>1, <3>3, LinkedFrame DEF DocsLinked
    <3>5. tn'[x].list = tn[x].list /\ tn'[x].len_list = tn[x].len_list
      BY <1>2, <3>1
    <3> QED
      BY <1>10, <2>1, <2>2, <3>1, <3>4, <3>5 DEF DocsLinked
  <2>4. ASSUME NEW x, x = New(d) PROVE DocsLinked(d, x)'
    <3>1. DNext'[x] = NULL /\ DPre'[x] = NULL
      BY <1>2, <1>6, <2>4 DEF DNext, DPre
    <3>2. Linked(DNext', DPre', DKey, x, {x})
      <4>1. x # NULL /\ DKey[x] \in Nat
        BY <1>2, <2>4
      <4> QED
        BY <3>1, <4>1, OneNode
    <3>3. DNodes(x)' = {x}
      BY <1>5, <1>11, <2>4 DEF DNodes
    <3>4. Cardinality({x}) = 1
      BY FS_Singleton
    <3> QED
      BY <1>10, <2>1, <2>2, <2>4, <3>2, <3>3, <3>4 DEF DocsLinked
  <2>5. TermsLinked(d)'
    <3>1. index.len_list = Cardinality(TNodes)
      <4>1. Behind(d) = 0
        BY <1>1 DEF Behind
      <4>2. index.len_list \in Nat
        BY <1>2 DEF HeapTypes
      <4> QED
        BY <1>2, <4>1, <4>2 DEF Order, TermsLinked
    <3>2. Cardinality(TNodes \cup {New(d)}) = Cardinality(TNodes) + 1
      <4>1. IsFiniteSet(TNodes)
        BY NodesFinite DEF TNodes
      <4> QED
        BY <1>3, <4>1, FS_AddElement
    <3>3. Behind(d)' = 1
      BY <1>5 DEF Behind
    <3>4. index'.len_list + Behind(d)' = Cardinality(TNodes')
      BY <1>10, <3>1, <3>2, <3>3
    <3> QED
      BY <1>10, <3>4 DEF TermsLinked
  <2> QED
    BY <1>10, <2>3, <2>4, <2>5 DEF Order
<1>14. AtTerm(d)' /\ AtDoc(d)'
  <2>1. AtTerm(d)'
    BY <1>5, <1>10 DEF AtTerm
  <2>2. AtDoc(d)'
    BY <1>5 DEF AtDoc, InDocs
  <2> QED
    BY <2>1, <2>2
<1> QED
  BY <1>5, <1>7, <1>8, <1>9, <1>12, <1>13, <1>14, WriterKeeps

\* What NewTermNode makes, and where else tn is as it was.
LEMMA NewTermNodeIs ==
  ASSUME SingleClient, IInv, NEW d \in Adding, tnp[d] # <<>>, NEW pre \in Link
  PROVE  LET made == NewTermNode(d, pre) IN
         /\ made \in [Node -> [next : Link, pre : Link, list : Link, len_list : Nat]]
         /\ made[New(d)].next = NULL /\ made[New(d)].pre = pre
         /\ made[New(d)].list = New(d) /\ made[New(d)].len_list = 1
         /\ \A x \in Node : x # New(d) => made[x] = tn[x]
<1>1. /\ New(d) \in Node /\ New(d) \in Link /\ NULL \in Link
      /\ tn \in [Node -> [next : Link, pre : Link, list : Link, len_list : Nat]]
  BY Writer DEF HeapTypes, Link
<1> QED
  BY <1>1 DEF NewTermNode

\* The first term of the index.
LEMMA FirstTermKeeps ==
  ASSUME SingleClient, IInv, NEW d \in Adding, FirstTerm(d) PROVE IInv'
<1>1. /\ pc[d] = "first" /\ pc' = [pc EXCEPT ![d] = "count"]
      /\ UNCHANGED <<inputs, adding, dumping, server>>
      /\ tn' = NewTermNode(d, NULL) /\ dn' = NewDocNode(d, NULL, NULL)
      /\ index' = [index EXCEPT !.list = New(d)]
  BY DEF FirstTerm, At, Goto
<1>2. /\ tnp[d] # <<>> /\ New(d) \in Node /\ New(d) # NULL
      /\ TKey[New(d)] \in Nat /\ AtTerm(d) /\ Order(d) /\ HeapTypes /\ DumpTypes /\ d \in Thread
      /\ NULL \in Link
  BY <1>1, Writer DEF Link
<1>3. TNodes = {}
  <2>1. index.list = NULL
    BY <1>1, <1>2 DEF AtTerm
  <2> QED
    BY <1>2, <2>1 DEF Order, TermsLinked, Linked, Forward
<1>4. /\ tn' \in [Node -> [next : Link, pre : Link, list : Link, len_list : Nat]]
      /\ tn'[New(d)].next = NULL /\ tn'[New(d)].pre = NULL
      /\ tn'[New(d)].list = New(d) /\ tn'[New(d)].len_list = 1
      /\ \A x \in Node : x # New(d) => tn'[x] = tn[x]
  BY <1>1, <1>2, NewTermNodeIs
<1>5. /\ index' \in [list : Link, len_list : Nat] /\ index'.len_list = index.len_list
      /\ index'.list = New(d)
  <2>1. index \in [list : Link, len_list : Nat] /\ New(d) \in Link
    BY <1>2 DEF HeapTypes, Link
  <2>2. index' = [index EXCEPT !.list = New(d)]
    BY <1>1
  <2> QED
    BY ONLY <2>1, <2>2
<1>6. Linked(NextOf(d)', PreOf(d)', TKey, index'.list, TNodes \cup {New(d)})
  <2>1. pc'[d] = "count"
    BY <1>1, <1>2 DEF DumpTypes
  <2>2. NextOf(d)' = TNext' /\ PreOf(d)' = TPre'
    BY <2>1 DEF NextOf, PreOf
  <2>3. TNext'[New(d)] = NULL /\ TPre'[New(d)] = NULL
    BY <1>2, <1>4 DEF TNext, TPre
  <2>4. Linked(TNext', TPre', TKey, New(d), {New(d)})
    BY <1>2, <2>3, OneNode
  <2> QED
    BY <1>3, <1>5, <2>2, <2>4
<1> QED
  BY <1>1, <1>2, <1>3, <1>4, <1>5, <1>6, NewTerm

\* A term is put ahead of another, its own next still unset.
LEMMA InsertTermKeeps ==
  ASSUME SingleClient, IInv, NEW d \in Adding, InsertTerm(d) PROVE IInv'
<1> DEFINE at == itnp[d]
           pre == tn[at].pre
           h == index.list
           made == NewTermNode(d, pre)
<1>1. /\ pc[d] = "walk" /\ pc' = [pc EXCEPT ![d] = "setNext"] /\ tnp[d] # <<>>
      /\ TermOf(at) > Head(tnp[d]) /\ dn' = NewDocNode(d, NULL, NULL)
      /\ UNCHANGED <<inputs, adding, dumping, server>>
      /\ pre = NULL => tn' = made /\ index' = [index EXCEPT !.list = New(d)]
      /\ pre # NULL => tn' = [made EXCEPT ![pre].next = New(d)] /\ index' = index
  BY DEF InsertTerm, At, Goto
<1>2. /\ New(d) \in Node /\ New(d) # NULL /\ Head(tnp[d]) \in Nat /\ TKey[New(d)] = Head(tnp[d])
      /\ AtTerm(d) /\ Order(d) /\ HeapTypes /\ DumpTypes /\ d \in Thread
      /\ at \in TNodes /\ at \in Node /\ at # NULL /\ at[2] \in Nat /\ TKey[at] = at[2]
  BY <1>1, Writer, AtTermNode
<1>3. New(d) \notin TNodes
  <2>1. pc[d] \notin Published
    BY <1>1 DEF Published, Linking
  <2> QED
    BY <1>1, <2>1, NotMade
<1>4. \A y \in TNodes : /\ y \in Node /\ y # NULL /\ y # New(d)
                        /\ TKey[y] = y[2] /\ y[2] \in Nat
  BY <1>2, <1>3, Keys, Constants DEF TNodes
<1>5. \A y \in TNodes : y[2] < at[2] => y[2] < Head(tnp[d])
  BY <1>1, <1>2 DEF AtTerm
<1>6. at[2] > Head(tnp[d])
  BY <1>1 DEF TermOf
<1>7. \A y \in TNodes : y[2] # Head(tnp[d])
  BY <1>2, <1>4, <1>5, <1>6
<1>8. Linked(TNext, TPre, TKey, h, TNodes)
  <2>1. NextOf(d) = TNext /\ PreOf(d) = TPre
    BY <1>1 DEF NextOf, PreOf
  <2> QED
    BY <1>2, <2>1 DEF Order, TermsLinked
<1>9. /\ TPre[at] = pre /\ pre \in Link
      /\ pre # NULL => pre \in TNodes /\ pre \in Node /\ pre # New(d)
      /\ at # h => pre # NULL
  <2>1. TPre[at] = pre /\ pre \in Link
    BY <1>2 DEF TPre, HeapTypes
  <2>2. /\ pre # NULL => pre \in TNodes
        /\ at # h => pre # NULL
    BY <1>2, <1>4, <1>8, <2>1 DEF Linked, Backward
  <2> QED
    BY <1>4, <2>1, <2>2
<1>10. /\ made \in [Node -> [next : Link, pre : Link, list : Link, len_list : Nat]]
       /\ made[New(d)].next = NULL /\ made[New(d)].pre = pre
       /\ made[New(d)].list = New(d) /\ made[New(d)].len_list = 1
       /\ \A x \in Node : x # New(d) => made[x] = tn[x]
  BY <1>1, <1>9, NewTermNodeIs
<1> HIDE DEF at, pre, h, made
<1>11. /\ tn' \in [Node -> [next : Link, pre : Link, list : Link, len_list : Nat]]
       /\ tn'[New(d)].pre = pre /\ tn'[New(d)].list = New(d) /\ tn'[New(d)].len_list = 1
       /\ \A x \in Node : x # New(d) =>
            tn'[x].list = tn[x].list /\ tn'[x].len_list = tn[x].len_list /\ tn'[x].pre = tn[x].pre
       /\ \A x \in Node : x # New(d) /\ x # pre => tn'[x].next = tn[x].next
       /\ pre # NULL => tn'[pre].next = New(d)
  <2>1. CASE pre = NULL
    <3>1. tn' = made /\ \A x \in Node : x # pre
      BY <1>1, <2>1, Constants
    <3> QED
      BY <1>2, <1>10, <2>1, <3>1
  <2>2. CASE pre # NULL
    <3>1. tn' = [made EXCEPT ![pre].next = New(d)] /\ pre \in Node /\ New(d) \in Link
      BY <1>1, <1>2, <1>9, <2>2 DEF Link
    <3>2. /\ tn' \in [Node -> [next : Link, pre : Link, list : Link, len_list : Nat]]
          /\ \A x \in Node : /\ tn'[x].pre = made[x].pre /\ tn'[x].list = made[x].list
                             /\ tn'[x].len_list = made[x].len_list
                             /\ tn'[x].next = IF x = pre THEN New(d) ELSE made[x].next
      BY <1>10, <3>1
    <3> QED
      BY <1>2, <1>9, <1>10, <2>2, <3>2
  <2> QED
    BY <2>1, <2>2
<1>12. /\ index' \in [list : Link, len_list : Nat] /\ index'.len_list = index.len_list
       /\ index'.list = IF pre = NULL THEN New(d) ELSE h
  <2>1. index \in [list : Link, len_list : Nat] /\ New(d) \in Link
    BY <1>2 DEF HeapTypes, Link
  <2>2. /\ pre = NULL => index' = [index EXCEPT !.list = New(d)]
        /\ pre # NULL => index' = index
    BY <1>1
  <2> QED
    BY ONLY <2>1, <2>2 DEF h
<1>13. Linked(NextOf(d)', PreOf(d)', TKey, index'.list, TNodes \cup {New(d)})
  <2> DEFINE next2 == NextOf(d)'
             pre2 == PreOf(d)'
             x == New(d)
  <2>1. /\ next2 = [TNext' EXCEPT ![New(d)] = at] /\ pre2 = [TPre' EXCEPT ![at] = New(d)]
    <3>1. pc'[d] = "setNext" /\ itnp'[d] = at /\ New(d)' = New(d)
      BY <1>1, <1>2 DEF DumpTypes, adding, New, at
    <3> QED
      BY <3>1 DEF NextOf, PreOf
  <2>2. /\ TNext' = [y \in Node |-> tn'[y].next] /\ TNext = [y \in Node |-> tn[y].next]
        /\ TPre' = [y \in Node |-> tn'[y].pre] /\ TPre = [y \in Node |-> tn[y].pre]
    BY DEF TNext, TPre
  <2>3. /\ next2[x] = at
        /\ at # h => next2[TPre[at]] = x
        /\ \A y \in TNodes : y # TPre[at] => next2[y] = TNext[y]
    BY <1>2, <1>4, <1>9, <1>11, <2>1, <2>2
  <2>4. /\ pre2[x] = TPre[at] /\ pre2[at] = x
        /\ \A y \in TNodes : y # at => pre2[y] = TPre[y]
    BY <1>2, <1>3, <1>4, <1>9, <1>11, <2>1, <2>2
  <2>5. /\ at \in TNodes /\ NULL \notin TNodes \cup {x} /\ (\A y \in TNodes \cup {x} : TKey[y] \in Nat)
        /\ Linked(TNext, TPre, TKey, h, TNodes) /\ x \notin TNodes
        /\ TKey[x] < TKey[at] /\ \A y \in TNodes : TKey[y] < TKey[at] => TKey[y] < TKey[x]
    BY <1>2, <1>3, <1>4, <1>5, <1>6, <1>8
  <2> HIDE DEF next2, pre2, x
  <2>6. Linked(next2, pre2, TKey, IF TPre[at] = NULL THEN x ELSE h, TNodes \cup {x})
    BY ONLY <2>3, <2>4, <2>5, InsertedBefore
  <2> QED
    BY <1>9, <1>12, <2>6 DEF next2, pre2, x
<1> QED
  BY <1>1, <1>2, <1>7, <1>11, <1>12, <1>13, NewTerm DEF at

\* A term is put at the end.
LEMMA AppendTermKeeps ==
  ASSUME SingleClient, IInv, NEW d \in Adding, AppendTerm(d) PROVE IInv'
<1> DEFINE at == itnp[d]
           h == index.list
           made == NewTermNode(d, NULL)
<1>1. /\ pc[d] = "walk" /\ pc' = [pc EXCEPT ![d] = "setBack"] /\ tnp[d] # <<>>
      /\ TermOf(at) < Head(tnp[d]) /\ tn[at].next = NULL /\ dn' = NewDocNode(d, NULL, NULL)
      /\ UNCHANGED <<inputs, index, adding, dumping, server>>
      /\ tn' = [made EXCEPT ![at].next = New(d)]
  BY DEF AppendTerm, HasNext, At, Goto
<1>2. /\ New(d) \in Node /\ New(d) # NULL /\ Head(tnp[d]) \in Nat /\ TKey[New(d)] = Head(tnp[d])
      /\ AtTerm(d) /\ Order(d) /\ HeapTypes /\ DumpTypes /\ d \in Thread /\ NULL \in Link
      /\ at \in TNodes /\ at \in Node /\ at # NULL /\ at[2] \in Nat /\ TKey[at] = at[2]
  BY <1>1, Writer, AtTermNode DEF Link
<1>3. New(d) \notin TNodes
  <2>1. pc[d] \notin Published
    BY <1>1 DEF Published, Linking
  <2> QED
    BY <1>1, <2>1, NotMade
<1>4. \A y \in TNodes : /\ y \in Node /\ y # NULL /\ y # New(d)
                        /\ TKey[y] = y[2] /\ y[2] \in Nat
  BY <1>2, <1>3, Keys, Constants DEF TNodes
<1>5. at[2] < Head(tnp[d])
  BY <1>1 DEF TermOf
<1>6. Linked(TNext, TPre, TKey, h, TNodes)
  <2>1. NextOf(d) = TNext /\ PreOf(d) = TPre
    BY <1>1 DEF NextOf, PreOf
  <2> QED
    BY <1>2, <2>1 DEF Order, TermsLinked
<1>7. TNext[at] = NULL
  BY <1>1, <1>2 DEF TNext
<1>8. \A y \in TNodes : y[2] # Head(tnp[d])
  BY <1>2, <1>4, <1>5, <1>6, <1>7 DEF Linked, Forward
<1>9. /\ made \in [Node -> [next : Link, pre : Link, list : Link, len_list : Nat]]
      /\ made[New(d)].next = NULL /\ made[New(d)].pre = NULL
      /\ made[New(d)].list = New(d) /\ made[New(d)].len_list = 1
      /\ \A x \in Node : x # New(d) => made[x] = tn[x]
  BY <1>1, <1>2, NewTermNodeIs
<1> HIDE DEF at, h, made
<1>10. at # New(d)
  BY <1>2, <1>3
<1>11. /\ tn' \in [Node -> [next : Link, pre : Link, list : Link, len_list : Nat]]
       /\ tn'[New(d)].list = New(d) /\ tn'[New(d)].len_list = 1 /\ tn'[New(d)].next = NULL
       /\ \A x \in Node : x # New(d) =>
            tn'[x].list = tn[x].list /\ tn'[x].len_list = tn[x].len_list /\ tn'[x].pre = tn[x].pre
       /\ \A x \in Node : x # New(d) /\ x # at => tn'[x].next = tn[x].next
       /\ tn'[at].next = New(d)
  <2>1. tn' = [made EXCEPT ![at].next = New(d)] /\ New(d) \in Link
    BY <1>1, <1>2 DEF Link
  <2>2. /\ tn' \in [Node -> [next : Link, pre : Link, list : Link, len_list : Nat]]
        /\ \A x \in Node : /\ tn'[x].pre = made[x].pre /\ tn'[x].list = made[x].list
                           /\ tn'[x].len_list = made[x].len_list
                           /\ tn'[x].next = IF x = at THEN New(d) ELSE made[x].next
    BY <1>2, <1>9, <2>1
  <2> QED
    BY <1>2, <1>9, <1>10, <2>2
<1>12. index' \in [list : Link, len_list : Nat] /\ index' = index
  BY <1>1, <1>2 DEF HeapTypes
<1>13. Linked(NextOf(d)', PreOf(d)', TKey, index'.list, TNodes \cup {New(d)})
  <2> DEFINE next2 == NextOf(d)'
             pre2 == PreOf(d)'
             x == New(d)
             A == {New(d)}
  <2>1. next2 = TNext' /\ pre2 = [TPre' EXCEPT ![New(d)] = at]
    <3>1. pc'[d] = "setBack" /\ itnp'[d] = at /\ New(d)' = New(d)
      BY <1>1, <1>2 DEF DumpTypes, adding, New, at
    <3> QED
      BY <3>1 DEF NextOf, PreOf
  <2>2. /\ TNext' = [y \in Node |-> tn'[y].next] /\ TNext = [y \in Node |-> tn[y].next]
        /\ TPre' = [y \in Node |-> tn'[y].pre] /\ TPre = [y \in Node |-> tn[y].pre]
    BY DEF TNext, TPre
  <2>3. /\ next2[at] = x /\ next2[x] = NULL /\ pre2[x] = at
        /\ \A y \in TNodes : (y # at => next2[y] = TNext[y]) /\ pre2[y] = TPre[y]
    BY <1>2, <1>4, <1>11, <2>1, <2>2
  <2>4. /\ at \in TNodes /\ NULL \notin TNodes \cup A /\ (\A y \in TNodes \cup A : TKey[y] \in Nat)
        /\ TNodes \cap A = {} /\ x # NULL /\ TKey[at] < TKey[x]
        /\ Linked(TNext, TPre, TKey, h, TNodes) /\ TNext[at] = NULL
    BY <1>2, <1>3, <1>4, <1>5, <1>6, <1>7
  <2>5. Forward(next2, TKey, x, A) /\ Backward(next2, pre2, x, A)
    BY <1>2, <2>3 DEF Forward, Backward
  <2> HIDE DEF next2, pre2, x, A
  <2>6. Linked(next2, pre2, TKey, h, TNodes \cup A)
    BY ONLY <2>3, <2>4, <2>5, Joined
  <2> QED
    BY <1>12, <2>6 DEF next2, pre2, A, h
<1> QED
  BY <1>1, <1>2, <1>8, <1>11, <1>12, <1>13, NewTerm DEF at

-----------------------------------------------------------------------------
(* The invariant holds. *)

\* A count's list has its terms, each once, in their order.
LEMMA CountListIs ==
  ASSUME NEW s \in CountLists
  PROVE  /\ s \in Seq(Term) /\ s # <<>> /\ ToSet(s) \in Contents
         /\ ToSet(s) = {s[j] : j \in 1..Len(s)}
         /\ \A j, k \in 1..Len(s) : j < k => s[j] < s[k]
<1>1. /\ s \in BoundedSeq(Term, Cardinality(Term)) /\ ToSet(s) \in Contents
      /\ \A j, k \in DOMAIN s : j < k => s[j] < s[k]
  BY DEF CountLists
<1>2. Cardinality(Term) \in Nat
  BY SharedAssumption, FS_CardinalityType
<1>3. s \in Seq(Term)
  BY <1>1, <1>2, BoundedIsSeq
<1>4. DOMAIN s = 1..Len(s)
  BY <1>3
<1>5. ToSet(s) # {}
  BY <1>1, SharedAssumption
<1>6. s # <<>>
  BY <1>5 DEF ToSet
<1> QED
  BY <1>1, <1>3, <1>4, <1>6 DEF ToSet

\* The invariant holds of an empty index.
LEMMA InitHolds == Init => IInv
<1> SUFFICES ASSUME Init PROVE IInv
  OBVIOUS
<1>1. /\ pc = [t \in Thread |-> "new"] /\ M_index = NULL /\ name \in Naming
      /\ index = [list |-> NULL, len_list |-> 0]
      /\ tn = [x \in Node |-> [next |-> NULL, pre |-> NULL, list |-> NULL, len_list |-> 0]]
      /\ dn = [x \in Node |-> [next |-> NULL, pre |-> NULL, count |-> 0]]
      /\ itnp = [d \in Doc |-> NULL] /\ dnode_p = [d \in Doc |-> NULL]
  BY DEF Init
<1>2. /\ tnp \in [Doc -> CountLists]
      /\ has = [d \in Doc |-> ToSet(tnp[d])]
  BY DEF Init
<1>3. \A d \in Doc : /\ tnp[d] \in Seq(Term) /\ tnp[d] # <<>> /\ has[d] \in Contents
                     /\ has[d] = {tnp[d][j] : j \in 1..Len(tnp[d])}
                     /\ \A j, k \in 1..Len(tnp[d]) : j < k => tnp[d][j] < tnp[d][k]
  BY <1>2, CountListIs
<1>4. \A d \in Doc : pc[d] = "new"
  BY <1>1, Constants
<1>5. Adding = {}
  BY <1>4 DEF Adding
<1>6. HeapTypes
  <2>1. tnp \in [Doc -> Seq(Term)] /\ has \in [Doc -> Contents]
    BY <1>2, <1>3
  <2> QED
    BY <1>1, <2>1 DEF HeapTypes, Link
<1>7. DumpTypes
  <2>1. /\ tnode = NULL /\ dnode = NULL /\ size = 0 /\ server = "running"
        /\ data = [len_list |-> 0, recs |-> <<>>] /\ dump = [t \in Thread |-> data]
    BY DEF Init
  <2>2. data \in [len_list : Nat, recs : Seq(Nat \X Nat)] /\ Len(data.recs) = 0
    BY <2>1
  <2> QED
    BY <1>1, <2>1, <2>2 DEF DumpTypes, Link, Labels
<1>8. Turn /\ Lock
  BY <1>1, <1>4 DEF Turn, Lock, Dumping
<1>9. \A d \in Doc : Left(d) = {tnp[d][j] : j \in 1..Len(tnp[d])}
  <2>1. "new" \notin Published
    BY DEF Published, Linking
  <2> QED
    BY <1>4, <2>1 DEF Left
<1>10. \A d \in Doc : Remaining(d)
  BY <1>3, <1>4, <1>9 DEF Remaining
<1>11. /\ TNodes = {} /\ \A x : DNodes(x) = {}
  BY <1>1 DEF TNodes, DNodes
<1>12. Fresh /\ Home
  <2>1. \A d \in Doc : Left(d) \subseteq Term
    <3> SUFFICES ASSUME NEW d \in Doc, NEW j \in 1..Len(tnp[d]) PROVE tnp[d][j] \in Term
      BY <1>9
    <3> QED
      BY <1>3
  <2>2. \A d \in Doc : \A t \in Left(d) : <<d, t>> \in Node
    BY <2>1, Constants
  <2> QED
    BY <1>1, <2>2 DEF Fresh, Home
<1>13. ASSUME NEW d \in Doc PROVE Order(d)
  <2>1. Linked(NextOf(d), PreOf(d), TKey, index.list, TNodes)
    BY <1>1, <1>11, NoNode
  <2>2. index.len_list + Behind(d) = Cardinality(TNodes)
    BY <1>1, <1>4, <1>11, FS_EmptySet DEF Behind, Linking
  <2> QED
    BY <1>11, <2>1, <2>2 DEF Order, TermsLinked
<1> QED
  BY <1>5, <1>6, <1>7, <1>8, <1>10, <1>12, <1>13 DEF IInv

\* The invariant is kept when nothing happens.
LEMMA StutterKeeps == IInv /\ UNCHANGED vars => IInv'
<1> SUFFICES ASSUME IInv, UNCHANGED vars PROVE IInv'
  OBVIOUS
<1>1. /\ UNCHANGED <<inputs, heap, adding, dumping, pc, server>>
  BY DEF vars
<1>2. DumpTypes' /\ Lock' /\ Turn'
  BY <1>1 DEF IInv, DumpTypes, Lock, Turn, dumping, Link
<1> QED
  BY <1>1, <1>2, ReaderKeeps

\* The invariant is kept by every step, with one client.
LEMMA StepHolds == SingleClient /\ IInv /\ [Next]_vars => IInv'
<1> SUFFICES ASSUME SingleClient, IInv, [Next]_vars PROVE IInv'
  OBVIOUS
<1>1. ASSUME NEW d \in Doc, DoIndex(d) PROVE IInv'
  BY <1>1, DoIndexKeeps
<1>2. ASSUME NEW d \in Doc, AddCount(d) PROVE IInv'
  <2>1. CASE AllAdded(d)
    BY <2>1, AllAddedKeeps
  <2>2. CASE ~AllAdded(d)
    <3>1. pc[d] \in Writing
      BY <1>2, <2>2 DEF AddCount, FirstTerm, InsertTerm, SetNext, SetPre, NextTerm, AppendTerm,
         SetBack, CountTerm, SameTerm, CountAgain, NextDoc, CountDoc, InsertDoc, SetDocPre,
         AppendDoc, SetDocBack, At, Writing, Linking, InDocs
    <3>2. d \in Adding
      BY <3>1, AddingIs
    <3> QED
      BY <1>2, <2>2, <3>2, FirstTermKeeps, InsertTermKeeps, SettingTerms, WalkingTerms,
         AppendTermKeeps, CountTermKeeps, InsertReturning, NextDocKeeps, CountDocKeeps,
         InsertDocKeeps, AppendDocKeeps DEF AddCount
  <2> QED
    BY <2>1, <2>2
<1>3. ASSUME NEW c \in Reg, DoReg(c) PROVE IInv'
  BY <1>3, DoRegKeeps
<1>4. ASSUME NEW t \in Thread, DumpIndex(t) PROVE IInv'
  BY <1>4, Measuring, WritingRecords, WritingWalks DEF DumpIndex
<1>5. CASE UNCHANGED vars
  BY <1>5, StutterKeeps
<1> QED
  BY <1>1, <1>2, <1>3, <1>4, <1>5 DEF Next

\* The invariant holds throughout, with one client.
LEMMA AlwaysIInv ==
  ASSUME SingleClient PROVE Spec => []IInv
<1>1. IInv /\ [Next]_vars => IInv'
  BY StepHolds
<1> QED
  BY <1>1, InitHolds, PTL DEF Spec

\* There is no document: the index stays empty.
NoDocument == Doc = {} => index = [list |-> NULL, len_list |-> 0]

\* No dump is at a document's place without a term's.
LEMMA AlwaysNoDocument == Spec => []NoDocument
<1>1. Init => NoDocument
  BY DEF Init, NoDocument
<1>2. NoDocument /\ [Next]_vars => NoDocument'
  <2> SUFFICES ASSUME NoDocument, Doc = {}, [Next]_vars PROVE index' = index
    BY DEF NoDocument
  <2>1. ASSUME NEW c \in Reg, DoReg(c) PROVE index' = index
    BY <2>1 DEF DoReg, heap
  <2>2. ASSUME NEW t \in Thread, DumpIndex(t) PROVE index' = index
    BY <2>2 DEF DumpIndex, LockIndex, MeasureTerm, MeasureDoc, WriteLength, ListAgain,
       WriteTerm, FirstDoc, WriteDoc, AfterDoc, AfterTerm, Dumped, heap
  <2>3. CASE UNCHANGED vars
    BY <2>3 DEF vars, heap
  <2> QED
    BY <2>1, <2>2, <2>3 DEF Next
<1> QED
  BY <1>1, <1>2, PTL DEF Spec

\* At any moment the lists are in order as some document sees them.
LEMMA SomeOrder ==
  ASSUME SingleClient, IInv, Doc # {}
  PROVE  \E d \in Doc : Alone(d) /\ Order(d)
<1>1. \E d \in Doc : Alone(d)
  <2>1. CASE Adding = {}
    BY <2>1 DEF Alone
  <2>2. CASE Adding # {}
    BY <2>2, OneWriter, AddingIs DEF IInv
  <2> QED
    BY <2>1, <2>2
<1> QED
  BY <1>1 DEF IInv

-----------------------------------------------------------------------------
(* Types. *)

\* A list of documents has one node of each document at most.
LEMMA FewDocs ==
  ASSUME NEW x \in Node, NEW D \in SUBSET Doc, \A y \in DNodes(x) : y[1] \in D
  PROVE  Cardinality(DNodes(x)) <= Cardinality(D)
<1> DEFINE f == [y \in DNodes(x) |-> y[1]]
<1>1. \A y \in DNodes(x) : y \in Node /\ y[2] = x[2] /\ y = <<y[1], y[2]>>
  BY Constants DEF DNodes
<1>2. f \in Injection(DNodes(x), D)
  <2>1. f \in [DNodes(x) -> D]
    OBVIOUS
  <2>2. \A y, z \in DNodes(x) : f[y] = f[z] => y = z
    BY <1>1
  <2> QED
    BY <2>1, <2>2 DEF Injection, IsInjective
<1>3. IsFiniteSet(D)
  BY SharedAssumption, FS_Subset
<1> QED
  BY <1>2, <1>3, FS_Injection

\* The lengths are at most the numbers of nodes and documents.
LEMMA LengthsBounded ==
  ASSUME SingleClient, IInv, NoDocument
  PROVE  /\ index.len_list \in 0..Cardinality(Node)
         /\ \A x \in Node : tn[x].len_list \in 0..Cardinality(Doc)
<1>0. /\ HeapTypes /\ Fresh /\ Cardinality(Node) \in Nat
      /\ IsFiniteSet(Doc) /\ Cardinality(Doc) \in Nat
  BY NodesFinite, SharedAssumption, FS_CardinalityType DEF IInv
<1>1. CASE Doc = {}
  <2>1. index.len_list = 0 /\ Node = {}
    BY <1>1 DEF NoDocument, Node
  <2> QED
    BY <1>0, <2>1
<1>2. CASE Doc # {}
  <2>1. PICK d \in Doc : Alone(d) /\ Order(d)
    BY <1>2, SomeOrder
  <2>2. index.len_list \in 0..Cardinality(Node)
    <3>1. index.len_list + Behind(d) = Cardinality(TNodes) /\ Behind(d) \in 0..1
      BY <2>1 DEF Order, TermsLinked, Behind
    <3>2. Cardinality(TNodes) <= Cardinality(Node) /\ Cardinality(TNodes) \in Nat
      BY NodesFinite, FS_Subset DEF TNodes
    <3>3. index.len_list \in Nat
      BY <1>0 DEF HeapTypes
    <3> QED
      BY <1>0, <3>1, <3>2, <3>3
  <2>3. ASSUME NEW x \in Node PROVE tn[x].len_list \in 0..Cardinality(Doc)
    <3>1. CASE x \notin TNodes
      BY <1>0, <3>1 DEF Fresh
    <3>2. CASE x \in TNodes
      <4>1. tn[x].len_list = Cardinality(DNodes(x)) + Ahead(d, x)
        BY <2>1, <3>2 DEF Order, DocsLinked
      <4>2. Cardinality(DNodes(x)) \in Nat
        BY NodesFinite DEF DNodes
      <4>3. CASE Ahead(d, x) = 0
        <5>1. \A y \in DNodes(x) : y[1] \in Doc
          BY Constants DEF DNodes
        <5>2. Cardinality(DNodes(x)) <= Cardinality(Doc)
          BY <5>1, FewDocs
        <5> QED
          BY <1>0, <4>1, <4>2, <4>3, <5>2
      <4>4. CASE Ahead(d, x) # 0
        <5>1. /\ Ahead(d, x) = 1 /\ pc[d] \in {"before", "append"} /\ x = itnp[d]
          BY <4>4 DEF Ahead
        <5>2. d \in Adding /\ pc[d] \in InDocs /\ pc[d] \notin Published
          BY <5>1, AddingIs DEF Writing, InDocs, Published, Linking
        <5>3. /\ tnp[d] # <<>> /\ x[2] = Head(tnp[d]) /\ New(d) \notin DNodes(x)
              /\ New(d) = <<d, Head(tnp[d])>>
          BY <5>1, <5>2, AtDocNode, NotMade DEF New
        <5>4. \A y \in DNodes(x) : y[1] \in Doc \ {d}
          <6> SUFFICES ASSUME NEW y \in DNodes(x) PROVE y[1] \in Doc /\ y[1] # d
            OBVIOUS
          <6>1. y \in Node /\ y[2] = x[2] /\ y[1] \in Doc /\ y = <<y[1], y[2]>>
            BY Constants DEF DNodes
          <6> QED
            BY <5>3, <6>1
        <5>5. Cardinality(DNodes(x)) <= Cardinality(Doc \ {d})
          <6>1. (Doc \ {d}) \in SUBSET Doc
            OBVIOUS
          <6> QED
            BY <5>4, <6>1, FewDocs
        <5>6. Cardinality(Doc \ {d}) = Cardinality(Doc) - 1
          BY <1>0, FS_RemoveElement
        <5> QED
          BY <1>0, <4>1, <4>2, <5>1, <5>5, <5>6
      <4> QED
        BY <4>3, <4>4
    <3> QED
      BY <3>1, <3>2
  <2> QED
    BY <2>2, <2>3
<1> QED
  BY <1>1, <1>2

\* With one client, an insertion that goes on along a list is always at a
\* node, and no length is above the number of nodes that can be in its list.
THEOREM TypeCorrect ==
  ASSUME SingleClient PROVE Spec => []TypeOK
<1>1. IInv /\ NoDocument => TypeOK
  <2> SUFFICES ASSUME IInv, NoDocument PROVE TypeOK
    OBVIOUS
  <2>0. HeapTypes /\ DumpTypes /\ \A d \in Adding : AtTerm(d) /\ AtDoc(d)
    BY DEF IInv
  <2>1. /\ index.len_list \in 0..Cardinality(Node)
        /\ \A x \in Node : tn[x].len_list \in 0..Cardinality(Doc)
    BY LengthsBounded
  <2>2. index \in [list : Link, len_list : 0..Cardinality(Node)]
    <3>1. index \in [list : Link, len_list : Nat]
      BY <2>0 DEF HeapTypes
    <3> QED
      BY <2>1, <3>1
  <2>3. tn \in [Node -> [next : Link, pre : Link, list : Link, len_list : 0..Cardinality(Doc)]]
    <3>1. tn \in [Node -> [next : Link, pre : Link, list : Link, len_list : Nat]]
      BY <2>0 DEF HeapTypes
    <3> QED
      BY <2>1, <3>1
  <2>4. \A x \in Node : dn[x].next \in Link /\ dn[x].pre \in Link /\ dn[x].count \in Nat
    BY <2>0 DEF HeapTypes
  <2>5. ASSUME NEW d \in Doc
        PROVE  /\ pc[d] = "walk" /\ tnp[d] # <<>> => itnp[d] \in Node
               /\ pc[d] = "insert" => dnode_p[d] \in Node
    <3>1. pc[d] \in {"walk", "insert"} => d \in Adding
      BY DEF Adding
    <3>2. pc[d] = "walk" /\ tnp[d] # <<>> => itnp[d] \in Node
      BY <2>0, <3>1 DEF AtTerm, Writing, TNodes
    <3>3. pc[d] = "insert" => dnode_p[d] \in Node
      BY <2>0, <3>1 DEF AtDoc, InDocs, DNodes
    <3> QED
      BY <3>2, <3>3
  <2>6. /\ M_index \in Thread \cup {NULL} /\ tnode \in Link /\ dnode \in Link
        /\ size \in Nat /\ Len(data.recs) <= size /\ server \in {"running", "undefined"}
    BY <2>0 DEF DumpTypes
  <2>7. pc \in [Thread -> Labels]
    BY <2>0 DEF DumpTypes
  <2>8. has \in [Doc -> Contents] /\ name \in Naming
    BY <2>0 DEF HeapTypes
  <2> QED
    BY <2>2, <2>3, <2>4, <2>5, <2>6, <2>7, <2>8
       DEF TypeOK, Labels, Writing, Linking, InDocs, Dumping
<1> QED
  BY <1>1, AlwaysIInv, AlwaysNoDocument, PTL

-----------------------------------------------------------------------------
(* The lists. *)

\* A list put in order has just the nodes it is the order of.
LEMMA OrdersSet ==
  ASSUME NEW s, NEW next, NEW key, NEW h, NEW S, Orders(s, next, key, h, S)
  PROVE  ToSet(s) = S
<1>1. s \in Seq(S) /\ \A x \in S : \E j \in 1..Len(s) : s[j] = x
  BY DEF Orders
<1> QED
  BY <1>1 DEF ToSet

\* The chains of the properties, when no insertion is under way.
LEMMA ChainsAre ==
  ASSUME SingleClient, IInv, NoDocument, Adding = {}
  PROVE  /\ Linked(TNext, TPre, TKey, index.list, TNodes)
         /\ Orders(Terms, TNext, TKey, index.list, TNodes)
         /\ index.len_list = Cardinality(TNodes)
         /\ \A x \in TNodes :
              /\ Linked(DNext, DPre, DKey, tn[x].list, DNodes(x))
              /\ Orders(DocsOf(x), DNext, DKey, tn[x].list, DNodes(x))
              /\ tn[x].len_list = Cardinality(DNodes(x))
<1>1. HeapTypes
  BY DEF IInv
<1>2. ASSUME Doc = {}
      PROVE  /\ Linked(TNext, TPre, TKey, index.list, TNodes)
             /\ index.len_list = Cardinality(TNodes) /\ TNodes = {}
  <2>1. index.list = NULL /\ index.len_list = 0 /\ TNodes = {}
    BY <1>2 DEF NoDocument, TNodes, Node
  <2> QED
    BY <2>1, NoNode, FS_EmptySet
<1>3. ASSUME NEW d \in Doc
      PROVE  /\ Linked(TNext, TPre, TKey, index.list, TNodes)
             /\ index.len_list = Cardinality(TNodes)
             /\ \A x \in TNodes : /\ Linked(DNext, DPre, DKey, tn[x].list, DNodes(x))
                                  /\ tn[x].len_list = Cardinality(DNodes(x))
  <2>1. Order(d)
    BY DEF IInv, Alone
  <2>2. pc[d] \notin Writing
    BY AddingIs
  <2>3. /\ NextOf(d) = TNext /\ PreOf(d) = TPre /\ DPreOf(d) = DPre
        /\ Behind(d) = 0 /\ \A x : Ahead(d, x) = 0
    BY <2>2 DEF Writing, Linking, InDocs, NextOf, PreOf, DPreOf, Behind, Ahead
  <2>4. /\ Linked(TNext, TPre, TKey, index.list, TNodes)
        /\ index.len_list = Cardinality(TNodes)
    <3>1. index.len_list \in Nat
      BY <1>1 DEF HeapTypes
    <3> QED
      BY <2>1, <2>3, <3>1 DEF Order, TermsLinked
  <2>5. \A x \in TNodes : /\ Linked(DNext, DPre, DKey, tn[x].list, DNodes(x))
                          /\ tn[x].len_list = Cardinality(DNodes(x))
    <3>1. \A x : DNodes(x) \in SUBSET Node
      BY DEF DNodes
    <3> QED
      BY <2>1, <2>3, <3>1, NodesFinite DEF Order, DocsLinked
  <2> QED
    BY <2>4, <2>5
<1>4. /\ Linked(TNext, TPre, TKey, index.list, TNodes)
      /\ index.len_list = Cardinality(TNodes)
      /\ \A x \in TNodes : /\ Linked(DNext, DPre, DKey, tn[x].list, DNodes(x))
                           /\ tn[x].len_list = Cardinality(DNodes(x))
  <2>1. CASE Doc = {}
    BY <1>2, <2>1
  <2>2. CASE Doc # {}
    BY <1>3, <2>2
  <2> QED
    BY <2>1, <2>2
<1>5. /\ TNext \in [Node -> Node \cup {NULL}] /\ DNext \in [Node -> Node \cup {NULL}]
      /\ TKey \in [Node -> Nat] /\ DKey \in [Node -> Nat]
      /\ TNodes \subseteq Node /\ \A x : DNodes(x) \subseteq Node
      /\ IsFiniteSet(Node) /\ NULL \notin Node
  <2>1. TKey \in [Node -> Nat] /\ DKey \in [Node -> Nat]
    BY <1>1, Keys DEF TKey, DKey
  <2> QED
    BY <1>1, <2>1, Constants, NodesFinite DEF TNext, DNext, TNodes, DNodes, HeapTypes, Link
<1>6. Orders(Terms, TNext, TKey, index.list, TNodes)
  <2>1. Forward(TNext, TKey, index.list, TNodes)
    BY <1>4 DEF Linked
  <2>2. Orders(Chain(TNext, index.list), TNext, TKey, index.list, TNodes)
    BY <1>5, <2>1, ChainIs
  <2> QED
    BY <2>2 DEF Terms, TNext
<1>7. ASSUME NEW x \in TNodes PROVE Orders(DocsOf(x), DNext, DKey, tn[x].list, DNodes(x))
  <2>1. Forward(DNext, DKey, tn[x].list, DNodes(x))
    BY <1>4 DEF Linked
  <2>2. Orders(Chain(DNext, tn[x].list), DNext, DKey, tn[x].list, DNodes(x))
    BY <1>5, <2>1, ChainIs
  <2> QED
    BY <2>2 DEF DocsOf, DNext
<1> QED
  BY <1>4, <1>5, <1>6, <1>7

\* Whenever no insertion is under way, the list of terms and the list of
\* documents of each term are sorted, linked alike both ways and as long as
\* their len_list says: no interleaving of an insertion with dumps leaves a
\* link forgotten or a length wrong.
THEOREM ListsInOrderHolds ==
  ASSUME SingleClient PROVE Spec => []ListsInOrder
<1>1. IInv /\ NoDocument => ListsInOrder
  <2> SUFFICES ASSUME IInv, NoDocument, Adding = {}
               PROVE  /\ ListOK(Terms, tn, TermOf)
                      /\ index.len_list = Len(Terms)
                      /\ \A x \in ToSet(Terms) : /\ ListOK(DocsOf(x), dn, NameOf)
                                                 /\ tn[x].len_list = Len(DocsOf(x))
    BY DEF ListsInOrder
  <2>0. /\ TNodes \subseteq Node /\ \A x : DNodes(x) \subseteq Node
        /\ NULL \notin Node /\ \A S \in SUBSET Node : IsFiniteSet(S)
        /\ \A x \in Node : /\ TKey[x] = TermOf(x) /\ TKey[x] \in Nat
                           /\ DKey[x] = NameOf(x) /\ DKey[x] \in Nat
    BY Constants, NodesFinite, Keys DEF IInv, TNodes, DNodes, TermOf, NameOf
  <2>1. ListOK(Terms, tn, TermOf)
    <3> DEFINE s == Terms
    <3>1. /\ Linked(TNext, TPre, TKey, index.list, TNodes)
          /\ Orders(s, TNext, TKey, index.list, TNodes)
      BY ChainsAre
    <3> HIDE DEF s
    <3>2. /\ s \in Seq(TNodes) /\ DOMAIN s = 1..Len(s) /\ Len(s) \in Nat
          /\ \A j \in 1..Len(s) : s[j] \in TNodes
          /\ \A i, j \in 1..Len(s) : i < j => TKey[s[i]] < TKey[s[j]]
      BY <3>1 DEF Orders
    <3>3. \A j \in 1..Len(s) : TPre[s[j]] = IF j = 1 THEN NULL ELSE s[j - 1]
      <4>1. NULL \notin TNodes /\ (\A y \in TNodes : TKey[y] \in Nat) /\ IsFiniteSet(TNodes)
        BY <2>0
      <4> QED
        BY <3>1, <4>1, ChainBack
    <3>4. \A j \in DOMAIN s : tn[s[j]].pre = IF j = 1 THEN NULL ELSE s[j - 1]
      BY <2>0, <3>2, <3>3 DEF TPre
    <3>5. ASSUME NEW j \in 2..Len(s) PROVE TermOf(s[j - 1]) < TermOf(s[j])
      <4>1. j - 1 \in 1..Len(s) /\ j \in 1..Len(s) /\ j - 1 < j
        BY <3>2
      <4>2. TKey[s[j - 1]] < TKey[s[j]]
        BY <3>2, <4>1
      <4>3. s[j - 1] \in Node /\ s[j] \in Node
        BY <2>0, <3>2, <4>1
      <4> QED
        BY <2>0, <4>2, <4>3
    <3> QED
      BY <3>4, <3>5 DEF ListOK, s
  <2>2. index.len_list = Len(Terms) /\ ToSet(Terms) = TNodes
    <3>1. /\ Orders(Terms, TNext, TKey, index.list, TNodes)
          /\ index.len_list = Cardinality(TNodes)
      BY ChainsAre
    <3>2. Len(Terms) = Cardinality(TNodes)
      BY <3>1 DEF Orders
    <3>3. ToSet(Terms) = TNodes
      BY <3>1, OrdersSet
    <3> QED
      BY <3>1, <3>2, <3>3
  <2>3. ASSUME NEW x \in TNodes
        PROVE  ListOK(DocsOf(x), dn, NameOf) /\ tn[x].len_list = Len(DocsOf(x))
    <3> DEFINE s == DocsOf(x)
               S == DNodes(x)
    <3>1. /\ Linked(DNext, DPre, DKey, tn[x].list, S)
          /\ Orders(s, DNext, DKey, tn[x].list, S)
          /\ tn[x].len_list = Cardinality(S)
      BY ChainsAre
    <3>2. S \subseteq Node
      BY <2>0
    <3> HIDE DEF s, S
    <3>3. /\ s \in Seq(S) /\ DOMAIN s = 1..Len(s) /\ Len(s) \in Nat /\ Len(s) = Cardinality(S)
          /\ \A j \in 1..Len(s) : s[j] \in S
          /\ \A i, j \in 1..Len(s) : i < j => DKey[s[i]] < DKey[s[j]]
      BY <3>1 DEF Orders
    <3>4. \A j \in 1..Len(s) : DPre[s[j]] = IF j = 1 THEN NULL ELSE s[j - 1]
      <4>1. NULL \notin S /\ (\A y \in S : DKey[y] \in Nat) /\ IsFiniteSet(S)
        BY <2>0, <3>2
      <4> QED
        BY <3>1, <4>1, ChainBack
    <3>5. \A j \in DOMAIN s : dn[s[j]].pre = IF j = 1 THEN NULL ELSE s[j - 1]
      BY <3>2, <3>3, <3>4 DEF DPre
    <3>6. ASSUME NEW j \in 2..Len(s) PROVE NameOf(s[j - 1]) < NameOf(s[j])
      <4>1. j - 1 \in 1..Len(s) /\ j \in 1..Len(s) /\ j - 1 < j
        BY <3>3
      <4>2. DKey[s[j - 1]] < DKey[s[j]]
        BY <3>3, <4>1
      <4>3. s[j - 1] \in Node /\ s[j] \in Node
        BY <3>2, <3>3, <4>1
      <4> QED
        BY <2>0, <4>2, <4>3
    <3> QED
      BY <3>1, <3>3, <3>5, <3>6 DEF ListOK, s
  <2> QED
    BY <2>1, <2>2, <2>3
<1> QED
  BY <1>1, AlwaysIInv, AlwaysNoDocument, PTL

-----------------------------------------------------------------------------
(* What the counts add up to. *)

CountFor(t) == [d \in Doc |-> Count[d][t]]

\* The documents of the name nm that have t, among docs, and among those whose
\* t is counted already.
Of(docs, t, nm) == {d \in docs : name[d] = nm /\ t \in has[d]}
Counted(t, nm) == {d \in Doc : name[d] = nm /\ t \in has[d] \ Left(d)}

\* A node counts the documents of its term and name that came so far.
Summed ==
  /\ \A y \in Node : dn[y].count # 0 =>
       dn[y].count = SumOver(CountFor(y[2]), Counted(y[2], DKey[y]))
  /\ \A d \in Doc : \A t \in has[d] \ Left(d) :
       \E y \in Node : y[2] = t /\ DKey[y] = name[d] /\ dn[y].count # 0

\* There is one node for a term and a name.
OneEach ==
  \A y, z \in Node :
    dn[y].count # 0 /\ dn[z].count # 0 /\ y[2] = z[2] /\ DKey[y] = DKey[z] => y = z

\* No term's list has two nodes of one name.
LEMMA OneEachHolds ==
  ASSUME SingleClient, IInv PROVE OneEach
<1> SUFFICES ASSUME NEW y \in Node, NEW z \in Node, dn[y].count # 0, dn[z].count # 0,
                    y[2] = z[2], DKey[y] = DKey[z]
             PROVE  y = z
  BY DEF OneEach
<1>1. Doc # {}
  BY DEF Node
<1>2. PICK d \in Doc : Order(d)
  BY <1>1, SomeOrder
<1>3. PICK x \in TNodes : x[2] = y[2]
  BY DEF IInv, Home
<1>4. y \in DNodes(x) /\ z \in DNodes(x)
  BY <1>3 DEF DNodes
<1> QED
  BY <1>2, <1>3, <1>4 DEF Order, DocsLinked, Linked, Forward

\* Each document counts each of its terms at least once.
LEMMA CountsTyped ==
  ASSUME NEW t \in Term
  PROVE  CountFor(t) \in [Doc -> Nat] /\ \A d \in Doc : CountFor(t)[d] # 0
<1>1. \A d \in Doc : Count[d][t] \in Nat /\ Count[d][t] # 0
  BY SharedAssumption
<1> QED
  BY <1>1 DEF CountFor

\* SumOn is the sum of CountFor.
LEMMA SumOnIs ==
  ASSUME NEW docs \in SUBSET Doc, NEW t, NEW nm
  PROVE  SumOn(docs, t, nm) = SumOver(CountFor(t), Of(docs, t, nm))
<1> DEFINE S == Of(docs, t, nm)
           Same(a) == a = [s \in SUBSET S |->
                             IF s = {} THEN 0
                             ELSE Count[CHOOSE x \in s : TRUE][t]
                                    + a[s \ {CHOOSE x \in s : TRUE}]]
<1>1. S \in SUBSET Doc /\ IsFiniteSet(S)
  BY SharedAssumption, FS_Subset DEF Of
<1>2. ASSUME NEW a PROVE Same(a) <=> Sums(a, CountFor(t), S)
  <2>1. \A s \in SUBSET S : s # {} =>
          CountFor(t)[CHOOSE x \in s : TRUE] = Count[CHOOSE x \in s : TRUE][t]
    BY <1>1 DEF CountFor
  <2> HIDE DEF S
  <2>2. [s \in SUBSET S |-> IF s = {} THEN 0
                            ELSE Count[CHOOSE x \in s : TRUE][t]
                                    + a[s \ {CHOOSE x \in s : TRUE}]]
        = [s \in SUBSET S |-> IF s = {} THEN 0
                            ELSE CountFor(t)[CHOOSE x \in s : TRUE]
                                    + a[s \ {CHOOSE x \in s : TRUE}]]
    BY <2>1
  <2> QED
    BY <2>2 DEF Sums
<1>3. PICK total : Sums(total, CountFor(t), S) /\ SumOver(CountFor(t), S) = total[S]
  BY <1>1, SumSetIs
<1>4. \E a : Same(a)
  <2> HIDE DEF Same, S
  <2> QED
    BY <1>2, <1>3
<1>5. \E a : Same(a) /\ SumOn(docs, t, nm) = a[S]
  BY <1>4 DEF SumOn, MapThenSumSet, MapThenFoldSet, Of
<1>6. PICK a : Sums(a, CountFor(t), S) /\ SumOn(docs, t, nm) = a[S]
  <2> HIDE DEF Same
  <2> QED
    BY <1>2, <1>5
<1> QED
  BY <1>1, <1>3, <1>6, SumsUnique

\* A step after which the same is counted.
LEMMA SumsKept ==
  ASSUME Summed, has' = has, name' = name, \A y \in Node : dn'[y].count = dn[y].count,
         \A d \in Doc : Left(d)' = Left(d)
  PROVE  Summed'
<1>1. DKey' = DKey /\ \A t, nm : Counted(t, nm)' = Counted(t, nm)
  BY DEF DKey, Counted
<1> QED
  BY <1>1 DEF Summed

\* What is left to be added depends on the places of documents only.
LEMMA LeftStays ==
  ASSUME tnp' = tnp, \A d \in Doc : pc'[d] \in Published <=> pc[d] \in Published
  PROVE  \A d \in Doc : Left(d)' = Left(d)
BY DEF Left

\* A step that counts the head of tnp, in the node y.
LEMMA HeadCounted ==
  ASSUME SingleClient, IInv, Summed, OneEach', NEW d \in Adding, pc[d] \notin Published,
         tnp[d] # <<>>, NEW l \in Writing, pc' = [pc EXCEPT ![d] = l], inputs' = inputs,
         \/ tnp' = tnp /\ l \in Published
         \/ tnp' = [tnp EXCEPT ![d] = Tail(@)] /\ l = "walk",
         NEW h, h = Head(tnp[d]), NEW nm, nm = name[d],
         NEW y \in Node, y[2] = h, DKey[y] = nm,
         dn'[y].count = dn[y].count + CountOf(d),
         \A z \in Node : z # y => dn'[z].count = dn[z].count
  PROVE  Summed'
<1> DEFINE f == CountFor(h)
<1>1. /\ d \in Doc /\ h \in Term /\ tnp[d] \in Seq(Term) /\ tnp \in [Doc -> Seq(Term)]
      /\ HeapTypes /\ Remaining(d)
  BY Writer DEF HeapTypes
<1>2. has' = has /\ name' = name /\ DKey' = DKey
  BY DEF inputs, DKey
<1>3. /\ h \in Left(d) /\ Left(d)' = Left(d) \ {h}
      /\ \A e \in Doc : e # d => Left(e)' = Left(e)
  <2>1. tnp' = [tnp EXCEPT ![d] = Tail(@)] => tnp' # tnp
    <3>1. Len(Tail(tnp[d])) # Len(tnp[d])
      BY <1>1, Tails
    <3> QED
      BY <1>1, <3>1
  <2>2. /\ \/ tnp' = tnp /\ (l = "walk" \/ tnp[d] # <<>>) /\ (pc[d] \in Published => l \in Published)
           \/ tnp' = [tnp EXCEPT ![d] = Tail(@)] /\ tnp[d] # <<>> /\ l = "walk"
        /\ l \in Published \/ tnp' # tnp
    BY <2>1
  <2> QED
    BY <1>2, <2>2, Moves
<1>4. h \in has[d]
  <2>1. h = tnp[d][1] /\ 1 \in 1..Len(tnp[d])
    BY <1>1, Tails
  <2> QED
    BY <1>1, <2>1 DEF Remaining
<1>5. /\ d \notin Counted(h, nm) /\ Counted(h, nm)' = Counted(h, nm) \cup {d}
      /\ \A t, m : ~(t = h /\ m = nm) => Counted(t, m)' = Counted(t, m)
      /\ \A t, m : Counted(t, m) \in SUBSET Doc
  <2>1. d \notin Counted(h, nm) /\ \A t, m : Counted(t, m) \in SUBSET Doc
    BY <1>3 DEF Counted
  <2>2. ASSUME NEW t, NEW m, NEW e \in Doc, ~(e = d /\ t = h /\ m = nm)
        PROVE  e \in Counted(t, m)' <=> e \in Counted(t, m)
    <3>1. CASE e = d /\ m = nm
      <4>1. t \in Left(e)' <=> t \in Left(e)
        BY <1>3, <2>2, <3>1
      <4> QED
        BY <1>2, <4>1 DEF Counted
    <3>2. CASE e = d /\ m # nm
      BY <1>2, <3>2 DEF Counted
    <3>3. CASE e # d
      <4>1. Left(e)' = Left(e)
        BY <1>3, <3>3
      <4> QED
        BY <1>2, <4>1 DEF Counted
    <3> QED
      BY <3>1, <3>2, <3>3
  <2>3. \A t, m : Counted(t, m)' \subseteq Doc
    BY DEF Counted
  <2>4. d \in Counted(h, nm)'
    BY <1>1, <1>2, <1>3, <1>4 DEF Counted
  <2>5. Counted(h, nm)' = Counted(h, nm) \cup {d}
    BY <1>1, <2>1, <2>2, <2>3, <2>4
  <2>6. ASSUME NEW t, NEW m, ~(t = h /\ m = nm) PROVE Counted(t, m)' = Counted(t, m)
    <3>1. Counted(t, m)' \subseteq Doc /\ Counted(t, m) \subseteq Doc
      BY <2>1, <2>3
    <3>2. \A e \in Doc : e \in Counted(t, m)' <=> e \in Counted(t, m)
      BY <2>2, <2>6
    <3> QED
      BY ONLY <3>1, <3>2
  <2> QED
    BY <2>1, <2>5, <2>6
<1>6. /\ f \in [Doc -> Nat] /\ f[d] = CountOf(d) /\ CountOf(d) \in Nat /\ CountOf(d) # 0
      /\ IsFiniteSet(Doc)
  BY <1>1, CountsTyped, SharedAssumption DEF CountFor, CountOf
<1>7. \A z \in Node : dn[z].count \in Nat
  BY <1>1 DEF HeapTypes
<1>8. dn'[y].count # 0
  BY <1>6, <1>7
<1>9. ASSUME NEW z \in Node, dn'[z].count # 0, z # y
      PROVE  dn[z].count # 0 /\ ~(z[2] = h /\ DKey[z] = nm)
  <2>1. ~(z[2] = y[2] /\ DKey[z] = DKey[y])
    BY <1>2, <1>8, <1>9 DEF OneEach
  <2> QED
    BY <1>9, <2>1
<1>10. dn[y].count = SumOver(f, Counted(h, nm))
  <2>1. CASE dn[y].count # 0
    BY <2>1 DEF Summed
  <2>2. CASE dn[y].count = 0
    <3>1. Counted(h, nm) = {}
      <4> SUFFICES ASSUME NEW e \in Counted(h, nm) PROVE FALSE
        OBVIOUS
      <4>1. e \in Doc /\ h \in has[e] \ Left(e) /\ name[e] = nm
        BY DEF Counted
      <4>2. PICK z \in Node : z[2] = h /\ DKey[z] = nm /\ dn[z].count # 0
        BY <4>1 DEF Summed
      <4> QED
        BY <1>9, <2>2, <4>2
    <3>2. SumOver(f, {}) = 0
      <4>1. {} \in SUBSET Doc
        OBVIOUS
      <4> QED
        BY <1>6, <4>1, SumWith
    <3> QED
      BY <2>2, <3>1, <3>2
  <2> QED
    BY <2>1, <2>2
<1>11. dn'[y].count = SumOver(f, Counted(h, nm)')
  <2> DEFINE C == Counted(h, nm)
  <2>1. C \cup {d} \in SUBSET Doc /\ d \in C \cup {d} /\ (C \cup {d}) \ {d} = C
    BY <1>1, <1>5
  <2>2. SumOver(f, C \cup {d}) = f[d] + SumOver(f, C) /\ SumOver(f, C) \in Nat
    <3> HIDE DEF C, f
    <3>1. SumOver(f, C \cup {d}) = f[d] + SumOver(f, (C \cup {d}) \ {d})
      BY <1>6, <2>1, SumWith
    <3>2. C \in SUBSET Doc
      BY <2>1
    <3>3. SumOver(f, C) \in Nat
      BY <1>6, <3>2, SumWith
    <3> QED
      BY <2>1, <3>1, <3>3
  <2> HIDE DEF C, f
  <2>3. dn'[y].count = SumOver(f, C) + f[d]
    BY <1>6, <1>10 DEF C
  <2>4. dn'[y].count = SumOver(f, C \cup {d})
    BY <1>6, <2>2, <2>3
  <2> QED
    BY <1>5, <2>4 DEF C
<1>12. ASSUME NEW z \in Node, dn'[z].count # 0, NEW t, t = z[2], NEW m, m = DKey[z]
       PROVE  dn'[z].count = SumOver(CountFor(t), Counted(t, m)')
  <2>1. CASE z = y
    <3>1. t = h /\ m = nm
      BY <1>12, <2>1
    <3> QED
      BY <1>11, <2>1, <3>1
  <2>2. CASE z # y
    <3>1. dn[z].count # 0 /\ Counted(t, m)' = Counted(t, m)
      BY <1>5, <1>9, <1>12, <2>2
    <3>2. dn[z].count = SumOver(CountFor(t), Counted(t, m))
      BY <1>12, <3>1 DEF Summed
    <3> QED
      BY <2>2, <3>1, <3>2
  <2> QED
    BY <2>1, <2>2
<1>13. ASSUME NEW e \in Doc, NEW t \in has[e] \ Left(e)'
       PROVE  \E z \in Node : z[2] = t /\ DKey[z] = name[e] /\ dn'[z].count # 0
  <2>1. CASE e = d /\ t = h
    BY <1>8, <2>1
  <2>2. CASE ~(e = d /\ t = h)
    <3>1. t \in has[e] \ Left(e)
      BY <1>3, <1>13, <2>2
    <3>2. PICK z \in Node : z[2] = t /\ DKey[z] = name[e] /\ dn[z].count # 0
      BY <3>1 DEF Summed
    <3>3. dn'[z].count # 0
      BY <1>8, <3>2
    <3> QED
      BY <3>2, <3>3
  <2> QED
    BY <2>1, <2>2
<1>14. ASSUME NEW z \in Node, dn'[z].count # 0
       PROVE  dn'[z].count = SumOver(CountFor(z[2]), Counted(z[2], DKey[z])')
  <2>1. PICK t : t = z[2]
    OBVIOUS
  <2>2. PICK m : m = DKey[z]
    OBVIOUS
  <2>3. dn'[z].count = SumOver(CountFor(t), Counted(t, m)')
    BY <1>12, <1>14, <2>1, <2>2
  <2> QED
    BY <1>2, <2>1, <2>2, <2>3 DEF Counted
<1> QED
  BY <1>2, <1>13, <1>14 DEF Summed

\* The steps that make a document node, and CountAgain.
LEMMA SumsCounting ==
  ASSUME SingleClient, IInv, Summed, OneEach', NEW d \in Adding,
         \/ FirstTerm(d) \/ InsertTerm(d) \/ AppendTerm(d)
         \/ CountAgain(d) \/ InsertDoc(d) \/ AppendDoc(d)
  PROVE  Summed'
<1>1. /\ d \in Doc /\ HeapTypes /\ (pc[d] # "walk" => tnp[d] # <<>>)
      /\ dn \in [Node -> [next : Link, pre : Link, count : Nat]]
  BY Writer DEF HeapTypes
<1>2. CASE CountAgain(d)
  <2>1. /\ pc[d] = "insert" /\ pc' = [pc EXCEPT ![d] = "walk"]
        /\ tnp' = [tnp EXCEPT ![d] = Tail(@)] /\ inputs' = inputs
        /\ dn' = [dn EXCEPT ![dnode_p[d]].count = @ + CountOf(d)]
        /\ NameOf(dnode_p[d]) = name[d]
    BY <1>2 DEF CountAgain, InsertReturns, At, Goto, SameDoc
  <2>2. pc[d] \in InDocs /\ pc[d] \notin Published /\ "walk" \in Writing
    BY <2>1 DEF InDocs, Published, Linking, Writing
  <2>3. PICK y : y = dnode_p[d]
    OBVIOUS
  <2>4. /\ y \in Node /\ y[2] = Head(tnp[d]) /\ DKey[y] = name[d] /\ tnp[d] # <<>>
    BY <2>1, <2>2, <2>3, AtDocNode
  <2>5. /\ dn'[y].count = dn[y].count + CountOf(d)
        /\ \A z \in Node : z # y => dn'[z].count = dn[z].count
    BY <1>1, <2>1, <2>3, <2>4
  <2> QED
    BY <2>1, <2>2, <2>4, <2>5, HeadCounted
<1>3. ASSUME pc[d] \notin Published, tnp[d] # <<>>, NEW l \in Published,
             pc' = [pc EXCEPT ![d] = l], inputs' = inputs, tnp' = tnp,
             dn'[New(d)].count = CountOf(d),
             \A z \in Node : z # New(d) => dn'[z].count = dn[z].count
      PROVE  Summed'
  <2>1. PICK y : y = New(d)
    OBVIOUS
  <2>2. /\ y \in Node /\ y[2] = Head(tnp[d]) /\ DKey[y] = name[d]
        /\ Head(tnp[d]) \in Term
    BY <1>3, <2>1, Writer
  <2>3. dn[y].count = 0
    BY <1>3, <2>1, NotMade
  <2>4. CountOf(d) \in Nat
    BY <1>1, <2>2, SharedAssumption DEF CountOf
  <2>5. dn'[y].count = dn[y].count + CountOf(d)
    BY <1>3, <2>1, <2>3, <2>4
  <2>6. \A z \in Node : z # y => dn'[z].count = dn[z].count
    BY <1>3, <2>1
  <2>7. l \in Writing
    BY DEF Published, Writing, Linking, InDocs
  <2> QED
    BY <1>3, <2>2, <2>5, <2>6, <2>7, HeadCounted
<1>4. ASSUME tnp[d] # <<>>, NEW a, NEW b, dn' = NewDocNode(d, a, b)
      PROVE  /\ dn'[New(d)].count = CountOf(d)
             /\ \A z \in Node : z # New(d) => dn'[z].count = dn[z].count
  <2>1. New(d) \in Node
    BY <1>4, Writer
  <2> QED
    BY <1>1, <1>4, <2>1 DEF NewDocNode
<1>5. CASE FirstTerm(d)
  <2>1. /\ pc[d] = "first" /\ pc' = [pc EXCEPT ![d] = "count"] /\ tnp' = tnp /\ inputs' = inputs
        /\ dn' = NewDocNode(d, NULL, NULL)
    BY <1>5 DEF FirstTerm, At, Goto, adding
  <2>2. pc[d] \notin Published /\ "count" \in Published
    BY <2>1 DEF Published, Linking
  <2> QED
    BY <1>1, <1>3, <1>4, <2>1, <2>2
<1>6. CASE InsertTerm(d)
  <2>1. /\ pc[d] = "walk" /\ pc' = [pc EXCEPT ![d] = "setNext"] /\ tnp' = tnp /\ inputs' = inputs
        /\ dn' = NewDocNode(d, NULL, NULL) /\ tnp[d] # <<>>
    BY <1>6 DEF InsertTerm, At, Goto, adding
  <2>2. pc[d] \notin Published /\ "setNext" \in Published
    BY <2>1 DEF Published, Linking
  <2> QED
    BY <1>3, <1>4, <2>1, <2>2
<1>7. CASE AppendTerm(d)
  <2>1. /\ pc[d] = "walk" /\ pc' = [pc EXCEPT ![d] = "setBack"] /\ tnp' = tnp /\ inputs' = inputs
        /\ dn' = NewDocNode(d, NULL, NULL) /\ tnp[d] # <<>>
    BY <1>7 DEF AppendTerm, At, Goto, adding
  <2>2. pc[d] \notin Published /\ "setBack" \in Published
    BY <2>1 DEF Published, Linking
  <2> QED
    BY <1>3, <1>4, <2>1, <2>2
<1>8. ASSUME tnp[d] # <<>>, NEW a, NEW b, NEW x \in Node,
             \/ dn' = NewDocNode(d, a, b)
             \/ dn' = [NewDocNode(d, a, b) EXCEPT ![x].next = New(d)]
      PROVE  /\ dn'[New(d)].count = CountOf(d)
             /\ \A z \in Node : z # New(d) => dn'[z].count = dn[z].count
  <2>1. New(d) \in Node
    BY <1>8, Writer
  <2> DEFINE made == NewDocNode(d, a, b)
  <2>2. /\ made[New(d)].count = CountOf(d)
        /\ \A z \in Node : z # New(d) => made[z].count = dn[z].count
        /\ \A z \in Node : made[z] = [next |-> made[z].next, pre |-> made[z].pre,
                                      count |-> made[z].count]
        /\ made = [z \in Node |-> made[z]]
    BY <1>1, <2>1 DEF NewDocNode
  <2> HIDE DEF made
  <2>3. \A z \in Node : dn'[z].count = made[z].count
    <3>1. CASE dn' = made
      BY <3>1
    <3>2. CASE dn' = [made EXCEPT ![x].next = New(d)]
      BY <2>2, <3>2
    <3> QED
      BY <1>8, <3>1, <3>2 DEF made
  <2> QED
    BY <2>1, <2>2, <2>3
<1>9. CASE InsertDoc(d)
  <2>1. PICK pre : pre = dn[dnode_p[d]].pre
    OBVIOUS
  <2>2. /\ pc[d] = "before" /\ pc' = [pc EXCEPT ![d] = "docPre"] /\ tnp' = tnp /\ inputs' = inputs
        /\ pre = NULL => dn' = NewDocNode(d, NextOfNew(d), pre)
        /\ pre # NULL => dn' = [NewDocNode(d, NextOfNew(d), pre) EXCEPT ![pre].next = New(d)]
    BY <1>9, <2>1 DEF InsertDoc, At, Goto, adding
  <2>3. pc[d] \notin Published /\ "docPre" \in Published /\ pc[d] \in InDocs
    BY <2>2 DEF Published, Linking, InDocs
  <2>4. tnp[d] # <<>> /\ pre \in Link
    <3>1. dnode_p[d] \in Node /\ tnp[d] # <<>>
      BY <2>3, AtDocNode
    <3> QED
      BY <1>1, <2>1, <3>1
  <2>5. /\ dn'[New(d)].count = CountOf(d)
        /\ \A z \in Node : z # New(d) => dn'[z].count = dn[z].count
    <3>1. CASE pre = NULL
      BY <1>4, <2>2, <2>4, <3>1
    <3>2. CASE pre # NULL
      BY <1>8, <2>2, <2>4, <3>2 DEF Link
    <3> QED
      BY <3>1, <3>2
  <2> QED
    BY <1>3, <2>2, <2>3, <2>4, <2>5
<1>10. CASE AppendDoc(d)
  <2>1. /\ pc[d] = "append" /\ pc' = [pc EXCEPT ![d] = "docBack"] /\ tnp' = tnp /\ inputs' = inputs
        /\ dn' = [NewDocNode(d, NULL, NULL) EXCEPT ![dnode_p[d]].next = New(d)]
    BY <1>10 DEF AppendDoc, At, Goto, adding
  <2>2. pc[d] \notin Published /\ "docBack" \in Published /\ pc[d] \in InDocs
    BY <2>1 DEF Published, Linking, InDocs
  <2>3. tnp[d] # <<>> /\ dnode_p[d] \in Node
    BY <2>2, AtDocNode
  <2>4. /\ dn'[New(d)].count = CountOf(d)
        /\ \A z \in Node : z # New(d) => dn'[z].count = dn[z].count
    BY <1>8, <2>1, <2>3
  <2> QED
    BY <1>3, <2>1, <2>2, <2>3, <2>4
<1> QED
  BY <1>2, <1>5, <1>6, <1>7, <1>9, <1>10

\* The other steps of an insertion.
LEMMA SumsAdding ==
  ASSUME SingleClient, IInv, Summed, NEW d \in Adding,
         \/ SetNext(d) \/ SetPre(d) \/ NextTerm(d) \/ SetBack(d) \/ CountTerm(d)
         \/ SameTerm(d) \/ NextDoc(d) \/ CountDoc(d) \/ SetDocPre(d) \/ SetDocBack(d)
  PROVE  Summed'
<1>1. /\ d \in Doc /\ HeapTypes /\ tnp[d] \in Seq(Term) /\ (pc[d] # "walk" => tnp[d] # <<>>)
      /\ dn \in [Node -> [next : Link, pre : Link, count : Nat]]
      /\ tnp \in [Doc -> Seq(Term)] /\ pc \in [Thread -> Labels]
  BY Writer DEF HeapTypes, DumpTypes
<1>2. has' = has /\ name' = name
  BY DEF SetNext, SetPre, NextTerm, SetBack, CountTerm, SameTerm, NextDoc, CountDoc,
     SetDocPre, SetDocBack, InsertReturns, inputs
<1>3. \A y \in Node : dn'[y].count = dn[y].count
  <2>1. CASE SetDocPre(d) \/ SetDocBack(d)
    <3>1. PICK x, p : dn' = [dn EXCEPT ![x].pre = p]
      BY <2>1 DEF SetDocPre, SetDocBack
    <3> QED
      BY <1>1, <3>1
  <2>2. CASE ~(SetDocPre(d) \/ SetDocBack(d))
    BY <2>2 DEF SetNext, SetPre, NextTerm, SetBack, CountTerm, SameTerm, NextDoc, CountDoc, heap
  <2> QED
    BY <2>1, <2>2
<1>4. ASSUME NEW l \in Writing, pc' = [pc EXCEPT ![d] = l],
             \/ /\ tnp' = tnp /\ (l = "walk" \/ tnp[d] # <<>>)
                /\ pc[d] \in Published <=> l \in Published
             \/ /\ tnp' = [tnp EXCEPT ![d] = Tail(@)] /\ tnp[d] # <<>> /\ l = "walk"
                /\ pc[d] \in Published
      PROVE  \A e \in Doc : Left(e)' = Left(e)
  <2>1. tnp' = [tnp EXCEPT ![d] = Tail(@)] /\ tnp[d] # <<>> => tnp' # tnp
    <3>1. tnp[d] # <<>> => Len(Tail(tnp[d])) # Len(tnp[d])
      BY <1>1, Tails
    <3> QED
      BY <1>1, <3>1
  <2>2. pc[d] \in Published <=> (l \in Published \/ tnp' # tnp)
    BY <1>4, <2>1
  <2>3. \/ tnp' = tnp /\ (l = "walk" \/ tnp[d] # <<>>) /\ (pc[d] \in Published => l \in Published)
        \/ tnp' = [tnp EXCEPT ![d] = Tail(@)] /\ tnp[d] # <<>> /\ l = "walk"
    BY <1>4
  <2>4. Left(d)' = Left(d) /\ \A e \in Doc : e # d => Left(e)' = Left(e)
    BY <1>2, <1>4, <2>2, <2>3, Moves
  <2> QED
    BY <2>4
<1>5. \A e \in Doc : Left(e)' = Left(e)
  <2>1. CASE SetNext(d) \/ SetPre(d) \/ SetBack(d)
    <3>1. \E l \in Linking : /\ pc' = [pc EXCEPT ![d] = l] /\ pc[d] \in Linking /\ tnp' = tnp
                             /\ tnp[d] # <<>>
      BY <1>1, <2>1 DEF SetNext, SetPre, SetBack, At, Goto, adding, Linking
    <3> QED
      BY <1>4, <3>1 DEF Published, Writing
  <2>2. CASE CountTerm(d) \/ SetDocPre(d) \/ SetDocBack(d)
    <3>1. /\ pc' = [pc EXCEPT ![d] = "walk"] /\ tnp' = [tnp EXCEPT ![d] = Tail(@)]
          /\ pc[d] \in {"count", "countLast", "docPre", "docBack"}
      BY <2>2 DEF CountTerm, SetDocPre, SetDocBack, InsertReturns, At, Goto
    <3>2. tnp[d] # <<>> /\ pc[d] \in Published /\ "walk" \in Writing
      BY <1>1, <3>1 DEF Published, Linking, Writing
    <3> QED
      BY <1>4, <3>1, <3>2
  <2>3. CASE NextTerm(d) \/ NextDoc(d)
    <3>1. tnp' = tnp /\ pc' = pc
      BY <2>3 DEF NextTerm, NextDoc
    <3> QED
      BY <3>1, LeftStays
  <2>4. CASE SameTerm(d) \/ CountDoc(d)
    <3>1. \E l \in {"insert", "append", "before"} :
            /\ pc' = [pc EXCEPT ![d] = l] /\ tnp' = tnp /\ tnp[d] # <<>>
            /\ pc[d] \in {"walk", "insert"}
      BY <1>1, <2>4 DEF SameTerm, CountDoc, At, Goto, adding
    <3> QED
      BY <1>4, <3>1 DEF Published, Linking, Writing, InDocs
  <2> QED
    BY <2>1, <2>2, <2>3, <2>4
<1> QED
  BY <1>2, <1>3, <1>5, SumsKept

\* The steps outside of insertions.
LEMMA SumsOthers ==
  ASSUME IInv, Summed,
         \/ \E d \in Doc : DoIndex(d) \/ AllAdded(d)
         \/ \E c \in Reg : DoReg(c)
         \/ \E t \in Thread : DumpIndex(t)
         \/ UNCHANGED vars
  PROVE  Summed'
<1>1. pc \in [Thread -> Labels] /\ \A d \in Doc : d \in Thread
  BY Constants DEF IInv, DumpTypes
<1>2. has' = has /\ name' = name /\ dn' = dn /\ tnp' = tnp
  BY DEF DoIndex, AllAdded, DoReg, DumpIndex, LockIndex, MeasureTerm, MeasureDoc, WriteLength,
     ListAgain, WriteTerm, FirstDoc, WriteDoc, AfterDoc, AfterTerm, Dumped, vars,
     inputs, heap, adding
<1>3. ASSUME NEW r \in Thread, NEW l \in Labels \ Published, pc' = [pc EXCEPT ![r] = l],
             pc[r] \notin Published
      PROVE  \A d \in Doc : pc'[d] \in Published <=> pc[d] \in Published
  <2> SUFFICES ASSUME NEW d \in Doc PROVE pc'[d] \in Published <=> pc[d] \in Published
    OBVIOUS
  <2>1. pc'[d] = IF d = r THEN l ELSE pc[d]
    BY <1>1, <1>3
  <2> QED
    BY <1>3, <2>1
<1>4. \A d \in Doc : pc'[d] \in Published <=> pc[d] \in Published
  <2>1. ASSUME NEW d \in Doc, DoIndex(d) \/ AllAdded(d)
        PROVE  \A e \in Doc : pc'[e] \in Published <=> pc[e] \in Published
    <3>1. \E l \in {"first", "walk", "update"} : /\ pc' = [pc EXCEPT ![d] = l]
                                                 /\ pc[d] \in {"new", "walk"}
      BY <2>1 DEF DoIndex, AllAdded, At, Goto
    <3>2. /\ \A l \in {"first", "walk", "update"} : l \in Labels \ Published
          /\ \A l \in {"new", "walk"} : l \notin Published
      BY DEF Labels, Published, Linking, Writing, Dumping
    <3> QED
      BY <1>1, <1>3, <3>1, <3>2
  <2>2. ASSUME NEW c \in Reg, DoReg(c)
        PROVE  \A e \in Doc : pc'[e] \in Published <=> pc[e] \in Published
    <3>1. pc' = [pc EXCEPT ![c] = "update"] /\ c \in Thread /\ c \notin Doc
      BY <2>2, Constants DEF DoReg, Goto
    <3> QED
      BY <1>1, <3>1
  <2>3. ASSUME NEW t \in Thread, DumpIndex(t)
        PROVE  \A e \in Doc : pc'[e] \in Published <=> pc[e] \in Published
    <3>1. \/ pc' = pc
          \/ /\ \E l \in Dumping \cup {"done"} : pc' = [pc EXCEPT ![t] = l]
             /\ pc[t] \in Dumping \cup {"update"}
      BY <2>3 DEF DumpIndex, LockIndex, MeasureTerm, MeasureDoc, WriteLength, ListAgain, Put,
         WriteTerm, FirstDoc, WriteDoc, AfterDoc, AfterTerm, Dumped, At, Goto, Dumping
    <3>2. \A l \in Dumping \cup {"done", "update"} : l \in Labels \ Published
      BY DEF Labels, Published, Linking, Dumping
    <3> QED
      BY <1>3, <3>1, <3>2
  <2> QED
    BY <2>1, <2>2, <2>3 DEF vars
<1>5. \A d \in Doc : Left(d)' = Left(d)
  BY <1>2, <1>4, LeftStays
<1> QED
  BY <1>2, <1>5, SumsKept

\* That each node has the sum so far is kept by every step.
LEMMA SummedNext == SingleClient /\ IInv /\ Summed /\ OneEach' /\ [Next]_vars => Summed'
<1> SUFFICES ASSUME SingleClient, IInv, Summed, OneEach', [Next]_vars PROVE Summed'
  OBVIOUS
<1>1. ASSUME NEW d \in Doc, AddCount(d), ~AllAdded(d) PROVE Summed'
  <2>1. pc[d] \in Writing
    BY <1>1 DEF AddCount, FirstTerm, InsertTerm, SetNext, SetPre, NextTerm, AppendTerm,
       SetBack, CountTerm, SameTerm, CountAgain, NextDoc, CountDoc, InsertDoc, SetDocPre,
       AppendDoc, SetDocBack, At, Writing, Linking, InDocs
  <2>2. d \in Adding
    BY <2>1, AddingIs
  <2> QED
    BY <1>1, <2>2, SumsCounting, SumsAdding DEF AddCount
<1>2. CASE \/ \E d \in Doc : DoIndex(d) \/ AllAdded(d)
           \/ \E c \in Reg : DoReg(c)
           \/ \E t \in Thread : DumpIndex(t)
           \/ UNCHANGED vars
  BY <1>2, SumsOthers
<1> QED
  BY <1>1, <1>2 DEF Next

\* An empty index has the sum of no document.
LEMMA SummedInit == Init => Summed
<1> SUFFICES ASSUME Init PROVE Summed
  OBVIOUS
<1>1. IInv /\ (\A d \in Doc : pc[d] = "new") /\ \A y \in Node : dn[y].count = 0
  BY InitHolds, Constants DEF Init
<1>2. \A d \in Doc : has[d] = Left(d)
  BY <1>1 DEF IInv, Remaining
<1> QED
  BY <1>1, <1>2 DEF Summed

\* Each node has the sum of the documents counted so far, throughout.
LEMMA AlwaysSummed ==
  ASSUME SingleClient PROVE Spec => []Summed
<1>1. IInv => OneEach
  BY OneEachHolds
<1>2. IInv /\ Summed /\ OneEach' /\ [Next]_vars => Summed'
  BY SummedNext
<1> QED
  BY <1>1, <1>2, SummedInit, AlwaysIInv, PTL DEF Spec

-----------------------------------------------------------------------------
(* What a reader finds. *)

\* The lists lead to every node, but while the next of a new term node is due.
LEMMA ListsCover ==
  ASSUME SingleClient, IInv, Doc # {}, \A d \in Doc : pc[d] # "setNext"
  PROVE  ToSet(Terms) = TNodes /\ \A x \in TNodes : ToSet(DocsOf(x)) = DNodes(x)
<1>1. PICK d \in Doc : Order(d)
  BY SomeOrder
<1>2. /\ TNext \in [Node -> Node \cup {NULL}] /\ DNext \in [Node -> Node \cup {NULL}]
      /\ TKey \in [Node -> Nat] /\ DKey \in [Node -> Nat]
      /\ TNodes \subseteq Node /\ \A x : DNodes(x) \subseteq Node
      /\ IsFiniteSet(Node) /\ NULL \notin Node
  <2>1. HeapTypes
    BY DEF IInv
  <2>2. TKey \in [Node -> Nat] /\ DKey \in [Node -> Nat]
    BY <2>1, Keys DEF TKey, DKey
  <2> QED
    BY <2>1, <2>2, Constants, NodesFinite DEF TNext, DNext, TNodes, DNodes, HeapTypes, Link
<1>3. ToSet(Terms) = TNodes
  <2>1. Forward(TNext, TKey, index.list, TNodes)
    BY <1>1 DEF Order, TermsLinked, Linked, NextOf
  <2>2. Orders(Chain(TNext, index.list), TNext, TKey, index.list, TNodes)
    BY <1>2, <2>1, ChainIs
  <2> QED
    BY <2>2, OrdersSet DEF Terms, TNext
<1>4. ASSUME NEW x \in TNodes PROVE ToSet(DocsOf(x)) = DNodes(x)
  <2>1. Forward(DNext, DKey, tn[x].list, DNodes(x))
    BY <1>1 DEF Order, DocsLinked, Linked
  <2>2. Orders(Chain(DNext, tn[x].list), DNext, DKey, tn[x].list, DNodes(x))
    BY <1>2, <2>1, ChainIs
  <2> QED
    BY <2>2, OrdersSet DEF DocsOf, DNext
<1> QED
  BY <1>3, <1>4

\* Then each node is an entry of what a reader finds, and there is no other.
LEMMA ContentIs ==
  ASSUME SingleClient, IInv, Doc # {}, \A d \in Doc : pc[d] # "setNext"
  PROVE  /\ \A y \in Node : dn[y].count # 0 => <<y[2], DKey[y], dn[y].count>> \in Content
         /\ \A c \in Content : \E y \in Node : /\ dn[y].count # 0
                                               /\ c = <<y[2], DKey[y], dn[y].count>>
<1> DEFINE Entries(x) == {<<TermOf(x), NameOf(y), dn[y].count>> : y \in ToSet(DocsOf(x))}
<1>1. Content = UNION {Entries(x) : x \in TNodes}
  BY ListsCover DEF Content
<1>2. ASSUME NEW x \in TNodes
      PROVE  Entries(x) = {<<y[2], DKey[y], dn[y].count>> : y \in DNodes(x)}
  <2>1. \A y \in DNodes(x) : <<TermOf(x), NameOf(y), dn[y].count>> = <<y[2], DKey[y], dn[y].count>>
    BY DEF TermOf, NameOf, DNodes, DKey
  <2>2. Entries(x) = {<<TermOf(x), NameOf(y), dn[y].count>> : y \in DNodes(x)}
    BY ListsCover
  <2> QED
    BY <2>1, <2>2
<1> HIDE DEF Entries
<1>3. ASSUME NEW y \in Node, dn[y].count # 0
      PROVE  <<y[2], DKey[y], dn[y].count>> \in Content
  <2>1. PICK x \in TNodes : x[2] = y[2]
    BY <1>3 DEF IInv, Home
  <2>2. y \in DNodes(x)
    BY <1>3, <2>1 DEF DNodes
  <2> QED
    BY <1>1, <1>2, <2>2
<1>4. ASSUME NEW c \in Content
      PROVE  \E y \in Node : dn[y].count # 0 /\ c = <<y[2], DKey[y], dn[y].count>>
  <2>1. PICK x \in TNodes : c \in Entries(x)
    BY <1>1
  <2>2. PICK y \in DNodes(x) : c = <<y[2], DKey[y], dn[y].count>>
    BY <1>2, <2>1
  <2> QED
    BY <2>2 DEF DNodes
<1> QED
  BY <1>3, <1>4

\* All terms of a document that was added are in the index.
LEMMA AllCounted ==
  ASSUME IInv, NEW d \in Doc, pc[d] \notin {"new"} \cup Writing
  PROVE  Left(d) = {}
<1>1. tnp[d] = <<>>
  BY DEF IInv, Remaining
<1> QED
  BY <1>1 DEF Left

\* Whenever no insertion is under way, the index is the sum of the documents
\* that were added: whatever their terms, names and order, add_count_to_index
\* and insert_doc_to_term lose none and count none twice, and a file that is
\* sent again counts again under the same entry.
THEOREM SumOfDocumentsHolds ==
  ASSUME SingleClient PROVE Spec => []SumOfDocuments
<1>1. IInv /\ Summed /\ NoDocument => SumOfDocuments
  <2> SUFFICES ASSUME IInv, Summed, NoDocument, Adding = {} PROVE Content = Sum(Added)
    BY DEF SumOfDocuments
  <2>1. CASE Doc = {}
    <3>1. Added = {} /\ Node = {} /\ index.list = NULL
      BY <2>1 DEF Added, Node, NoDocument
    <3>2. ToSet(Terms) = {}
      <4>1. TNodes = {}
        BY <3>1 DEF TNodes
      <4> QED
        BY <4>1, ChainsAre, OrdersSet
    <3>3. Content = {} /\ Sum(Added) = {}
      BY <3>1, <3>2 DEF Content, Sum
    <3> QED
      BY <3>3
  <2>2. CASE Doc # {}
    <3>1. \A d \in Doc : pc[d] \notin Writing
      BY AddingIs
    <3>2. \A d \in Doc : pc[d] # "setNext"
      BY <3>1 DEF Writing, Linking
    <3>3. Added = {d \in Doc : pc[d] # "new"}
      BY DEF Added
    <3>4. \A d \in Doc : /\ d \in Added => Left(d) = {}
                         /\ d \notin Added => has[d] = Left(d)
      BY <3>1, <3>3, AllCounted DEF IInv, Remaining
    <3>5. ASSUME NEW t, NEW nm PROVE SumOn(Added, t, nm) = SumOver(CountFor(t), Counted(t, nm))
      <4>1. Of(Added, t, nm) = Counted(t, nm) /\ Added \in SUBSET Doc
        BY <3>3, <3>4 DEF Of, Counted
      <4> QED
        BY <4>1, SumOnIs
    <3>6. ASSUME NEW c \in Content PROVE c \in Sum(Added)
      <4>1. PICK y \in Node : dn[y].count # 0 /\ c = <<y[2], DKey[y], dn[y].count>>
        BY <2>2, <3>2, <3>6, ContentIs
      <4>2. dn[y].count = SumOver(CountFor(y[2]), Counted(y[2], DKey[y]))
        BY <4>1 DEF Summed
      <4>3. Counted(y[2], DKey[y]) # {}
        <5>1. SumOver(CountFor(y[2]), {}) = 0
          <6>1. y[2] \in Term /\ IsFiniteSet(Doc) /\ {} \in SUBSET Doc
            BY Constants, SharedAssumption
          <6>2. CountFor(y[2]) \in [Doc -> Nat]
            BY <6>1, CountsTyped
          <6> QED
            BY <6>1, <6>2, SumWith
        <5> QED
          BY <4>1, <4>2, <5>1
      <4>4. PICK d \in Doc : name[d] = DKey[y] /\ y[2] \in has[d] \ Left(d)
        BY <4>3 DEF Counted
      <4>5. d \in Added /\ c = <<y[2], name[d], SumOn(Added, y[2], name[d])>>
        BY <3>4, <3>5, <4>1, <4>2, <4>4
      <4> QED
        BY <4>4, <4>5 DEF Sum
    <3>7. ASSUME NEW c \in Sum(Added) PROVE c \in Content
      <4>1. PICK d \in Added : \E t \in has[d] : c = <<t, name[d], SumOn(Added, t, name[d])>>
        BY <3>7 DEF Sum
      <4>2. PICK t \in has[d] : c = <<t, name[d], SumOn(Added, t, name[d])>>
        BY <4>1
      <4>3. PICK y \in Node : y[2] = t /\ DKey[y] = name[d] /\ dn[y].count # 0
        BY <3>3, <3>4, <4>1 DEF Summed
      <4>4. dn[y].count = SumOver(CountFor(t), Counted(t, name[d]))
        BY <4>3 DEF Summed
      <4>5. c = <<y[2], DKey[y], dn[y].count>>
        BY <3>5, <4>2, <4>3, <4>4
      <4> QED
        BY <2>2, <3>2, <4>3, <4>5, ContentIs
    <3> QED
      BY <3>6, <3>7
  <2> QED
    BY <2>1, <2>2
<1> QED
  BY <1>1, AlwaysIInv, AlwaysSummed, AlwaysNoDocument, PTL

\* A reader of the lists finds every answered document under each of its terms,
\* with at least its share of the count, in the middle of every insertion but
\* in the one moment when a new term node's next is not yet set.
THEOREM HiddenOnlyInSetNextHolds ==
  ASSUME SingleClient PROVE Spec => []HiddenOnlyInSetNext
<1>1. IInv /\ Summed => HiddenOnlyInSetNext
  <2> SUFFICES ASSUME IInv, Summed, \A d \in Doc : pc[d] # "setNext",
                      NEW e \in Answered, NEW t \in has[e]
               PROVE  \E entry \in Content : /\ entry[1] = t
                                             /\ entry[2] = name[e]
                                             /\ entry[3] >= SumOn(Answered, t, name[e])
    BY DEF HiddenOnlyInSetNext
  <2>1. e \in Doc /\ Answered \in SUBSET Doc /\ \A d \in Answered : Left(d) = {}
    <3>1. \A d \in Answered : d \in Doc /\ pc[d] \notin {"new"} \cup Writing
      BY DEF Answered, Writing, Linking, InDocs
    <3> QED
      BY <3>1, AllCounted
  <2>2. PICK nm : nm = name[e]
    OBVIOUS
  <2>3. PICK y \in Node : y[2] = t /\ DKey[y] = nm /\ dn[y].count # 0
    BY <2>1, <2>2 DEF Summed
  <2>4. <<t, nm, dn[y].count>> \in Content
    BY <2>1, <2>3, ContentIs
  <2>5. dn[y].count = SumOver(CountFor(t), Counted(t, nm))
    BY <2>3 DEF Summed
  <2>6. SumOn(Answered, t, nm) = SumOver(CountFor(t), Of(Answered, t, nm))
    BY <2>1, SumOnIs
  <2>7. SumOver(CountFor(t), Of(Answered, t, nm)) <= SumOver(CountFor(t), Counted(t, nm))
    <3>1. t \in Term /\ IsFiniteSet(Doc)
      BY <2>3, Constants, SharedAssumption
    <3>2. CountFor(t) \in [Doc -> Nat]
      BY <3>1, CountsTyped
    <3>3. Counted(t, nm) \in SUBSET Doc /\ Of(Answered, t, nm) \in SUBSET Counted(t, nm)
      BY <2>1 DEF Counted, Of
    <3> QED
      BY <3>1, <3>2, <3>3, SumMore
  <2>8. dn[y].count \in Nat /\ SumOver(CountFor(t), Of(Answered, t, nm)) \in Nat
    <3>1. t \in Term /\ IsFiniteSet(Doc)
      BY <2>3, Constants, SharedAssumption
    <3>2. CountFor(t) \in [Doc -> Nat]
      BY <3>1, CountsTyped
    <3>3. Of(Answered, t, nm) \in SUBSET Doc
      BY <2>1 DEF Of
    <3>4. dn[y].count \in Nat
      BY DEF IInv, HeapTypes
    <3> QED
      BY <3>1, <3>2, <3>3, <3>4, SumWith
  <2>9. dn[y].count >= SumOn(Answered, t, nm)
    BY <2>5, <2>6, <2>7, <2>8
  <2>10. PICK entry : entry = <<t, nm, dn[y].count>>
    OBVIOUS
  <2> QED
    BY <2>2, <2>4, <2>9, <2>10
<1> QED
  BY <1>1, AlwaysIInv, AlwaysSummed, PTL

-----------------------------------------------------------------------------
(* load_index, record by record. *)

\* A set of numbers has its maximum.
LEMMA MaxIn ==
  ASSUME NEW n \in Nat, NEW s \in SUBSET (1..n), s # {}
  PROVE  Max(s) \in s
<1> DEFINE T == {n - x : x \in s}
<1>1. T \subseteq Nat /\ T # {}
  <2>1. \A x \in s : n - x \in Nat /\ n - x \in T
    OBVIOUS
  <2> QED
    BY <2>1
<1>2. PICK m \in T : \A y \in T : m <= y
  <2> HIDE DEF T
  <2> QED
    BY <1>1, LeastNumber
<1>3. PICK x \in s : m = n - x
  OBVIOUS
<1>4. \A y \in s : x >= y
  <2> SUFFICES ASSUME NEW y \in s PROVE x >= y
    OBVIOUS
  <2>1. n - y \in T
    OBVIOUS
  <2>2. n - x <= n - y
    BY <1>2, <1>3, <2>1
  <2>3. x \in Nat /\ y \in Nat
    OBVIOUS
  <2> QED
    BY ONLY <2>2, <2>3, n \in Nat
<1> QED
  BY <1>4 DEF Max

\* The maximum of 1..n, and what is left without it.
LEMMA MaxOf ==
  ASSUME NEW n \in Nat, n # 0
  PROVE  Max(1..n) = n /\ (1..n) \ {n} = 1..(n - 1) /\ 1..n # {}
<1>1. n \in 1..n /\ \A y \in 1..n : n >= y
  OBVIOUS
<1>2. \A x \in 1..n : (\A y \in 1..n : x >= y) => x = n
  BY <1>1
<1> QED
  BY <1>1, <1>2 DEF Max

\* g[s] is what is loaded of the records with an index in s.
Loads(g, base, recs, n) ==
  g = [s \in SUBSET (1..n) |->
         IF s = {} THEN base ELSE LoadRecord(recs[Max(s)], g[s \ {Max(s)}])]

\* The function that load_index's fold defines exists.
LEMMA LoadsExist ==
  ASSUME NEW n \in Nat, NEW base, NEW recs
  PROVE  \E g : Loads(g, base, recs, n)
<1> DEFINE S == 1..n
           Row(g, s) == IF s = {} THEN base ELSE LoadRecord(recs[Max(s)], g[s \ {Max(s)}])
           Right(g, m) == \A s \in SUBSET S : Cardinality(s) <= m => g[s] = Row(g, s)
           T == {m \in Nat : \E g : Right(g, m)}
<1>0. IsFiniteSet(S)
  BY FS_Interval
<1>1. ASSUME NEW s \in SUBSET S
      PROVE  /\ IsFiniteSet(s) /\ Cardinality(s) \in Nat /\ Cardinality(s) <= Cardinality(S)
             /\ \A x \in s : Cardinality(s \ {x}) = Cardinality(s) - 1
             /\ s # {} => Max(s) \in s
  <2>1. s # {} => Max(s) \in s
    BY MaxIn
  <2> HIDE DEF S
  <2> QED
    BY <1>0, <2>1, FS_Subset, FS_CardinalityType, FS_RemoveElement
<1> HIDE DEF S
<1>2. 0 \in T
  <2>1. Right([s \in SUBSET S |-> base], 0)
    <3>1. ASSUME NEW s \in SUBSET S, Cardinality(s) <= 0 PROVE s = {}
      BY <1>1, <3>1, FS_EmptySet
    <3> QED
      BY <3>1
  <2> QED
    BY <2>1
<1>3. ASSUME NEW m \in Nat, m \in T PROVE m + 1 \in T
  <2>1. PICK g : Right(g, m)
    BY <1>3
  <2> DEFINE h == [s \in SUBSET S |-> Row(g, s)]
  <2>2. ASSUME NEW s \in SUBSET S, Cardinality(s) <= m + 1 PROVE h[s] = Row(h, s)
    <3>1. CASE s = {}
      BY <3>1
    <3>2. CASE s # {}
      <4>1. PICK x : x = Max(s)
        OBVIOUS
      <4>2. x \in s /\ s \ {x} \in SUBSET S
        BY <1>1, <3>2, <4>1
      <4>3. Cardinality(s \ {x}) <= m
        <5>1. Cardinality(s \ {x}) = Cardinality(s) - 1 /\ Cardinality(s) \in Nat
          BY <1>1, <4>2
        <5> QED
          BY <2>2, <5>1
      <4>4. g[s \ {x}] = h[s \ {x}]
        BY <2>1, <4>2, <4>3
      <4>5. h[s] = LoadRecord(recs[x], g[s \ {x}]) /\ Row(h, s) = LoadRecord(recs[x], h[s \ {x}])
        <5> HIDE DEF h
        <5>1. h[s] = Row(g, s)
          BY DEF h
        <5> QED
          BY <3>2, <4>1, <5>1
      <4> QED
        BY <4>4, <4>5
    <3> QED
      BY <3>1, <3>2
  <2>3. Right(h, m + 1)
    <3> HIDE DEF h
    <3> QED
      BY <2>2
  <2>4. m + 1 \in Nat /\ \E r : Right(r, m + 1)
    <3> HIDE DEF h, Right
    <3> QED
      BY <2>3
  <2> QED
    BY <2>4
<1>4. Nat \subseteq T
  <2> HIDE DEF T
  <2> QED
    BY <1>2, <1>3, Induction
<1>5. Cardinality(S) \in Nat
  BY <1>0, FS_CardinalityType
<1>6. PICK g : Right(g, Cardinality(S))
  BY <1>4, <1>5
<1> DEFINE all == [s \in SUBSET S |-> g[s]]
<1>7. ASSUME NEW s \in SUBSET S PROVE g[s] = Row(all, s)
  <2>1. g[s] = Row(g, s)
    BY <1>1, <1>6
  <2>2. s # {} => g[s \ {Max(s)}] = all[s \ {Max(s)}]
    OBVIOUS
  <2> QED
    BY <2>1, <2>2
<1>8. all = [s \in SUBSET S |-> Row(all, s)]
  BY <1>7
<1> QED
  <2> HIDE DEF all
  <2> QED
    BY <1>8 DEF Loads, S

\* What the loader knows before it reads a record.
Start(d) == [terms |-> d.len_list, docs |-> 0, term |-> 0, found |-> {}, unread |-> FALSE]

\* LoadIndex is that function's last value.
LEMMA LoadIndexIs ==
  ASSUME NEW R, NEW d, d.recs \in Seq(R)
  PROVE  \E g : /\ Loads(g, Start(d), d.recs, Len(d.recs))
                /\ LoadIndex(d) = g[1..Len(d.recs)]
<1>1. Len(d.recs) \in Nat /\ DOMAIN d.recs = 1..Len(d.recs)
  OBVIOUS
<1>2. \E g : Loads(g, Start(d), d.recs, Len(d.recs))
  BY <1>1, LoadsExist
<1> QED
  BY <1>1, <1>2 DEF LoadIndex, FoldLeft, MapThenFoldSet, Loads, Start

\* Of no record nothing is loaded.
LEMMA NothingLoaded ==
  ASSUME NEW d, d.recs = <<>>
  PROVE  LoadIndex(d) = Start(d)
<1>1. d.recs \in Seq({}) /\ Len(d.recs) = 0 /\ 1..0 = {}
  OBVIOUS
<1>2. PICK g : Loads(g, Start(d), d.recs, 0) /\ LoadIndex(d) = g[1..0]
  BY <1>1, LoadIndexIs
<1> QED
  BY <1>1, <1>2 DEF Loads

\* A dump with one record more is loaded by one step more.
LEMMA OneMoreLoaded ==
  ASSUME NEW R, NEW d, NEW e, NEW rec \in R, d.recs \in Seq(R),
         e.recs = Append(d.recs, rec), e.len_list = d.len_list
  PROVE  LoadIndex(e) = LoadRecord(rec, LoadIndex(d))
<1>1. PICK n : n = Len(d.recs)
  OBVIOUS
<1>2. /\ n \in Nat /\ e.recs \in Seq(R) /\ Len(e.recs) = n + 1
      /\ e.recs[n + 1] = rec /\ \A j \in 1..n : e.recs[j] = d.recs[j]
  BY <1>1
<1>3. PICK g : Loads(g, Start(d), d.recs, n) /\ LoadIndex(d) = g[1..n]
  BY <1>1, LoadIndexIs
<1>4. PICK g2 : Loads(g2, Start(d), e.recs, n + 1) /\ LoadIndex(e) = g2[1..(n + 1)]
  <2>1. Start(e) = Start(d)
    BY DEF Start
  <2> QED
    BY <1>2, <2>1, LoadIndexIs
<1>5. ASSUME NEW k \in Nat, k # 0, k <= n + 1
      PROVE  /\ g2[1..k] = LoadRecord(e.recs[k], g2[1..(k - 1)])
             /\ k <= n => g[1..k] = LoadRecord(d.recs[k], g[1..(k - 1)])
  <2>1. Max(1..k) = k /\ (1..k) \ {k} = 1..(k - 1) /\ 1..k # {}
    BY <1>5, MaxOf
  <2>2. 1..k \in SUBSET (1..(n + 1)) /\ (k <= n => 1..k \in SUBSET (1..n))
    BY <1>2, <1>5
  <2>3. g2[1..k] = LoadRecord(e.recs[Max(1..k)], g2[(1..k) \ {Max(1..k)}])
    BY <1>4, <2>1, <2>2 DEF Loads
  <2>4. k <= n => g[1..k] = LoadRecord(d.recs[Max(1..k)], g[(1..k) \ {Max(1..k)}])
    BY <1>3, <2>1, <2>2 DEF Loads
  <2> QED
    BY <2>1, <2>3, <2>4
<1> DEFINE P == {k \in Nat : k <= n => g2[1..k] = g[1..k]}
<1>6. 0 \in P
  <2>1. 1..0 = {} /\ {} \in SUBSET (1..n) /\ {} \in SUBSET (1..(n + 1))
    OBVIOUS
  <2>2. g[{}] = Start(d) /\ g2[{}] = Start(d)
    BY <1>3, <1>4, <2>1 DEF Loads
  <2> QED
    BY <2>1, <2>2
<1>7. ASSUME NEW k \in Nat, k \in P PROVE k + 1 \in P
  <2> SUFFICES ASSUME k + 1 <= n PROVE g2[1..(k + 1)] = g[1..(k + 1)]
    OBVIOUS
  <2>1. /\ k + 1 \in Nat /\ k + 1 # 0 /\ k + 1 <= n + 1 /\ (k + 1) - 1 = k
        /\ k <= n /\ k + 1 \in 1..n
    BY <1>2
  <2>2. /\ g2[1..(k + 1)] = LoadRecord(e.recs[k + 1], g2[1..((k + 1) - 1)])
        /\ g[1..(k + 1)] = LoadRecord(d.recs[k + 1], g[1..((k + 1) - 1)])
    BY <1>5, <2>1
  <2>3. g2[1..k] = g[1..k]
    BY <1>7, <2>1
  <2> QED
    BY <1>2, <2>1, <2>2, <2>3
<1>8. Nat \subseteq P
  <2> HIDE DEF P
  <2> QED
    BY <1>6, <1>7, Induction
<1>9. g2[1..n] = g[1..n]
  BY <1>2, <1>8
<1>10. g2[1..(n + 1)] = LoadRecord(e.recs[n + 1], g2[1..n])
  <2>1. n + 1 \in Nat /\ n + 1 # 0 /\ n + 1 <= n + 1 /\ (n + 1) - 1 = n
    BY <1>2
  <2>2. g2[1..(n + 1)] = LoadRecord(e.recs[n + 1], g2[1..((n + 1) - 1)])
    BY <1>5, <2>1
  <2> QED
    BY <2>1, <2>2
<1> QED
  BY <1>2, <1>3, <1>4, <1>9, <1>10

-----------------------------------------------------------------------------
(* The dump that a document's own do_update makes. *)

\* The nodes of a list from x on, and after x.
From(S, key, x) == IF x = NULL THEN {} ELSE {y \in S : key[y] >= key[x]}
After(S, key, x) == {y \in S : key[y] > key[x]}

\* From the head of a list everything is ahead.
LEMMA FromFirst ==
  ASSUME NEW S, NEW key, \A y \in S : key[y] \in Nat, NEW next, NEW h,
         Forward(next, key, h, S)
  PROVE  From(S, key, h) = S /\ (h # NULL => h \in S)
BY DEF From, Forward

\* From a node's next what is behind the node is ahead.
LEMMA FromNext ==
  ASSUME NEW S, NEW key, \A y \in S : key[y] \in Nat, NEW next, NEW h, NEW x \in S,
         Forward(next, key, h, S), IsFiniteSet(S)
  PROVE  /\ From(S, key, next[x]) = After(S, key, x)
         /\ next[x] # NULL => next[x] \in S
<1>1. next[x] # NULL => next[x] \in S /\ key[x] < key[next[x]]
  BY DEF Forward
<1>2. \A y \in S : key[x] < key[y] => next[x] # NULL /\ key[next[x]] <= key[y]
  BY DEF Forward
<1>3. ASSUME NEW y \in S PROVE y \in From(S, key, next[x]) <=> y \in After(S, key, x)
  <2>0. key[x] \in Nat /\ key[y] \in Nat
    OBVIOUS
  <2>1. CASE next[x] = NULL
    BY <1>2, <2>0, <2>1 DEF From, After
  <2>2. CASE next[x] # NULL
    <3>1. key[next[x]] \in Nat
      BY <1>1, <2>2
    <3>2. key[y] >= key[next[x]] <=> key[y] > key[x]
      BY <1>1, <1>2, <2>0, <2>2, <3>1
    <3> QED
      BY <2>2, <3>2 DEF From, After
  <2> QED
    BY <2>1, <2>2
<1> QED
  BY <1>1, <1>3 DEF From, After

\* What is ahead from a node is that node and what is behind it.
LEMMA FromOne ==
  ASSUME NEW S, NEW key, \A y \in S : key[y] \in Nat, NEW x \in S, NULL \notin S,
         \A y, z \in S : key[y] = key[z] => y = z, IsFiniteSet(S)
  PROVE  /\ From(S, key, x) = After(S, key, x) \cup {x} /\ x \notin After(S, key, x)
         /\ IsFiniteSet(After(S, key, x))
         /\ Cardinality(From(S, key, x)) = Cardinality(After(S, key, x)) + 1
         /\ Cardinality(After(S, key, x)) \in Nat
<1>1. From(S, key, x) = After(S, key, x) \cup {x} /\ x \notin After(S, key, x)
  <2>1. \A y \in S : key[y] >= key[x] <=> (key[y] > key[x] \/ y = x)
    OBVIOUS
  <2>2. ~(key[x] > key[x]) /\ x # NULL
    OBVIOUS
  <2> QED
    BY <2>1, <2>2 DEF From, After
<1>2. After(S, key, x) \in SUBSET S
  BY DEF After
<1>3. IsFiniteSet(After(S, key, x))
  BY <1>2, FS_Subset
<1> QED
  BY <1>1, <1>3, FS_AddElement, FS_CardinalityType

\* The document nodes that were made, and what is to be loaded of them when the
\* terms of T and the documents of D are still to come.
Made == {y \in Node : dn[y].count # 0}
EntriesOf(S) == {<<y[2], DKey[y], dn[y].count>> : y \in S}
Past(T, D) == {y \in Made : y \notin D /\ \A x \in T : x[2] # y[2]}

Loaded(l, T, D) ==
  /\ l = [terms |-> Cardinality(T), docs |-> Cardinality(D), term |-> l.term,
          found |-> EntriesOf(Past(T, D)), unread |-> FALSE]

\* How far the second pass of d's own dump has come, when it is at p, at the
\* term node x and the document node y, and l is what it wrote, loaded.
ReadingAt(p, l, x, y) ==
  /\ p = "again" => Loaded(l, TNodes, {})
  /\ p = "write" => /\ Loaded(l, From(TNodes, TKey, x), {})
                    /\ x # NULL => x \in TNodes
  /\ p = "docs" => /\ Loaded(l, After(TNodes, TKey, x), DNodes(x))
                   /\ x \in TNodes /\ l.term = x[2]
  /\ p = "writeDocs" => /\ Loaded(l, After(TNodes, TKey, x), From(DNodes(x), DKey, y))
                        /\ x \in TNodes /\ l.term = x[2]
                        /\ y # NULL => y \in DNodes(x)
  /\ p = "nextDoc" => /\ Loaded(l, After(TNodes, TKey, x), After(DNodes(x), DKey, y))
                      /\ x \in TNodes /\ l.term = x[2] /\ y \in DNodes(x)

Reading(d) == ReadingAt(pc[d], LoadIndex(data), tnode, dnode)

\* Sum, of documents of these names and terms.
SumGiven(docs, of, terms) ==
  UNION {{<<t, of[d], MapThenSumSet(LAMBDA e : Count[e][t],
                        {e \in docs : of[e] = of[d] /\ t \in terms[e]})>>
            : t \in terms[d]} : d \in docs}

\* r loads as the documents D, of the names of and the terms ts.
LoadsAs(r, D, of, ts) ==
  LET l == LoadIndex(r) IN
  /\ l.found = SumGiven(D, of, ts)
  /\ l.terms = 0 /\ l.docs = 0 /\ ~l.unread

\* What d was answered with loads as the documents up to d.
Publishes(d) ==
  pc[d] = "done" => LoadsAs(dump[d], Before[d] \cup {d}, name, has)

\* While d dumps, nothing is added, and what was is d and what came before.
LEMMA OwnDump ==
  ASSUME SingleClient, IInv, NEW d \in Doc, pc[d] \in Dumping
  PROVE  /\ M_index = d /\ Adding = {} /\ Added = Before[d] \cup {d}
         /\ \A e \in Doc : pc[e] = "new" => ~(\A c \in Before[e] : pc[c] = "done")
         /\ \A t \in Thread : t # d => pc[t] \notin Dumping
<1>1. pc[d] \notin {"new", "done"} \cup Writing /\ d \in Thread
  BY Constants DEF Dumping, Writing, Linking, InDocs
<1>2. ASSUME NEW e \in Doc, e # d
      PROVE  \/ e \in Before[d] /\ pc[e] = "done"
             \/ e \notin Before[d] /\ d \in Before[e] /\ pc[e] = "new"
  <2>1. d \in Before[e] \/ e \in Before[d]
    BY <1>2 DEF SingleClient
  <2>2. e \in Before[d] => pc[e] = "done"
    BY <1>1 DEF IInv, Turn
  <2>3. d \in Before[e] => pc[e] = "new"
    BY <1>1 DEF IInv, Turn
  <2> QED
    BY <2>1, <2>2, <2>3
<1>3. Adding = {}
  <2>1. \A e \in Doc : pc[e] \notin Writing
    BY <1>1, <1>2 DEF Writing, Linking, InDocs
  <2> QED
    BY <2>1, AddingIs
<1>4. Added = Before[d] \cup {d}
  <2>1. Before[d] \subseteq Doc
    BY SharedAssumption
  <2>2. Added = {e \in Doc : pc[e] # "new"}
    BY <1>3 DEF Added
  <2> QED
    BY <1>1, <1>2, <2>1, <2>2
<1>5. \A t \in Thread : pc[t] \in Dumping => M_index = t
  BY DEF IInv, Lock
<1> QED
  BY <1>1, <1>2, <1>3, <1>4, <1>5

\* Then other threads wait, or register.
LEMMA OthersWait ==
  ASSUME SingleClient, IInv, NEW d \in Doc, pc[d] \in Dumping, [Next]_vars, ~DumpIndex(d)
  PROVE  UNCHANGED <<inputs, heap, adding, dumping>> /\ pc'[d] = pc[d]
<1>1. /\ M_index = d /\ Adding = {} /\ d \in Thread /\ d \notin Reg
      /\ \A e \in Doc : pc[e] = "new" => ~(\A c \in Before[e] : pc[c] = "done")
      /\ \A t \in Thread : t # d => pc[t] \notin Dumping
      /\ pc \in [Thread -> Labels]
  BY OwnDump, Constants DEF IInv, DumpTypes
<1>2. ASSUME NEW e \in Doc, DoIndex(e) PROVE FALSE
  BY <1>1, <1>2 DEF DoIndex, At
<1>3. ASSUME NEW e \in Doc, AddCount(e) PROVE FALSE
  <2>1. pc[e] \in Writing
    BY <1>3 DEF AddCount, FirstTerm, InsertTerm, SetNext, SetPre, NextTerm, AppendTerm, AllAdded,
       SetBack, CountTerm, SameTerm, CountAgain, NextDoc, CountDoc, InsertDoc, SetDocPre,
       AppendDoc, SetDocBack, At, Writing, Linking, InDocs
  <2> QED
    BY <1>1, <2>1, AddingIs
<1>4. ASSUME NEW t \in Thread, t # d, DumpIndex(t) PROVE FALSE
  <2>1. pc[t] \in Dumping \/ (pc[t] = "update" /\ M_index = NULL)
    BY <1>4 DEF DumpIndex, LockIndex, MeasureTerm, MeasureDoc, WriteLength, ListAgain,
       WriteTerm, FirstDoc, WriteDoc, AfterDoc, AfterTerm, Dumped, At, Dumping
  <2>2. M_index # NULL
    BY <1>1, Constants
  <2> QED
    BY <1>1, <1>4, <2>1, <2>2
<1>5. ASSUME NEW c \in Reg, DoReg(c)
      PROVE  UNCHANGED <<inputs, heap, adding, dumping>> /\ pc'[d] = pc[d]
  BY <1>1, <1>5 DEF DoReg, Goto
<1>6. CASE UNCHANGED vars
  BY <1>6 DEF vars
<1> QED
  BY <1>2, <1>3, <1>4, <1>5, <1>6 DEF Next

\* How far a dump has come depends on its place, data and pointers only.
LEMMA ReadingNext ==
  ASSUME NEW d, tn' = tn, dn' = dn, name' = name, NEW p, NEW l, NEW x, NEW y,
         p = pc'[d], l = LoadIndex(data'), x = tnode', y = dnode', ReadingAt(p, l, x, y)
  PROVE  Reading(d)'
<1>1. TNodes' = TNodes /\ TKey' = TKey /\ DKey' = DKey /\ Made' = Made
  BY DEF TNodes, TKey, DKey, Made
<1>2. ReadingAt(p, l, x, y)'
  BY <1>1 DEF ReadingAt, Loaded, EntriesOf, Past, DNodes
<1>3. CASE p = "again"
  BY <1>2, <1>3 DEF Reading, ReadingAt, Loaded, EntriesOf, Past, DNodes
<1>4. CASE p = "write"
  BY <1>2, <1>4 DEF Reading, ReadingAt, Loaded, EntriesOf, Past, DNodes
<1>5. CASE p = "docs"
  BY <1>2, <1>5 DEF Reading, ReadingAt, Loaded, EntriesOf, Past, DNodes
<1>6. CASE p = "writeDocs"
  BY <1>2, <1>6 DEF Reading, ReadingAt, Loaded, EntriesOf, Past, DNodes
<1>7. CASE p = "nextDoc"
  BY <1>2, <1>7 DEF Reading, ReadingAt, Loaded, EntriesOf, Past, DNodes
<1>8. CASE p \notin {"again", "write", "docs", "writeDocs", "nextDoc"}
  BY <1>8 DEF Reading, ReadingAt
<1> QED
  BY <1>3, <1>4, <1>5, <1>6, <1>7, <1>8

\* The lists that the dump walks.
LEMMA OwnLists ==
  ASSUME SingleClient, IInv, NoDocument, Adding = {}
  PROVE  /\ Forward(TNext, TKey, index.list, TNodes) /\ index.len_list = Cardinality(TNodes)
         /\ (\A x \in TNodes : TKey[x] \in Nat /\ TKey[x] = x[2])
         /\ IsFiniteSet(TNodes) /\ NULL \notin TNodes /\ TNodes \subseteq Node
         /\ \A x, y \in TNodes : TKey[x] = TKey[y] => x = y
         /\ \A x \in TNodes :
              /\ Forward(DNext, DKey, tn[x].list, DNodes(x))
              /\ tn[x].len_list = Cardinality(DNodes(x))
              /\ (\A y \in DNodes(x) : DKey[y] \in Nat)
              /\ IsFiniteSet(DNodes(x)) /\ NULL \notin DNodes(x) /\ DNodes(x) \subseteq Node
              /\ \A y, z \in DNodes(x) : DKey[y] = DKey[z] => y = z
<1>1. /\ Linked(TNext, TPre, TKey, index.list, TNodes) /\ index.len_list = Cardinality(TNodes)
      /\ \A x \in TNodes : /\ Linked(DNext, DPre, DKey, tn[x].list, DNodes(x))
                           /\ tn[x].len_list = Cardinality(DNodes(x))
  BY ChainsAre
<1>2. /\ TNodes \subseteq Node /\ \A x : DNodes(x) \subseteq Node
      /\ NULL \notin Node /\ \A S \in SUBSET Node : IsFiniteSet(S)
      /\ \A x \in Node : TKey[x] \in Nat /\ TKey[x] = x[2] /\ DKey[x] \in Nat
  BY Constants, NodesFinite, Keys DEF IInv, TNodes, DNodes
<1>3. /\ Forward(TNext, TKey, index.list, TNodes)
      /\ \A x \in TNodes : Forward(DNext, DKey, tn[x].list, DNodes(x))
  BY <1>1 DEF Linked
<1>4. /\ \A x, y \in TNodes : TKey[x] = TKey[y] => x = y
      /\ \A x \in TNodes : \A y, z \in DNodes(x) : DKey[y] = DKey[z] => y = z
  BY <1>3 DEF Forward
<1> QED
  BY <1>1, <1>2, <1>3, <1>4

\* Before the first record nothing is loaded, after the last all.
LEMMA PastEnds ==
  ASSUME IInv
  PROVE  EntriesOf(Past(TNodes, {})) = {} /\ Past({}, {}) = Made
<1>1. \A y \in Made : \E x \in TNodes : x[2] = y[2]
  BY DEF IInv, Home, Made
<1> QED
  BY <1>1 DEF EntriesOf, Past

\* A term's record announces its documents.
LEMMA PastTerm ==
  ASSUME NEW x \in TNodes, NULL \notin TNodes,
         \A z \in TNodes : TKey[z] \in Nat /\ TKey[z] = z[2],
         From(TNodes, TKey, x) = After(TNodes, TKey, x) \cup {x}
  PROVE  Past(From(TNodes, TKey, x), {}) = Past(After(TNodes, TKey, x), DNodes(x))
<1>1. \A y \in Made : y[2] = x[2] <=> y \in DNodes(x)
  BY DEF Made, DNodes
<1> QED
  BY <1>1 DEF Past

\* A document's record is one entry more.
LEMMA PastDoc ==
  ASSUME NEW x \in TNodes, NEW y \in DNodes(x), NEW D, NEW E, E = D \cup {y}, y \notin D,
         \A z \in TNodes : TKey[z] \in Nat /\ TKey[z] = z[2]
  PROVE  EntriesOf(Past(After(TNodes, TKey, x), D))
         = EntriesOf(Past(After(TNodes, TKey, x), E)) \cup {<<x[2], DKey[y], dn[y].count>>}
<1>1. y \in Made /\ y[2] = x[2]
  BY DEF Made, DNodes
<1>2. \A z \in After(TNodes, TKey, x) : z[2] # y[2]
  BY <1>1 DEF After
<1>3. Past(After(TNodes, TKey, x), D) = Past(After(TNodes, TKey, x), E) \cup {y}
  BY <1>1, <1>2 DEF Past
<1> QED
  BY <1>1, <1>3 DEF EntriesOf

\* The record of a term starts a list of documents.
LEMMA RecordOfTerm ==
  ASSUME NEW k \in Nat, NEW c, NEW F, NEW t, NEW n,
         NEW l, l = [terms |-> k + 1, docs |-> 0, term |-> c, found |-> F, unread |-> FALSE]
  PROVE  LoadRecord(<<t, n>>, l) =
           [terms |-> k, docs |-> n, term |-> t, found |-> F, unread |-> FALSE]
<1>1. ~(l.docs > 0) /\ l.terms > 0 /\ l.terms - 1 = k
  OBVIOUS
<1>2. LoadRecord(<<t, n>>, l) = [l EXCEPT !.terms = l.terms - 1, !.term = t, !.docs = n]
  BY <1>1 DEF LoadRecord
<1> QED
  BY <1>1, <1>2

\* The record of a document is one of its term's.
LEMMA RecordOfDoc ==
  ASSUME NEW k, NEW n \in Nat, NEW c, NEW F, NEW a, NEW b,
         NEW l, l = [terms |-> k, docs |-> n + 1, term |-> c, found |-> F, unread |-> FALSE]
  PROVE  LoadRecord(<<a, b>>, l) =
           [terms |-> k, docs |-> n, term |-> c, found |-> F \cup {<<c, a, b>>}, unread |-> FALSE]
<1>1. l.docs > 0 /\ l.docs - 1 = n
  OBVIOUS
<1>2. LoadRecord(<<a, b>>, l) = [l EXCEPT !.docs = l.docs - 1, !.found = l.found \cup {<<l.term, a, b>>}]
  BY <1>1 DEF LoadRecord
<1> QED
  BY <1>1, <1>2

\* A write within the memory measured adds a record; any other is undefined.
LEMMA PutLoads ==
  ASSUME IInv, NEW t \in Thread, NEW string \in Nat, NEW number \in Nat, NEW label,
         Put(t, string, number, label)
  PROVE  \/ /\ LoadIndex(data') = LoadRecord(<<string, number>>, LoadIndex(data))
            /\ pc'[t] = label
         \/ data' = data /\ pc' = pc
<1>0. /\ pc \in [Thread -> Labels]
      /\ data \in [len_list : Nat, recs : Seq(Nat \X Nat)]
  BY DEF IInv, DumpTypes
<1>1. CASE Len(data.recs) < size
  <2>1. /\ data' = [data EXCEPT !.recs = Append(data.recs, <<string, number>>)]
        /\ pc' = [pc EXCEPT ![t] = label]
    BY <1>1 DEF Put, Goto
  <2>2. data.recs \in Seq(Nat \X Nat) /\ <<string, number>> \in Nat \X Nat
    BY <1>0
  <2>3. data'.recs = Append(data.recs, <<string, number>>) /\ data'.len_list = data.len_list
    BY <1>0, <2>1
  <2>4. PICK e : e = data'
    OBVIOUS
  <2>5. LoadIndex(e) = LoadRecord(<<string, number>>, LoadIndex(data))
    <3>0. PICK R : R = Nat \X Nat
      OBVIOUS
    <3>1. PICK rec \in R : rec = <<string, number>>
      BY <2>2, <3>0
    <3>2. PICK c : c = data
      OBVIOUS
    <3>3. c.recs \in Seq(R) /\ e.recs = Append(c.recs, rec) /\ e.len_list = c.len_list
      BY <2>2, <2>3, <2>4, <3>0, <3>1, <3>2
    <3>4. LoadIndex(e) = LoadRecord(rec, LoadIndex(c))
      BY ONLY <3>3, rec \in R, OneMoreLoaded
    <3> QED
      BY <3>1, <3>2, <3>4
  <2> QED
    BY <1>0, <2>1, <2>4, <2>5
<1>2. CASE ~(Len(data.recs) < size)
  BY <1>2 DEF Put
<1> QED
  BY <1>1, <1>2

\* The second pass goes on.
LEMMA OwnReads ==
  ASSUME SingleClient, IInv, NoDocument, NEW d \in Doc, Reading(d), DumpIndex(d)
  PROVE  Reading(d)'
<1>0. /\ pc \in [Thread -> Labels] /\ d \in Thread /\ HeapTypes
      /\ tnode \in Link /\ dnode \in Link
  BY Constants DEF IInv, DumpTypes
<1>1. tn' = tn /\ dn' = dn /\ name' = name
  BY DEF DumpIndex, LockIndex, MeasureTerm, MeasureDoc, WriteLength, ListAgain, WriteTerm,
     FirstDoc, WriteDoc, AfterDoc, AfterTerm, Dumped, heap, inputs
<1>2. PICK p : p = pc'[d]
  OBVIOUS
<1>3. PICK k : k = LoadIndex(data')
  OBVIOUS
<1>4. PICK x : x = tnode'
  OBVIOUS
<1>5. PICK y : y = dnode'
  OBVIOUS
<1>6. SUFFICES ReadingAt(p, k, x, y)
  BY <1>1, <1>2, <1>3, <1>4, <1>5, ReadingNext
<1>7. CASE LockIndex(d) \/ MeasureTerm(d) \/ MeasureDoc(d) \/ Dumped(d)
  <2>1. p \in {"measure", "measureDocs", "done"}
    BY <1>0, <1>2, <1>7 DEF LockIndex, MeasureTerm, MeasureDoc, Dumped, At, Goto
  <2> QED
    BY <2>1 DEF ReadingAt
<1>8. ASSUME pc[d] \in Dumping
      PROVE  /\ Forward(TNext, TKey, index.list, TNodes) /\ index.len_list = Cardinality(TNodes)
             /\ (\A z \in TNodes : TKey[z] \in Nat /\ TKey[z] = z[2])
             /\ IsFiniteSet(TNodes) /\ NULL \notin TNodes /\ TNodes \subseteq Node
             /\ \A z, r \in TNodes : TKey[z] = TKey[r] => z = r
             /\ \A r \in TNodes :
                  /\ Forward(DNext, DKey, tn[r].list, DNodes(r))
                  /\ tn[r].len_list = Cardinality(DNodes(r))
                  /\ (\A z \in DNodes(r) : DKey[z] \in Nat)
                  /\ IsFiniteSet(DNodes(r)) /\ NULL \notin DNodes(r) /\ DNodes(r) \subseteq Node
                  /\ \A z, q \in DNodes(r) : DKey[z] = DKey[q] => z = q
  BY <1>8, OwnDump, OwnLists
<1>9. PICK l : l = LoadIndex(data)
  OBVIOUS
<1>10. ReadingAt(pc[d], l, tnode, dnode)
  BY <1>9 DEF Reading
<1>11. Cardinality({}) = 0
  BY FS_EmptySet
<1>12. CASE WriteLength(d)
  <2>1. /\ pc[d] \in Dumping /\ p = "again" /\ data' = [len_list |-> index.len_list, recs |-> <<>>]
    BY <1>0, <1>2, <1>12 DEF WriteLength, At, Goto, Dumping
  <2>2. k = Start([len_list |-> index.len_list, recs |-> <<>>])
    BY <1>3, <2>1, NothingLoaded
  <2>3. Loaded(k, TNodes, {})
    BY <1>8, <1>11, <2>1, <2>2, PastEnds DEF Loaded, Start
  <2> QED
    BY <2>1, <2>3 DEF ReadingAt
<1>13. CASE ListAgain(d)
  <2>1. /\ pc[d] = "again" /\ pc[d] \in Dumping /\ p = "write" /\ k = l /\ x = index.list
    BY <1>0, <1>2, <1>3, <1>4, <1>9, <1>13 DEF ListAgain, At, Goto, Dumping
  <2>2. From(TNodes, TKey, x) = TNodes /\ (x # NULL => x \in TNodes)
    BY <1>8, <2>1, FromFirst
  <2>3. Loaded(k, TNodes, {})
    BY <1>10, <2>1 DEF ReadingAt
  <2> QED
    BY <2>1, <2>2, <2>3 DEF ReadingAt
<1>14. CASE WriteTerm(d)
  <2>1. /\ pc[d] = "write" /\ pc[d] \in Dumping /\ tnode # NULL /\ x = tnode /\ y = dnode
        /\ Put(d, TermOf(tnode), tn[tnode].len_list, "docs")
    BY <1>4, <1>5, <1>14 DEF WriteTerm, At, Dumping
  <2>2. Loaded(l, From(TNodes, TKey, x), {}) /\ x \in TNodes
    BY <1>10, <2>1 DEF ReadingAt
  <2>3. /\ Cardinality(From(TNodes, TKey, x)) = Cardinality(After(TNodes, TKey, x)) + 1
        /\ Cardinality(After(TNodes, TKey, x)) \in Nat
        /\ From(TNodes, TKey, x) = After(TNodes, TKey, x) \cup {x}
    BY <1>8, <2>1, <2>2, FromOne
  <2>4. TermOf(x) = x[2] /\ x[2] \in Nat /\ tn[x].len_list = Cardinality(DNodes(x)) /\ tn[x].len_list \in Nat
    BY <1>0, <1>8, <2>1, <2>2, Followed, Keys DEF TermOf
  <2>5. CASE data' = data /\ pc' = pc
    BY <1>2, <1>3, <1>9, <1>10, <2>1, <2>5
  <2>6. CASE /\ LoadIndex(data') = LoadRecord(<<TermOf(x), tn[x].len_list>>, LoadIndex(data))
             /\ pc'[d] = "docs"
    <3>1. Past(From(TNodes, TKey, x), {}) = Past(After(TNodes, TKey, x), DNodes(x))
      BY <1>8, <2>1, <2>2, <2>3, PastTerm
    <3>2. l = [terms |-> Cardinality(After(TNodes, TKey, x)) + 1, docs |-> 0, term |-> l.term,
               found |-> EntriesOf(Past(After(TNodes, TKey, x), DNodes(x))), unread |-> FALSE]
      BY <1>11, <2>2, <2>3, <3>1 DEF Loaded
    <3>3. k = [terms |-> Cardinality(After(TNodes, TKey, x)), docs |-> tn[x].len_list,
               term |-> x[2],
               found |-> EntriesOf(Past(After(TNodes, TKey, x), DNodes(x))), unread |-> FALSE]
      <4>1. PICK c : c = l.term
        OBVIOUS
      <4>2. PICK F : F = EntriesOf(Past(After(TNodes, TKey, x), DNodes(x)))
        OBVIOUS
      <4>3. PICK m \in Nat : m = Cardinality(After(TNodes, TKey, x))
        BY <2>3
      <4>4. l = [terms |-> m + 1, docs |-> 0, term |-> c, found |-> F, unread |-> FALSE]
        BY <3>2, <4>1, <4>2, <4>3
      <4>5. k = LoadRecord(<<x[2], tn[x].len_list>>, l)
        BY <1>3, <1>9, <2>4, <2>6
      <4> QED
        BY <4>2, <4>3, <4>4, <4>5, RecordOfTerm
    <3>4. Loaded(k, After(TNodes, TKey, x), DNodes(x)) /\ k.term = x[2]
      BY <2>4, <3>3 DEF Loaded
    <3> QED
      BY <1>2, <2>2, <2>6, <3>4 DEF ReadingAt
  <2> QED
    BY <1>0, <2>1, <2>4, <2>5, <2>6, PutLoads
<1>15. CASE FirstDoc(d)
  <2>1. /\ pc[d] = "docs" /\ pc[d] \in Dumping /\ p = "writeDocs" /\ k = l /\ x = tnode
        /\ y = tn[x].list
    BY <1>0, <1>2, <1>3, <1>4, <1>5, <1>9, <1>15 DEF FirstDoc, At, Goto, Dumping
  <2>2. Loaded(k, After(TNodes, TKey, x), DNodes(x)) /\ x \in TNodes /\ k.term = x[2]
    BY <1>10, <2>1 DEF ReadingAt
  <2>3. From(DNodes(x), DKey, y) = DNodes(x) /\ (y # NULL => y \in DNodes(x))
    BY <1>8, <2>1, <2>2, FromFirst
  <2> QED
    BY <2>1, <2>2, <2>3 DEF ReadingAt
<1>16. CASE WriteDoc(d)
  <2>1. /\ pc[d] = "writeDocs" /\ pc[d] \in Dumping /\ dnode # NULL /\ x = tnode /\ y = dnode
        /\ Put(d, NameOf(dnode), dn[dnode].count, "nextDoc")
    BY <1>4, <1>5, <1>16 DEF WriteDoc, At, Dumping
  <2>2. /\ Loaded(l, After(TNodes, TKey, x), From(DNodes(x), DKey, y)) /\ x \in TNodes
        /\ l.term = x[2] /\ y \in DNodes(x)
    BY <1>10, <2>1 DEF ReadingAt
  <2>3. /\ Cardinality(From(DNodes(x), DKey, y)) = Cardinality(After(DNodes(x), DKey, y)) + 1
        /\ Cardinality(After(DNodes(x), DKey, y)) \in Nat
        /\ From(DNodes(x), DKey, y) = After(DNodes(x), DKey, y) \cup {y}
        /\ y \notin After(DNodes(x), DKey, y)
    BY <1>8, <2>1, <2>2, FromOne
  <2>4. NameOf(y) = DKey[y] /\ DKey[y] \in Nat /\ dn[y].count \in Nat
    BY <1>0, <1>8, <2>1, <2>2, Followed, Keys DEF NameOf
  <2>5. CASE data' = data /\ pc' = pc
    BY <1>2, <1>3, <1>9, <1>10, <2>1, <2>5
  <2>6. CASE /\ LoadIndex(data') = LoadRecord(<<NameOf(y), dn[y].count>>, LoadIndex(data))
             /\ pc'[d] = "nextDoc"
    <3> DEFINE T == After(TNodes, TKey, x)
               D == After(DNodes(x), DKey, y)
    <3>1. EntriesOf(Past(T, D))
          = EntriesOf(Past(T, From(DNodes(x), DKey, y))) \cup {<<x[2], DKey[y], dn[y].count>>}
      BY <1>8, <2>1, <2>2, <2>3, PastDoc
    <3>2. k = [terms |-> Cardinality(T), docs |-> Cardinality(D), term |-> x[2],
               found |-> EntriesOf(Past(T, D)), unread |-> FALSE]
      <4>1. PICK c : c = x[2]
        OBVIOUS
      <4>2. PICK F : F = EntriesOf(Past(T, From(DNodes(x), DKey, y)))
        OBVIOUS
      <4>3. PICK m \in Nat : m = Cardinality(D)
        BY <2>3
      <4>4. PICK q : q = Cardinality(T)
        OBVIOUS
      <4>5. l = [terms |-> q, docs |-> m + 1, term |-> c, found |-> F, unread |-> FALSE]
        BY <2>2, <2>3, <4>1, <4>2, <4>3, <4>4 DEF Loaded
      <4>6. k = LoadRecord(<<DKey[y], dn[y].count>>, l)
        BY <1>3, <1>9, <2>4, <2>6
      <4>7. k = [terms |-> q, docs |-> m, term |-> c,
                 found |-> F \cup {<<c, DKey[y], dn[y].count>>}, unread |-> FALSE]
        BY <4>5, <4>6, RecordOfDoc
      <4> QED
        BY <3>1, <4>1, <4>2, <4>3, <4>4, <4>7
    <3>3. Loaded(k, T, D) /\ k.term = x[2]
      BY <3>2 DEF Loaded
    <3> QED
      BY <1>2, <2>2, <2>6, <3>3 DEF ReadingAt
  <2> QED
    BY <1>0, <2>1, <2>4, <2>5, <2>6, PutLoads
<1>17. CASE AfterDoc(d)
  <2>1. /\ pc[d] = "nextDoc" /\ pc[d] \in Dumping /\ p = "writeDocs" /\ k = l /\ x = tnode
        /\ y = dn[dnode].next
    BY <1>0, <1>2, <1>3, <1>4, <1>5, <1>9, <1>17 DEF AfterDoc, At, Goto, Dumping
  <2>2. /\ Loaded(k, After(TNodes, TKey, x), After(DNodes(x), DKey, dnode))
        /\ x \in TNodes /\ k.term = x[2] /\ dnode \in DNodes(x)
    BY <1>10, <2>1 DEF ReadingAt
  <2>3. y = DNext[dnode]
    BY <1>8, <2>1, <2>2 DEF DNext
  <2>4. /\ From(DNodes(x), DKey, y) = After(DNodes(x), DKey, dnode)
        /\ y # NULL => y \in DNodes(x)
    <3>1. PICK S : S = DNodes(x)
      OBVIOUS
    <3>2. PICK h : h = tn[x].list
      OBVIOUS
    <3>3. /\ Forward(DNext, DKey, h, S) /\ IsFiniteSet(S) /\ dnode \in S
          /\ \A z \in S : DKey[z] \in Nat
      BY <1>8, <2>1, <2>2, <3>1, <3>2
    <3>4. /\ From(S, DKey, DNext[dnode]) = After(S, DKey, dnode)
          /\ DNext[dnode] # NULL => DNext[dnode] \in S
      BY ONLY <3>3, FromNext
    <3> QED
      BY <2>3, <3>1, <3>4
  <2> QED
    BY <2>1, <2>2, <2>4 DEF ReadingAt
<1>18. CASE AfterTerm(d)
  <2>1. /\ pc[d] = "writeDocs" /\ pc[d] \in Dumping /\ p = "write" /\ k = l /\ dnode = NULL
        /\ x = tn[tnode].next
    BY <1>0, <1>2, <1>3, <1>4, <1>9, <1>18 DEF AfterTerm, At, Goto, Dumping
  <2>2. /\ Loaded(k, After(TNodes, TKey, tnode), From(DNodes(tnode), DKey, dnode))
        /\ tnode \in TNodes
    BY <1>10, <2>1 DEF ReadingAt
  <2>3. x = TNext[tnode]
    BY <1>8, <2>1, <2>2 DEF TNext
  <2>4. /\ From(TNodes, TKey, x) = After(TNodes, TKey, tnode)
        /\ x # NULL => x \in TNodes
    BY <1>8, <2>1, <2>2, <2>3, FromNext
  <2>5. From(DNodes(tnode), DKey, dnode) = {}
    BY <2>1 DEF From
  <2> QED
    BY <2>1, <2>2, <2>4, <2>5 DEF ReadingAt
<1> QED
  BY <1>7, <1>12, <1>13, <1>14, <1>15, <1>16, <1>17, <1>18 DEF DumpIndex

\* A thread goes from label to label.
LEMMA OneMoves ==
  ASSUME IInv, [Next]_vars, NEW d \in Doc
  PROVE  /\ pc[d] = "done" => pc'[d] = "done" /\ dump'[d] = dump[d]
         /\ pc[d] \notin Dumping => pc'[d] \notin Dumping \ {"measure"}
         /\ pc'[d] = "done" /\ pc[d] # "done" => Dumped(d)
<1>0. /\ pc \in [Thread -> Labels] /\ d \in Thread /\ d \notin Reg
      /\ dump \in [Thread -> [len_list : Nat, recs : Seq(Nat \X Nat)]]
  BY Constants DEF IInv, DumpTypes
<1>1. ASSUME NEW e \in Doc, DoIndex(e) \/ AddCount(e)
      PROVE  /\ pc[d] = "done" => pc'[d] = "done" /\ dump'[d] = dump[d]
             /\ pc[d] \notin Dumping => pc'[d] \notin Dumping \ {"measure"}
             /\ pc'[d] = "done" => pc[d] = "done"
  <2>1. /\ dump' = dump /\ pc[e] # "done"
        /\ \/ pc' = pc
           \/ \E l \in Writing \cup {"update"} : pc' = [pc EXCEPT ![e] = l]
    BY <1>1 DEF DoIndex, AddCount, FirstTerm, InsertTerm, SetNext, SetPre, NextTerm, AppendTerm,
       AllAdded, SetBack, CountTerm, SameTerm, CountAgain, NextDoc, CountDoc, InsertDoc, SetDocPre,
       AppendDoc, SetDocBack, InsertReturns, At, Goto, Writing, Linking, InDocs, dumping
  <2>2. \A l \in Writing \cup {"update"} : l \notin Dumping \cup {"done"}
    BY DEF Writing, Linking, InDocs, Dumping
  <2> QED
    BY <1>0, <2>1, <2>2
<1>2. ASSUME NEW c \in Reg, DoReg(c) PROVE pc'[d] = pc[d] /\ dump' = dump
  BY <1>0, <1>2 DEF DoReg, Goto, dumping
<1>3. ASSUME NEW t \in Thread, t # d, DumpIndex(t) PROVE pc'[d] = pc[d] /\ dump'[d] = dump[d]
  BY <1>0, <1>3 DEF DumpIndex, LockIndex, MeasureTerm, MeasureDoc, WriteLength, ListAgain, Put,
     WriteTerm, FirstDoc, WriteDoc, AfterDoc, AfterTerm, Dumped, Goto
<1>4. CASE DumpIndex(d) /\ ~Dumped(d)
  <2>1. /\ pc[d] # "done" /\ pc'[d] # "done"
        /\ pc[d] \notin Dumping => pc'[d] = "measure"
    BY <1>0, <1>4 DEF DumpIndex, LockIndex, MeasureTerm, MeasureDoc, WriteLength, ListAgain, Put,
       WriteTerm, FirstDoc, WriteDoc, AfterDoc, AfterTerm, At, Goto, Dumping
  <2> QED
    BY <2>1
<1>5. CASE Dumped(d)
  BY <1>5 DEF Dumped, At, Dumping
<1>6. CASE UNCHANGED vars
  BY <1>6 DEF vars, dumping, Dumping
<1> QED
  BY <1>1, <1>2, <1>3, <1>4, <1>5, <1>6 DEF Next, Dumping

\* What a dump has written so far loads as what it has passed, at every step.
LEMMA ReadingKeeps ==
  ASSUME SingleClient, IInv, NoDocument, NEW d \in Doc, Reading(d), [Next]_vars
  PROVE  Reading(d)'
<1>1. CASE pc[d] \notin Dumping
  <2>1. pc'[d] \notin Dumping \ {"measure"}
    BY <1>1, OneMoves
  <2> QED
    BY <2>1 DEF Reading, ReadingAt, Dumping
<1>2. CASE DumpIndex(d)
  BY <1>2, OwnReads
<1>3. CASE pc[d] \in Dumping /\ ~DumpIndex(d)
  <2>1. UNCHANGED <<inputs, heap, adding, dumping>> /\ pc'[d] = pc[d]
    BY <1>3, OthersWait
  <2>2. tn' = tn /\ dn' = dn /\ name' = name /\ data' = data /\ tnode' = tnode /\ dnode' = dnode
    BY <2>1 DEF inputs, heap, dumping
  <2>3. PICK p : p = pc[d]
    OBVIOUS
  <2>4. PICK l : l = LoadIndex(data)
    OBVIOUS
  <2>5. PICK x : x = tnode
    OBVIOUS
  <2>6. PICK y : y = dnode
    OBVIOUS
  <2>7. ReadingAt(p, l, x, y)
    BY <2>3, <2>4, <2>5, <2>6 DEF Reading
  <2>8. p = pc'[d] /\ l = LoadIndex(data') /\ x = tnode' /\ y = dnode'
    BY <2>1, <2>2, <2>3, <2>4, <2>5, <2>6
  <2> QED
    BY <2>2, <2>7, <2>8, ReadingNext
<1> QED
  BY <1>1, <1>2, <1>3

\* The sum of documents is that of their names and terms.
LEMMA SumIs ==
  ASSUME NEW docs
  PROVE  Sum(docs) = SumGiven(docs, name, has)
  BY DEF Sum, SumOn, SumGiven

\* What was dumped loads as the documents up to its own, at every step.
LEMMA PublishesKeeps ==
  ASSUME SingleClient, IInv, SumOfDocuments, NEW d \in Doc, Reading(d), Publishes(d), [Next]_vars
  PROVE  Publishes(d)'
<1>0. has' = has /\ name' = name
  <2>1. ASSUME NEW e \in Doc, DoIndex(e) \/ AddCount(e) PROVE UNCHANGED inputs
    BY <2>1 DEF DoIndex, AddCount, FirstTerm, InsertTerm, SetNext, SetPre, NextTerm, AppendTerm,
       AllAdded, SetBack, CountTerm, SameTerm, CountAgain, NextDoc, CountDoc, InsertDoc, SetDocPre,
       AppendDoc, SetDocBack, InsertReturns
  <2>2. ASSUME NEW c \in Reg, DoReg(c) PROVE UNCHANGED inputs
    BY <2>2 DEF DoReg
  <2>3. ASSUME NEW t \in Thread, DumpIndex(t) PROVE UNCHANGED inputs
    BY <2>3 DEF DumpIndex, LockIndex, MeasureTerm, MeasureDoc, WriteLength, ListAgain, WriteTerm,
       FirstDoc, WriteDoc, AfterDoc, AfterTerm, Dumped
  <2>4. UNCHANGED inputs
    BY <2>1, <2>2, <2>3 DEF Next, vars
  <2> QED
    BY <2>4 DEF inputs
<1>2. PICK D : D = Before[d] \cup {d}
  OBVIOUS
<1>1. PICK N, H : N = name /\ H = has
  OBVIOUS
<1>3. CASE pc[d] = "done"
  <2>1. dump'[d] = dump[d]
    BY <1>3, OneMoves
  <2>2. PICK r : r = dump[d]
    OBVIOUS
  <2>3. LoadsAs(r, D, N, H)
    BY <1>1, <1>2, <1>3, <2>2 DEF Publishes
  <2>4. r = dump'[d] /\ D = Before[d] \cup {d} /\ N = name' /\ H = has'
    BY <1>0, <1>1, <1>2, <2>1, <2>2
  <2> QED
    BY <2>3, <2>4 DEF Publishes
<1>4. CASE pc'[d] = "done" /\ pc[d] # "done"
  <2>1. Dumped(d)
    BY <1>4, OneMoves
  <2>2. /\ pc[d] = "write" /\ tnode = NULL /\ dump' = [dump EXCEPT ![d] = data]
        /\ pc[d] \in Dumping
    BY <2>1 DEF Dumped, At, Dumping
  <2>3. PICK l : l = LoadIndex(data)
    OBVIOUS
  <2>4. Loaded(l, {}, {})
    <3>1. From(TNodes, TKey, tnode) = {}
      BY <2>2 DEF From
    <3> QED
      BY <2>2, <2>3, <3>1 DEF Reading, ReadingAt
  <2>5. Cardinality({}) = 0 /\ Past({}, {}) = Made
    BY FS_EmptySet, PastEnds
  <2>6. /\ l.terms = 0 /\ l.docs = 0 /\ ~l.unread /\ l.found = EntriesOf(Made)
    BY <2>4, <2>5 DEF Loaded
  <2>7. Adding = {} /\ Added = D
    BY <1>2, <2>2, OwnDump
  <2>8. EntriesOf(Made) = Content
    <3>1. \A e \in Doc : pc[e] # "setNext"
      BY <2>7 DEF Adding
    <3>2. /\ \A y \in Node : dn[y].count # 0 => <<y[2], DKey[y], dn[y].count>> \in Content
          /\ \A c \in Content : \E y \in Node : /\ dn[y].count # 0
                                                /\ c = <<y[2], DKey[y], dn[y].count>>
      BY <3>1, ContentIs
    <3> QED
      BY <3>2 DEF EntriesOf, Made
  <2>9. Content = Sum(D)
    BY <2>7 DEF SumOfDocuments
  <2>10. dump'[d] = data
    BY <2>2, Constants DEF IInv, DumpTypes
  <2>11. PICK r : r = dump'[d]
    OBVIOUS
  <2>12. Sum(D) = SumGiven(D, N, H)
    BY <1>1, SumIs
  <2>13. LoadsAs(r, D, N, H)
    BY <2>3, <2>6, <2>8, <2>9, <2>10, <2>11, <2>12 DEF LoadsAs
  <2>14. r = dump'[d] /\ D = Before[d] \cup {d} /\ N = name' /\ H = has'
    BY <1>0, <1>1, <1>2, <2>11
  <2> QED
    BY <2>13, <2>14 DEF Publishes
<1>5. CASE pc'[d] # "done"
  BY <1>5 DEF Publishes
<1> QED
  BY <1>3, <1>4, <1>5

\* What a document's own do_update dumps, however long it waited for M_index
\* and whatever others dumped meanwhile, is loaded by load_index as the sum of
\* the documents that the client has sent so far: the lengths and records that
\* dump_index writes are those that the loader expects.
THEOREM AnsweredIsPublishedHolds ==
  ASSUME SingleClient PROVE Spec => []AnsweredIsPublished
<1> DEFINE Inv == \A d \in Doc : Reading(d) /\ Publishes(d)
<1>1. Init => Inv
  <2>1. Init => \A d \in Doc : pc[d] = "new"
    BY Constants DEF Init
  <2> QED
    BY <2>1 DEF Reading, ReadingAt, Publishes
<1>2. IInv /\ NoDocument /\ SumOfDocuments /\ Inv /\ [Next]_vars => Inv'
  BY ReadingKeeps, PublishesKeeps
<1>3. Inv => AnsweredIsPublished
  BY SumIs DEF AnsweredIsPublished, Publishes, LoadsAs, Answered
<1> QED
  BY <1>1, <1>2, <1>3, AlwaysIInv, AlwaysNoDocument, SumOfDocumentsHolds, PTL DEF Spec
=============================================================================
