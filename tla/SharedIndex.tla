----------------------------- MODULE SharedIndex ----------------------------
(***************************************************************************)
(* The server's index in memory, as its threads share it: a do_index       *)
(* thread changes it in add_count_to_index and insert_doc_to_term          *)
(* (data_operation.c) without a lock, while the thread that holds M_index  *)
(* dumps it (dump_index, data_serialization.c): a first pass along the     *)
(* lists measures, a second one writes.                                    *)
(*                                                                         *)
(* A step is one access of the dump, or one statement of an insertion that *)
(* writes to nodes others can reach.  Of two insertions at the same time   *)
(* the code can interleave even more than that.  A client waits for each   *)
(* answer before it sends its next document.                               *)
(***************************************************************************)
EXTENDS Naturals, Sequences, FiniteSets, FiniteSetsExt, SequencesExt, Links

CONSTANTS
  Doc,       \* connections with an INDEX command, one document each
  Reg,       \* connections with a REGISTER command
  Before,    \* Before[d]: documents the client of d sends first
  Term,      \* terms, numbers for their order
  Naming,    \* the ways to name the documents: numbers, for their order
  Contents,  \* the sets of terms that a document can have
  Count      \* Count[d][t]: how often d has t, if it does

ASSUME SharedAssumption ==
  /\ Doc \cap Reg = {}
  /\ IsFiniteSet(Doc)
  /\ NULL \notin Doc \cup Reg \cup (Doc \X Term)
  /\ Term \subseteq Nat
  /\ IsFiniteSet(Term)
  /\ Naming \subseteq [Doc -> Nat]
  /\ Contents \subseteq (SUBSET Term) \ {{}}
  /\ Before \in [Doc -> SUBSET Doc]
  /\ Count \in [Doc -> [Term -> Nat \ {0}]]

VARIABLES
  has,      \* the terms of each document
  name,     \* the name of each document; a file sent again has the same
  index,    \* Dindex: [list, len_list]
  tn,       \* index_term_nodes: [next, pre, list, len_list]
  dn,       \* index_doc_nodes: [next, pre, count]
  tnp,      \* terms of the count that its thread has still to add
  itnp,     \* the term node each insertion is at
  dnode_p,  \* the doc node insert_doc_to_term is at
  M_index,  \* the thread that holds the mutex, or NULL if it is not locked
  tnode,    \* dump_index, of that thread: the term node it is at
  dnode,    \* the doc node it is at
  size,     \* records the first pass measured
  data,     \* what the second pass has written: [len_list, recs]
  dump,     \* what each thread's dump_index returned
  pc,       \* where each thread is
  server    \* "running", or "undefined" once a dump overran its memory

inputs == <<has, name>>
heap == <<index, tn, dn>>
adding == <<tnp, itnp, dnode_p>>
dumping == <<M_index, tnode, dnode, size, data, dump>>
vars == <<inputs, heap, adding, dumping, pc, server>>

Thread == Doc \cup Reg
\* The node that the thread of d allocates for its term t.
Node == Doc \X Term

At(t, label) == server = "running" /\ pc[t] = label
Goto(t, label) == pc' = [pc EXCEPT ![t] = label]

\* The terms of a count, in the order that combine_count leaves them in.
CountLists ==
  {s \in BoundedSeq(Term, Cardinality(Term)) :
     ToSet(s) \in Contents /\ \A j, k \in DOMAIN s : j < k => s[j] < s[k]}

Init ==
  /\ tnp \in [Doc -> CountLists]
  /\ has = [d \in Doc |-> ToSet(tnp[d])]
  /\ name \in Naming
  /\ index = [list |-> NULL, len_list |-> 0]
  /\ tn = [x \in Node |->
             [next |-> NULL, pre |-> NULL, list |-> NULL, len_list |-> 0]]
  /\ dn = [x \in Node |-> [next |-> NULL, pre |-> NULL, count |-> 0]]
  /\ itnp = [d \in Doc |-> NULL]
  /\ dnode_p = [d \in Doc |-> NULL]
  /\ M_index = NULL
  /\ tnode = NULL
  /\ dnode = NULL
  /\ size = 0
  /\ data = [len_list |-> 0, recs |-> <<>>]
  /\ dump = [t \in Thread |-> data]
  /\ pc = [t \in Thread |-> "new"]
  /\ server = "running"

-----------------------------------------------------------------------------
(* Faulty variants of definitions below; no action uses them. *)

NextUnchecked(d) == TRUE
SameUpload(x, d) == x[1] = d
BackForgotten(d) == tn
LinkedLater(d) == NULL
OnlyInserted(d) == index.len_list + (IF pc[d] = "count" THEN 1 ELSE 0)
StillLocked(t) == t

-----------------------------------------------------------------------------
(* add_count_to_index. *)

TermOf(x) == x[2]
NameOf(x) == name[x[1]]
New(d) == <<d, Head(tnp[d])>>
CountOf(d) == Count[d][Head(tnp[d])]

DoIndex(d) ==
  /\ At(d, "new")
  /\ \A e \in Before[d] : pc[e] = "done"
  /\ itnp' = [itnp EXCEPT ![d] = index.list]
  /\ Goto(d, IF index.list = NULL THEN "first" ELSE "walk")
  /\ UNCHANGED <<inputs, heap, tnp, dnode_p, dumping, server>>

\* A new term node with the document in it; nobody can reach it yet.
NewTermNode(d, pre) ==
  [tn EXCEPT ![New(d)] = [next |-> NULL, pre |-> pre, list |-> New(d),
                          len_list |-> 1]]
NewDocNode(d, next, pre) ==
  [dn EXCEPT ![New(d)] = [next |-> next, pre |-> pre, count |-> CountOf(d)]]

FirstTerm(d) ==
  /\ At(d, "first")
  /\ tn' = NewTermNode(d, NULL)
  /\ dn' = NewDocNode(d, NULL, NULL)
  /\ index' = [index EXCEPT !.list = New(d)]
  /\ Goto(d, "count")
  /\ UNCHANGED <<inputs, adding, dumping, server>>

\* The new node is published before its own next is set (SetNext): until then
\* the list ends at it.
InsertTerm(d) ==
  LET pre == tn[itnp[d]].pre IN
  /\ At(d, "walk")
  /\ tnp[d] # <<>>
  /\ TermOf(itnp[d]) > Head(tnp[d])
  /\ dn' = NewDocNode(d, NULL, NULL)
  /\ IF pre = NULL
     THEN /\ tn' = NewTermNode(d, pre)
          /\ index' = [index EXCEPT !.list = New(d)]
     ELSE /\ tn' = [NewTermNode(d, pre) EXCEPT ![pre].next = New(d)]
          /\ UNCHANGED index
  /\ Goto(d, "setNext")
  /\ UNCHANGED <<inputs, adding, dumping, server>>

SetNext(d) ==
  /\ At(d, "setNext")
  /\ tn' = [tn EXCEPT ![New(d)].next = itnp[d]]
  /\ Goto(d, "setPre")
  /\ UNCHANGED <<inputs, index, dn, adding, dumping, server>>

LinkedBack(d) == [tn EXCEPT ![itnp[d]].pre = New(d)]

SetPre(d) ==
  /\ At(d, "setPre")
  /\ tn' = LinkedBack(d)
  /\ Goto(d, "count")
  /\ UNCHANGED <<inputs, index, dn, adding, dumping, server>>

HasNext(d) == tn[itnp[d]].next # NULL

NextTerm(d) ==
  /\ At(d, "walk")
  /\ tnp[d] # <<>>
  /\ TermOf(itnp[d]) < Head(tnp[d])
  /\ HasNext(d)
  /\ itnp' = [itnp EXCEPT ![d] = tn[@].next]
  /\ UNCHANGED <<inputs, heap, tnp, dnode_p, dumping, pc, server>>

AppendTerm(d) ==
  /\ At(d, "walk")
  /\ tnp[d] # <<>>
  /\ TermOf(itnp[d]) < Head(tnp[d])
  /\ ~HasNext(d)
  /\ dn' = NewDocNode(d, NULL, NULL)
  /\ tn' = [NewTermNode(d, NULL) EXCEPT ![itnp[d]].next = New(d)]
  /\ Goto(d, "setBack")
  /\ UNCHANGED <<inputs, index, adding, dumping, server>>

SetBack(d) ==
  /\ At(d, "setBack")
  /\ tn' = [tn EXCEPT ![New(d)].pre = itnp[d]]
  /\ Goto(d, "countLast")
  /\ UNCHANGED <<inputs, index, dn, adding, dumping, server>>

\* index->len_list += 1, after the node is in the list.
LengthWith(d) == index.len_list + 1

CountTerm(d) ==
  /\ At(d, "count") \/ At(d, "countLast")
  /\ index' = [index EXCEPT !.len_list = LengthWith(d)]
  /\ itnp' = [itnp EXCEPT ![d] = IF pc[d] = "count" THEN New(d) ELSE tn[@].next]
  /\ tnp' = [tnp EXCEPT ![d] = Tail(@)]
  /\ Goto(d, "walk")
  /\ UNCHANGED <<inputs, tn, dn, dnode_p, dumping, server>>

\* The whole count is in the index: on to do_update.
AllAdded(d) ==
  /\ At(d, "walk")
  /\ tnp[d] = <<>>
  /\ Goto(d, "update")
  /\ UNCHANGED <<inputs, heap, adding, dumping, server>>

-----------------------------------------------------------------------------
(* insert_doc_to_term, on a term node of the index: its list is not empty. *)

SameTerm(d) ==
  /\ At(d, "walk")
  /\ tnp[d] # <<>>
  /\ TermOf(itnp[d]) = Head(tnp[d])
  /\ dnode_p' = [dnode_p EXCEPT ![d] = tn[itnp[d]].list]
  /\ Goto(d, "insert")
  /\ UNCHANGED <<inputs, heap, tnp, itnp, dumping, server>>

InsertReturns(d) ==
  /\ tnp' = [tnp EXCEPT ![d] = Tail(@)]
  /\ Goto(d, "walk")
  /\ UNCHANGED <<inputs, index, itnp, dnode_p, dumping, server>>

SameDoc(x, d) == NameOf(x) = name[d]

CountAgain(d) ==
  /\ At(d, "insert")
  /\ SameDoc(dnode_p[d], d)
  /\ dn' = [dn EXCEPT ![dnode_p[d]].count = @ + CountOf(d)]
  /\ InsertReturns(d)
  /\ UNCHANGED tn

NextDoc(d) ==
  /\ At(d, "insert")
  /\ NameOf(dnode_p[d]) < name[d]
  /\ dn[dnode_p[d]].next # NULL
  /\ dnode_p' = [dnode_p EXCEPT ![d] = dn[@].next]
  /\ UNCHANGED <<inputs, heap, tnp, itnp, dumping, pc, server>>

\* tnode->len_list += 1, before the new node is in the list.
CountDoc(d) ==
  LET last == NameOf(dnode_p[d]) < name[d] IN
  /\ At(d, "insert")
  /\ ~SameDoc(dnode_p[d], d)
  /\ last => dn[dnode_p[d]].next = NULL
  /\ tn' = [tn EXCEPT ![itnp[d]].len_list = @ + 1]
  /\ Goto(d, IF last THEN "append" ELSE "before")
  /\ UNCHANGED <<inputs, index, dn, adding, dumping, server>>

\* The next of a new doc node, when it is published.
NextOfNew(d) == dnode_p[d]

InsertDoc(d) ==
  LET pre == dn[dnode_p[d]].pre
      made == NewDocNode(d, NextOfNew(d), pre)
  IN /\ At(d, "before")
     /\ IF pre = NULL
        THEN /\ tn' = [tn EXCEPT ![itnp[d]].list = New(d)]
             /\ dn' = made
        ELSE /\ dn' = [made EXCEPT ![pre].next = New(d)]
             /\ UNCHANGED tn
     /\ Goto(d, "docPre")
     /\ UNCHANGED <<inputs, index, adding, dumping, server>>

SetDocPre(d) ==
  /\ At(d, "docPre")
  /\ dn' = [dn EXCEPT ![dnode_p[d]].pre = New(d)]
  /\ InsertReturns(d)
  /\ UNCHANGED tn

AppendDoc(d) ==
  /\ At(d, "append")
  /\ dn' = [NewDocNode(d, NULL, NULL) EXCEPT ![dnode_p[d]].next = New(d)]
  /\ Goto(d, "docBack")
  /\ UNCHANGED <<inputs, index, tn, adding, dumping, server>>

SetDocBack(d) ==
  /\ At(d, "docBack")
  /\ dn' = [dn EXCEPT ![New(d)].pre = dnode_p[d]]
  /\ InsertReturns(d)
  /\ UNCHANGED tn

-----------------------------------------------------------------------------
(* do_update up to the dump.  What is sent then is IndexUpdate's matter.    *)

DoReg(c) ==
  /\ At(c, "new")
  /\ Goto(c, "update")
  /\ UNCHANGED <<inputs, heap, adding, dumping, server>>

LockIndex(t) ==
  /\ At(t, "update")
  /\ M_index = NULL
  /\ M_index' = t
  /\ tnode' = index.list
  /\ size' = 0
  /\ data' = [len_list |-> 0, recs |-> <<>>]
  /\ Goto(t, "measure")
  /\ UNCHANGED <<inputs, heap, adding, dnode, dump, server>>

\* The first pass.  Each record, of a term or of a document, is a string and a
\* number; strings take the same space here.
MeasureTerm(t) ==
  /\ At(t, "measure")
  /\ tnode # NULL
  /\ size' = size + 1
  /\ dnode' = tn[tnode].list
  /\ Goto(t, "measureDocs")
  /\ UNCHANGED <<inputs, heap, adding, M_index, tnode, data, dump, server>>

MeasureDoc(t) ==
  /\ At(t, "measureDocs")
  /\ IF dnode # NULL
     THEN /\ size' = size + 1
          /\ dnode' = dn[dnode].next
          /\ UNCHANGED <<tnode, pc>>
     ELSE /\ tnode' = tn[tnode].next
          /\ Goto(t, "measure")
          /\ UNCHANGED <<size, dnode>>
  /\ UNCHANGED <<inputs, heap, adding, M_index, data, dump, server>>

\* The second pass: the length, then the lists once more.
WriteLength(t) ==
  /\ At(t, "measure")
  /\ tnode = NULL
  /\ data' = [len_list |-> index.len_list, recs |-> <<>>]
  /\ Goto(t, "again")
  /\ UNCHANGED <<inputs, heap, adding, M_index, tnode, dnode, size, dump,
                 server>>

ListAgain(t) ==
  /\ At(t, "again")
  /\ tnode' = index.list
  /\ Goto(t, "write")
  /\ UNCHANGED <<inputs, heap, adding, M_index, dnode, size, data, dump, server>>

\* A record is written, unless it would lie past what was allocated.
Put(t, string, number, label) ==
  IF Len(data.recs) < size
  THEN /\ data' = [data EXCEPT !.recs = Append(@, <<string, number>>)]
       /\ Goto(t, label)
       /\ UNCHANGED server
  ELSE /\ server' = "undefined"
       /\ UNCHANGED <<data, pc>>

WriteTerm(t) ==
  /\ At(t, "write")
  /\ tnode # NULL
  /\ Put(t, TermOf(tnode), tn[tnode].len_list, "docs")
  /\ UNCHANGED <<inputs, heap, adding, M_index, tnode, dnode, size, dump>>

FirstDoc(t) ==
  /\ At(t, "docs")
  /\ dnode' = tn[tnode].list
  /\ Goto(t, "writeDocs")
  /\ UNCHANGED <<inputs, heap, adding, M_index, tnode, size, data, dump, server>>

WriteDoc(t) ==
  /\ At(t, "writeDocs")
  /\ dnode # NULL
  /\ Put(t, NameOf(dnode), dn[dnode].count, "nextDoc")
  /\ UNCHANGED <<inputs, heap, adding, M_index, tnode, dnode, size, dump>>

AfterDoc(t) ==
  /\ At(t, "nextDoc")
  /\ dnode' = dn[dnode].next
  /\ Goto(t, "writeDocs")
  /\ UNCHANGED <<inputs, heap, adding, M_index, tnode, size, data, dump, server>>

AfterTerm(t) ==
  /\ At(t, "writeDocs")
  /\ dnode = NULL
  /\ tnode' = tn[tnode].next
  /\ Goto(t, "write")
  /\ UNCHANGED <<inputs, heap, adding, M_index, dnode, size, data, dump, server>>

Released(t) == NULL

Dumped(t) ==
  /\ At(t, "write")
  /\ tnode = NULL
  /\ dump' = [dump EXCEPT ![t] = data]
  /\ M_index' = Released(t)
  /\ Goto(t, "done")
  /\ UNCHANGED <<inputs, heap, adding, tnode, dnode, size, data, server>>

-----------------------------------------------------------------------------
AddCount(d) ==
  \/ FirstTerm(d)
  \/ InsertTerm(d)
  \/ SetNext(d)
  \/ SetPre(d)
  \/ NextTerm(d)
  \/ AppendTerm(d)
  \/ SetBack(d)
  \/ CountTerm(d)
  \/ AllAdded(d)
  \/ SameTerm(d)
  \/ CountAgain(d)
  \/ NextDoc(d)
  \/ CountDoc(d)
  \/ InsertDoc(d)
  \/ SetDocPre(d)
  \/ AppendDoc(d)
  \/ SetDocBack(d)

DumpIndex(t) ==
  \/ LockIndex(t)
  \/ MeasureTerm(t)
  \/ MeasureDoc(t)
  \/ WriteLength(t)
  \/ ListAgain(t)
  \/ WriteTerm(t)
  \/ FirstDoc(t)
  \/ WriteDoc(t)
  \/ AfterDoc(t)
  \/ AfterTerm(t)
  \/ Dumped(t)

Next ==
  \/ \E d \in Doc : DoIndex(d) \/ AddCount(d)
  \/ \E c \in Reg : DoReg(c)
  \/ \E t \in Thread : DumpIndex(t)

Spec == Init /\ [][Next]_vars

\* A thread that was started is scheduled; no connection has to arrive.
FairSpec ==
  /\ Spec
  /\ \A d \in Doc : WF_vars(AddCount(d))
  /\ \A t \in Thread : WF_vars(DumpIndex(t))

-----------------------------------------------------------------------------
(* load_index, on what was dumped. *)

\* What one record means to the loader: the next term while no document is
\* due, and else a document of the term it is at.  Both look the same.
LoadRecord(rec, l) ==
  IF l.docs > 0
  THEN [l EXCEPT !.docs = @ - 1, !.found = @ \cup {<<l.term, rec[1], rec[2]>>}]
  ELSE IF l.terms > 0
  THEN [l EXCEPT !.terms = @ - 1, !.term = rec[1], !.docs = rec[2]]
  ELSE [l EXCEPT !.unread = TRUE]

LoadIndex(d) ==
  FoldLeft(LAMBDA l, rec : LoadRecord(rec, l),
           [terms |-> d.len_list, docs |-> 0, term |-> 0, found |-> {},
            unread |-> FALSE], d.recs)

-----------------------------------------------------------------------------
(* Properties. *)

\* One client sends all documents, one after the other.
SingleClient == \A d, e \in Doc : d # e => d \in Before[e] \/ e \in Before[d]

Terms == Chain([x \in Node |-> tn[x].next], index.list)
DocsOf(x) == Chain([y \in Node |-> dn[y].next], tn[x].list)
\* The index as <<term, name, count>>.
Content ==
  UNION {{<<TermOf(x), NameOf(y), dn[y].count>> : y \in ToSet(DocsOf(x))}
           : x \in ToSet(Terms)}

SumOn(docs, t, nm) ==
  MapThenSumSet(LAMBDA d : Count[d][t],
                {d \in docs : name[d] = nm /\ t \in has[d]})

\* The index that counts the documents in docs, each once.
Sum(docs) ==
  UNION {{<<t, name[d], SumOn(docs, t, name[d])>> : t \in has[d]} : d \in docs}

Adding == {d \in Doc : pc[d] \in {"first", "walk", "setNext", "setPre", "count",
             "setBack", "countLast", "insert", "before", "docPre", "append",
             "docBack"}}
Added == {d \in Doc : pc[d] # "new"} \ Adding
Answered == {d \in Doc : pc[d] = "done"}

Link == Node \cup {NULL}

\* Every variable stays in its domain; an insertion that goes on along a list
\* is at a node, which the code does not check.
TypeOK ==
  /\ has \in [Doc -> Contents]
  /\ name \in Naming
  /\ index \in [list : Link, len_list : 0..Cardinality(Node)]
  /\ tn \in [Node -> [next : Link, pre : Link, list : Link,
                      len_list : 0..Cardinality(Doc)]]
  /\ \A x \in Node : dn[x].next \in Link /\ dn[x].pre \in Link
                     /\ dn[x].count \in Nat
  /\ \A d \in Doc : /\ pc[d] = "walk" /\ tnp[d] # <<>> => itnp[d] \in Node
                    /\ pc[d] = "insert" => dnode_p[d] \in Node
  /\ M_index \in Thread \cup {NULL}
  /\ tnode \in Link /\ dnode \in Link
  /\ size \in Nat /\ Len(data.recs) <= size
  /\ pc \in [Thread -> {"new", "first", "walk", "setNext", "setPre", "count",
                        "setBack", "countLast", "insert", "before", "docPre",
                        "append", "docBack", "update", "measure", "measureDocs",
                        "again", "write", "docs", "writeDocs", "nextDoc",
                        "done"}]
  /\ server \in {"running", "undefined"}

\* A list is sorted, and linked alike both ways.
ListOK(s, node, Key(_)) ==
  /\ \A j \in DOMAIN s : node[s[j]].pre = IF j = 1 THEN NULL ELSE s[j - 1]
  /\ \A j \in 2..Len(s) : Key(s[j - 1]) < Key(s[j])

\* Whenever no insertion is under way, the list of terms and the list of
\* documents of each term are sorted, linked alike both ways and as long as
\* their len_list says, which is all that a dump and the loader go by.
ListsInOrder ==
  Adding = {} =>
    /\ ListOK(Terms, tn, TermOf)
    /\ index.len_list = Len(Terms)
    /\ \A x \in ToSet(Terms) : /\ ListOK(DocsOf(x), dn, NameOf)
                                /\ tn[x].len_list = Len(DocsOf(x))

\* Whenever no insertion is under way, the index is the sum of the documents
\* that were added, those that have a name in common under one entry: nothing
\* is lost, and a file that is sent again counts again.
SumOfDocuments == Adding = {} => Content = Sum(Added)

\* What a document's own do_update dumps, though it waited for M_index and for
\* other dumps of an index that changed, loads as the sum of the documents the
\* client has sent so far, nothing left over and nothing missing.
AnsweredIsPublished ==
  \A d \in Answered :
    LET l == LoadIndex(dump[d]) IN
    /\ l.found = Sum(Before[d] \cup {d})
    /\ l.terms = 0 /\ l.docs = 0 /\ ~l.unread

\* There is one kind of moment in which a reader does not find what was
\* answered before: a new term node is in the list, its next is not yet set.
\* No insertion of a document into a term's list, no append, and no other step
\* hides a term or a count.
HiddenOnlyInSetNext ==
  (\A d \in Doc : pc[d] # "setNext") =>
    \A e \in Answered : \A t \in has[e] :
      \E entry \in Content : /\ entry[1] = t
                             /\ entry[2] = name[e]
                             /\ entry[3] >= SumOn(Answered, t, name[e])

\* A thread that adds or dumps comes to its end, though lists grow under the
\* dump that walks them and all dumps wait for one mutex, unless a dump writes
\* past its memory.
ThreadsEnd ==
  []<>(\/ \A t \in Thread : pc[t] \in {"new", "done"}
       \/ server = "undefined")

-----------------------------------------------------------------------------
(* Statements of the repository that the code does not keep. *)

\* README.md:58 "data serialization, which enable we dump the c structure into
\* binary data, and load them back": load_index finds each record of a dump
\* where it expects it, and all of them.
DumpsLoadBack ==
  \A t \in Thread :
    LET l == LoadIndex(dump[t])
    IN pc[t] = "done" => l.terms = 0 /\ l.docs = 0 /\ ~l.unread

=============================================================================
