------------------------------- MODULE Search -------------------------------
(***************************************************************************)
(* A search: the client's query, split_query and do_retr in server.c,      *)
(* retrieve_f_index on each cnode and combine_query_rsl on both sides      *)
(* (data_operation.c).  The cnodes search the same index.                  *)
(*                                                                         *)
(* An index is a function from terms to their document lists, which        *)
(* insert_doc_to_term keeps sorted by name; a term that is not in the index*)
(* has the empty list.  A result list is a sequence of <<document,         *)
(* weight>>.  One iteration of retrieve_f_index's loop over the terms is a *)
(* step, and so are each combine_query_rsl and each write_buf of do_retr.  *)
(* Of a string in the output buffer the model has the length.              *)
(***************************************************************************)
EXTENDS Naturals, Sequences, FiniteSets, SequencesExt

CONSTANTS
  Term,
  Doc,       \* documents: numbers, for the order of their names
  Count,     \* Count[t][d]: how often document d, if it has term t, has it
  MaxTerms,  \* bound: terms in a search
  n,         \* results that retrieve_f_index takes; cnode.c passes 100
  limit,     \* results that do_retr prints: 10
  NameLen,   \* the length of a document's name, at most Chunk; longer names
             \* overrun buf of load_index before they come here
  Chunk      \* what the output buffer grows by: 100

ASSUME SearchAssumption ==
  /\ Doc \subseteq Nat /\ IsFiniteSet(Doc)
  /\ Count \in [Term -> [Doc -> Nat \ {0}]]
  /\ MaxTerms \in Nat \ {0}
  /\ n \in Nat \ {0}
  /\ limit \in Nat
  /\ Chunk \in Nat /\ Chunk >= 11
  /\ NameLen \in [Doc -> 1..Chunk]

VARIABLES
  index,  \* Dindex of every cnode
  query,  \* the terms, in the order the server receives them
  nodes,  \* the workers that get_workers_n found
  pquery, \* the terms each worker has still to look up
  i,      \* i of each worker's retrieve_f_index: results it has counted
  n_rsl,  \* the result list of each worker
  flag,   \* is a worker's first term still to come?
  pc,     \* "split", "retrieve", "combine", "respond" or "done"
  joined, \* workers whose results do_retr has combined
  qrsl,   \* do_retr's result list
  out,    \* the results that do_retr prints
  str,    \* the strings of a line that are still to be written
  buf     \* the output buffer: the bytes it uses, and its size

agentVars == <<pquery, i, n_rsl, flag>>
outVars == <<out, str, buf>>
vars == <<index, query, nodes, agentVars, pc, joined, qrsl, outVars>>

-----------------------------------------------------------------------------
(* Faulty variants of definitions below; no action uses them. *)

Pairs(r, other, Made(_, _)) ==
  FlattenSeq([j \in DOMAIN r |-> [h \in DOMAIN other |-> Made(r[j], other[h])]])

AllPairs(r, other) == Pairs(r, other, LAMBDA x, y : <<x[1], x[2] + y[2]>>)
SwappedFields(r, other) == Pairs(r, other, LAMBDA x, y : <<x[2] + y[2], x[1]>>)
LinkForgotten(s) == IF Len(s) < 2 THEN s ELSE <<Head(s), Last(s)>>
EmptyIsNeutral(rsl, rsl_a) == IF rsl = <<>> THEN rsl_a ELSE rsl
FullIsRoom(len, b) == len + b.use > b.size
SelfIfShorter(rsl, rsl_a) == IF Len(rsl) > Len(rsl_a) THEN rsl_a ELSE rsl

-----------------------------------------------------------------------------
Worker == 1..MaxTerms

\* Documents, in the order of their names.
Ascending ==
  {s \in BoundedSeq(Doc, Cardinality(Doc)) : \A j, k \in DOMAIN s : j < k => s[j] < s[k]}

\* The list of term t when these documents have it.
DocList(t, docs) == [j \in DOMAIN docs |-> <<docs[j], Count[t][docs[j]]>>]

\* A list in which every new element is inserted after the first.
SecondPlace(s) == IF s = <<>> THEN <<>> ELSE <<Head(s)>> \o Reverse(Tail(s))

\* The client inserts the terms it reads like that.
Init ==
  /\ \E has \in [Term -> Ascending] :
       index = [t \in Term |-> DocList(t, has[t])]
  /\ \E typed \in BoundedSeq(Term, MaxTerms) \ {<<>>} :
       query = SecondPlace(typed)
  /\ nodes \in 1..Len(query)
  /\ pquery = [w \in Worker |-> <<>>]
  /\ i = [w \in Worker |-> 0]
  /\ n_rsl = [w \in Worker |-> <<>>]
  /\ flag = [w \in Worker |-> TRUE]
  /\ pc = "split"
  /\ joined = 0
  /\ qrsl = <<>>
  /\ out = <<>>
  /\ str = <<>>
  /\ buf = [use |-> 0, size |-> 0]

-----------------------------------------------------------------------------
(* combine_query_rsl. *)

\* All pairs of results of the two lists that name the same document.
SameDoc(r, other) ==
  FlattenSeq([j \in DOMAIN r |-> FlattenSeq([h \in DOMAIN other |->
    IF r[j][1] = other[h][1] THEN <<<<r[j][1], r[j][2] + other[h][2]>>>> ELSE <<>>])])

\* The walk along rsl compares with rsl_a if that one is longer, and else with
\* rsl itself: the choice of the shorter list for the walk is overwritten.
OtherList(rsl, rsl_a) == IF Len(rsl) < Len(rsl_a) THEN rsl_a ELSE rsl

CombineQueryRsl(rsl, rsl_a) ==
  IF rsl = <<>> \/ rsl_a = <<>> THEN <<>>
  ELSE SecondPlace(SameDoc(rsl, OtherList(rsl, rsl_a)))

-----------------------------------------------------------------------------
\* split_query: a term for each worker, and all that are left for the last.
Share(w) ==
  IF w < nodes THEN <<query[w]>>
  ELSE IF w = nodes THEN SubSeq(query, w, Len(query)) ELSE <<>>

SplitQuery ==
  /\ pc = "split"
  /\ pquery' = [w \in Worker |-> Share(w)]
  /\ pc' = "retrieve"
  /\ UNCHANGED <<index, query, nodes, i, n_rsl, flag, joined, qrsl, outVars>>

\* Results that retrieve_f_index may still take when it has counted k.
Room(k) == IF k > n THEN 0 ELSE n - k

\* One term in retrieve_f_index.  i counts on from term to term, and counts
\* the result at which it stops as well.
Retrieve(w) ==
  LET docs == index[Head(pquery[w])]
      taken == IF Len(docs) > Room(i[w]) THEN Room(i[w]) ELSE Len(docs)
      nn_rsl == SecondPlace(SubSeq(docs, 1, taken))
  IN /\ pc = "retrieve"
     /\ pquery[w] # <<>>
     /\ i' = [i EXCEPT ![w] = @ + taken + (IF taken < Len(docs) THEN 1 ELSE 0)]
     /\ n_rsl' = [n_rsl EXCEPT ![w] = IF flag[w] THEN nn_rsl
                                      ELSE CombineQueryRsl(@, nn_rsl)]
     /\ flag' = [flag EXCEPT ![w] = FALSE]
     /\ pquery' = [pquery EXCEPT ![w] = Tail(@)]
     /\ UNCHANGED <<index, query, nodes, pc, joined, qrsl, outVars>>

\* All agents are joined.
Join ==
  /\ pc = "retrieve"
  /\ \A w \in Worker : pquery[w] = <<>>
  /\ pc' = "combine"
  /\ UNCHANGED <<index, query, nodes, agentVars, joined, qrsl, outVars>>

Combine ==
  /\ pc = "combine"
  /\ joined < nodes
  /\ joined' = joined + 1
  /\ qrsl' = IF joined = 0 THEN n_rsl[1]
             ELSE CombineQueryRsl(qrsl, n_rsl[joined + 1])
  /\ UNCHANGED <<index, query, nodes, agentVars, pc, outVars>>

\* create_out_buf, and the line that says that there are no results.
CreateOutBuf ==
  /\ pc = "combine"
  /\ joined = nodes
  /\ buf' = [use |-> 0, size |-> Chunk]
  /\ str' = IF qrsl = <<>> THEN <<11>> ELSE <<>>
  /\ pc' = "respond"
  /\ UNCHANGED <<index, query, nodes, agentVars, joined, qrsl, out>>

\* What "%d" makes of an int.
Digits(w) == 1 + Cardinality({j \in 1..9 : w >= 10 ^ j})

Printed == Len(out) = Len(qrsl) \/ Len(out) = limit

\* The next result: its name, two tabs, its weight and an end of line.
NextResult ==
  LET r == qrsl[Len(out) + 1]
  IN /\ pc = "respond"
     /\ str = <<>>
     /\ ~Printed
     /\ out' = Append(out, r)
     /\ str' = <<NameLen[r[1]], 2, Digits(r[2]), 1>>
     /\ UNCHANGED <<index, query, nodes, agentVars, pc, joined, qrsl, buf>>

NoRoom(len, b) == len + b.use >= b.size

\* write_buf grows the buffer once, and copies the string and its '\0'.
WriteBuf ==
  /\ pc = "respond"
  /\ str # <<>>
  /\ buf' = [use |-> buf.use + Head(str),
             size |-> IF NoRoom(Head(str), buf) THEN buf.size + Chunk ELSE buf.size]
  /\ str' = Tail(str)
  /\ UNCHANGED <<index, query, nodes, agentVars, pc, joined, qrsl, out>>

Respond ==
  /\ pc = "respond"
  /\ str = <<>>
  /\ Printed
  /\ pc' = "done"
  /\ UNCHANGED <<index, query, nodes, agentVars, joined, qrsl, outVars>>

Next ==
  \/ SplitQuery
  \/ \E w \in Worker : Retrieve(w)
  \/ Join
  \/ Combine
  \/ CreateOutBuf
  \/ NextResult
  \/ WriteBuf
  \/ Respond

Spec == Init /\ [][Next]_vars

-----------------------------------------------------------------------------
(* Properties. *)

Result == Doc \X (Nat \ {0})

\* Every variable stays in its domain.
TypeOK ==
  /\ index \in [Term -> Seq(Result)]
  /\ query \in Seq(Term)
  /\ nodes \in 1..MaxTerms
  /\ pquery \in [Worker -> Seq(Term)]
  /\ i \in [Worker -> Nat]
  /\ n_rsl \in [Worker -> Seq(Result)]
  /\ flag \in [Worker -> BOOLEAN]
  /\ pc \in {"split", "retrieve", "combine", "respond", "done"}
  /\ joined \in 0..MaxTerms
  /\ qrsl \in Seq(Result)
  /\ out \in Seq(Result)
  /\ str \in Seq(Nat)
  /\ buf \in [use : Nat, size : Nat]

DocsOf(s) == {s[j][1] : j \in DOMAIN s}

\* What a term's list says of the documents.
CountOf(t, d) ==
  LET at == {j \in DOMAIN index[t] : index[t][j][1] = d}
  IN IF at = {} THEN 0 ELSE index[t][CHOOSE j \in at : TRUE][2]

\* Of document d, in the first k terms of the query.
SumOfCounts(d, k) ==
  LET sum[j \in 0..Len(query)] == IF j = 0 THEN 0 ELSE sum[j - 1] + CountOf(query[j], d)
  IN sum[k]

HasAllTerms(d) == \A j \in DOMAIN query : CountOf(query[j], d) > 0

\* No worker had to leave a document out.
NothingCut == \A w \in Worker : i[w] <= n

\* No document is answered twice, though the lists are combined pair by pair.
NoDocTwice ==
  \A s \in {qrsl} \cup {n_rsl[w] : w \in Worker} :
    \A j, k \in DOMAIN s : s[j][1] = s[k][1] => j = k

\* The search misses nothing: unless n cut a list short, which TopOfEveryTerm is
\* about, every document that has all terms is among the results, on however
\* many nodes it was searched.
AllMatchesFound ==
  pc = "done" /\ NothingCut => {d \in Doc : HasAllTerms(d)} \subseteq DocsOf(qrsl)

\* Whatever is combined later, each result has the first term, and is not one
\* of the results only because of others.
FirstTermFound ==
  pc = "done" => \A d \in DocsOf(out) : CountOf(query[1], d) > 0

\* The code's answer is the right one, document and weight, if each term has a
\* longer list than the term before, n cuts nothing, and the terms are all on
\* one node or each on its own.
ExactIfAscending ==
  /\ pc = "done"
  /\ NothingCut
  /\ nodes \in {1, Len(query)}
  /\ \A j \in 2..Len(query) : Len(index[query[j - 1]]) < Len(index[query[j]])
  => {qrsl[j] : j \in DOMAIN qrsl} =
       {<<d, SumOfCounts(d, Len(query))>> : d \in {e \in Doc : HasAllTerms(e)}}

\* No write_buf leaves the buffer, with its '\0', though it grows only once:
\* no string is longer than Chunk.  What the client prints therefore ends
\* within what it receives, the buffer to its size.
TextEnds == pc \in {"respond", "done"} => buf.use < buf.size

-----------------------------------------------------------------------------
(* Statements of the repository that the code does not keep. *)

\* README.md:40 "each cnode work retreive one term then combine the result",
\* data_operation.c:732 "find the short one.": a result list is combined with
\* the others, so every document in it has all terms.
ResultsHaveAllTerms ==
  pc = "done" => \A d \in DocsOf(qrsl) : HasAllTerms(d)

\* data_operation.c:645 "every term, get the top n docment.": where the terms are
\* different and none has more than n documents, no list is cut short and no
\* document that has all terms is missed, however they are spread over the nodes.
TopOfEveryTerm ==
  /\ pc = "done"
  /\ IsInjective(query)
  /\ \A j \in DOMAIN query : Len(index[query[j]]) <= n
  => {d \in Doc : HasAllTerms(d)} \subseteq DocsOf(qrsl)

=============================================================================
