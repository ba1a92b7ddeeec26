------------------------------ MODULE TermCount ------------------------------
(***************************************************************************)
(* Counting the terms of a document: split_doc cuts it into parts, count_  *)
(* doc (or count_doc_part) makes a sorted list of counts of each part with *)
(* add_count_term, and combine_count merges those lists, one after the     *)
(* other, into the first (data_operation.c).                               *)
(*                                                                         *)
(* The lists are the code's: nodes linked by next and pre, on a heap.  One *)
(* word is a step, and so is one iteration of combine_count's loop.  The   *)
(* parts are counted one by one: the cnodes that do it share no memory.    *)
(*                                                                         *)
(* Two callers: do_index, whose main count starts empty and whose workers  *)
(* all have index 0 (get_workers_n), and the repository's tests, which     *)
(* count every part and start from the count of the first.                 *)
(*                                                                         *)
(* A document is a sequence of words and newlines; its sizes are counted   *)
(* in those.  Terms are ordered as compare_string orders them, so a word   *)
(* is smaller than one it begins.                                          *)
(***************************************************************************)
EXTENDS Integers, Sequences, SequencesExt, FiniteSetsExt, Links

CONSTANTS
  Term,      \* the words: numbers, for their order
  MaxWords,  \* bound: words and newlines in a document
  MaxParts,  \* bound: parts a document is split into
  Callers,   \* the callers to look at: a subset of {"do_index", "tests"}
  NL         \* '\n'

ASSUME CountAssumption ==
  /\ Term \subseteq Nat
  /\ IsFiniteSet(Term)
  /\ NL \notin Term
  /\ MaxWords \in Nat
  /\ MaxParts \in Nat \ {0}
  /\ Callers \subseteq {"do_index", "tests"}
  /\ NULL \notin Nat \X Term

VARIABLES
  doc,         \* the document's data
  text,        \* the data as counting reads it
  n,           \* the parts to split it into
  caller,      \* who counts it
  parts,       \* <<start, end>> of each part made so far
  pc,          \* "split", "count", "merge" (between calls), "combine", "done",
               \* or "undefined": the run did what C leaves undefined
  k,           \* the part that is counted, or combined
  ptr,         \* the next token of the part that is counted
  next, pre,   \* links of the nodes
  count,       \* their counts; 0 for a node that is not allocated
  list,        \* the head of each part's list
  term_count,  \* term_count of each part's count
  main,        \* main->list in combine_count
  main_terms,  \* main->term_count
  pn_main, pn_asst

input == <<doc, text, n, caller>>
heap == <<next, pre, count>>
lists == <<list, term_count, main, main_terms>>
vars == <<input, parts, pc, k, ptr, heap, lists, pn_main, pn_asst>>

Part == 1..MaxParts

\* The node that part p's count makes for term t.
Node == Part \X Term

\* The last part ends one byte past the data.  What the tests read there is not
\* theirs: a letter begins one more word, or makes the last word a longer one.
\* The document of do_index has a '\0' before that byte, and counting ends there.
Overread ==
  IF caller = "do_index" THEN {}
  ELSE {Append(doc, w) : w \in Term}
         \cup {Append(Front(doc), w) :
                 w \in {v \in Term : doc # <<>> /\ Last(doc) # NL /\ v > Last(doc)}}

Texts == {doc} \cup Overread

Init ==
  /\ doc \in BoundedSeq(Term \cup {NL}, MaxWords)
  /\ n \in Part
  /\ caller \in Callers
  /\ text \in Texts
  /\ parts = <<>>
  /\ pc = "split"
  /\ k = 1
  /\ ptr = 1
  /\ next = [x \in Node |-> NULL]
  /\ pre = [x \in Node |-> NULL]
  /\ count = [x \in Node |-> 0]
  /\ list = [p \in Part |-> NULL]
  /\ term_count = [p \in Part |-> 0]
  /\ main = NULL
  /\ main_terms = 0
  /\ pn_main = NULL
  /\ pn_asst = NULL

-----------------------------------------------------------------------------
(* Faulty variants of definitions below; no action uses them. *)

PreForgotten(x, at) == [pre EXCEPT ![x] = pre[at]]
StillInAsst == term_count[k]
TakenTwice == term_count[k] - 2
CountOfMain(a, b) == count[a]
FirstPart(p) == 1
SameNode(x) == x

-----------------------------------------------------------------------------
(* split_doc. *)

\* A document that came over a socket has '\0' for its last byte.
Size == IF caller = "do_index" THEN Len(doc) + 1 ELSE Len(doc)
BlockSize == Size \div n
PartStart == IF parts = <<>> THEN 1 ELSE Last(parts)[2] + 1
PartEnds == {e \in (PartStart + BlockSize)..Len(doc) : doc[e] = NL}

CutPart ==
  /\ pc = "split"
  /\ Len(parts) < n - 1
  /\ \E e \in PartEnds :
       /\ \A f \in PartEnds : e <= f
       /\ parts' = Append(parts, <<PartStart, e>>)
  /\ UNCHANGED <<input, pc, k, ptr, heap, lists, pn_main, pn_asst>>

\* There is no newline any more, and split_doc looks for one past the data.
CutPastEnd ==
  /\ pc = "split"
  /\ Len(parts) < n - 1
  /\ PartEnds = {}
  /\ pc' = "undefined"
  /\ UNCHANGED <<input, parts, k, ptr, heap, lists, pn_main, pn_asst>>

\* The part that part p's counting is given.
PartOf(p) == IF caller = "do_index" THEN 1 ELSE p

\* Where count_doc starts on its part.
StartOf(all, p) == all[PartOf(p)][1]

LastPart ==
  /\ pc = "split"
  /\ Len(parts) = n - 1
  /\ parts' = Append(parts, <<PartStart, Len(text)>>)
  /\ pc' = "count"
  /\ ptr' = StartOf(parts', 1)
  /\ UNCHANGED <<input, k, heap, lists, pn_main, pn_asst>>

-----------------------------------------------------------------------------
(* count_doc and count_doc_part, with add_count_term. *)

AtEnd == ptr > parts[PartOf(k)][2]

SkipNewline ==
  /\ pc = "count"
  /\ ~AtEnd
  /\ text[ptr] = NL
  /\ ptr' = ptr + 1
  /\ UNCHANGED <<input, parts, pc, k, heap, lists, pn_main, pn_asst>>

\* x is linked in before the node at; the caller has the head to change.
NextBefore(x, at) ==
  IF pre[at] = NULL THEN [next EXCEPT ![x] = at]
  ELSE [next EXCEPT ![x] = at, ![pre[at]] = x]
PreBefore(x, at) == [pre EXCEPT ![x] = pre[at], ![at] = x]

\* Where add_count_term stops: at the first node of the list that is no
\* smaller than the term, or at the last one.
StopsAt(s, t) ==
  LET bigger == {j \in DOMAIN s : s[j][2] >= t}
  IN IF bigger = {} THEN Last(s) ELSE s[CHOOSE j \in bigger : \A h \in bigger : j <= h]

CountAgain(at, t) ==
  /\ at[2] = t
  /\ count' = [count EXCEPT ![at] = @ + 1]
  /\ UNCHANGED <<next, pre, list, term_count>>

NewNode(x) ==
  /\ count' = [count EXCEPT ![x] = 1]
  /\ term_count' = [term_count EXCEPT ![k] = @ + 1]

NewBefore(x, at) ==
  /\ at[2] > x[2]
  /\ NewNode(x)
  /\ list' = IF pre[at] = NULL THEN [list EXCEPT ![k] = x] ELSE list
  /\ next' = NextBefore(x, at)
  /\ pre' = PreBefore(x, at)

NewLast(x, at) ==
  /\ at[2] < x[2]
  /\ NewNode(x)
  /\ next' = [next EXCEPT ![x] = NULL, ![at] = x]
  /\ pre' = [pre EXCEPT ![x] = at]
  /\ UNCHANGED list

NewFirst(x) ==
  /\ NewNode(x)
  /\ list' = [list EXCEPT ![k] = x]
  /\ UNCHANGED <<next, pre>>

CountWord ==
  /\ pc = "count"
  /\ ~AtEnd
  /\ text[ptr] # NL
  /\ LET s == Chain(next, list[k])
         x == <<k, text[ptr]>>
         at == StopsAt(s, text[ptr])
     IN IF s = <<>> THEN NewFirst(x)
        ELSE CountAgain(at, text[ptr]) \/ NewBefore(x, at) \/ NewLast(x, at)
  /\ ptr' = ptr + 1
  /\ UNCHANGED <<input, parts, pc, k, main, main_terms, pn_main, pn_asst>>

NextPart ==
  /\ pc = "count"
  /\ AtEnd
  /\ k < n
  /\ k' = k + 1
  /\ ptr' = StartOf(parts, k + 1)
  /\ UNCHANGED <<input, parts, pc, heap, lists, pn_main, pn_asst>>

\* do_index has an empty count to combine with, the tests the first part's.
AllCounted ==
  /\ pc = "count"
  /\ AtEnd
  /\ k = n
  /\ pc' = "merge"
  /\ IF caller = "do_index"
     THEN /\ k' = 1
          /\ UNCHANGED lists
     ELSE /\ k' = 2
          /\ main' = list[1]
          /\ main_terms' = term_count[1]
          /\ list' = [list EXCEPT ![1] = NULL]
          /\ UNCHANGED term_count
  /\ UNCHANGED <<input, parts, ptr, heap, pn_main, pn_asst>>

-----------------------------------------------------------------------------
(* combine_count(main, asst), with asst the count of part k. *)

TakenFromAsst == term_count[k] - 1

Combine ==
  /\ pc = "merge"
  /\ k <= n
  /\ main # NULL
  /\ pn_main' = main
  /\ pn_asst' = list[k]
  /\ list' = [list EXCEPT ![k] = NULL]
  /\ pc' = "combine"
  /\ UNCHANGED <<input, parts, k, ptr, heap, term_count, main, main_terms>>

\* An empty main list takes the first node of the other.
CombineEmptyMain ==
  /\ pc = "merge"
  /\ k <= n
  /\ main = NULL
  /\ list[k] # NULL
  /\ main' = list[k]
  /\ pn_main' = list[k]
  /\ pn_asst' = next[list[k]]
  /\ next' = [next EXCEPT ![list[k]] = NULL]
  /\ pre' = [pre EXCEPT ![list[k]] = NULL]
  /\ main_terms' = 1
  /\ term_count' = [term_count EXCEPT ![k] = TakenFromAsst]
  /\ list' = [list EXCEPT ![k] = NULL]
  /\ pc' = "combine"
  /\ UNCHANGED <<input, parts, k, ptr, count>>

\* Both lists are empty, and pn_asst->next is read through NULL.
CombineNothing ==
  /\ pc = "merge"
  /\ k <= n
  /\ main = NULL
  /\ list[k] = NULL
  /\ pc' = "undefined"
  /\ UNCHANGED <<input, parts, k, ptr, heap, lists, pn_main, pn_asst>>

SumOf(a, b) == count[a] + count[b]

SameTerm ==
  /\ pc = "combine"
  /\ pn_asst # NULL
  /\ pn_main[2] = pn_asst[2]
  /\ count' = [count EXCEPT ![pn_main] = SumOf(pn_main, pn_asst), ![pn_asst] = 0]
  /\ pn_asst' = next[pn_asst]
  /\ term_count' = [term_count EXCEPT ![k] = TakenFromAsst]
  /\ UNCHANGED <<input, parts, pc, k, ptr, next, pre, list, main, main_terms,
                 pn_main>>

MainIsBigger ==
  /\ pc = "combine"
  /\ pn_asst # NULL
  /\ pn_main[2] > pn_asst[2]
  /\ main' = IF pre[pn_main] = NULL THEN pn_asst ELSE main
  /\ next' = NextBefore(pn_asst, pn_main)
  /\ pre' = PreBefore(pn_asst, pn_main)
  /\ pn_main' = pn_asst
  /\ pn_asst' = next[pn_asst]
  /\ main_terms' = main_terms + 1
  /\ term_count' = [term_count EXCEPT ![k] = TakenFromAsst]
  /\ UNCHANGED <<input, parts, pc, k, ptr, count, list>>

After(x) == next[x]

MainIsSmaller ==
  /\ pc = "combine"
  /\ pn_asst # NULL
  /\ pn_main[2] < pn_asst[2]
  /\ next[pn_main] # NULL
  /\ pn_main' = After(pn_main)
  /\ UNCHANGED <<input, parts, pc, k, ptr, heap, lists, pn_asst>>

Return ==
  /\ pc' = "merge"
  /\ k' = k + 1
  /\ UNCHANGED <<input, parts, ptr, count, list, term_count, main, pn_main>>

\* What is left of the other list becomes the tail of main's.
CombineTail ==
  /\ pc = "combine"
  /\ pn_asst # NULL
  /\ pn_main[2] < pn_asst[2]
  /\ next[pn_main] = NULL
  /\ main_terms' = main_terms + term_count[k]
  /\ next' = [next EXCEPT ![pn_main] = pn_asst]
  /\ pre' = [pre EXCEPT ![pn_asst] = pn_main]
  /\ pn_asst' = NULL
  /\ Return

CombineReturns ==
  /\ pc = "combine"
  /\ pn_asst = NULL
  /\ Return
  /\ UNCHANGED <<next, pre, main_terms, pn_asst>>

AllCombined ==
  /\ pc = "merge"
  /\ k > n
  /\ pc' = "done"
  /\ UNCHANGED <<input, parts, k, ptr, heap, lists, pn_main, pn_asst>>

-----------------------------------------------------------------------------
Next ==
  \/ CutPart
  \/ CutPastEnd
  \/ LastPart
  \/ SkipNewline
  \/ CountWord
  \/ NextPart
  \/ AllCounted
  \/ Combine
  \/ CombineEmptyMain
  \/ CombineNothing
  \/ SameTerm
  \/ MainIsBigger
  \/ MainIsSmaller
  \/ CombineTail
  \/ CombineReturns
  \/ AllCombined

\* The thread that counts is scheduled.
Spec == Init /\ [][Next]_vars /\ WF_vars(Next)

-----------------------------------------------------------------------------
(* Properties. *)

\* Every variable stays in its domain.
TypeOK ==
  /\ {doc, text} \subseteq Seq(Term \cup {NL})
  /\ n \in Part
  /\ caller \in Callers
  /\ parts \in Seq(Nat \X Nat)
  /\ pc \in {"split", "count", "merge", "combine", "done", "undefined"}
  /\ k \in 1..(MaxParts + 1)
  /\ ptr \in 1..(MaxWords + 2)
  /\ next \in [Node -> Node \cup {NULL}]
  /\ pre \in [Node -> Node \cup {NULL}]
  /\ count \in [Node -> Nat]
  /\ list \in [Part -> Node \cup {NULL}]
  /\ term_count \in [Part -> Nat]
  /\ main_terms \in Nat
  /\ {main, pn_main, pn_asst} \subseteq Node \cup {NULL}

Sorted(s) == \A j \in 2..Len(s) : s[j - 1][2] < s[j][2]

LinkedBothWays(s) ==
  /\ s # <<>> => pre[s[1]] = NULL
  /\ \A j \in 2..Len(s) : pre[s[j]] = s[j - 1]

\* After each word and each iteration, the parts' lists and the main one are
\* sorted, name no term twice, and are linked alike in both directions, which
\* add_count_term and combine_count rely on when they insert.
WellLinked ==
  \A head \in {main} \cup {list[p] : p \in Part} :
    Sorted(Chain(next, head)) /\ LinkedBothWays(Chain(next, head))

\* The tail of combine_count adds asst's term_count to main's without looking
\* at the nodes: at each iteration both are the lengths of their lists.
TermCountsExact ==
  /\ main_terms = Len(Chain(next, main))
  /\ \A p \in Part : list[p] # NULL => term_count[p] = Len(Chain(next, list[p]))
  /\ pc = "combine" => term_count[k] = Len(Chain(next, pn_asst))

\* How often each term is counted in a sequence of nodes.
CountIn(nodes) ==
  [t \in Term |->
     MapThenSumSet(LAMBDA x : count[x], {x \in ToSet(nodes) : x[2] = t})]

InCombine == IF pc = "combine" THEN Chain(next, pn_asst) ELSE <<>>

\* Counting and combining are what Tally promises: while combine_count takes
\* nodes over, drops some and relinks the rest, no count is lost or doubled.
Promise == INSTANCE Tally
             WITH total <- CountIn(Chain(next, main) \o InCombine),
                  own <- [p \in Part |-> CountIn(Chain(next, list[p]))]
SumOfParts == Promise!Spec

WordsOf(d) == [t \in Term |-> Cardinality({j \in DOMAIN d : d[j] = t})]

\* The tests' way to count: however split_doc cuts the document, what is combined
\* is the count of the document, or of the document with one word more, or a
\* longer one, at its end: no cut loses, doubles or breaks a word.
TestsCountDocument ==
  pc = "done" /\ caller = "tests"
    => \E s \in Texts : CountIn(Chain(next, main)) = WordsOf(s)

\* combine_count always returns.
CombineEnds == pc = "combine" ~> pc # "combine"

-----------------------------------------------------------------------------
(* Statements of the repository that the code does not keep. *)

\* README.md:36 "do_index(): index a file": the count that do_index adds to
\* the index is the count of the file.
ServerCountsDocument ==
  pc = "done" /\ caller = "do_index" => CountIn(Chain(next, main)) = WordsOf(doc)

\* README.md:54 "count : contain the count information of a doc or doc_part":
\* the counts of the parts add up to no other words than the document's.
PartsCountDocument ==
  pc = "done" /\ caller = "tests" => CountIn(Chain(next, main)) = WordsOf(doc)

=============================================================================
