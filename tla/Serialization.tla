--------------------------- MODULE Serialization ----------------------------
(***************************************************************************)
(* data_serialization.c: the dump_* and load_* pairs, as functions between *)
(* values and sequences of cells.  A cell is a byte, or an int that is     *)
(* small enough for its low byte to tell it apart; a string is a sequence  *)
(* of letters, cells that are not Nul.  A list of nodes (count_term_node,  *)
(* index_doc_node, query_rsl) is a sequence of pairs <<string, number>>.   *)
(*                                                                         *)
(* The loaders find their way by the lengths they read and never see the   *)
(* size of what was received.  A load is the record of                     *)
(*   at    the cell it reads next                                          *)
(*   buf   what it has copied into its buffer of the stack                 *)
(*   list  the nodes it has made                                           *)
(*   ok    FALSE once it has used memory that nothing was written to       *)
(***************************************************************************)
EXTENDS Integers, Sequences, SequencesExt

\* enum data_type (data_serialization.h) and enum command (comm.h).
DOC == 0
COUNT == 1
INDEX == 2
QUERY == 3
QUERY_RSL == 4

CMD_SUCC == 0
CMD_REGISTER == 1
CMD_INDEX == 2
CMD_RETRIEVE == 3
CMD_UPDATE == 6

Nul == 0

\* The structs that are sent (data_operation.h).
Strings == Seq(Nat \ {Nul})
Pairs == Strings \X Nat

Docs == [type : {DOC}, name : Strings, data : Seq(Nat)]
Counts == [type : {COUNT}, name : Strings, whole : Nat, list : Seq(Pairs)]
Indexes == [type : {INDEX}, list : Seq(Strings \X Seq(Pairs))]
Queries == [type : {QUERY}, list : Seq(Strings)]
Results == [type : {QUERY_RSL}, list : Seq(Pairs)]

-----------------------------------------------------------------------------
(* Dumping. *)

Str(s) == <<Len(s) + 1>> \o s \o <<Nul>>

Node(pair) == Str(pair[1]) \o <<pair[2]>>

Each(Cells(_), list) == FlattenSeq([j \in DOMAIN list |-> Cells(list[j])])

\* Faulty variant of DumpDoc, which nothing uses: no room for the '\0'.
NoRoomForEnd(doc) == Str(doc.name) \o <<Len(doc.data)>> \o doc.data

\* dump_doc and dump_doc_part: the data gets a '\0' of its own.
DumpDoc(doc) == Str(doc.name) \o <<Len(doc.data) + 1>> \o doc.data \o <<Nul>>

DumpCount(count) ==
  Str(count.name) \o <<count.whole, Len(count.list)>> \o Each(Node, count.list)

Term(t) == Str(t[1]) \o <<Len(t[2])>> \o Each(Node, t[2])

DumpIndex(index) == <<Len(index.list)>> \o Each(Term, index.list)

DumpQuery(query) == <<Len(query.list)>> \o Each(Str, query.list)

DumpQueryRsl(rsl) == <<Len(rsl.list)>> \o Each(Node, rsl.list)

-----------------------------------------------------------------------------
(* Loading. *)

\* What is read beyond the data does not matter: see Overrun in Message.
Cell(data, at) == IF at \in DOMAIN data THEN data[at] ELSE Nul

\* A load starts behind the flag and the type.
Fresh == [at |-> 3, buf |-> <<>>, list |-> <<>>, ok |-> TRUE]

\* The memcpy of a string into buf leaves what is beyond it in place.
LoadString(data, r) ==
  LET len == Cell(data, r.at)
      copied == [j \in 1..len |-> Cell(data, r.at + j)]
      buf == copied \o SubSeq(r.buf, len + 1, Len(r.buf))
  IN [r EXCEPT !.at = @ + 1 + len, !.buf = buf, !.ok = @ /\ Contains(buf, Nul)]

\* Faulty variant of InBuf, which nothing uses: all there is in buf.
WholeBuf(r) == SubSeq(r.buf, 1, Len(r.buf) - 1)

\* The string that strlen and strcpy find in buf.
InBuf(r) == SubSeq(r.buf, 1, SelectInSeq(r.buf, LAMBDA c : c = Nul) - 1)

Loop(Body(_), r, len) ==
  LET after[j \in 0..len] == IF j = 0 THEN r ELSE Body(after[j - 1])
  IN after[len]

LoadNode(data, r) ==
  LET s == LoadString(data, r)
  IN [s EXCEPT !.at = @ + 1, !.list = Append(@, <<InBuf(s), Cell(data, s.at)>>)]

LoadNodes(data, r) ==
  Loop(LAMBDA x : LoadNode(data, x), [r EXCEPT !.at = @ + 1], Cell(data, r.at))

\* What a loader returns.
Giving(r, value) == [at |-> r.at, ok |-> r.ok, value |-> value]

\* A load of len cells into memory of their own.
LoadDoc(data) ==
  LET s == LoadString(data, Fresh)
      size == Cell(data, s.at)
  IN Giving([s EXCEPT !.at = @ + 1 + size],
            [type |-> DOC, name |-> InBuf(s),
             data |-> [j \in 1..size |-> Cell(data, s.at + j)]])

LoadCount(data) ==
  LET s == LoadString(data, Fresh)
      r == LoadNodes(data, [s EXCEPT !.at = @ + 1])
  IN Giving(r, [type |-> COUNT, name |-> InBuf(s), whole |-> Cell(data, s.at),
                list |-> r.list])

\* A term of load_index and its documents; they share buf.
LoadTerm(data, r) ==
  LET s == LoadString(data, r)
      docs == LoadNodes(data, [s EXCEPT !.list = <<>>])
  IN [docs EXCEPT !.list = Append(r.list, <<InBuf(s), docs.list>>)]

LoadIndex(data) ==
  LET r == Loop(LAMBDA x : LoadTerm(data, x), [Fresh EXCEPT !.at = @ + 1],
                Cell(data, Fresh.at))
  IN Giving(r, [type |-> INDEX, list |-> r.list])

LoadTermOfQuery(data, r) ==
  LET s == LoadString(data, r) IN [s EXCEPT !.list = Append(@, InBuf(s))]

\* load_query reads a first term, whatever the length is.
LoadQuery(data) ==
  LET len == Cell(data, Fresh.at)
      r == Loop(LAMBDA x : LoadTermOfQuery(data, x), [Fresh EXCEPT !.at = @ + 1],
                IF len = 0 THEN 1 ELSE len)
  IN Giving(r, [type |-> QUERY, list |-> r.list])

\* Faulty variant of LoadQueryRsl, which nothing uses: load_query's loop.
FirstUnasked(data) ==
  LET r == Loop(LAMBDA x : LoadNode(data, x), [Fresh EXCEPT !.at = @ + 1],
                IF Cell(data, Fresh.at) = 0 THEN 1 ELSE Cell(data, Fresh.at))
  IN Giving(r, [type |-> QUERY_RSL, list |-> r.list])

\* load_query_rsl asks first if there is a result.
LoadQueryRsl(data) ==
  LET r == LoadNodes(data, Fresh)
  IN Giving(r, [type |-> QUERY_RSL, list |-> r.list])

=============================================================================
