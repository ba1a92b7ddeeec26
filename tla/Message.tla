------------------------------- MODULE Message ------------------------------
(***************************************************************************)
(* One conversation of DTR over a connection: an asker connects, sends a   *)
(* request with send_data and, in every case but one, waits for the answer *)
(* with receive_data; the answerer is a thread that runs work() of a cnode *)
(* or dispatch() of the server.  The askers are the functions that call    *)
(* send_data first, and give the conversation its name.                    *)
(*                                                                         *)
(* TCP delivers what is sent in order and cuts it anywhere.  The length of *)
(* a message is one cell of the stream, which recv may return in part.     *)
(* Each process can die at any time, with it what it sent and is not yet   *)
(* received from some cell on.  A process that sends to a dead one may be  *)
(* killed by SIGPIPE, which is the Die of its own; until then send drops   *)
(* the data.  What the answerer computes is left to TermCount and Search:  *)
(* any answer of the right type comes.                                     *)
(***************************************************************************)
EXTENDS Serialization

CONSTANTS
  Talks,    \* conversations: the asker, and the request it dumps
  Answers,  \* what the functions between request and answer return
  None      \* no value

\* What is sent without a type: a port by regis, a text for the client.
PORT == 5
TEXT == 6
Ports == [type : {PORT}, port : Nat]
Texts == [type : {TEXT}, text : {t \in Seq(Nat) : Contains(t, Nul)}]

\* What Talks can hold: the values each asker dumps.
RequestsOf == [index_agent |-> Docs, retr_agent |-> Queries, do_update |-> Indexes,
               req_index |-> Docs, req_retr |-> Queries, regis |-> Ports]

ASSUME MessageAssumption ==
  /\ \A talk \in Talks : /\ talk.caller \in DOMAIN RequestsOf
                         /\ talk.value \in RequestsOf[talk.caller]
  /\ Answers \subseteq Counts \cup Results \cup Texts
  /\ None \notin Nat \cup {talk.value : talk \in Talks} \cup Answers

VARIABLES
  caller,  \* the asker
  said,    \* the value each end dumps
  pc,      \* where each end is
  left,    \* len of send_data: cells that each end has still to send
  wire,    \* what each end has sent that is still on the way
  data,    \* the memory receive_data fills
  want,    \* i of receive_data: cells each end waits for
  loaded,  \* the value each end has loaded
  read     \* cells of data that the load has read

vars == <<caller, said, pc, left, wire, data, want, loaded, read>>

End == {"asker", "answerer"}
Peer(e) == IF e = "asker" THEN "answerer" ELSE "asker"

\* pc: an end that reads memory nobody wrote to is undefined.  "short": len
\* of receive_data is, because recv returned fewer than its four bytes.
Ended == {"done", "dead", "short", "undefined"}
PC == {"connect", "length", "body", "wait", "fill", "load"} \cup Ended

-----------------------------------------------------------------------------
(* Faulty variants of definitions below; no action uses them. *)

NotAdvanced(e) == 0
UntilClosed(i) == FALSE
Echo(v) == {v}

-----------------------------------------------------------------------------
(* Messages. *)

\* The flag that tells the answerer what to do.  index_agent takes it from
\* the wrong enum, in which INDEX happens to have the value of CMD_INDEX.
FlagOf == [index_agent |-> INDEX, retr_agent |-> CMD_RETRIEVE,
           do_update |-> CMD_UPDATE, req_index |-> CMD_INDEX,
           req_retr |-> CMD_RETRIEVE, regis |-> CMD_REGISTER]
Flag == FlagOf[caller]

Dump(v) ==
  CASE v.type = DOC -> DumpDoc(v)
    [] v.type = COUNT -> DumpCount(v)
    [] v.type = INDEX -> DumpIndex(v)
    [] v.type = QUERY -> DumpQuery(v)
    [] v.type = QUERY_RSL -> DumpQueryRsl(v)

Content(v) ==
  IF v.type = TEXT THEN v.text
  ELSE IF v.type = PORT THEN <<v.port, Nul>> ELSE <<v.type>> \o Dump(v)

\* What goes over the wire.  Only a text for the client comes without a flag;
\* cnodes leave theirs as it is.
Cells(e) ==
  IF said[e].type = TEXT THEN Content(said[e])
  ELSE <<IF e = "asker" THEN Flag ELSE Nul>> \o Content(said[e])

\* What the client prints of a text: all up to the first '\0'.
LoadText(text) ==
  LET at == SelectInSeq(text, LAMBDA c : c = Nul)
  IN Giving([Fresh EXCEPT !.at = IF at = 0 THEN Len(text) + 2 ELSE at + 1],
            [type |-> TEXT, text |-> SubSeq(text, 1, at)])

LoadPort(mes) == Giving(Fresh, [type |-> PORT, port |-> mes[2]])

LoadAs(type, mes) ==
  CASE type = DOC -> LoadDoc(mes)
    [] type = COUNT -> LoadCount(mes)
    [] type = INDEX -> LoadIndex(mes)
    [] type = QUERY -> LoadQuery(mes)
    [] type = QUERY_RSL -> LoadQueryRsl(mes)
    [] type = PORT -> LoadPort(mes)
    [] type = TEXT -> LoadText(mes)

\* A loader refuses a message of another type, and its caller goes on with
\* a pointer that it did not set.
WrongType(type, mes) == type \in DOC..QUERY_RSL /\ mes[2] # type

\* Is the load beyond the memory that was received?
Overrun(mes, r) == r.at > Len(mes) + 1

\* count_doc and split_doc need an end in the data.
NoEnd(v) == v.type = DOC /\ ~Contains(v.data, Nul)

Unusable(type, mes, r) ==
  WrongType(type, mes) \/ ~r.ok \/ Overrun(mes, r) \/ NoEnd(r.value)

-----------------------------------------------------------------------------
Init ==
  /\ \E talk \in Talks : /\ caller = talk.caller
                         /\ said = [asker |-> talk.value, answerer |-> None]
  /\ pc = [asker |-> "connect", answerer |-> "wait"]
  /\ left = [e \in End |-> 0]
  /\ wire = [e \in End |-> <<>>]
  /\ data = [e \in End |-> <<>>]
  /\ want = [e \in End |-> 0]
  /\ loaded = [e \in End |-> None]
  /\ read = [e \in End |-> 0]

Goto(e, label) == pc' = [pc EXCEPT ![e] = label]

Dead(e) == pc[e] = "dead"

\* open_clientfdi.  No caller looks at its result: with -1 for a descriptor
\* send_data goes on until its len overflows.
Connect ==
  /\ pc["asker"] = "connect"
  /\ Goto("asker", IF Dead("answerer") THEN "undefined" ELSE "length")
  /\ UNCHANGED <<caller, said, left, wire, data, want, loaded, read>>

-----------------------------------------------------------------------------
(* send_data. *)

OnTheWay(e, cells) == IF Dead(Peer(e)) THEN wire[e] ELSE wire[e] \o cells

SendLength(e) ==
  /\ pc[e] = "length"
  /\ wire' = [wire EXCEPT ![e] = OnTheWay(e, <<Len(Cells(e))>>)]
  /\ left' = [left EXCEPT ![e] = Len(Cells(e))]
  /\ Goto(e, "body")
  /\ UNCHANGED <<caller, said, data, want, loaded, read>>

\* Where an end is when all is sent.  Only do_update asks for no answer.
AfterSend(e) == IF e = "asker" /\ caller # "do_update" THEN "wait" ELSE "done"

\* The cells of a message that a call of send takes.
Part(mes, rest, n) == SubSeq(mes, Len(mes) - rest + 1, Len(mes) - rest + n)

SendSome(e) ==
  /\ pc[e] = "body"
  /\ \E n \in 1..left[e] :
       /\ wire' = [wire EXCEPT ![e] = OnTheWay(e, Part(Cells(e), left[e], n))]
       /\ left' = [left EXCEPT ![e] = @ - n]
       /\ Goto(e, IF n = left[e] THEN AfterSend(e) ELSE "body")
  /\ UNCHANGED <<caller, said, data, want, loaded, read>>

-----------------------------------------------------------------------------
(* receive_data. *)

\* Does e have its end of the connection closed?  The agents and work() leave
\* theirs open.
Closed(e) ==
  \/ Dead(e)
  \/ pc[e] = "done" /\ IF e = "asker" THEN caller \notin {"index_agent", "retr_agent"}
                                      ELSE caller \in {"req_index", "req_retr", "regis"}

RecvLength(e) ==
  /\ pc[e] = "wait"
  /\ wire[Peer(e)] # <<>>
  /\ LET len == Head(wire[Peer(e)])
     IN \/ /\ data' = [data EXCEPT ![e] = [j \in 1..len |-> Nul]]
           /\ want' = [want EXCEPT ![e] = len]
           /\ Goto(e, "fill")
        \/ /\ Goto(e, "short")
           /\ UNCHANGED <<data, want>>
  /\ wire' = [wire EXCEPT ![Peer(e)] = Tail(@)]
  /\ UNCHANGED <<caller, said, left, loaded, read>>

\* recv returns 0, and receive_data -1, which nobody looks at: the agents then
\* load from NULL, regis is content, and the others use a pointer that is not
\* set.  If the connection was reset, recv returns -1 and len is not set.
RecvNoLength(e) ==
  /\ pc[e] = "wait"
  /\ wire[Peer(e)] = <<>>
  /\ Closed(Peer(e))
  /\ \/ Goto(e, IF e = "answerer" THEN "undefined"
                ELSE IF caller \in {"index_agent", "retr_agent"} THEN "dead"
                ELSE IF caller = "regis" THEN "done" ELSE "undefined")
     \/ Dead(Peer(e)) /\ Goto(e, "undefined")
  /\ UNCHANGED <<caller, said, left, wire, data, want, loaded, read>>

\* How far ptr has moved.
Ptr(e) == Len(data[e]) - want[e]

\* The loop ends without a recv that has nothing left to wait for.
Filled(i) == i = 0

RecvSome(e) ==
  /\ pc[e] = "fill"
  /\ \E n \in 1..want[e] :
       LET ptr == Ptr(e)
       IN /\ n <= Len(wire[Peer(e)])
          /\ data' = [data EXCEPT ![e] = [j \in DOMAIN @ |->
                        IF j \in ptr + 1..ptr + n THEN wire[Peer(e)][j - ptr]
                                                  ELSE @[j]]]
          /\ want' = [want EXCEPT ![e] = @ - n]
          /\ wire' = [wire EXCEPT ![Peer(e)] = SubSeq(@, n + 1, Len(@))]
          /\ Goto(e, IF Filled(want[e] - n) THEN "load" ELSE "fill")
  /\ UNCHANGED <<caller, said, left, loaded, read>>

\* recv returns 0 or -1: the message is loaded with zeros for its rest.
RecvEnd(e) ==
  /\ pc[e] = "fill"
  /\ wire[Peer(e)] = <<>>
  /\ Closed(Peer(e))
  /\ Goto(e, "load")
  /\ UNCHANGED <<caller, said, left, wire, data, want, loaded, read>>

-----------------------------------------------------------------------------
(* Loading, and answering. *)

OnNode == caller \in {"index_agent", "retr_agent", "do_update"}

\* What the answerer loads for the flag of the request: work() and dispatch().
RequestType(flag) ==
  CASE flag = CMD_INDEX -> DOC
    [] flag = CMD_RETRIEVE -> QUERY
    [] OnNode /\ flag = CMD_UPDATE -> INDEX
    [] ~OnNode /\ flag = CMD_REGISTER -> PORT
    [] OTHER -> None

\* Faulty variant of Replies, which nothing uses: count_doc forgets the name.
AnyName(v) ==
  {a \in Answers :
     IF ~OnNode THEN a.type = TEXT /\ (v.type = QUERY \/ a.text = <<CMD_SUCC>>)
     ELSE IF v.type = DOC THEN a.type = COUNT ELSE a.type = QUERY_RSL}

\* The answers to a request: count_doc gives a count the name of the document.
Replies(v) ==
  {a \in Answers :
     IF ~OnNode THEN a.type = TEXT /\ (v.type = QUERY \/ a.text = <<CMD_SUCC>>)
     ELSE IF v.type = DOC THEN a.type = COUNT /\ a.name = v.name
     ELSE a.type = QUERY_RSL}

Loads(e, type, r) ==
  /\ loaded' = [loaded EXCEPT ![e] = IF Unusable(type, data[e], r) THEN @
                                     ELSE r.value]
  /\ read' = [read EXCEPT ![e] = IF WrongType(type, data[e]) THEN 2 ELSE r.at - 1]

\* work() frees a resp that it set to nothing if there was none.
FreeResp == Goto("answerer", "done") \/ Goto("answerer", "undefined")

Handle ==
  LET mes == data["answerer"]
      type == RequestType(mes[1])
      r == LoadAs(type, mes)
  IN /\ pc["answerer"] = "load"
     /\ \/ /\ type = None
           /\ IF OnNode THEN FreeResp ELSE Goto("answerer", "done")
           /\ UNCHANGED <<said, loaded, read>>
        \/ /\ type # None
           /\ Loads("answerer", type, r)
           /\ IF type = INDEX THEN FreeResp /\ UNCHANGED said
              ELSE IF Unusable(type, mes, r)
              THEN Goto("answerer", "undefined") /\ UNCHANGED said
              ELSE /\ Goto("answerer", "length")
                   /\ \E a \in Replies(r.value) :
                        said' = [said EXCEPT !["answerer"] = a]
     /\ UNCHANGED <<caller, left, wire, data, want>>

\* The agents load, the client prints, and regis does not look.
AnswerType ==
  CASE caller = "index_agent" -> COUNT
    [] caller = "retr_agent" -> QUERY_RSL
    [] caller \in {"req_index", "req_retr"} -> TEXT
    [] caller = "regis" -> None

LoadAnswer ==
  LET r == LoadAs(AnswerType, data["asker"])
  IN /\ pc["asker"] = "load"
     /\ IF AnswerType = None
        THEN Goto("asker", "done") /\ UNCHANGED <<loaded, read>>
        ELSE /\ Loads("asker", AnswerType, r)
             /\ Goto("asker", IF Unusable(AnswerType, data["asker"], r)
                              THEN "undefined" ELSE "done")
     /\ UNCHANGED <<caller, said, left, wire, data, want>>

-----------------------------------------------------------------------------
Transfer(e) ==
  \/ e = "asker" /\ Connect
  \/ SendLength(e)
  \/ SendSome(e)
  \/ RecvLength(e)
  \/ RecvNoLength(e)
  \/ RecvSome(e)
  \/ RecvEnd(e)

Load(e) == IF e = "asker" THEN LoadAnswer ELSE Handle

\* A death before the connection is not one of this conversation's asker.
Die(e) ==
  /\ pc[e] \notin {"connect", "dead", "short", "undefined"}
  /\ Goto(e, "dead")
  /\ \E n \in 0..Len(wire[e]) :
       wire' = [wire EXCEPT ![e] = SubSeq(@, 1, n), ![Peer(e)] = <<>>]
  /\ UNCHANGED <<caller, said, left, data, want, loaded, read>>

Next == \E e \in End : Transfer(e) \/ Load(e) \/ Die(e)

Spec == Init /\ [][Next]_vars

\* The kernel delivers what is sent, and the scheduler runs every thread.  A
\* load waits for nothing but its turn: that no end stays before it is what
\* WF_vars(Load(e)) says, and takes TLC no load to find out if it is enabled.
FairSpec ==
  /\ Spec
  /\ \A e \in End : WF_vars(Transfer(e)) /\ []<>(pc[e] # "load")

-----------------------------------------------------------------------------
(* Properties. *)

\* Every variable stays in its domain.
TypeOK ==
  /\ caller \in {talk.caller : talk \in Talks}
  /\ said \in [End -> {talk.value : talk \in Talks} \cup Answers \cup {None}]
  /\ pc \in [End -> PC]
  /\ left \in [End -> Nat]
  /\ wire \in [End -> Seq(Nat)]
  /\ data \in [End -> Seq(Nat)]
  /\ want \in [End -> Nat]
  /\ read \in [End -> Nat]

\* In whatever pieces it arrives, what is received is the message that the other
\* end sent, up to where it was cut off, and zeros from there on.
Delivered ==
  \A e \in End : data[e] # <<>> =>
    /\ Len(data[e]) = Len(Cells(Peer(e)))
    /\ \A j \in DOMAIN data[e] :
         data[e][j] = IF j <= Len(data[e]) - want[e] THEN Cells(Peer(e))[j]
                                                     ELSE Nul

\* What load_doc makes of a document ends with the '\0' of the dump.
AsLoaded(v) ==
  IF v.type = DOC THEN [v EXCEPT !.data = Append(@, Nul)]
  ELSE IF v.type = TEXT
  THEN [v EXCEPT !.text = SubSeq(@, 1, SelectInSeq(@, LAMBDA c : c = Nul))]
  ELSE v

\* A message that arrives to its last cell is loaded as the value that was
\* dumped, by the loader of its type, whoever died since.
LoadedIsSent ==
  \A e \in End : loaded[e] # None /\ want[e] = 0
    => loaded[e] = AsLoaded(said[Peer(e)])

EmptyQuery == said["asker"].type = QUERY /\ said["asker"].list = <<>>

\* The loaders know only the lengths in the message, and it may have zeros for
\* them from anywhere on.  They still never read more than was received, but
\* for the first term of a query that has none.
ReadsWithin == \A e \in End : read[e] <= Len(data[e]) \/ EmptyQuery

\* Once a length is received in whole, which is all that LengthIsReceived is
\* about, no end of a conversation uses memory that it did not write while the
\* other end lives.  work() does after an update, and for the empty query.
OnlyLossConfuses ==
  \A e \in End :
    pc[e] = "undefined" => Dead(Peer(e)) \/ caller = "do_update" \/ EmptyQuery

\* No end waits for ever for the other: each ends or dies, or the behaviour of
\* one of the two is undefined, as it is too when recv returns a part of a length.
ConversationEnds ==
  <>[](\/ \A e \in End : pc[e] \in Ended
       \/ \E e \in End : pc[e] \in {"short", "undefined"})

\* combine_count adds what an agent got to the count of the document, whatever
\* its name: it has to be of that document.
CountsDocument(v, answer) ==
  v.type = DOC /\ answer.type = COUNT => answer.name = v.name

\* What was loaded of a message that came to its last cell.
Whole(e) == IF want[e] = 0 THEN loaded[e] ELSE None

Promise == INSTANCE Exchange WITH
             Request <- {talk.value : talk \in Talks}, Answer <- Answers,
             Meaning <- AsLoaded, Fits <- CountsDocument,
             request <- said["asker"], understood <- Whole("answerer"),
             answer <- said["answerer"], received <- Whole("asker"),
             dead <- {e \in End : Dead(e)}

\* The connection with all that can happen to it is, to the functions that ask
\* and to those that answer, an exchange of two values, each taken in once.
ExchangeOnly == Promise!Spec

-----------------------------------------------------------------------------
(* A statement of the repository that the code does not keep. *)

\* syn_communication.c:99 "get the first n byte which is the length of the
\* data": receive_data has all four of them when it goes on, unless the other
\* end died before it sent them.
LengthIsReceived == \A e \in End : pc[e] = "short" => Dead(Peer(e))

=============================================================================
