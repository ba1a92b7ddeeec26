----------------------------- MODULE MCMessage ------------------------------
(* Values of the constants of Message for TLC.  Letters are 7, 8 and 9. *)
EXTENDS Message

Doc(name) == [type |-> DOC, name |-> name, data |-> <<8, 9>>]
MCQueries == {[type |-> QUERY, list |-> l] : l \in {<<>>, <<<<8>>>>, <<<<8, 9>>, <<9>>>>}}
MCIndexes == {[type |-> INDEX, list |-> l] :
              l \in {<<>>, <<<< <<8>>, <<<< <<7>>, 2 >>>> >>>>,
                     <<<< <<8, 9>>, <<<< <<7>>, 2 >>, << <<9>>, 3 >>>> >>,
                       << <<9>>, <<<< <<7>>, 1 >>>> >>>>}}
MCPorts == {[type |-> PORT, port |-> 5]}

TalksOf(f, values) == {[caller |-> f, value |-> v] : v \in values}

AllTalks ==
  TalksOf("index_agent", {Doc(<<7>>), Doc(<<7, 7>>)})
  \cup TalksOf("retr_agent", {q \in MCQueries : q.list # <<>>})
  \cup TalksOf("do_update", MCIndexes)
  \cup TalksOf("req_index", {Doc(<<7>>)})
  \cup TalksOf("req_retr", MCQueries)
  \cup TalksOf("regis", MCPorts)

MCNodes == {<<>>, <<<< <<8>>, 1 >>>>, <<<< <<8, 9>>, 1 >>, << <<9>>, 2 >>>>}

AllAnswers ==
  {[type |-> COUNT, name |-> name, whole |-> 0, list |-> l] :
     name \in {<<7>>, <<7, 7>>}, l \in MCNodes}
  \cup {[type |-> QUERY_RSL, list |-> l] : l \in MCNodes}
  \cup {[type |-> TEXT, text |-> t] : t \in {<<CMD_SUCC>>, <<7, 8, 9, Nul, Nul>>}}
=============================================================================
