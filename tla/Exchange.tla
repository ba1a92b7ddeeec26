------------------------------ MODULE Exchange ------------------------------
(***************************************************************************)
(* What a conversation promises to those who see no connection: a request  *)
(* is taken in whole, as what it means, and answered in the same step; and *)
(* the answer is taken in like that, by the asker.  Each happens once at   *)
(* most.  Only a death loses anything: what is made of the request of a    *)
(* dead asker is anyone's guess, and so is what it is answered.            *)
(***************************************************************************)
CONSTANTS
  Request, Answer,
  None,         \* nothing yet
  Meaning(_),   \* what is taken in of a request or an answer
  Fits(_, _)    \* may a request, as it was taken in, be answered so?

VARIABLES
  request,      \* what the asker asks
  understood,   \* what the answerer took in of it
  answer,       \* what it answered
  received,     \* what the asker took in of that
  dead          \* the ends that died

vars == <<request, understood, answer, received, dead>>

Init ==
  /\ request \in Request
  /\ understood = None
  /\ answer = None
  /\ received = None
  /\ dead = {}

\* Not every request is answered.
Serve ==
  /\ "answerer" \notin dead
  /\ understood = None /\ answer = None
  /\ understood' = Meaning(request)
  /\ \/ answer' = None
     \/ answer' \in Answer /\ Fits(understood', answer')
  /\ UNCHANGED <<request, received, dead>>

ServeTheDead ==
  /\ "asker" \in dead /\ "answerer" \notin dead
  /\ understood = None /\ answer = None
  /\ answer' \in Answer
  /\ UNCHANGED <<request, understood, received, dead>>

Receive ==
  /\ "asker" \notin dead
  /\ answer # None /\ received = None
  /\ received' = Meaning(answer)
  /\ UNCHANGED <<request, understood, answer, dead>>

Die(end) ==
  /\ dead' = dead \cup {end}
  /\ UNCHANGED <<request, understood, answer, received>>

Next == Serve \/ ServeTheDead \/ Receive \/ \E end \in {"asker", "answerer"} : Die(end)

Spec == Init /\ [][Next]_vars
=============================================================================
