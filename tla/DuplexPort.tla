------------------------------ MODULE DuplexPort ------------------------------
(***************************************************************************)
(* What a socket duplex promises, without the loop that keeps it: a port   *)
(* on an association.  Messages that arrived are delivered in order, and   *)
(* all of them before the end; messages that were accepted are sent in     *)
(* order; a port that closes without an error has delivered the end and    *)
(* sent everything; and nothing moves through a port that is closed.       *)
(* SocketDuplex.tla implements it.                                         *)
(***************************************************************************)
EXTENDS Naturals, Sequences

CONSTANT Causes  \* what a port may be closed with, "none" excepted

VARIABLES
  link,       \* the association: "coming", "up" or "gone"
  arrived,    \* number of messages the peer's side delivered so far
  delivered,  \* numbers of the messages given to the application, in order
  accepted,   \* number of messages taken from the application
  sent,       \* numbers of the messages given to the kernel, in order
  ended,      \* the end was told to the application
  finished,   \* the association was shut down from this side, or had ended
  port,       \* "open", "closed" or "aborted"
  error       \* what the port was closed with, or "none"

portVars == <<link, arrived, delivered, accepted, sent, ended, finished, port, error>>

Upto(n) == [i \in 1..n |-> i]

Init ==
  /\ link \in {"coming", "up"}
  /\ arrived = 0 /\ accepted = 0
  /\ delivered = <<>> /\ sent = <<>>
  /\ ended = FALSE /\ finished = FALSE
  /\ port = "open" /\ error = "none"

\* The network: the association comes up and goes, and messages arrive.
Link ==
  /\ <<link, link'>> \in {<<"coming", "up">>, <<"coming", "gone">>, <<"up", "gone">>}
  /\ UNCHANGED <<arrived, delivered, accepted, sent, ended, finished, port, error>>

Arrive ==
  /\ link = "up"
  /\ arrived' = arrived + 1
  /\ UNCHANGED <<link, delivered, accepted, sent, ended, finished, port, error>>

Deliver ==
  /\ port = "open" /\ ~ended
  /\ Len(delivered) < arrived
  /\ delivered' = Upto(Len(delivered) + 1)
  /\ UNCHANGED <<link, arrived, accepted, sent, ended, finished, port, error>>

\* The end comes after the last message, of an association that is gone or was
\* shut down here.
End ==
  /\ port = "open" /\ ~ended
  /\ link = "gone" \/ finished
  /\ Len(delivered) = arrived
  /\ ended' = TRUE
  /\ UNCHANGED <<link, arrived, delivered, accepted, sent, finished, port, error>>

Accept ==
  /\ port = "open" /\ ~finished
  /\ accepted' = accepted + 1
  /\ UNCHANGED <<link, arrived, delivered, sent, ended, finished, port, error>>

Send ==
  /\ port = "open" /\ link = "up" /\ ~finished
  /\ Len(sent) < accepted
  /\ sent' = Upto(Len(sent) + 1)
  /\ UNCHANGED <<link, arrived, delivered, accepted, ended, finished, port, error>>

Finish ==
  /\ port = "open" /\ ~finished
  /\ Len(sent) = accepted
  /\ link = "coming" => ended
  /\ finished' = TRUE
  /\ UNCHANGED <<link, arrived, delivered, accepted, sent, ended, port, error>>

\* Without an error only when both directions have ended.
Close ==
  /\ port = "open"
  /\ port' = IF finished THEN "closed" ELSE "aborted"
  /\ error' \in Causes \cup (IF ended /\ finished THEN {"none"} ELSE {})
  /\ UNCHANGED <<link, arrived, delivered, accepted, sent, ended, finished>>

Next == Link \/ Arrive \/ Deliver \/ End \/ Accept \/ Send \/ Finish \/ Close

\* What was accepted is sent while there is an association, and a port that was
\* shut down, or whose association is gone, closes.
Fairness == WF_portVars(Send) /\ WF_portVars((finished \/ link = "gone") /\ Close)

Spec == Init /\ [][Next]_portVars /\ Fairness
===============================================================================
