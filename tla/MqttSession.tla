----------------------------- MODULE MqttSession -----------------------------
(***************************************************************************)
(* What an MQTT client of this SDK promises its broker about the start of  *)
(* a session, without buffers, flags or TLS: which packets it hands to the *)
(* stream, in which order, and what each waits for.                        *)
(***************************************************************************)
EXTENDS Naturals, Sequences

CONSTANT NPublish   \* PUBLISH packets that follow SUBSCRIBE

VARIABLES
    state,   \* "new", "connecting", "connected", "subscribed"
    sent     \* the types of the packets handed over, in order

\* SUBSCRIBE and the first publications go out in one piece.
Greeting == << "SUBSCRIBE" >> \o [k \in 1..NPublish |-> "PUBLISH"]

Init == state = "new" /\ sent = << >>

\* CONNECT opens the session.
Connect ==
    /\ state = "new" /\ state' = "connecting"
    /\ sent' = Append(sent, "CONNECT")

\* The broker has accepted: the client asks for its topics, once.
Accepted ==
    /\ state = "connecting" /\ state' = "connected"
    /\ sent' = sent \o Greeting

\* The broker has answered the SUBSCRIBE.
Granted ==
    /\ state = "connected" /\ state' = "subscribed"
    /\ UNCHANGED sent

\* The keep-alive may speak at any time after CONNECT.
Ping ==
    /\ state # "new"
    /\ sent' = Append(sent, "PINGREQ")
    /\ UNCHANGED state

\* A publication is answered only in a session the broker has accepted.
Answer ==
    /\ state \in {"connected", "subscribed"}
    /\ \E type \in {"PUBACK", "PUBREC"} : sent' = Append(sent, type)
    /\ UNCHANGED state

Next == Connect \/ Accepted \/ Granted \/ Ping \/ Answer

Spec == Init /\ [][Next]_<< state, sent >>
=============================================================================
