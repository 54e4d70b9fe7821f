---------------------------- MODULE MCAtinyClient ----------------------------
(***************************************************************************)
(* Model-checking instances of AtinyClient: one literal filter and the     *)
(* wildcard filter of main.c, shortened, with one topic under each.        *)
(***************************************************************************)
EXTENDS AtinyClient, TLC

MCFilters ==
    << << "dev", "/", "twins" >>, << "dev", "/", "messages", "/", "#" >> >>
MCTopics ==
    {<< "dev", "/", "twins" >>, << "dev", "/", "messages", "/", "x" >>}

\* The proportions of the real packets: the CONNACK burst is most of send_buf.
MCOutSize ==
    [p \in OutPacket |-> CASE p.type = "CONNECT"   -> 2
                           [] p.type = "SUBSCRIBE" -> 5
                           [] p.type = "PUBLISH"   -> 1
                           [] OTHER                -> 1]
MCInSize ==
    [p \in InPacket |-> IF p.type = "PUBLISH" THEN 3 ELSE 2]

-----------------------------------------------------------------------------
(* Properties.                                                             *)

\* LiteralDelivered for every PUBLISH the subscription receives (README.md: what
\* is published is handled in the *_message_cb functions).
EveryPublishDelivered ==
    [][\A p \in InPacket, i \in Filter :
          /\ subacked /\ i \in granted
          /\ p.type = "PUBLISH" /\ Subscribed(p.topic, Filters[i])
          => Called(p, << << i, p.topic >> >>)]_vars

\* Once the TLS session is up, the client ends up subscribed as long as the
\* broker stays: CONNECT, CONNACK, SUBSCRIBE and SUBACK all get through.  (A
\* handshake that comes up inside ssl_read may wait there, with CONNECT unsent;
\* the loop is then not at select().)
SessionEstablished ==
    (ssl = "up" /\ phase = "select")
        ~> (subacked \/ peer # "open" \/ phase \in Sock!Halt)
=============================================================================
