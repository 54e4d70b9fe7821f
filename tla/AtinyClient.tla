----------------------------- MODULE AtinyClient -----------------------------
(***************************************************************************)
(* The MQTT client on top of the event loop, talking to a broker.          *)
(*                                                                         *)
(* The client is atiny_mqtt_event_handler and atiny_mqtt_parser            *)
(* (src/atiny_mqtt/atiny_mqtt.c) with main.c's ev_handler, which           *)
(* atiny_mqtt_event_handler calls first for each event and again for each  *)
(* packet.  Its steps are the handler steps of AtinySock with the packets  *)
(* the handlers append and their effect on atiny_mqtt_proto_data_t.        *)
(*                                                                         *)
(* The broker is external: an MQTT 3.1.1 server that answers what it       *)
(* reads, in order, and publishes on the subscriptions it has granted.  It *)
(* may hold subscriptions of an earlier session, because the client        *)
(* connects with clean_session = 0.                                        *)
(*                                                                         *)
(* Topics and filters are sequences of pieces, of one or more bytes each   *)
(* and with "/" and "#" apart; no piece begins with another, so that one   *)
(* topic begins another byte by byte just when it does piece by piece.     *)
(* Time is left to Keepalive: here a poll may find the keep-alive interval *)
(* over at any moment.                                                     *)
(***************************************************************************)
EXTENDS Integers, Sequences, SequencesExt, FiniteSets, Sums

CONSTANTS
    Filters,        \* ief_builtin_topic: a sequence of topic filters
    Topics,         \* topics others publish on
    NPublish,       \* PUBLISH packets the CONNACK handler sends (3)
    MaxPacketId,    \* MAX_PACKET_ID
    MaxPings,       \* bound on the pings of a behaviour
    MaxPublish,     \* bound on the broker's PUBLISH packets
    OutSize, InSize, SendBufSize, RecvBufSize, SendFailures,
    SplitPackets, ControlRecords, MaxInq              \* see AtinySock

Filter == DOMAIN Filters
Id     == 1..MaxPacketId

\* Client to broker.
Connect       == [type |-> "CONNECT"]
Subscribe(id) == [type |-> "SUBSCRIBE", id |-> id]
Publish(id)   == [type |-> "PUBLISH", id |-> id]
PubAck(t, id) == [type |-> t, id |-> id]
PingReq       == [type |-> "PINGREQ"]

OutPacket ==
    {Connect, PingReq} \cup {Subscribe(id) : id \in Id}
    \cup {Publish(id) : id \in Id}
    \cup {PubAck(t, id) : t \in {"PUBACK", "PUBREC"}, id \in Id}

\* Broker to client.
InPacket ==
    [type : {"CONNACK", "PINGRESP"}]
    \cup [type : {"SUBACK"}, granted : SUBSET Filter]
    \cup [type : {"PUBACK", "PUBREL"}, id : Id]
    \cup [type : {"PUBLISH"}, topic : Topics, qos : 0..2]

ASSUME ClientAssumption ==
    /\ Filters \in Seq(Seq(STRING)) /\ << >> \notin Range(Filters)
    /\ Topics \subseteq Seq(STRING)
    /\ NPublish \in Nat
    /\ MaxPacketId \in Nat \ {0}
    /\ MaxPings \in Nat /\ MaxPublish \in Nat
    /\ OutSize[Connect] \in 0..SendBufSize   \* some 50 bytes of 1024

\* The CONNACK handler's packets, with the ids it is going to use.
Burst(ids) ==
    << Subscribe(ids[1]) >> \o [k \in 1..NPublish |-> Publish(ids[k + 1])]

\* All that a handler may append at once, and a bound on their sum.
Outputs ==
    {<< >>, << Connect >>, << PingReq >>}
    \cup {<< PubAck(t, id) >> : t \in {"PUBACK", "PUBREC"}, id \in Id}
    \cup {Burst(ids) : ids \in [1..(NPublish + 1) -> Id]}

MaxQueued == 2 + NPublish + MaxPings + MaxPublish

VARIABLES
    flags, phase, proto, sendBuf, recvLen, ssl, out, plain, inq, wire, peer,
    queued, written, skipped,                         \* see AtinySock
    nextId,     \* proto_data->next_packetid
    filterSet,  \* messageHandlers[].topicFilter and .cb have been written
    efficient,  \* messageHandlers[].efficient
    granted,    \* the broker's subscriptions for this client
    brRead,     \* how many of the client's packets the broker has read
    brPubs,     \* history: the broker's PUBLISH packets, in order
    subacked,   \* history: a SUBACK has been parsed
    calls       \* history: the callbacks made, << filter, topic >>, in order

Sock == INSTANCE AtinySock

mqttVars   == << nextId, filterSet, efficient, subacked, calls >>
brokerVars == << granted, brRead, brPubs >>
vars == << Sock!vars, mqttVars, brokerVars >>

-----------------------------------------------------------------------------
(* The client.                                                             *)

\* Mutant: the id stays at MAX_PACKET_ID.
NextPacketIdBug(id) == IF id = MaxPacketId THEN id ELSE id + 1

\* getNextPacketId
NextPacketId(id) == IF id = MaxPacketId THEN 1 ELSE id + 1

\* The id k calls of getNextPacketId later.
IdAfter(k) ==
    LET id[i \in 0..k] == IF i = 0 THEN nextId ELSE NextPacketId(id[i - 1])
    IN id[k]

\* Mutant: the comparison is over the size of the pointer.
CbMatchesBug(topic, filter) == Head(topic) = Head(filter)

\* The parser's test: memcmp over the length of the received topic, which so
\* may be the whole filter or only the beginning of it.
CbMatches(topic, filter) == IsPrefix(topic, filter)

\* Mutants: CONNECT is not sent; SUBSCRIBE is sent with it.
HelloBug   == << >>
HelloEager == << Connect, Subscribe(1) >>

\* What atiny_mqtt_connect appends.
Hello == << Connect >>

\* ATINY_EV_CONNECTED in ev_handler, and atiny_mqtt_connect.  proto_data
\* comes from malloc: `efficient` starts with any value.
OnConnected ==
    /\ Sock!ConnectCb(Hello)
    /\ nextId' = 1
    /\ filterSet' = FALSE
    /\ efficient' \in [Filter -> BOOLEAN]
    /\ UNCHANGED << subacked, calls, brokerVars >>

\* ATINY_EV_POLL in atiny_mqtt_event_handler.
OnPoll(ping) ==
    /\ Sock!PollCb(IF ping THEN << PingReq >> ELSE << >>)
    /\ UNCHANGED << mqttVars, brokerVars >>

\* Mutant: the handlers are left for later.
OnConnackUnset ==
    /\ inq # << >> /\ Head(inq).type = "CONNACK"
    /\ Sock!ParsePacket(Burst([k \in 1..(NPublish + 1) |-> IdAfter(k)]))
    /\ nextId' = IdAfter(NPublish + 1)
    /\ UNCHANGED << filterSet, efficient, subacked, calls, brokerVars >>

\* CONNACK: subscribe to every built-in topic, then publish NPublish times
\* with QoS 1.
OnConnack ==
    /\ inq # << >> /\ Head(inq).type = "CONNACK"
    /\ Sock!ParsePacket(Burst([k \in 1..(NPublish + 1) |-> IdAfter(k)]))
    /\ nextId' = IdAfter(NPublish + 1)
    /\ filterSet' = TRUE
    /\ UNCHANGED << efficient, subacked, calls, brokerVars >>

\* Mutants: only the granted filters' entries are written; a refusal is not
\* told from a grant.
EfficientPart(suback) == [i \in suback.granted |-> TRUE]
EfficientAll(suback)  == [i \in Filter |-> TRUE]

\* One return code per filter; 0x80 is a refusal.
Efficient(suback) == [i \in Filter |-> i \in suback.granted]

\* SUBACK.  The packet id is decoded and not used.
OnSuback ==
    /\ inq # << >> /\ Head(inq).type = "SUBACK"
    /\ Sock!ParsePacket(<< >>)
    /\ efficient' = Efficient(Head(inq))
    /\ subacked' = TRUE
    /\ UNCHANGED << nextId, filterSet, calls, brokerVars >>

\* Mutant: QoS 2 is not answered.
AckBug(qos, id) == IF qos = 1 THEN << PubAck("PUBACK", id) >> ELSE << >>

\* atiny_mqtt_puback: the id is a fresh one, not that of the PUBLISH.
Ack(qos, id) ==
    CASE qos = 0 -> << >>
      [] qos = 1 -> << PubAck("PUBACK", id) >>
      [] qos = 2 -> << PubAck("PUBREC", id) >>

\* The parser's loop over the handlers: each callback whose filter matches.
Calls(topic) ==
    LET made[i \in 0..Len(Filters)] ==
          IF i = 0 THEN << >>
          ELSE IF CbMatches(topic, Filters[i]) /\ efficient[i]
               THEN Append(made[i - 1], << i, topic >>)
               ELSE made[i - 1]
    IN made[Len(Filters)]

\* PUBLISH: the callbacks, then a PUBACK or PUBREC for QoS 1 or 2.
OnPublish ==
    LET p   == Head(inq)
        ack == Ack(p.qos, IdAfter(1))
    IN  /\ inq # << >> /\ p.type = "PUBLISH"
        /\ Sock!ParsePacket(ack)
        /\ nextId' = IdAfter(Len(ack))
        /\ calls' = calls \o Calls(p.topic)
        /\ UNCHANGED << filterSet, efficient, subacked, brokerVars >>

\* Everything else is cut off and ignored.
OnOther ==
    /\ inq # << >> /\ Head(inq).type \in {"PINGRESP", "PUBACK", "PUBREL"}
    /\ Sock!ParsePacket(<< >>)
    /\ UNCHANGED << mqttVars, brokerVars >>

\* The rest of the loop does not involve the MQTT layer.
Loop ==
    /\ \/ \E ready \in SUBSET {"CAN_RD", "CAN_WR"} : Sock!SockPoll(ready)
       \/ Sock!HandshakeSpin
       \/ Sock!CanReadCb \/ Sock!CanReadCbFails
       \/ Sock!CanReadCbAlert \/ Sock!CanReadCbControl
       \/ Sock!ParseFragment \/ Sock!ParseEnd
       \/ Sock!CanWriteCbEmpty \/ Sock!CanWriteCb
       \/ \E failure \in {"zero", "error"} : Sock!CanWriteCbFails(failure)
       \/ Sock!HandshakeResumes
       \/ Sock!SigPipe
       \/ Sock!Halted
    /\ UNCHANGED << mqttVars, brokerVars >>

-----------------------------------------------------------------------------
(* The broker (external).                                                  *)

\* Does a subscription to `filter` receive what is published on `topic`?  To
\* "a/#" that is "a" and what begins with "a/".
Subscribed(topic, filter) ==
    IF Last(filter) = "#"
    THEN IsPrefix(Front(filter), topic) \/ filter = topic \o << "/", "#" >>
    ELSE topic = filter

\* What the broker may answer to packet p: at most one packet.
Replies(p) ==
    CASE p.type = "CONNECT"   -> [type : {"CONNACK"}]
      [] p.type = "SUBSCRIBE" -> [type : {"SUBACK"}, granted : SUBSET Filter]
      [] p.type = "PUBLISH"   -> [type : {"PUBACK"}, id : {p.id}]
      [] p.type = "PUBREC"    -> [type : {"PUBREL"}, id : {p.id}]
      [] p.type = "PINGREQ"   -> [type : {"PINGRESP"}]
      [] p.type = "PUBACK"    -> {}

\* The broker takes the client's next packet from the stream and answers.
\* SUBSCRIBE replaces what was granted for the same filters before.
BrokerReads ==
    LET p == written[brRead + 1]
    IN  /\ ssl = "up" /\ peer = "open"
        /\ brRead < Len(written)
        /\ brRead' = brRead + 1
        /\ \/ \E reply \in Replies(p) :
                 /\ Len(inq) < MaxInq
                 /\ Sock!PeerSend(reply)
                 /\ granted' = IF reply.type = "SUBACK" THEN reply.granted
                                                       ELSE granted
           \/ /\ Replies(p) = {}
              /\ UNCHANGED << flags, phase, proto, sendBuf, out, queued,
                              written, skipped, recvLen, plain, inq, wire,
                              ssl, peer, granted >>
        /\ UNCHANGED << brPubs, mqttVars >>

\* Someone publishes on a topic the client is subscribed to.  The client
\* asks for QoS 0: more than that comes on a subscription of an earlier
\* session, until SUBSCRIBE replaces it.
BrokerPublishes(topic, qos) ==
    LET p == [type |-> "PUBLISH", topic |-> topic, qos |-> qos]
    IN  /\ brRead > 0
        /\ qos > 0 => \A k \in 1..brRead : written[k].type # "SUBSCRIBE"
        /\ \E i \in granted : Subscribed(topic, Filters[i])
        /\ Len(brPubs) < MaxPublish
        /\ Len(inq) < MaxInq
        /\ Sock!PeerSend(p)
        /\ brPubs' = Append(brPubs, p)
        /\ UNCHANGED << granted, brRead, mqttVars >>

BrokerGoes ==
    /\ \/ Sock!PeerClose \/ Sock!PeerReset
       \/ Len(wire) < MaxInq /\ Sock!PeerControl
    /\ UNCHANGED << mqttVars, brokerVars >>

-----------------------------------------------------------------------------
Init ==
    /\ Sock!Init
    /\ nextId = 0 /\ filterSet = FALSE
    /\ efficient = [i \in Filter |-> FALSE]
    /\ granted \in SUBSET Filter
    /\ brRead = 0 /\ brPubs = << >>
    /\ subacked = FALSE /\ calls = << >>

Pings == HowMany(queued, {PingReq})

Handler ==
    \/ OnConnected
    \/ \E ping \in BOOLEAN :
          (ping => proto /\ Pings < MaxPings) /\ OnPoll(ping)
    \/ OnConnack \/ OnSuback \/ OnPublish \/ OnOther

Client == Handler \/ Loop

Broker ==
    \/ BrokerReads
    \/ \E topic \in Topics, qos \in 0..2 : BrokerPublishes(topic, qos)
    \/ BrokerGoes

Next == Client \/ Broker

\* The thread keeps running, the socket becomes writable again and again,
\* and the broker reads what it is sent.
Fairness ==
    /\ WF_vars(Client)
    /\ SF_vars(Sock!SockPoll(Sock!Ready) /\ UNCHANGED << mqttVars, brokerVars >>)
    /\ SF_vars(Sock!CanWriteCb /\ UNCHANGED << mqttVars, brokerVars >>)
    /\ WF_vars(BrokerReads)

Spec == Init /\ [][Next]_vars /\ Fairness

-----------------------------------------------------------------------------
(* Invariants.  AtinyClientProofs proves them for all constants.           *)

\* The MQTT layer's and the broker's variables have their types; packet ids
\* stay within 1..MAX_PACKET_ID (getNextPacketId at the wrap).
TypeOK ==
    /\ queued \in Seq(OutPacket)
    /\ inq \in Seq(InPacket)
    /\ nextId \in 0..MaxPacketId
    /\ filterSet \in BOOLEAN /\ subacked \in BOOLEAN
    /\ efficient \in [Filter -> BOOLEAN]
    /\ granted \subseteq Filter
    /\ brRead \in 0..Len(written)
    /\ brPubs \in Seq(InPacket)
    /\ calls \in Seq(Filter \X Topics)

\* What is to be answered, and the answers.
ToAck == [type : {"PUBLISH"}, topic : Topics, qos : 1..2]
Acks  == {PubAck(t, id) : t \in {"PUBACK", "PUBREC"}, id \in Id}

\* Each PUBLISH with QoS 1 or 2 is answered exactly once: it is on its way,
\* or there is a PUBACK or PUBREC for it in what was appended to send_buf.
AckOnce == HowMany(brPubs, ToAck) = HowMany(queued, Acks) + HowMany(inq, ToAck)

\* The parser never compares a topic with a topicFilter that has not been
\* written: the filters are set before a PUBLISH can be parsed, although the
\* broker may publish as soon as it has sent CONNACK.
NoWildFilter ==
    phase = "parse" /\ inq # << >> /\ Head(inq).type = "PUBLISH" => filterSet

\* Once the SUBACK is parsed, `efficient` says which filters the broker
\* granted, whatever malloc left there.
GrantsFollowed == subacked => \A i \in Filter : efficient[i] <=> i \in granted

\* The requests that wait for an answer carry different packet ids.
RequestIdsDiffer ==
    \A j, k \in DOMAIN queued :
        /\ j # k
        /\ {queued[j].type, queued[k].type} \subseteq {"SUBSCRIBE", "PUBLISH"}
        => queued[j].id # queued[k].id

\* send_buf never holds CONNECT and packets of the CONNACK handler together:
\* the handler appends without looking at the room, and it has the buffer but
\* for pings and answers to itself (main.c, atiny_mqtt_connect).
OpeningApart ==
    \A j, k \in DOMAIN sendBuf :
        sendBuf[j].type = "CONNECT" =>
            sendBuf[k].type \notin {"SUBSCRIBE", "PUBLISH"}

\* The step that cuts a PUBLISH off makes the callbacks in `called`.
Called(p, called) ==
    inq # << >> /\ inq' = Tail(inq) /\ Head(inq) = p => calls' = calls \o called

\* A PUBLISH on the exact topic of a granted filter is passed to the
\* callback of that filter once, and to no other.
LiteralDelivered ==
    [][\A p \in InPacket, i \in Filter :
          /\ subacked /\ i \in granted
          /\ p.type = "PUBLISH" /\ p.topic = Filters[i]
          => Called(p, << << i, p.topic >> >>)]_vars

-----------------------------------------------------------------------------
(* What AtinyClient implements.                                            *)

\* How far ev_handler and the parser have come with the session.
SessionState ==
    CASE queued = << >>               -> "new"
      [] queued # << >> /\ ~filterSet -> "connecting"
      [] filterSet /\ ~subacked       -> "connected"
      [] subacked                     -> "subscribed"

Session == INSTANCE MqttSession
           WITH state <- SessionState,
                sent  <- [k \in DOMAIN queued |-> queued[k].type]

\* The client implements MqttSession: whatever order polls, reads, TLS and the
\* broker bring, CONNECT comes first and once, SUBSCRIBE and the publications
\* once, in one piece and after CONNACK, and answers after that (ev_handler).
SessionSpec == Session!Spec
=============================================================================
