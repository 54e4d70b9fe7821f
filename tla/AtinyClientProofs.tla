--------------------------- MODULE AtinyClientProofs ---------------------------
(***************************************************************************)
(* The invariants of AtinyClient, and that it implements MqttSession, for  *)
(* any filters, topics, sizes and bounds, and for each way send() may      *)
(* fail.                                                                   *)
(***************************************************************************)
EXTENDS AtinyClient, SumProofs

-----------------------------------------------------------------------------
(* Packet ids.                                                             *)

\* f[i] is the id i calls of getNextPacketId after n.
IsIds(f, k, n) ==
    f = [i \in 0..k |-> IF i = 0 THEN n ELSE NextPacketId(f[i - 1])]

\* There is such a function, however long (the recursion is well founded).
LEMMA IdsExist ==
    ASSUME NEW n
    PROVE  \A k \in Nat : \E f : IsIds(f, k, n)
<1> DEFINE S == {k \in Nat : \E f : IsIds(f, k, n)}
<1>1. 0 \in S
  <2>1. IsIds([i \in 0..0 |-> n], 0, n)
    BY DEF IsIds
  <2> QED BY <2>1
<1>2. ASSUME NEW k \in Nat, k \in S PROVE k + 1 \in S
  <2>1. PICK f : IsIds(f, k, n)
    BY <1>2
  <2> DEFINE g == [i \in 0 .. k + 1 |-> IF i = 0 THEN n ELSE NextPacketId(f[i - 1])]
  <2>2. \A i \in 0..k : g[i] = f[i]
    BY <2>1 DEF IsIds
  <2>3. \A i \in 0 .. k + 1 : i # 0 => i - 1 \in 0..k
    OBVIOUS
  <2>4. IsIds(g, k + 1, n)
    <3>1. \A i \in 0 .. k + 1 : i # 0 => g[i - 1] = f[i - 1]
      BY <2>2, <2>3
    <3>2. g = [i \in 0 .. k + 1 |-> IF i = 0 THEN n ELSE NextPacketId(g[i - 1])]
      BY <3>1
    <3> HIDE DEF g
    <3> QED BY <3>2 DEF IsIds
  <2> HIDE DEF g
  <2> QED BY <2>4
<1> HIDE DEF S
<1>3. \A k \in Nat : k \in S
  BY <1>1, <1>2, SetInduction
<1> QED BY <1>3 DEF S

\* Its values are ids, one after the other and then from 1.
LEMMA IdsAre ==
    ASSUME NEW n \in Id, NEW k \in Nat, NEW f, IsIds(f, k, n)
    PROVE  /\ \A i \in 0..k : f[i] \in Id
           /\ \A i \in 0..k : i <= MaxPacketId =>
                 f[i] = IF n + i <= MaxPacketId THEN n + i ELSE n + i - MaxPacketId
<1> DEFINE P(i) == /\ f[i] \in Id
                   /\ i <= MaxPacketId =>
                      f[i] = IF n + i <= MaxPacketId THEN n + i ELSE n + i - MaxPacketId
           S == {i \in Nat : i <= k => P(i)}
<1> USE ClientAssumption DEF ClientAssumption, Id
<1>1. 0 \in S
  BY DEF IsIds
<1>2. ASSUME NEW i \in Nat, i \in S PROVE i + 1 \in S
  <2> SUFFICES ASSUME i + 1 <= k PROVE P(i + 1)
    OBVIOUS
  <2>1. P(i)
    BY <1>2
  <2>2. f[i + 1] = NextPacketId(f[i])
    <3>1. i + 1 \in 0..k /\ i + 1 # 0 /\ (i + 1) - 1 = i
      OBVIOUS
    <3> QED BY <3>1 DEF IsIds
  <2> DEFINE x == f[i]  y == f[i + 1]
  <2>3. /\ x \in 1..MaxPacketId /\ n \in 1..MaxPacketId /\ MaxPacketId \in Nat
        /\ i <= MaxPacketId =>
             x = IF n + i <= MaxPacketId THEN n + i ELSE n + i - MaxPacketId
        /\ y = IF x = MaxPacketId THEN 1 ELSE x + 1
    BY <2>1, <2>2 DEF NextPacketId
  <2> HIDE DEF x, y
  <2>4. y \in 1..MaxPacketId
    BY <2>3
  <2>5. ASSUME i + 1 <= MaxPacketId
        PROVE  y = IF n + (i + 1) <= MaxPacketId THEN n + (i + 1)
                                                 ELSE n + (i + 1) - MaxPacketId
    <3>1. x = IF n + i <= MaxPacketId THEN n + i ELSE n + i - MaxPacketId
      BY <2>3, <2>5
    <3> QED BY <2>3, <2>5, <3>1
  <2> QED BY <2>4, <2>5 DEF y
<1> HIDE DEF S
<1>3. \A i \in Nat : i \in S
  BY <1>1, <1>2, SetInduction
<1> QED BY <1>3 DEF S

\* The ids that the handlers use.
LEMMA IdAfterIs ==
    ASSUME NEW k \in Nat, nextId \in Id
    PROVE  /\ IdAfter(k) \in Id
           /\ k <= MaxPacketId =>
                IdAfter(k) = IF nextId + k <= MaxPacketId THEN nextId + k
                                                  ELSE nextId + k - MaxPacketId
<1> DEFINE f == CHOOSE g : IsIds(g, k, nextId)
<1>1. IsIds(f, k, nextId)
  BY IdsExist
<1>2. IdAfter(k) = f[k]
  BY DEF IdAfter, IsIds
<1> HIDE DEF f
<1> QED BY <1>1, <1>2, IdsAre

-----------------------------------------------------------------------------
(* Packets.                                                                *)

\* What the handlers append is packets.
LEMMA OutPackets ==
    /\ Connect \in OutPacket /\ Connect.type = "CONNECT"
    /\ PingReq \in OutPacket /\ PingReq.type = "PINGREQ"
    /\ \A id \in Id : /\ Subscribe(id) \in OutPacket
                      /\ Subscribe(id).type = "SUBSCRIBE" /\ Subscribe(id).id = id
                      /\ Publish(id) \in OutPacket
                      /\ Publish(id).type = "PUBLISH" /\ Publish(id).id = id
    /\ \A id \in Id, t \in {"PUBACK", "PUBREC"} :
          PubAck(t, id) \in OutPacket /\ PubAck(t, id).type = t
<1>1. Connect \in OutPacket /\ PingReq \in OutPacket
  BY DEF OutPacket
<1>2. \A id \in Id : Subscribe(id) \in OutPacket /\ Publish(id) \in OutPacket
  BY DEF OutPacket
<1>3. \A id \in Id, t \in {"PUBACK", "PUBREC"} : PubAck(t, id) \in OutPacket
  BY DEF OutPacket
<1> QED BY <1>1, <1>2, <1>3 DEF Connect, PingReq, Subscribe, Publish, PubAck

\* The CONNACK handler's packets.
LEMMA BurstIs ==
    ASSUME NEW ids \in [1..(NPublish + 1) -> Id]
    PROVE  /\ Burst(ids) \in Seq(OutPacket)
           /\ Len(Burst(ids)) = NPublish + 1
           /\ Burst(ids)[1] = Subscribe(ids[1])
           /\ \A k \in 2 .. NPublish + 1 : Burst(ids)[k] = Publish(ids[k])
<1> DEFINE pubs == [k \in 1..NPublish |-> Publish(ids[k + 1])]
<1> USE ClientAssumption DEF ClientAssumption
<1>1. /\ ids[1] \in Id
      /\ \A k \in 1..NPublish : ids[k + 1] \in Id
  OBVIOUS
<1>2. pubs \in Seq(OutPacket) /\ Len(pubs) = NPublish
  BY <1>1, OutPackets
<1>3. << Subscribe(ids[1]) >> \in Seq(OutPacket)
  BY <1>1, OutPackets
<1>4. \A k \in 1..NPublish : pubs[k] = Publish(ids[k + 1])
  OBVIOUS
<1> HIDE DEF pubs
<1>5. Burst(ids) = << Subscribe(ids[1]) >> \o pubs
  BY DEF Burst, pubs
<1> QED BY <1>2, <1>3, <1>4, <1>5

\* What the broker sends is packets.
LEMMA InPackets ==
    ASSUME NEW p \in OutPacket, NEW reply \in Replies(p)
    PROVE  /\ reply \in InPacket
           /\ reply.type = "CONNACK" <=> p.type = "CONNECT"
           /\ reply.type = "SUBACK" <=> p.type = "SUBSCRIBE"
           /\ reply.type # "PUBLISH"
<1>1. p.type \in {"CONNECT", "SUBSCRIBE", "PUBLISH", "PUBREC", "PINGREQ", "PUBACK"}
  BY DEF OutPacket, Connect, PingReq, Subscribe, Publish, PubAck
<1>2. p.type \in {"PUBLISH", "PUBREC"} => p.id \in Id
  BY DEF OutPacket, Connect, PingReq, Subscribe, Publish, PubAck
<1> QED BY <1>1, <1>2 DEF Replies, InPacket

\* What others publish is packets of the broker.
LEMMA Published ==
    ASSUME NEW topic \in Topics, NEW qos \in 0..2
    PROVE  LET p == [type |-> "PUBLISH", topic |-> topic, qos |-> qos]
           IN  p \in InPacket /\ p.type = "PUBLISH"
BY DEF InPacket

-----------------------------------------------------------------------------
(* The inductive invariant.                                                *)

None(s, t) == \A k \in DOMAIN s : s[k].type # t
One(s, t)  == \A j, k \in DOMAIN s : s[j].type = t /\ s[k].type = t => j = k

TypeInv ==
    /\ sendBuf \in Seq(OutPacket) /\ out \in Seq(OutPacket)
    /\ queued \in Seq(OutPacket) /\ written \in Seq(OutPacket)
    /\ inq \in Seq(InPacket)
    /\ proto \in BOOLEAN /\ filterSet \in BOOLEAN /\ subacked \in BOOLEAN
    /\ brRead \in 0..Len(written)

\* ATINY_EV_CONNECTED comes once.
OnceInv ==
    /\ proto <=> queued # << >>
    /\ proto => "CONNECTING" \notin flags
    /\ phase = "connect" => ~proto
    /\ queued = << >> => written = << >>
    /\ proto => nextId \in Id

\* CONNECT is the first packet of the stream and no other packet of it.
ConnectInv ==
    /\ queued # << >> => Head(queued).type = "CONNECT"
    /\ \A k \in DOMAIN queued : k > 1 => queued[k].type # "CONNECT"
    /\ written = << >> => sendBuf = queued
    /\ Len(out) <= Len(sendBuf) /\ \A k \in 1..Len(out) : out[k] = sendBuf[k]
    /\ written # << >> =>
         /\ Head(written).type = "CONNECT"
         /\ \A k \in DOMAIN written : k > 1 => written[k].type # "CONNECT"
         /\ None(sendBuf, "CONNECT")

\* CONNACK is the first packet of the broker and no other packet of it.
ConnackInv ==
    /\ brRead = 0 => inq = << >> /\ ~filterSet
    /\ brRead > 0 /\ ~filterSet => inq # << >> /\ Head(inq).type = "CONNACK"
    /\ \A k \in DOMAIN inq : k > 1 => inq[k].type # "CONNACK"
    /\ filterSet => None(inq, "CONNACK")

\* There is one SUBSCRIBE, after CONNACK: in send_buf, with the broker, or on
\* its way.
SubscribeInv ==
    /\ One(sendBuf, "SUBSCRIBE") /\ One(written, "SUBSCRIBE")
    /\ None(sendBuf, "SUBSCRIBE") \/ None(written, "SUBSCRIBE")
    /\ ~filterSet => None(sendBuf, "SUBSCRIBE") /\ None(written, "SUBSCRIBE")

\* There is one SUBACK, with what the broker has granted.
SubackInv ==
    /\ One(inq, "SUBACK")
    /\ subacked => None(inq, "SUBACK") /\ filterSet
    /\ subacked \/ ~None(inq, "SUBACK") =>
         \E k \in 1..brRead : written[k].type = "SUBSCRIBE"
    /\ \A k \in DOMAIN inq : inq[k].type = "SUBACK" => inq[k].granted = granted

\* Before CONNACK the client asks for nothing.
RequestInv ==
    ~filterSet => None(queued, "SUBSCRIBE") /\ None(queued, "PUBLISH")

IInv ==
    /\ TypeInv /\ OnceInv /\ ConnectInv /\ ConnackInv
    /\ SubscribeInv /\ SubackInv /\ RequestInv
    /\ GrantsFollowed

-----------------------------------------------------------------------------
(* Sequences.                                                              *)

\* A type that is in neither sequence is not in both together, and back.
LEMMA NoneConcat ==
    ASSUME NEW S, NEW s \in Seq(S), NEW r \in Seq(S), NEW t
    PROVE  None(s \o r, t) <=> None(s, t) /\ None(r, t)
<1>1. /\ DOMAIN (s \o r) = 1 .. Len(s) + Len(r)
      /\ DOMAIN s = 1..Len(s) /\ DOMAIN r = 1..Len(r)
      /\ Len(s) \in Nat /\ Len(r) \in Nat
  OBVIOUS
<1>2. \A k \in DOMAIN s : k \in DOMAIN (s \o r) /\ (s \o r)[k] = s[k]
  BY <1>1
<1>3. \A k \in DOMAIN r : Len(s) + k \in DOMAIN (s \o r) /\ (s \o r)[Len(s) + k] = r[k]
  BY <1>1
<1>4. \A k \in DOMAIN (s \o r) :
        \/ k \in DOMAIN s /\ (s \o r)[k] = s[k]
        \/ k - Len(s) \in DOMAIN r /\ (s \o r)[k] = r[k - Len(s)]
  BY <1>1
<1>5. None(s \o r, t) => None(s, t)
  BY <1>2 DEF None
<1>6. None(s \o r, t) => None(r, t)
  BY <1>3 DEF None
<1>7. None(s, t) /\ None(r, t) => None(s \o r, t)
  BY <1>4 DEF None
<1> QED BY <1>5, <1>6, <1>7

\* A type that is once in one of two sequences is once in both together.
LEMMA OneConcat ==
    ASSUME NEW S, NEW s \in Seq(S), NEW r \in Seq(S), NEW t,
           One(s, t), One(r, t), None(s, t) \/ None(r, t)
    PROVE  One(s \o r, t)
<1>1. \A k \in 1..Len(s) : (s \o r)[k] = s[k]
  OBVIOUS
<1>2. \A k \in 1 .. Len(s) + Len(r) : k > Len(s) =>
         k - Len(s) \in 1..Len(r) /\ (s \o r)[k] = r[k - Len(s)]
  OBVIOUS
<1>3. DOMAIN (s \o r) = 1 .. Len(s) + Len(r) /\ DOMAIN s = 1..Len(s) /\ DOMAIN r = 1..Len(r)
  OBVIOUS
<1> QED BY <1>1, <1>2, <1>3 DEF None, One

\* What is left after the first packet is taken off.
LEMMA TailIs ==
    ASSUME TypeInv, inq # << >>
    PROVE  /\ Tail(inq) \in Seq(InPacket) /\ Head(inq) \in InPacket
           /\ Head(inq) = inq[1] /\ 1 \in DOMAIN inq
           /\ \A k \in DOMAIN Tail(inq) :
                 k + 1 \in DOMAIN inq /\ k + 1 > 1 /\ Tail(inq)[k] = inq[k + 1]
BY DEF TypeInv

\* What a packet of the broker changes in the stream to the client.
Appends(p) ==
    /\ inq' \in Seq(InPacket) /\ inq' # << >>
    /\ Head(inq') = IF inq = << >> THEN p ELSE Head(inq)
    /\ \A k \in DOMAIN inq' : \/ k \in DOMAIN inq /\ inq'[k] = inq[k]
                              \/ k = Len(inq) + 1 /\ inq'[k] = p
    /\ Len(inq) + 1 \in DOMAIN inq' /\ inq'[Len(inq) + 1] = p
    /\ \A k \in DOMAIN inq : k \in DOMAIN inq' /\ k \in 1..Len(inq) /\ inq'[k] = inq[k]
    /\ (inq = << >>) <=> (Len(inq) = 0)
    /\ Len(inq) \in Nat

\* A packet of the broker comes last.
LEMMA AppendIs ==
    ASSUME TypeInv, NEW p \in InPacket, inq' = Append(inq, p)
    PROVE  Appends(p)
<1>1. /\ inq' \in Seq(InPacket) /\ Len(inq') = Len(inq) + 1
      /\ \A k \in 1..Len(inq) : inq'[k] = inq[k]
      /\ inq'[Len(inq) + 1] = p
  BY DEF TypeInv
<1>2. /\ DOMAIN inq = 1..Len(inq) /\ Len(inq) \in Nat
      /\ (inq = << >>) <=> (Len(inq) = 0)
      /\ inq # << >> => Head(inq) = inq[1]
  BY DEF TypeInv
<1>3. /\ DOMAIN inq' = 1 .. Len(inq) + 1
      /\ inq' # << >> /\ Head(inq') = inq'[1]
  BY <1>1, <1>2
<1>4. Head(inq') = IF inq = << >> THEN p ELSE Head(inq)
  BY <1>1, <1>2, <1>3
<1>5. \A k \in DOMAIN inq' : k \in 1..Len(inq) \/ k = Len(inq) + 1
  BY <1>2, <1>3
<1>6. \A k \in 1..Len(inq) : k \in DOMAIN inq'
  BY <1>2, <1>3
<1>7. Len(inq) + 1 \in DOMAIN inq'
  BY <1>2, <1>3
<1>8. \A k \in DOMAIN inq' : \/ k \in DOMAIN inq /\ inq'[k] = inq[k]
                             \/ k = Len(inq) + 1 /\ inq'[k] = p
  BY <1>1, <1>2, <1>5
<1>9. \A k \in DOMAIN inq : k \in DOMAIN inq' /\ k \in 1..Len(inq) /\ inq'[k] = inq[k]
  BY <1>1, <1>2, <1>6
<1> QED BY <1>1, <1>2, <1>3, <1>4, <1>7, <1>8, <1>9 DEF Appends

-----------------------------------------------------------------------------
(* What the handlers append.                                               *)

\* Appended packets are in send_buf and in the stream; nothing is written yet.
LEMMA Emits ==
    ASSUME TypeInv, NEW ps \in Seq(OutPacket), NEW next, Sock!Emit(ps, next)
    PROVE  /\ sendBuf' = sendBuf \o ps /\ queued' = queued \o ps
           /\ sendBuf' \in Seq(OutPacket) /\ queued' \in Seq(OutPacket)
           /\ out' = out /\ written' = written
           /\ phase' \in {next, "fault"}
BY DEF TypeInv, Sock!Emit, Sock!Appended

\* What comes after CONNECT and is none does not disturb its place.
LEMMA EmitConnect ==
    ASSUME TypeInv, ConnectInv, NEW ps \in Seq(OutPacket), NEW next,
           Sock!Emit(ps, next),
           queued # << >>, None(ps, "CONNECT")
    PROVE  ConnectInv' /\ queued' # << >>
<1>1. /\ sendBuf' = sendBuf \o ps /\ queued' = queued \o ps
      /\ out' = out /\ written' = written
  BY Emits
<1>2. /\ queued' # << >> /\ Head(queued') = Head(queued)
      /\ \A k \in DOMAIN queued' :
            \/ k \in DOMAIN queued /\ queued'[k] = queued[k]
            \/ k - Len(queued) \in DOMAIN ps /\ queued'[k] = ps[k - Len(queued)]
  BY <1>1 DEF TypeInv
<1>3. None(sendBuf, "CONNECT") => None(sendBuf', "CONNECT")
  BY <1>1, NoneConcat DEF TypeInv
<1>4. /\ Len(sendBuf) <= Len(sendBuf') /\ Len(sendBuf) \in Nat
      /\ Len(out) \in Nat /\ Len(sendBuf') \in Nat
      /\ \A k \in 1..Len(sendBuf) : sendBuf'[k] = sendBuf[k]
  BY <1>1 DEF TypeInv
<1>5. \A k \in DOMAIN queued' : k > 1 => queued'[k].type # "CONNECT"
  BY <1>2 DEF ConnectInv, None
<1>6. Len(out) <= Len(sendBuf') /\ \A k \in 1..Len(out) : out[k] = sendBuf'[k]
  <2>1. Len(out) <= Len(sendBuf) /\ \A k \in 1..Len(out) : out[k] = sendBuf[k]
    BY DEF ConnectInv
  <2> QED BY <1>4, <2>1
<1>7. written = << >> => sendBuf' = queued'
  BY <1>1 DEF ConnectInv
<1> QED BY <1>1, <1>2, <1>3, <1>5, <1>6, <1>7 DEF ConnectInv

\* SUBSCRIBE is appended only by the step that writes the filters.
LEMMA EmitSubscribe ==
    ASSUME TypeInv, SubscribeInv, NEW ps \in Seq(OutPacket), NEW next,
           Sock!Emit(ps, next),
           \/ None(ps, "SUBSCRIBE") /\ filterSet' = filterSet
           \/ One(ps, "SUBSCRIBE") /\ ~filterSet /\ filterSet'
    PROVE  SubscribeInv'
<1>1. sendBuf' = sendBuf \o ps /\ written' = written
  BY Emits
<1>2. None(sendBuf', "SUBSCRIBE") <=> None(sendBuf, "SUBSCRIBE") /\ None(ps, "SUBSCRIBE")
  BY <1>1, NoneConcat DEF TypeInv
<1>3. None(ps, "SUBSCRIBE") => One(ps, "SUBSCRIBE")
  BY DEF None, One
<1>4. One(sendBuf', "SUBSCRIBE")
  BY <1>1, <1>3, OneConcat DEF TypeInv, SubscribeInv
<1> QED BY <1>1, <1>2, <1>4 DEF SubscribeInv

\* Requests are appended only when the filters are written.
LEMMA EmitRequest ==
    ASSUME TypeInv, RequestInv, NEW ps \in Seq(OutPacket), NEW next,
           Sock!Emit(ps, next),
           filterSet' \/ (~filterSet /\ None(ps, "SUBSCRIBE") /\ None(ps, "PUBLISH"))
    PROVE  RequestInv'
<1>1. queued' = queued \o ps
  BY Emits
<1> QED BY <1>1, NoneConcat DEF TypeInv, RequestInv

-----------------------------------------------------------------------------
(* Steps of the client.                                                    *)

\* CONNECT fits into an empty send_buf.
LEMMA HelloFits ==
    ASSUME sendBuf = << >>
    PROVE  Sock!Fitting(Hello) = Hello
<1>1. sendBuf \o Hello = << Connect >>
  BY OutPackets DEF Hello
<1>2. [i \in DOMAIN << Connect >> |-> OutSize[<< Connect >>[i]]] = << OutSize[Connect] >>
  OBVIOUS
<1>3. OutSize[Connect] \in Int /\ OutSize[Connect] <= SendBufSize
  BY ClientAssumption DEF ClientAssumption
<1>4. Total(<< OutSize[Connect] >>) = OutSize[Connect]
  BY <1>3, TotalOne
<1>5. Sock!Bytes(<< Connect >>) = OutSize[Connect]
  <2>1. Sock!Total(<< OutSize[Connect] >>) = Total(<< OutSize[Connect] >>)
    BY DEF Sock!Total, Total
  <2> QED BY <1>2, <1>4, <2>1 DEF Sock!Bytes
<1> QED BY <1>1, <1>3, <1>5 DEF Sock!Fitting

\* CONNECT is what ATINY_EV_CONNECTED appends.
LEMMA Connects ==
    ASSUME IInv, OnConnected
    PROVE  /\ ~proto /\ queued = << >> /\ written = << >> /\ sendBuf = << >>
           /\ Sock!Emit(Hello, Sock!AfterConnect(flags'))
<1>1. ~proto
  BY DEF IInv, OnConnected, Sock!ConnectCb, OnceInv
<1>2. queued = << >> /\ written = << >> /\ sendBuf = << >>
  BY <1>1 DEF IInv, OnceInv, ConnectInv
<1>3. Sock!Emit(Sock!Fitting(Hello), Sock!AfterConnect(flags'))
  BY DEF OnConnected, Sock!ConnectCb
<1>4. Sock!Fitting(Hello) = Hello
  BY <1>2, HelloFits
<1>5. Sock!Emit(Hello, Sock!AfterConnect(flags'))
  BY <1>3, <1>4
<1> QED BY <1>1, <1>2, <1>5

\* CONNECT starts the stream.
LEMMA OnConnectedStep == IInv /\ OnConnected => IInv'
<1> SUFFICES ASSUME IInv, OnConnected PROVE IInv'
  OBVIOUS
<1> USE DEF IInv
<1>1. /\ queued = << >> /\ written = << >> /\ sendBuf = << >> /\ out = << >>
      /\ inq = << >> /\ brRead = 0 /\ ~filterSet /\ ~subacked
  <2>2. queued = << >> /\ written = << >> /\ sendBuf = << >>
    BY Connects
  <2>3. out = << >>
    BY <2>2 DEF ConnectInv, TypeInv
  <2>4. brRead = 0
    BY <2>2 DEF TypeInv
  <2> QED BY <2>2, <2>3, <2>4 DEF ConnackInv, SubackInv
<1>2. /\ queued' = Hello /\ sendBuf' = Hello /\ written' = << >> /\ out' = << >>
      /\ inq' = << >> /\ brRead' = 0 /\ ~filterSet' /\ ~subacked'
      /\ proto' /\ nextId' = 1 /\ "CONNECTING" \notin flags'
      /\ phase' # "connect" /\ proto' \in BOOLEAN
  <2>1. phase' \in {Sock!AfterConnect(flags'), "fault"} /\ Sock!AfterConnect(flags') # "connect"
    BY Connects DEF Sock!Emit, Sock!AfterConnect, Sock!AfterRead
  <2>2. Sock!Emit(Hello, Sock!AfterConnect(flags'))
    BY Connects
  <2> QED BY <1>1, <2>1, <2>2
          DEF OnConnected, Sock!ConnectCb, Sock!Emit, Sock!Appended,
              Sock!recvVars, brokerVars, Hello
<1>3. /\ Hello \in Seq(OutPacket) /\ Hello # << >> /\ Len(Hello) = 1
      /\ Head(Hello).type = "CONNECT" /\ Hello[1].type = "CONNECT" /\ DOMAIN Hello = {1}
  BY OutPackets DEF Hello
<1>4. TypeInv'
  <2>1. filterSet' \in BOOLEAN /\ subacked' \in BOOLEAN
    BY DEF OnConnected, TypeInv
  <2> QED BY <1>2, <1>3, <2>1 DEF TypeInv
<1>5. OnceInv'
  BY <1>2, <1>3, ClientAssumption DEF OnceInv, ClientAssumption, Id
<1>6. ConnectInv'
  BY <1>2, <1>3 DEF ConnectInv
<1>7. ConnackInv' /\ SubackInv' /\ GrantsFollowed'
  BY <1>2 DEF ConnackInv, SubackInv, GrantsFollowed, None, One
<1>8. SubscribeInv' /\ RequestInv'
  BY <1>2, <1>3 DEF SubscribeInv, RequestInv, None, One
<1> QED BY <1>4, <1>5, <1>6, <1>7, <1>8

\* PINGREQ, or nothing.
LEMMA OnPollStep ==
    ASSUME IInv, NEW ping \in BOOLEAN, ping => proto, OnPoll(ping)
    PROVE  IInv'
<1> USE DEF IInv
<1> DEFINE ps == IF ping THEN << PingReq >> ELSE << >>
<1>1. /\ Sock!Emit(ps, Sock!AfterPoll(flags)) /\ phase = "poll"
      /\ ~proto => ps = << >>
      /\ UNCHANGED << flags, proto, inq, mqttVars, brokerVars >>
  BY DEF OnPoll, Sock!PollCb, Sock!recvVars
<1>2. ps \in Seq(OutPacket) /\ \A t : t # "PINGREQ" => None(ps, t)
  BY OutPackets DEF None
<1> HIDE DEF ps
<1>3. /\ sendBuf' = sendBuf \o ps /\ queued' = queued \o ps
      /\ sendBuf' \in Seq(OutPacket) /\ queued' \in Seq(OutPacket)
      /\ out' = out /\ written' = written
      /\ phase' \in {Sock!AfterPoll(flags), "fault"}
  BY <1>1, <1>2, Emits
<1>4. TypeInv'
  BY <1>1, <1>3 DEF TypeInv, mqttVars, brokerVars
<1>5. (queued' # << >> <=> proto) /\ (~proto => UNCHANGED << queued, sendBuf >>)
  BY <1>1, <1>2, <1>3 DEF OnceInv, TypeInv
<1>6. OnceInv'
  <2>1. Sock!AfterPoll(flags) = "connect" => "CONNECTING" \in flags
    BY DEF Sock!AfterPoll, Sock!AfterConnect, Sock!AfterRead
  <2> QED BY <1>1, <1>3, <1>5, <2>1 DEF OnceInv, mqttVars
<1>7. ConnectInv'
  <2>1. CASE proto
    BY <1>1, <1>2, <2>1, EmitConnect DEF OnceInv
  <2>2. CASE ~proto
    BY <1>3, <1>5, <2>2 DEF ConnectInv
  <2> QED BY <2>1, <2>2
<1>8. SubscribeInv' /\ RequestInv'
  <2>1. filterSet' = filterSet
    BY <1>1 DEF mqttVars
  <2> QED BY <1>1, <1>2, <2>1, EmitSubscribe, EmitRequest DEF TypeInv
<1>9. ConnackInv' /\ SubackInv' /\ GrantsFollowed'
  BY <1>1, <1>3 DEF ConnackInv, SubackInv, GrantsFollowed, mqttVars, brokerVars
<1> QED BY <1>4, <1>6, <1>7, <1>8, <1>9

\* A packet is cut off recv_buf and answered with `ps`, which is not CONNECT.
\* What is left to show is what the handler does to its own state.
LEMMA ParseStep ==
    ASSUME IInv, NEW ps \in Seq(OutPacket), Sock!ParsePacket(ps),
           inq # << >>, None(ps, "CONNECT"),
           UNCHANGED brokerVars
    PROVE  /\ queued' = queued \o ps
           /\ Sock!Emit(ps, "parse")
           /\ proto /\ brRead > 0 /\ (~filterSet => Head(inq).type = "CONNACK")
           /\ inq' = Tail(inq) /\ brRead' = brRead /\ proto' = proto /\ granted' = granted
           /\ filterSet' \in BOOLEAN /\ subacked' \in BOOLEAN => TypeInv'
           /\ nextId' \in Id => OnceInv'
           /\ ConnectInv'
           /\ None(inq', "CONNACK")
           /\ filterSet' => ConnackInv'
           /\ One(inq', "SUBACK")
           /\ None(inq, "SUBACK") => None(inq', "SUBACK")
           /\ Head(inq).type = "SUBACK" => None(inq', "SUBACK")
<1> USE DEF IInv
<1>1. /\ inq' = Tail(inq) /\ Sock!Emit(ps, "parse")
      /\ UNCHANGED << flags, proto, brRead, granted >>
  BY DEF Sock!ParsePacket, brokerVars
<1>2. /\ sendBuf' = sendBuf \o ps /\ queued' = queued \o ps
      /\ sendBuf' \in Seq(OutPacket) /\ queued' \in Seq(OutPacket)
      /\ out' = out /\ written' = written
      /\ phase' \in {"parse", "fault"}
  BY <1>1, Emits
<1>3. brRead > 0 /\ proto /\ queued # << >> /\ (~filterSet => Head(inq).type = "CONNACK")
  <2>1. brRead \in Nat /\ brRead # 0 /\ Len(written) > 0
    BY DEF ConnackInv, TypeInv
  <2>2. written # << >>
    BY <2>1
  <2> QED BY <2>1, <2>2 DEF OnceInv, ConnackInv
<1>4. ConnectInv' /\ queued' # << >>
  BY <1>1, <1>3, EmitConnect
<1>5. None(inq', "CONNACK")
  BY <1>1, TailIs DEF ConnackInv, None
<1>6. /\ One(inq', "SUBACK")
      /\ None(inq, "SUBACK") => None(inq', "SUBACK")
      /\ Head(inq).type = "SUBACK" => None(inq', "SUBACK")
  <2>1. /\ Head(inq) = inq[1] /\ 1 \in DOMAIN inq
        /\ \A k \in DOMAIN inq' :
              k \in Nat /\ k + 1 \in DOMAIN inq /\ k + 1 # 1 /\ inq'[k] = inq[k + 1]
    BY <1>1, TailIs
  <2> QED BY <2>1 DEF SubackInv, None, One
<1>7. filterSet' => ConnackInv'
  <2>1. \A k \in DOMAIN inq' : inq'[k].type # "CONNACK"
    BY <1>5 DEF None
  <2> QED BY <1>1, <1>3, <1>5, <2>1 DEF ConnackInv
<1>8. filterSet' \in BOOLEAN /\ subacked' \in BOOLEAN => TypeInv'
  BY <1>1, <1>2, TailIs DEF TypeInv
<1>9. nextId' \in Id => OnceInv'
  BY <1>1, <1>2, <1>3, <1>4 DEF OnceInv
<1> QED BY <1>1, <1>2, <1>3, <1>4, <1>5, <1>6, <1>7, <1>8, <1>9

\* The ids of the CONNACK handler's packets.
LEMMA BurstIds ==
    ASSUME nextId \in Id
    PROVE  LET ids == [k \in 1..(NPublish + 1) |-> IdAfter(k)]
           IN  /\ ids \in [1..(NPublish + 1) -> Id]
               /\ IdAfter(NPublish + 1) \in Id
<1>1. \A k \in 1..(NPublish + 1) : IdAfter(k) \in Id
  BY IdAfterIs, ClientAssumption DEF ClientAssumption
<1>2. NPublish + 1 \in 1..(NPublish + 1)
  BY ClientAssumption DEF ClientAssumption
<1> QED BY <1>1, <1>2

\* SUBSCRIBE and the publications, once.
LEMMA OnConnackStep == IInv /\ OnConnack => IInv'
<1> SUFFICES ASSUME IInv, OnConnack PROVE IInv'
  OBVIOUS
<1> USE DEF IInv
<1> DEFINE ids == [k \in 1..(NPublish + 1) |-> IdAfter(k)]
           ps  == Burst(ids)
<1>1. /\ inq # << >> /\ Head(inq).type = "CONNACK" /\ Sock!ParsePacket(ps)
      /\ nextId' = IdAfter(NPublish + 1) /\ filterSet' = TRUE
      /\ UNCHANGED << efficient, subacked, brokerVars >>
  BY DEF OnConnack
<1>2. proto /\ nextId \in Id
  <2>1. brRead \in Nat /\ brRead # 0 /\ Len(written) > 0
    BY <1>1 DEF ConnackInv, TypeInv
  <2>2. written # << >>
    BY <2>1
  <2> QED BY <2>2 DEF OnceInv
<1>3. /\ ps \in Seq(OutPacket) /\ nextId' \in Id
      /\ None(ps, "CONNECT") /\ One(ps, "SUBSCRIBE")
  <2>1. ids \in [1..(NPublish + 1) -> Id] /\ nextId' \in Id
    BY <1>1, <1>2, BurstIds
  <2> HIDE DEF ids
  <2>2. \A k \in 1..(NPublish + 1) : ids[k] \in Id
    BY <2>1
  <2>3. /\ ps \in Seq(OutPacket) /\ Len(ps) = NPublish + 1
        /\ ps[1] = Subscribe(ids[1])
        /\ \A k \in 2 .. NPublish + 1 : ps[k] = Publish(ids[k])
    BY <2>1, BurstIs
  <2>4. 1 \in 1 .. NPublish + 1 /\ \A k \in 1 .. NPublish + 1 : k = 1 \/ k \in 2 .. NPublish + 1
    BY ClientAssumption DEF ClientAssumption
  <2>5. /\ ps[1].type = "SUBSCRIBE"
        /\ \A k \in 2 .. NPublish + 1 : ps[k].type = "PUBLISH"
    BY <2>2, <2>3, <2>4, OutPackets
  <2>6. DOMAIN ps = 1 .. NPublish + 1
    BY <2>3
  <2> HIDE DEF ps
  <2> QED BY <2>1, <2>3, <2>4, <2>5, <2>6 DEF None, One
<1> HIDE DEF ps
<1>4. ~filterSet /\ ~subacked
  <2>1. 1 \in DOMAIN inq /\ Head(inq) = inq[1]
    BY <1>1, TailIs
  <2>2. ~None(inq, "CONNACK")
    BY <1>1, <2>1 DEF None
  <2> QED BY <2>2 DEF ConnackInv, SubackInv
<1>5. TypeInv' /\ OnceInv' /\ ConnectInv' /\ ConnackInv'
  BY <1>1, <1>3, ParseStep DEF TypeInv
<1>6. SubscribeInv' /\ RequestInv'
  <2>1. Sock!Emit(ps, "parse")
    BY <1>1, <1>3, ParseStep
  <2> QED BY <1>1, <1>3, <1>4, <2>1, EmitSubscribe, EmitRequest
<1>7. SubackInv'
  <2>1. /\ One(inq', "SUBACK") /\ (None(inq, "SUBACK") => None(inq', "SUBACK"))
        /\ inq' = Tail(inq) /\ written' = written /\ brRead' = brRead /\ granted' = granted
    BY <1>1, <1>3, ParseStep, Emits DEF TypeInv, brokerVars
  <2>2. \A k \in DOMAIN inq' : inq'[k].type = "SUBACK" => inq'[k].granted = granted
    BY <1>1, <2>1, TailIs DEF SubackInv
  <2> QED BY <1>1, <1>4, <2>1, <2>2 DEF SubackInv
<1>8. GrantsFollowed'
  BY <1>1, <1>4 DEF GrantsFollowed
<1> QED BY <1>5, <1>6, <1>7, <1>8

\* The SUBACK that is parsed is the broker's last word on the filters.
LEMMA OnSubackStep == IInv /\ OnSuback => IInv'
<1> SUFFICES ASSUME IInv, OnSuback PROVE IInv'
  OBVIOUS
<1> USE DEF IInv
<1>1. /\ inq # << >> /\ Head(inq).type = "SUBACK" /\ Sock!ParsePacket(<< >>)
      /\ efficient' = Efficient(Head(inq)) /\ subacked' = TRUE
      /\ UNCHANGED << nextId, filterSet, brokerVars >>
  BY DEF OnSuback
<1>2. << >> \in Seq(OutPacket) /\ \A t : None(<< >>, t)
  BY DEF None
<1>3. /\ inq' = Tail(inq) /\ Sock!Emit(<< >>, "parse")
      /\ proto /\ (~filterSet => Head(inq).type = "CONNACK")
      /\ None(inq', "SUBACK") /\ One(inq', "SUBACK")
      /\ nextId' \in Id => OnceInv'
      /\ filterSet' \in BOOLEAN /\ subacked' \in BOOLEAN => TypeInv'
      /\ ConnectInv' /\ (filterSet' => ConnackInv')
  BY <1>1, <1>2, ParseStep
<1>4. filterSet /\ filterSet'
  BY <1>1, <1>3
<1>5. TypeInv' /\ OnceInv' /\ ConnectInv' /\ ConnackInv'
  BY <1>1, <1>3, <1>4 DEF TypeInv, OnceInv
<1>6. SubscribeInv' /\ RequestInv'
  BY <1>1, <1>2, <1>3, EmitSubscribe, EmitRequest DEF RequestInv
<1>7. Head(inq).granted = granted /\ ~None(inq, "SUBACK")
  BY <1>1, TailIs DEF SubackInv, None
<1>8. SubackInv'
  <2>1. written' = written /\ brRead' = brRead
    BY <1>1, <1>2, <1>3, Emits DEF brokerVars
  <2> QED BY <1>3, <1>4, <1>7, <2>1 DEF SubackInv, None
<1>9. GrantsFollowed'
  BY <1>1, <1>7 DEF GrantsFollowed, Efficient, brokerVars
<1> QED BY <1>5, <1>6, <1>8, <1>9

\* A PUBLISH, or a packet that is ignored: PINGRESP, PUBACK, PUBREL.
LEMMA OnPublishStep ==
    ASSUME IInv, OnPublish \/ OnOther
    PROVE  IInv'
<1> USE DEF IInv
<1> DEFINE ack == IF OnPublish THEN Ack(Head(inq).qos, IdAfter(1)) ELSE << >>
<1>1. /\ inq # << >> /\ Head(inq).type \notin {"CONNACK", "SUBACK"}
      /\ Sock!ParsePacket(ack)
      /\ UNCHANGED << filterSet, efficient, subacked, brokerVars >>
  BY DEF OnPublish, OnOther, mqttVars
<1>2. filterSet /\ proto /\ nextId \in Id
  <2>1. brRead \in Nat /\ brRead # 0 /\ Len(written) > 0
    BY <1>1 DEF ConnackInv, TypeInv
  <2>2. written # << >>
    BY <2>1
  <2> QED BY <1>1, <2>1, <2>2 DEF OnceInv, ConnackInv
<1>3. /\ ack \in Seq(OutPacket) /\ nextId' \in Id
      /\ None(ack, "CONNECT") /\ None(ack, "SUBSCRIBE")
  <2>1. IdAfter(1) \in Id /\ IdAfter(0) \in Id
    BY <1>2, IdAfterIs
  <2>2. CASE OnPublish
    <3>1. Head(inq).qos \in 0..2
      <4>1. Head(inq) \in InPacket /\ Head(inq).type = "PUBLISH"
        BY <1>1, <2>2, TailIs DEF OnPublish
      <4> QED BY <4>1 DEF InPacket
    <3>2. /\ ack \in {<< >>, << PubAck("PUBACK", IdAfter(1)) >>, << PubAck("PUBREC", IdAfter(1)) >>}
          /\ nextId' = IdAfter(Len(ack))
      BY <2>2, <3>1 DEF Ack, OnPublish
    <3> HIDE DEF ack
    <3>3. /\ << >> \in Seq(OutPacket) /\ Len(<< >>) = 0
          /\ \A t \in {"PUBACK", "PUBREC"} :
                /\ << PubAck(t, IdAfter(1)) >> \in Seq(OutPacket)
                /\ Len(<< PubAck(t, IdAfter(1)) >>) = 1
                /\ \A u : u # t => None(<< PubAck(t, IdAfter(1)) >>, u)
          /\ \A u : None(<< >>, u)
      BY <2>1, OutPackets DEF None
    <3>4. CASE ack = << >>
      BY <2>1, <3>2, <3>3, <3>4
    <3>5. ASSUME NEW t \in {"PUBACK", "PUBREC"}, ack = << PubAck(t, IdAfter(1)) >>
          PROVE  /\ ack \in Seq(OutPacket) /\ nextId' \in Id
                 /\ None(ack, "CONNECT") /\ None(ack, "SUBSCRIBE")
      <4>1. ack \in Seq(OutPacket) /\ Len(ack) = 1 /\ \A u : u # t => None(ack, u)
        BY <3>3, <3>5
      <4>2. t # "CONNECT" /\ t # "SUBSCRIBE"
        OBVIOUS
      <4> QED BY <2>1, <3>2, <4>1, <4>2
    <3> QED BY <3>2, <3>4, <3>5
  <2>3. CASE ~OnPublish
    <3>1. ack = << >> /\ nextId' = nextId
      BY <2>3 DEF OnOther, mqttVars
    <3>2. << >> \in Seq(OutPacket) /\ \A u : None(<< >>, u)
      BY DEF None
    <3> HIDE DEF ack
    <3> QED BY <1>2, <3>1, <3>2
  <2> QED BY <2>2, <2>3
<1> HIDE DEF ack
<1>4. /\ TypeInv' /\ OnceInv' /\ ConnectInv' /\ ConnackInv'
      /\ inq' = Tail(inq) /\ Sock!Emit(ack, "parse")
      /\ One(inq', "SUBACK") /\ (None(inq, "SUBACK") => None(inq', "SUBACK"))
  BY <1>1, <1>2, <1>3, ParseStep DEF TypeInv
<1>5. SubscribeInv' /\ RequestInv'
  BY <1>1, <1>2, <1>3, <1>4, EmitSubscribe, EmitRequest DEF TypeInv
<1>6. SubackInv' /\ GrantsFollowed'
  <2>1. written' = written /\ brRead' = brRead /\ granted' = granted
    BY <1>1, <1>3, <1>4, Emits DEF brokerVars
  <2>2. \A k \in DOMAIN inq' : inq'[k].type = "SUBACK" => inq'[k].granted = granted
    BY <1>1, <1>4, TailIs DEF SubackInv
  <2> QED BY <1>1, <1>4, <2>1, <2>2 DEF SubackInv, GrantsFollowed
<1> QED BY <1>4, <1>5, <1>6

\* A step that appends nothing, sends nothing and takes no packet off.
Quiet ==
    /\ UNCHANGED << sendBuf, out, queued, written, inq, proto >>
    /\ "CONNECTING" \in flags' => "CONNECTING" \in flags
    /\ phase' = "connect" => phase = "connect"

\* Such a step keeps every part of the invariant.
LEMMA QuietStep ==
    ASSUME IInv, Quiet, UNCHANGED << mqttVars, brokerVars >>
    PROVE  IInv'
<1> USE DEF IInv, Quiet, mqttVars, brokerVars
<1>1. TypeInv' /\ OnceInv' /\ ConnectInv'
  BY DEF TypeInv, OnceInv, ConnectInv, None
<1>2. ConnackInv' /\ SubscribeInv' /\ SubackInv'
  BY DEF ConnackInv, SubscribeInv, SubackInv, None, One
<1>3. RequestInv' /\ GrantsFollowed'
  BY DEF RequestInv, GrantsFollowed, None
<1> QED BY <1>1, <1>2, <1>3

\* An unfinished record is kept, or a new one is made of send_buf.
LEMMA WriteFailsStep ==
    ASSUME IInv, NEW failure, Sock!CanWriteCbFails(failure),
           UNCHANGED << mqttVars, brokerVars >>
    PROVE  IInv'
<1> USE DEF IInv, Sock!CanWriteCbFails, Sock!recvVars, mqttVars, brokerVars
<1>1. /\ UNCHANGED << sendBuf, queued, written, inq, proto >>
      /\ out' \in {out, sendBuf}
      /\ "CONNECTING" \in flags' => "CONNECTING" \in flags
      /\ phase' = "select"
  OBVIOUS
<1>2. TypeInv' /\ OnceInv'
  BY <1>1 DEF TypeInv, OnceInv
<1>3. ConnectInv'
  <2>1. Len(sendBuf) \in Nat
    BY DEF TypeInv
  <2>2. Len(out') <= Len(sendBuf) /\ \A k \in 1..Len(out') : out'[k] = sendBuf[k]
    BY <1>1, <2>1 DEF ConnectInv
  <2> QED BY <1>1, <2>2 DEF ConnectInv, None
<1>4. ConnackInv' /\ SubscribeInv' /\ SubackInv'
  BY <1>1 DEF ConnackInv, SubscribeInv, SubackInv, None, One
<1>5. RequestInv' /\ GrantsFollowed'
  BY <1>1 DEF RequestInv, GrantsFollowed, None
<1> QED BY <1>2, <1>3, <1>4, <1>5

\* send_buf, or the front of it that was encrypted before, goes out.
LEMMA WriteStep ==
    ASSUME IInv, Sock!CanWriteCb, UNCHANGED << mqttVars, brokerVars >>
    PROVE  IInv'
<1> USE DEF IInv
<1> DEFINE record == IF out = << >> THEN sendBuf ELSE out
<1>1. /\ sendBuf # << >> /\ written' = written \o record /\ out' = << >>
      /\ sendBuf' = SubSeq(sendBuf, Len(sendBuf) + 1, Len(sendBuf))
      /\ UNCHANGED << queued, inq, proto >>
      /\ "CONNECTING" \in flags' => "CONNECTING" \in flags
      /\ phase' = "select"
  BY DEF Sock!CanWriteCb, Sock!Shifted, Sock!recvVars
<1>2. sendBuf' = << >>
  BY <1>1 DEF TypeInv
<1>3. /\ record \in Seq(OutPacket) /\ record # << >>
      /\ Len(record) <= Len(sendBuf) /\ \A k \in 1..Len(record) : record[k] = sendBuf[k]
      /\ Len(record) \in Nat /\ Len(sendBuf) \in Nat /\ Len(record) # 0
  <2>1. CASE out = << >>
    BY <1>1, <2>1 DEF TypeInv
  <2>2. CASE out # << >>
    BY <1>1, <2>2 DEF TypeInv, ConnectInv
  <2> QED BY <2>1, <2>2
<1> HIDE DEF record
<1>4. DOMAIN record \subseteq DOMAIN sendBuf /\ \A k \in DOMAIN record : record[k] = sendBuf[k]
  BY <1>3 DEF TypeInv
<1>5. \A t : (None(sendBuf, t) => None(record, t)) /\ (One(sendBuf, t) => One(record, t))
  BY <1>4 DEF None, One
<1>6. /\ written' \in Seq(OutPacket) /\ Len(written') = Len(written) + Len(record)
      /\ Len(written) \in Nat
      /\ written' # << >> /\ \A k \in 1..Len(written) : written'[k] = written[k]
      /\ \A k \in DOMAIN written' :
            \/ k \in DOMAIN written /\ written'[k] = written[k]
            \/ k - Len(written) \in DOMAIN record /\ written'[k] = record[k - Len(written)]
      /\ written = << >> => written' = record
      /\ written # << >> => Head(written') = Head(written)
  <2>1. /\ written \in Seq(OutPacket) /\ Len(written) \in Nat
        /\ DOMAIN written = 1..Len(written) /\ DOMAIN record = 1..Len(record)
        /\ (written = << >>) <=> (Len(written) = 0)
    BY <1>3 DEF TypeInv
  <2>2. /\ written' \in Seq(OutPacket) /\ Len(written') = Len(written) + Len(record)
        /\ \A k \in 1..Len(written) : written'[k] = written[k]
        /\ \A k \in 1 .. Len(written) + Len(record) : k > Len(written) =>
              k - Len(written) \in 1..Len(record) /\ written'[k] = record[k - Len(written)]
    BY <1>1, <1>3, <2>1
  <2>3. DOMAIN written' = 1 .. Len(written) + Len(record) /\ written' # << >>
    BY <1>3, <2>1, <2>2
  <2>4. written = << >> => written' = record
    BY <1>1, <1>3
  <2>5. written # << >> => Head(written') = Head(written)
    <3> SUFFICES ASSUME written # << >> PROVE Head(written') = Head(written)
      OBVIOUS
    <3>1. Head(written) = written[1] /\ 1 \in 1..Len(written)
      BY <2>1
    <3>2. Head(written') = written'[1]
      BY <2>2, <2>3
    <3> QED BY <2>2, <3>1, <3>2
  <2>6. \A k \in DOMAIN written' :
           k \in 1..Len(written) \/ (k \in 1 .. Len(written) + Len(record) /\ k > Len(written))
    BY <1>3, <2>1, <2>3
  <2>7. \A k \in DOMAIN written' :
           \/ k \in DOMAIN written /\ written'[k] = written[k]
           \/ k - Len(written) \in DOMAIN record /\ written'[k] = record[k - Len(written)]
    BY <2>1, <2>2, <2>6
  <2> QED BY <2>1, <2>2, <2>3, <2>4, <2>5, <2>7
<1>7. TypeInv'
  BY <1>1, <1>2, <1>6 DEF TypeInv, mqttVars, brokerVars
<1>8. queued # << >>
  <2>1. written = << >> => queued # << >>
    BY <1>1 DEF ConnectInv
  <2> QED BY <2>1 DEF OnceInv
<1>9. OnceInv'
  BY <1>1, <1>8 DEF OnceInv, mqttVars
<1>10. /\ Head(written').type = "CONNECT"
       /\ \A k \in DOMAIN written' : k > 1 => written'[k].type # "CONNECT"
  <2>1. CASE written = << >>
    <3>1. written' = record /\ sendBuf = queued
      BY <1>6, <2>1 DEF ConnectInv
    <3>2. /\ Head(record) = record[1] /\ record[1] = queued[1] /\ Head(queued) = queued[1]
          /\ \A k \in DOMAIN record : k \in DOMAIN queued /\ record[k] = queued[k]
      BY <1>1, <1>3, <1>4, <3>1 DEF TypeInv
    <3> QED BY <1>8, <3>1, <3>2 DEF ConnectInv
  <2>2. CASE written # << >>
    <3>1. None(record, "CONNECT")
      BY <1>5, <2>2 DEF ConnectInv
    <3> QED BY <1>6, <2>2, <3>1 DEF ConnectInv, None
  <2> QED BY <2>1, <2>2
<1>11. ConnectInv'
  BY <1>1, <1>2, <1>6, <1>10 DEF ConnectInv, None
<1>12. ConnackInv' /\ RequestInv' /\ GrantsFollowed'
  BY <1>1 DEF ConnackInv, RequestInv, GrantsFollowed, mqttVars, brokerVars
<1>13. SubscribeInv'
  <2>1. One(written', "SUBSCRIBE")
    BY <1>1, <1>3, <1>5, OneConcat DEF TypeInv, SubscribeInv
  <2>2. None(written', "SUBSCRIBE") <=> None(written, "SUBSCRIBE") /\ None(record, "SUBSCRIBE")
    BY <1>1, <1>3, NoneConcat DEF TypeInv
  <2>3. None(sendBuf', "SUBSCRIBE") /\ One(sendBuf', "SUBSCRIBE")
    BY <1>2 DEF None, One
  <2> QED BY <1>5, <2>1, <2>2, <2>3 DEF SubscribeInv, mqttVars
<1>14. SubackInv'
  <2>1. \A k \in 1..brRead : k \in 1..Len(written)
    BY DEF TypeInv
  <2> QED BY <1>1, <1>6, <2>1 DEF SubackInv, mqttVars, brokerVars
<1> QED BY <1>7, <1>9, <1>11, <1>12, <1>13, <1>14

\* The loop without the MQTT layer: only a write matters.
LEMMA LoopStep == IInv /\ Loop => IInv'
<1> SUFFICES ASSUME IInv, Loop PROVE IInv'
  OBVIOUS
<1>1. UNCHANGED << mqttVars, brokerVars >>
  BY DEF Loop
<1> USE DEF Quiet, Sock!AfterRead, Sock!sendVars, Sock!recvVars, Sock!loopVars
<1>2. CASE \E ready \in SUBSET {"CAN_RD", "CAN_WR"} : Sock!SockPoll(ready)
  <2>1. Quiet
    BY <1>2 DEF Sock!SockPoll
  <2> QED BY <1>1, <2>1, QuietStep
<1>3. CASE Sock!HandshakeSpin \/ Sock!Halted
  <2>1. Quiet
    BY <1>3 DEF Sock!HandshakeSpin, Sock!Halted, Sock!vars
  <2> QED BY <1>1, <2>1, QuietStep
<1>4. CASE Sock!CanReadCb \/ Sock!CanReadCbAlert \/ Sock!CanReadCbControl
        \/ Sock!CanReadCbFails
  <2>1. Quiet
    BY <1>4 DEF Sock!CanReadCb, Sock!CanReadCbAlert,
                Sock!CanReadCbControl, Sock!CanReadCbFails
  <2> QED BY <1>1, <2>1, QuietStep
<1>5. CASE Sock!ParseFragment \/ Sock!ParseEnd
  <2>1. Quiet
    BY <1>5 DEF Sock!ParseFragment, Sock!ParseEnd
  <2> QED BY <1>1, <2>1, QuietStep
<1>6. CASE Sock!CanWriteCbEmpty \/ Sock!HandshakeResumes \/ Sock!SigPipe
  <2>1. Quiet
    BY <1>6 DEF Sock!CanWriteCbEmpty, Sock!HandshakeResumes, Sock!SigPipe
  <2> QED BY <1>1, <2>1, QuietStep
<1>7. CASE Sock!CanWriteCb
  BY <1>1, <1>7, WriteStep
<1>8. CASE \E failure \in {"zero", "error"} : Sock!CanWriteCbFails(failure)
  BY <1>1, <1>8, WriteFailsStep
<1> QED BY <1>2, <1>3, <1>4, <1>5, <1>6, <1>7, <1>8 DEF Loop

-----------------------------------------------------------------------------
(* Steps of the broker.                                                    *)

\* The broker's answer: CONNACK to CONNECT, SUBACK to SUBSCRIBE, else neither.
LEMMA BrokerReadsStep == IInv /\ BrokerReads => IInv'
<1> SUFFICES ASSUME IInv, BrokerReads PROVE IInv'
  OBVIOUS
<1> USE DEF IInv
<1> DEFINE p == written[brRead + 1]
<1>1. /\ brRead < Len(written) /\ brRead' = brRead + 1
      /\ UNCHANGED << flags, phase, proto, sendBuf, out, queued, written, mqttVars >>
      /\ \/ \E reply \in Replies(p) :
              /\ inq' = Append(inq, reply)
              /\ granted' = IF reply.type = "SUBACK" THEN reply.granted ELSE granted
         \/ Replies(p) = {} /\ UNCHANGED << inq, granted >>
  BY DEF BrokerReads, Sock!PeerSend, Sock!loopVars, Sock!sendVars
<1>2. /\ brRead + 1 \in DOMAIN written /\ p \in OutPacket /\ brRead \in Nat
      /\ brRead' \in 0..Len(written') /\ written # << >>
      /\ brRead = 0 => p = Head(written)
  BY <1>1 DEF TypeInv
<1>3. p.type = "CONNECT" <=> brRead = 0
  BY <1>2 DEF ConnectInv
<1>4. p.type = "SUBSCRIBE" =>
        /\ ~\E k \in 1..brRead : written[k].type = "SUBSCRIBE"
        /\ ~subacked /\ None(inq, "SUBACK") /\ brRead # 0
  <2>1. \A k \in 1..brRead : k \in DOMAIN written /\ k # brRead + 1
    BY <1>2 DEF TypeInv
  <2> QED BY <1>2, <1>3, <2>1 DEF SubscribeInv, SubackInv, One
<1> HIDE DEF p
<1>5. OnceInv' /\ ConnectInv' /\ SubscribeInv' /\ RequestInv'
  BY <1>1 DEF OnceInv, ConnectInv, SubscribeInv, RequestInv, mqttVars
<1>6. CASE Replies(p) = {} /\ UNCHANGED << inq, granted >>
  <2>1. p.type # "CONNECT" /\ brRead # 0
    <3>1. [type |-> "CONNACK"] \in [type : {"CONNACK"}]
      OBVIOUS
    <3>2. p.type = "CONNECT" => Replies(p) = [type : {"CONNACK"}]
      BY DEF Replies
    <3> QED BY <1>3, <1>6, <3>1, <3>2
  <2>2. TypeInv' /\ ConnackInv' /\ GrantsFollowed'
    BY <1>1, <1>2, <1>6, <2>1 DEF TypeInv, ConnackInv, GrantsFollowed, mqttVars, None
  <2>3. SubackInv'
    <3>1. \A k \in 1..brRead : k \in 1..brRead'
      BY <1>1, <1>2
    <3> QED BY <1>1, <1>6, <3>1 DEF SubackInv, mqttVars, None
  <2> QED BY <1>5, <2>2, <2>3
<1>7. ASSUME NEW reply \in Replies(p),
             inq' = Append(inq, reply),
             granted' = IF reply.type = "SUBACK" THEN reply.granted ELSE granted
      PROVE  IInv'
  <2>1. /\ reply \in InPacket
        /\ reply.type = "CONNACK" <=> brRead = 0
        /\ reply.type = "SUBACK" <=> p.type = "SUBSCRIBE"
    BY <1>2, <1>3, InPackets
  <2>2. Appends(reply)
    BY <1>7, <2>1, AppendIs
  <2> USE DEF Appends
  <2>3. TypeInv'
    BY <1>1, <1>2, <2>2 DEF TypeInv, mqttVars
  <2>4. ConnackInv'
    BY <1>1, <1>2, <2>1, <2>2 DEF ConnackInv, None, mqttVars
  <2>5. SubackInv'
    <3>1. \A k \in 1..brRead : k \in 1..brRead'
      BY <1>1, <1>2
    <3>2. brRead + 1 \in 1..brRead' /\ written'[brRead + 1] = p
      BY <1>1, <1>2 DEF p
    <3>3. CASE reply.type = "SUBACK"
      BY <1>1, <1>4, <1>7, <2>1, <2>2, <3>2, <3>3 DEF SubackInv, None, One, mqttVars
    <3>4. CASE reply.type # "SUBACK"
      <4>1. /\ granted' = granted /\ UNCHANGED << subacked, filterSet >>
            /\ None(inq', "SUBACK") <=> None(inq, "SUBACK")
            /\ One(inq', "SUBACK")
            /\ \A k \in DOMAIN inq' : inq'[k].type = "SUBACK" => inq'[k].granted = granted
        BY <1>1, <1>7, <2>2, <3>4 DEF SubackInv, None, One, mqttVars
      <4> QED BY <1>1, <3>1, <4>1 DEF SubackInv
    <3> QED BY <3>3, <3>4
  <2>6. GrantsFollowed'
    BY <1>1, <1>4, <1>7, <2>1 DEF GrantsFollowed, mqttVars
  <2> QED BY <1>5, <2>3, <2>4, <2>5, <2>6
<1> QED BY <1>1, <1>6, <1>7

\* A publication comes after CONNACK, which was sent first.
LEMMA BrokerPublishesStep ==
    ASSUME IInv, NEW topic \in Topics, NEW qos \in 0..2, BrokerPublishes(topic, qos)
    PROVE  IInv'
<1> USE DEF IInv
<1> DEFINE p == [type |-> "PUBLISH", topic |-> topic, qos |-> qos]
<1>1. /\ brRead > 0 /\ inq' = Append(inq, p)
      /\ UNCHANGED << flags, phase, proto, sendBuf, out, queued, written,
                      granted, brRead, mqttVars >>
  BY DEF BrokerPublishes, Sock!PeerSend, Sock!loopVars, Sock!sendVars
<1>2. p \in InPacket /\ p.type = "PUBLISH"
  BY Published
<1> HIDE DEF p
<1>3. Appends(p)
  BY <1>1, <1>2, AppendIs
<1> USE DEF Appends
<1>4. TypeInv'
  BY <1>1, <1>3 DEF TypeInv, mqttVars
<1>5. OnceInv' /\ ConnectInv' /\ SubscribeInv' /\ RequestInv' /\ GrantsFollowed'
  BY <1>1 DEF OnceInv, ConnectInv, SubscribeInv, RequestInv, GrantsFollowed, mqttVars
<1>6. ConnackInv'
  <2>1. brRead # 0
    BY <1>1 DEF TypeInv
  <2> QED BY <1>1, <1>2, <1>3, <2>1 DEF ConnackInv, None, mqttVars
<1>7. SubackInv'
  <2>1. /\ None(inq', "SUBACK") <=> None(inq, "SUBACK")
        /\ One(inq', "SUBACK")
        /\ \A k \in DOMAIN inq' : inq'[k].type = "SUBACK" => inq'[k].granted = granted
    BY <1>2, <1>3 DEF SubackInv, None, One
  <2> QED BY <1>1, <2>1 DEF SubackInv, mqttVars
<1> QED BY <1>4, <1>5, <1>6, <1>7

\* The broker's end of the connection carries no packets.
LEMMA BrokerGoesStep == IInv /\ BrokerGoes => IInv'
<1> SUFFICES ASSUME IInv, BrokerGoes PROVE IInv'
  OBVIOUS
<1>1. Quiet /\ UNCHANGED << mqttVars, brokerVars >>
  BY DEF BrokerGoes, Quiet, Sock!PeerClose, Sock!PeerReset, Sock!PeerControl,
         Sock!sendVars, Sock!recvVars, Sock!loopVars
<1> QED BY <1>1, QuietStep

-----------------------------------------------------------------------------
(* The invariant, and what follows from it.                                *)

\* The invariant holds at first, and each step keeps it.
LEMMA InitInv == Init => IInv
<1> SUFFICES ASSUME Init PROVE IInv
  OBVIOUS
<1> USE DEF Init, Sock!Init
<1>1. TypeInv /\ OnceInv
  <2>1. \A S : << >> \in Seq(S)
    OBVIOUS
  <2>2. 0 \in 0..Len(<< >>)
    OBVIOUS
  <2>3. TypeInv
    BY <2>1, <2>2 DEF TypeInv
  <2>4. OnceInv
    BY DEF OnceInv
  <2> QED BY <2>3, <2>4
<1>2. ConnectInv /\ ConnackInv
  BY DEF ConnectInv, ConnackInv, None
<1>3. SubscribeInv /\ SubackInv
  BY DEF SubscribeInv, SubackInv, None, One
<1>4. RequestInv /\ GrantsFollowed
  BY DEF RequestInv, GrantsFollowed, None
<1> QED BY <1>1, <1>2, <1>3, <1>4 DEF IInv

LEMMA NextInv == IInv /\ [Next]_vars => IInv'
<1> SUFFICES ASSUME IInv, [Next]_vars PROVE IInv'
  OBVIOUS
<1>1. CASE OnConnected
  BY <1>1, OnConnectedStep
<1>2. CASE \E ping \in BOOLEAN : (ping => proto /\ Pings < MaxPings) /\ OnPoll(ping)
  BY <1>2, OnPollStep
<1>3. CASE OnConnack
  BY <1>3, OnConnackStep
<1>4. CASE OnSuback
  BY <1>4, OnSubackStep
<1>5. CASE OnPublish \/ OnOther
  BY <1>5, OnPublishStep
<1>6. CASE Loop
  BY <1>6, LoopStep
<1>7. CASE BrokerReads
  BY <1>7, BrokerReadsStep
<1>8. CASE \E topic \in Topics, qos \in 0..2 : BrokerPublishes(topic, qos)
  BY <1>8, BrokerPublishesStep
<1>9. CASE BrokerGoes
  BY <1>9, BrokerGoesStep
<1>10. CASE UNCHANGED vars
  <2>1. Quiet /\ UNCHANGED << mqttVars, brokerVars >>
    BY <1>10 DEF Quiet, vars, Sock!vars, Sock!sendVars, Sock!recvVars, Sock!loopVars
  <2> QED BY <2>1, QuietStep
<1> QED BY <1>1, <1>2, <1>3, <1>4, <1>5, <1>6, <1>7, <1>8, <1>9, <1>10
        DEF Next, Client, Handler, Broker

LEMMA Invariant == Spec => []IInv
BY InitInv, NextInv, PTL DEF Spec

\* Whatever the broker publishes and whenever, also on subscriptions of an
\* earlier session and before SUBACK, the parser finds the filters written.
THEOREM FiltersWritten == Spec => []NoWildFilter
<1>1. IInv => NoWildFilter
  <2> SUFFICES ASSUME IInv, inq # << >>, Head(inq).type = "PUBLISH" PROVE filterSet
    BY DEF NoWildFilter
  <2>1. brRead = 0 \/ brRead > 0
    BY DEF IInv, TypeInv
  <2> QED BY <2>1 DEF IInv, ConnackInv
<1> QED BY <1>1, Invariant, PTL

\* After the SUBACK the client's idea of its subscriptions is the broker's.
THEOREM GrantsKnown == Spec => []GrantsFollowed
<1>1. IInv => GrantsFollowed
  BY DEF IInv
<1> QED BY <1>1, Invariant, PTL
-----------------------------------------------------------------------------
(* The session.                                                            *)

\* What MqttSession calls `sent`.
Types(s) == [k \in DOMAIN s |-> s[k].type]

\* The stream grows by the packets the handlers append.
LEMMA TypesConcat ==
    ASSUME NEW s \in Seq(OutPacket), NEW r \in Seq(OutPacket)
    PROVE  Types(s \o r) = Types(s) \o Types(r)
<1> DEFINE All == {p.type : p \in OutPacket}
<1>1. ASSUME NEW q \in Seq(OutPacket)
      PROVE  /\ Types(q) \in Seq(All) /\ Len(Types(q)) = Len(q)
             /\ \A k \in 1..Len(q) : Types(q)[k] = q[k].type
  BY <1>1 DEF Types
<1> HIDE DEF All
<1>2. /\ s \o r \in Seq(OutPacket) /\ Len(s \o r) = Len(s) + Len(r)
      /\ \A k \in 1..Len(s) : (s \o r)[k] = s[k]
      /\ \A k \in 1 .. Len(s) + Len(r) : k > Len(s) =>
            k - Len(s) \in 1..Len(r) /\ (s \o r)[k] = r[k - Len(s)]
      /\ Len(s) \in Nat /\ Len(r) \in Nat
  OBVIOUS
<1>3. /\ Types(s) \in Seq(All) /\ Len(Types(s)) = Len(s)
      /\ \A k \in 1..Len(s) : Types(s)[k] = s[k].type
  BY <1>1
<1>4. /\ Types(r) \in Seq(All) /\ Len(Types(r)) = Len(r)
      /\ \A k \in 1..Len(r) : Types(r)[k] = r[k].type
  BY <1>1
<1>5. /\ Types(s \o r) \in Seq(All) /\ Len(Types(s \o r)) = Len(s) + Len(r)
      /\ \A k \in 1 .. Len(s) + Len(r) : Types(s \o r)[k] = (s \o r)[k].type
  BY <1>1, <1>2
<1> DEFINE a == Types(s \o r)
           b == Types(s) \o Types(r)
<1>6. /\ b \in Seq(All) /\ Len(b) = Len(s) + Len(r)
      /\ \A k \in 1..Len(s) : b[k] = Types(s)[k]
      /\ \A k \in 1 .. Len(s) + Len(r) : k > Len(s) => b[k] = Types(r)[k - Len(s)]
  <2>1. ASSUME NEW u \in Seq(All), NEW v \in Seq(All)
        PROVE  /\ u \o v \in Seq(All) /\ Len(u \o v) = Len(u) + Len(v)
               /\ \A k \in 1..Len(u) : (u \o v)[k] = u[k]
               /\ \A k \in 1 .. Len(u) + Len(v) : k > Len(u) => (u \o v)[k] = v[k - Len(u)]
    OBVIOUS
  <2>2. /\ b \in Seq(All) /\ Len(b) = Len(Types(s)) + Len(Types(r))
        /\ \A k \in 1..Len(Types(s)) : b[k] = Types(s)[k]
        /\ \A k \in 1 .. Len(Types(s)) + Len(Types(r)) :
              k > Len(Types(s)) => b[k] = Types(r)[k - Len(Types(s))]
    BY <1>3, <1>4, <2>1
  <2> HIDE DEF b
  <2> QED BY <1>3, <1>4, <2>2
<1> HIDE DEF a, b
<1>7. ASSUME NEW k \in 1 .. Len(s) + Len(r) PROVE a[k] = b[k]
  <2>1. CASE k <= Len(s)
    BY <1>2, <1>3, <1>5, <1>6, <2>1 DEF a
  <2>2. CASE k > Len(s)
    BY <1>2, <1>4, <1>5, <1>6, <2>2 DEF a
  <2> QED BY <1>2, <2>1, <2>2
<1>8. a = b
  BY <1>2, <1>5, <1>6, <1>7 DEF a
<1> QED BY <1>8 DEF a, b

\* The state of the session, without CASE.
LEMMA StateIs ==
    ASSUME IInv
    PROVE  /\ filterSet => queued # << >>
           /\ subacked => filterSet
           /\ queued = << >> => SessionState = "new"
           /\ queued # << >> /\ ~filterSet => SessionState = "connecting"
           /\ filterSet /\ ~subacked => SessionState = "connected"
           /\ subacked => SessionState = "subscribed"
<1>1. filterSet => queued # << >>
  <2> SUFFICES ASSUME filterSet PROVE queued # << >>
    OBVIOUS
  <2>1. brRead # 0
    BY DEF IInv, ConnackInv
  <2>2. written # << >>
    BY <2>1 DEF IInv, TypeInv
  <2> QED BY <2>2 DEF IInv, OnceInv
<1>2. subacked => filterSet
  BY DEF IInv, SubackInv
<1> QED BY <1>1, <1>2 DEF SessionState

\* What holds while a packet is parsed.
LEMMA Parsing ==
    ASSUME IInv, inq # << >>
    PROVE  /\ proto /\ nextId \in Id /\ queued # << >>
           /\ ~filterSet => Head(inq).type = "CONNACK"
           /\ Head(inq).type = "CONNACK" => ~filterSet /\ ~subacked
           /\ Head(inq).type = "SUBACK" => ~subacked
           /\ Head(inq).type = "PUBLISH" => Head(inq).qos \in 0..2
<1> USE DEF IInv
<1>1. brRead \in Nat /\ brRead # 0 /\ written # << >>
  BY DEF ConnackInv, TypeInv
<1>2. 1 \in DOMAIN inq /\ Head(inq) = inq[1] /\ Head(inq) \in InPacket
  BY TailIs
<1>3. Head(inq).type = "PUBLISH" => Head(inq).qos \in 0..2
  BY <1>2 DEF InPacket
<1>4. Head(inq).type = "CONNACK" => ~None(inq, "CONNACK")
  BY <1>2 DEF None
<1>5. Head(inq).type = "SUBACK" => ~None(inq, "SUBACK")
  BY <1>2 DEF None
<1>6. subacked => filterSet
  BY DEF SubackInv
<1> QED BY <1>1, <1>3, <1>4, <1>5, <1>6 DEF OnceInv, ConnackInv, SubackInv

\* What a handler hands to the stream.
LEMMA Sends ==
    ASSUME IInv, NEW ps \in Seq(OutPacket), NEW next, Sock!Emit(ps, next)
    PROVE  Types(queued') = Types(queued) \o Types(ps)
<1>1. queued \in Seq(OutPacket) /\ queued' = queued \o ps
  BY Emits DEF IInv, TypeInv
<1> QED BY <1>1, TypesConcat

\* One packet, or none.
LEMMA OneType ==
    ASSUME IInv
    PROVE  /\ Types(queued) \o Types(<< >>) = Types(queued)
           /\ \A p \in OutPacket :
                 Types(queued) \o Types(<< p >>) = Append(Types(queued), p.type)
<1> DEFINE All == {p.type : p \in OutPacket}
<1>1. Types(queued) \in Seq(All)
  BY DEF IInv, TypeInv, Types
<1>2. Types(<< >>) = << >>
  BY DEF Types
<1>3. \A p \in OutPacket : Types(<< p >>) = << p.type >> /\ p.type \in All
  BY DEF Types
<1> HIDE DEF All
<1>4. ASSUME NEW t \in Seq(All)
      PROVE  t \o << >> = t /\ \A x \in All : t \o << x >> = Append(t, x)
  OBVIOUS
<1>5. /\ Types(queued) \o << >> = Types(queued)
      /\ \A x \in All : Types(queued) \o << x >> = Append(Types(queued), x)
  BY <1>1, <1>4
<1> QED BY <1>2, <1>3, <1>5

\* A step of MqttSession that changes nothing.
Stutters == Types(queued') = Types(queued) /\ SessionState' = SessionState

\* Each handler step is the step of MqttSession of its name, or changes nothing.
LEMMA SessionConnect == IInv /\ IInv' /\ OnConnected => Session!Connect
<1> SUFFICES ASSUME IInv, IInv', OnConnected PROVE Session!Connect
  OBVIOUS
<1>1. queued = << >>
  BY Connects
<1>2. Sock!Emit(Hello, Sock!AfterConnect(flags')) /\ ~filterSet'
  BY Connects DEF OnConnected
<1>3. /\ Hello \in Seq(OutPacket) /\ Hello = << Connect >>
      /\ Connect \in OutPacket /\ Connect.type = "CONNECT"
  BY OutPackets DEF Hello
<1>4. Types(queued') = Append(Types(queued), "CONNECT")
  BY <1>2, <1>3, Sends, OneType
<1>5. queued' # << >>
  <2>1. queued' = queued \o << Connect >>
    BY <1>2, <1>3, Emits DEF IInv
  <2>2. queued \in Seq(OutPacket)
    BY DEF IInv, TypeInv
  <2> QED BY <1>3, <2>1, <2>2
<1>6. SessionState = "new"
  BY <1>1, StateIs
<1>7. SessionState' = "connecting"
  <2>1. ~subacked'
    BY <1>2 DEF IInv, SubackInv
  <2> QED BY <1>2, <1>5, <2>1 DEF SessionState
<1> QED BY <1>4, <1>6, <1>7 DEF Session!Connect, Types

LEMMA SessionPing ==
    ASSUME IInv, IInv', NEW ping \in BOOLEAN, ping => proto, OnPoll(ping)
    PROVE  Session!Ping \/ Stutters
<1> DEFINE ps == IF ping THEN << PingReq >> ELSE << >>
<1>1. /\ Sock!Emit(ps, Sock!AfterPoll(flags))
      /\ UNCHANGED << filterSet, subacked >>
  BY DEF OnPoll, Sock!PollCb, mqttVars
<1>2. ps \in Seq(OutPacket)
  BY OutPackets
<1>3. Types(queued') = Types(queued) \o Types(ps) /\ queued' = queued \o ps
  BY <1>1, <1>2, Sends, Emits DEF IInv
<1>4. queued \in Seq(OutPacket)
  BY DEF IInv, TypeInv
<1>5. CASE ping
  <2>1. queued # << >> /\ ps = << PingReq >>
    BY <1>5 DEF IInv, OnceInv
  <2>2. queued' # << >>
    BY <1>3, <1>4, <2>1
  <2>3. Types(queued') = Append(Types(queued), "PINGREQ")
    BY <1>3, <2>1, OneType, OutPackets
  <2>4. SessionState # "new" /\ SessionState' = SessionState
    BY <1>1, <2>1, <2>2, StateIs DEF SessionState
  <2> QED BY <2>3, <2>4 DEF Session!Ping, Types
<1>6. CASE ~ping
  <2>1. Types(queued') = Types(queued) /\ queued' = queued
    BY <1>3, <1>4, <1>6, OneType
  <2> QED BY <1>1, <2>1 DEF Stutters, SessionState
<1> QED BY <1>5, <1>6

LEMMA SessionAccepted == IInv /\ IInv' /\ OnConnack => Session!Accepted
<1> SUFFICES ASSUME IInv, IInv', OnConnack PROVE Session!Accepted
  OBVIOUS
<1> DEFINE ids == [k \in 1..(NPublish + 1) |-> IdAfter(k)]
           ps  == Burst(ids)
<1>1. /\ inq # << >> /\ Head(inq).type = "CONNACK" /\ Sock!Emit(ps, "parse")
      /\ filterSet' /\ subacked' = subacked
  BY DEF OnConnack, Sock!ParsePacket
<1>2. nextId \in Id /\ queued # << >> /\ ~filterSet /\ ~subacked
  BY <1>1, Parsing
<1>3. ids \in [1..(NPublish + 1) -> Id]
  BY <1>2, BurstIds
<1> HIDE DEF ids
<1>4. ps \in Seq(OutPacket) /\ Types(ps) = Session!Greeting
  <2>1. /\ ps \in Seq(OutPacket) /\ Len(ps) = NPublish + 1
        /\ ps[1] = Subscribe(ids[1])
        /\ \A k \in 2 .. NPublish + 1 : ps[k] = Publish(ids[k])
    BY <1>3, BurstIs
  <2> HIDE DEF ps
  <2>2. \A k \in 1..(NPublish + 1) : ids[k] \in Id
    BY <1>3
  <2>3. 1 \in 1 .. NPublish + 1 /\ \A k \in 2 .. NPublish + 1 : k \in 1 .. NPublish + 1
    BY ClientAssumption DEF ClientAssumption
  <2>4. /\ ps[1].type = "SUBSCRIBE"
        /\ \A k \in 2 .. NPublish + 1 : ps[k].type = "PUBLISH"
    BY <2>1, <2>2, <2>3, OutPackets
  <2> DEFINE All == {"SUBSCRIBE", "PUBLISH"}
             a == Types(ps)
             b == Session!Greeting
             pubs == [k \in 1..NPublish |-> "PUBLISH"]
  <2>5. /\ a \in Seq(All) /\ Len(a) = NPublish + 1 /\ a[1] = "SUBSCRIBE"
        /\ \A k \in 2 .. NPublish + 1 : a[k] = "PUBLISH"
    <3>1. DOMAIN ps = 1 .. NPublish + 1 /\ NPublish + 1 \in Nat
      BY <2>1, ClientAssumption DEF ClientAssumption
    <3>2. \A k \in 1 .. NPublish + 1 : k = 1 \/ k \in 2 .. NPublish + 1
      BY ClientAssumption DEF ClientAssumption
    <3>3. \A k \in 1 .. NPublish + 1 : ps[k].type \in All
      BY <2>4, <3>2
    <3> HIDE DEF All
    <3>4. a = [k \in 1 .. NPublish + 1 |-> ps[k].type]
      BY <3>1 DEF Types
    <3>5. a \in [1 .. NPublish + 1 -> All]
      BY <3>3, <3>4
    <3> QED BY <2>3, <2>4, <3>1, <3>4, <3>5
  <2>6. /\ b \in Seq(All) /\ Len(b) = NPublish + 1 /\ b[1] = "SUBSCRIBE"
        /\ \A k \in 2 .. NPublish + 1 : b[k] = "PUBLISH"
    <3>1. pubs \in Seq(All) /\ Len(pubs) = NPublish /\ \A k \in 1..NPublish : pubs[k] = "PUBLISH"
      BY ClientAssumption DEF ClientAssumption
    <3>2. << "SUBSCRIBE" >> \in Seq(All)
      OBVIOUS
    <3>3. b = << "SUBSCRIBE" >> \o pubs
      BY DEF Session!Greeting
    <3> HIDE DEF pubs, All, b
    <3> QED BY <3>1, <3>2, <3>3, ClientAssumption DEF ClientAssumption
  <2> HIDE DEF a, b, All
  <2>7. \A k \in 1 .. NPublish + 1 : a[k] = b[k]
    <3>1. \A k \in 1 .. NPublish + 1 : k = 1 \/ k \in 2 .. NPublish + 1
      BY ClientAssumption DEF ClientAssumption
    <3> QED BY <2>5, <2>6, <3>1
  <2>8. a = b
    BY <2>5, <2>6, <2>7
  <2> QED BY <2>1, <2>8 DEF a, b
<1> HIDE DEF ps
<1>5. Types(queued') = Types(queued) \o Session!Greeting
  BY <1>1, <1>4, Sends
<1>6. SessionState = "connecting"
  BY <1>2, StateIs
<1>7. SessionState' = "connected"
  <2>1. queued' # << >>
    BY <1>1, <1>2, <1>4, Emits DEF IInv, TypeInv
  <2> QED BY <1>1, <1>2, <2>1 DEF SessionState
<1> QED BY <1>5, <1>6, <1>7 DEF Session!Accepted, Types

LEMMA SessionGranted == IInv /\ IInv' /\ OnSuback => Session!Granted
<1> SUFFICES ASSUME IInv, IInv', OnSuback PROVE Session!Granted
  OBVIOUS
<1>1. /\ inq # << >> /\ Head(inq).type = "SUBACK" /\ Sock!Emit(<< >>, "parse")
      /\ subacked' /\ filterSet' = filterSet
  BY DEF OnSuback, Sock!ParsePacket
<1>2. queued # << >> /\ filterSet /\ ~subacked
  BY <1>1, Parsing
<1>3. << >> \in Seq(OutPacket) /\ queued \in Seq(OutPacket)
  BY DEF IInv, TypeInv
<1>4. Types(queued') = Types(queued) /\ queued' = queued
  <2>1. Types(queued') = Types(queued) \o Types(<< >>) /\ queued' = queued \o << >>
    BY <1>1, <1>3, Sends, Emits DEF IInv
  <2> QED BY <1>3, <2>1, OneType
<1>5. SessionState = "connected" /\ SessionState' = "subscribed"
  BY <1>1, <1>2, <1>4 DEF SessionState
<1> QED BY <1>4, <1>5 DEF Session!Granted, Types

LEMMA SessionAnswer ==
    ASSUME IInv, IInv', OnPublish \/ OnOther
    PROVE  Session!Answer \/ Stutters
<1>1. /\ inq # << >> /\ Head(inq).type \notin {"CONNACK", "SUBACK"}
      /\ UNCHANGED << filterSet, subacked >>
  BY DEF OnPublish, OnOther, mqttVars
<1>2. queued # << >> /\ filterSet /\ nextId \in Id
  BY <1>1, Parsing
<1>3. queued \in Seq(OutPacket) /\ << >> \in Seq(OutPacket)
  BY DEF IInv, TypeInv
<1>4. SessionState \in {"connected", "subscribed"}
  BY <1>2, StateIs
<1>5. ASSUME Sock!Emit(<< >>, "parse") PROVE Stutters
  <2>1. Types(queued') = Types(queued) \o Types(<< >>) /\ queued' = queued \o << >>
    BY <1>3, <1>5, Sends, Emits DEF IInv
  <2>2. Types(queued') = Types(queued) /\ queued' = queued
    BY <1>3, <2>1, OneType
  <2> QED BY <1>1, <2>2 DEF Stutters, SessionState
<1>6. ASSUME NEW t \in {"PUBACK", "PUBREC"}, Sock!Emit(<< PubAck(t, IdAfter(1)) >>, "parse")
      PROVE  Session!Answer
  <2>1. /\ PubAck(t, IdAfter(1)) \in OutPacket /\ PubAck(t, IdAfter(1)).type = t
        /\ << PubAck(t, IdAfter(1)) >> \in Seq(OutPacket)
    BY <1>2, IdAfterIs, OutPackets
  <2>2. Types(queued') = Append(Types(queued), t) /\ queued' = queued \o << PubAck(t, IdAfter(1)) >>
    BY <1>6, <2>1, Sends, OneType, Emits DEF IInv
  <2>3. queued' # << >>
    BY <1>3, <2>1, <2>2
  <2>4. SessionState' = SessionState
    BY <1>1, <1>2, <2>3 DEF SessionState
  <2> QED BY <1>4, <2>2, <2>4 DEF Session!Answer, Types
<1>7. CASE OnPublish
  <2>1. Head(inq).qos \in 0..2 /\ Sock!Emit(Ack(Head(inq).qos, IdAfter(1)), "parse")
    BY <1>1, <1>7, Parsing DEF OnPublish, Sock!ParsePacket
  <2>2. Ack(Head(inq).qos, IdAfter(1)) \in
           {<< >>, << PubAck("PUBACK", IdAfter(1)) >>, << PubAck("PUBREC", IdAfter(1)) >>}
    BY <2>1 DEF Ack
  <2> QED BY <1>5, <1>6, <2>1, <2>2
<1>8. CASE OnOther
  BY <1>5, <1>8 DEF OnOther, Sock!ParsePacket
<1> QED BY <1>7, <1>8

\* The loop, the broker and TLS do not touch the session.
LEMMA HandsNothing ==
    ASSUME \/ Loop \/ BrokerReads \/ BrokerGoes \/ UNCHANGED vars
           \/ \E topic \in Topics, qos \in 0..2 : BrokerPublishes(topic, qos)
    PROVE  UNCHANGED << queued, filterSet, subacked >>
<1> USE DEF mqttVars, Sock!vars, Sock!sendVars, Sock!recvVars, Sock!loopVars
<1>1. CASE Loop
  BY <1>1 DEF Loop, Sock!SockPoll, Sock!HandshakeSpin, Sock!Halted,
     Sock!CanReadCb, Sock!CanReadCbAlert,
     Sock!CanReadCbControl, Sock!CanReadCbFails,
     Sock!ParseFragment, Sock!ParseEnd, Sock!CanWriteCbEmpty, Sock!CanWriteCb,
     Sock!CanWriteCbFails, Sock!HandshakeResumes, Sock!SigPipe
<1>2. CASE BrokerReads
  BY <1>2 DEF BrokerReads, Sock!PeerSend
<1>3. CASE \E topic \in Topics, qos \in 0..2 : BrokerPublishes(topic, qos)
  BY <1>3 DEF BrokerPublishes, Sock!PeerSend
<1>4. CASE BrokerGoes
  BY <1>4 DEF BrokerGoes, Sock!PeerClose, Sock!PeerReset, Sock!PeerControl
<1>5. CASE UNCHANGED vars
  BY <1>5 DEF vars
<1> QED BY <1>1, <1>2, <1>3, <1>4, <1>5

\* Such a step leaves the session where it is.
LEMMA SessionStutters ==
    ASSUME UNCHANGED << queued, filterSet, subacked >>
    PROVE  Stutters
BY DEF Stutters, Types, SessionState

\* CONNECT comes first and once, SUBSCRIBE and the publications once, in one
\* piece and after CONNACK, answers after that: for all sizes and bounds.
THEOREM SessionImplemented == Spec => SessionSpec
<1> DEFINE SNext == Session!Next \/ Stutters
<1>1. Init => Session!Init
  BY DEF Init, Sock!Init, Session!Init, SessionState
<1>2. ASSUME IInv, IInv', [Next]_vars PROVE SNext
  <2>1. CASE OnConnected
    BY <1>2, <2>1, SessionConnect DEF Session!Next
  <2>2. CASE \E ping \in BOOLEAN : (ping => proto /\ Pings < MaxPings) /\ OnPoll(ping)
    BY <1>2, <2>2, SessionPing DEF Session!Next
  <2>3. CASE OnConnack
    BY <1>2, <2>3, SessionAccepted DEF Session!Next
  <2>4. CASE OnSuback
    BY <1>2, <2>4, SessionGranted DEF Session!Next
  <2>5. CASE OnPublish \/ OnOther
    BY <1>2, <2>5, SessionAnswer DEF Session!Next
  <2>6. CASE Loop \/ BrokerReads \/ BrokerGoes \/ UNCHANGED vars
             \/ \E topic \in Topics, qos \in 0..2 : BrokerPublishes(topic, qos)
    BY <2>6, HandsNothing, SessionStutters
  <2> QED BY <1>2, <2>1, <2>2, <2>3, <2>4, <2>5, <2>6
          DEF Next, Client, Handler, Broker
<1>3. IInv /\ IInv' /\ [Next]_vars =>
        [Session!Next]_<< SessionState, [k \in DOMAIN queued |-> queued[k].type] >>
  BY <1>2 DEF Stutters, Types
<1> QED BY <1>1, <1>3, Invariant, PTL DEF Spec, SessionSpec, Session!Spec
-----------------------------------------------------------------------------
(* The packet ids of the requests.                                         *)

Request == {"SUBSCRIBE", "PUBLISH"}

\* Packets that ask for nothing do not disturb the ids.
LEMMA IdsKept ==
    ASSUME IInv, RequestIdsDiffer, NEW ps \in Seq(OutPacket), queued' = queued \o ps,
           \A k \in DOMAIN ps : ps[k].type \notin Request
    PROVE  RequestIdsDiffer'
<1>1. queued \in Seq(OutPacket)
  BY DEF IInv, TypeInv
<1>2. \A k \in DOMAIN queued' :
         \/ k \in DOMAIN queued /\ queued'[k] = queued[k]
         \/ queued'[k].type \notin Request
  BY <1>1
<1> QED BY <1>2 DEF RequestIdsDiffer, Request

\* The CONNACK handler's packets are the first requests, and their ids follow
\* one another round the circle of MaxPacketId ids.
LEMMA BurstIdsDiffer ==
    ASSUME NPublish < MaxPacketId, IInv, OnConnack
    PROVE  RequestIdsDiffer'
<1> DEFINE ids == [k \in 1..(NPublish + 1) |-> IdAfter(k)]
           ps  == Burst(ids)
<1>1. inq # << >> /\ Head(inq).type = "CONNACK" /\ Sock!Emit(ps, "parse")
  BY DEF OnConnack, Sock!ParsePacket
<1>2. nextId \in Id /\ ~filterSet
  BY <1>1, Parsing
<1>3. ids \in [1..(NPublish + 1) -> Id]
  BY <1>2, BurstIds
<1>4. \A j, k \in 1 .. NPublish + 1 : j # k => ids[j] # ids[k]
  <2> SUFFICES ASSUME NEW j \in 1 .. NPublish + 1, NEW k \in 1 .. NPublish + 1, j # k
               PROVE  IdAfter(j) # IdAfter(k)
    OBVIOUS
  <2>1. j \in Nat /\ k \in Nat /\ j <= MaxPacketId /\ k <= MaxPacketId /\ j > 0 /\ k > 0
    BY ClientAssumption DEF ClientAssumption
  <2>2. /\ IdAfter(j) = IF nextId + j <= MaxPacketId THEN nextId + j ELSE nextId + j - MaxPacketId
        /\ IdAfter(k) = IF nextId + k <= MaxPacketId THEN nextId + k ELSE nextId + k - MaxPacketId
    BY <1>2, <2>1, IdAfterIs
  <2> QED BY <1>2, <2>1, <2>2, ClientAssumption DEF ClientAssumption, Id
<1> HIDE DEF ids
<1>5. /\ ps \in Seq(OutPacket) /\ Len(ps) = NPublish + 1
      /\ ps[1] = Subscribe(ids[1])
      /\ \A k \in 2 .. NPublish + 1 : ps[k] = Publish(ids[k])
  BY <1>3, BurstIs
<1> HIDE DEF ps
<1>6. \A k \in 1 .. NPublish + 1 : ps[k].id = ids[k]
  <2>1. \A k \in 1 .. NPublish + 1 : ids[k] \in Id /\ (k = 1 \/ k \in 2 .. NPublish + 1)
    BY <1>3, ClientAssumption DEF ClientAssumption
  <2> QED BY <1>5, <2>1, OutPackets
<1>7. queued \in Seq(OutPacket) /\ queued' = queued \o ps
  BY <1>1, <1>5, Emits DEF IInv, TypeInv
<1>8. \A k \in DOMAIN queued : queued[k].type \notin Request
  BY <1>2 DEF IInv, RequestInv, None, Request
<1>9. \A k \in DOMAIN queued' :
         \/ queued'[k].type \notin Request
         \/ /\ k \in Nat /\ k > Len(queued) /\ k - Len(queued) \in 1 .. NPublish + 1
            /\ queued'[k] = ps[k - Len(queued)]
  BY <1>5, <1>7, <1>8
<1>10. ASSUME NEW j \in DOMAIN queued', NEW k \in DOMAIN queued', j # k,
              queued'[j].type \in Request, queued'[k].type \in Request
       PROVE  queued'[j].id # queued'[k].id
  <2>1. /\ j \in Nat /\ j - Len(queued) \in 1 .. NPublish + 1
        /\ queued'[j] = ps[j - Len(queued)]
    BY <1>9, <1>10
  <2>2. /\ k \in Nat /\ k - Len(queued) \in 1 .. NPublish + 1
        /\ queued'[k] = ps[k - Len(queued)]
    BY <1>9, <1>10
  <2>3. j - Len(queued) # k - Len(queued)
    BY <1>7, <1>10, <2>1, <2>2
  <2> QED BY <1>4, <1>6, <2>1, <2>2, <2>3
<1> QED BY <1>10 DEF RequestIdsDiffer, Request

\* The requests never share a packet id, unless the CONNACK handler publishes
\* so often that getNextPacketId comes round.
THEOREM RequestIdsUnique ==
    ASSUME NPublish < MaxPacketId
    PROVE  Spec => []RequestIdsDiffer
<1>1. Init => RequestIdsDiffer
  BY DEF Init, Sock!Init, RequestIdsDiffer
<1>2. ASSUME IInv, RequestIdsDiffer, [Next]_vars PROVE RequestIdsDiffer'
  <2> USE DEF IInv
  <2>1. CASE OnConnected
    <3>1. Sock!Emit(Hello, Sock!AfterConnect(flags'))
      BY <1>2, <2>1, Connects
    <3>2. Hello \in Seq(OutPacket) /\ \A k \in DOMAIN Hello : Hello[k].type \notin Request
      BY OutPackets DEF Hello, Request
    <3>3. queued' = queued \o Hello
      BY <1>2, <3>1, <3>2, Emits
    <3> QED BY <1>2, <3>2, <3>3, IdsKept
  <2>2. CASE \E ping \in BOOLEAN : (ping => proto /\ Pings < MaxPings) /\ OnPoll(ping)
    <3>1. PICK ping \in BOOLEAN : OnPoll(ping)
      BY <2>2
    <3> DEFINE ps == IF ping THEN << PingReq >> ELSE << >>
    <3>2. Sock!Emit(ps, Sock!AfterPoll(flags))
      BY <3>1 DEF OnPoll, Sock!PollCb
    <3>3. ps \in Seq(OutPacket) /\ \A k \in DOMAIN ps : ps[k].type \notin Request
      BY OutPackets DEF Request
    <3> HIDE DEF ps
    <3>4. queued' = queued \o ps
      BY <1>2, <3>2, <3>3, Emits
    <3> QED BY <1>2, <3>3, <3>4, IdsKept
  <2>3. CASE OnConnack
    BY <1>2, <2>3, BurstIdsDiffer
  <2>4. CASE OnSuback \/ OnOther
    <3>1. Sock!Emit(<< >>, "parse") /\ << >> \in Seq(OutPacket)
      BY <2>4 DEF OnSuback, OnOther, Sock!ParsePacket
    <3>2. queued' = queued \o << >>
      BY <1>2, <3>1, Emits
    <3>3. queued \in Seq(OutPacket)
      BY <1>2 DEF TypeInv
    <3>4. queued' = queued
      BY <3>2, <3>3
    <3> QED BY <1>2, <3>4 DEF RequestIdsDiffer
  <2>5. CASE OnPublish
    <3> DEFINE ps == Ack(Head(inq).qos, IdAfter(1))
    <3>1. inq # << >> /\ Head(inq).type = "PUBLISH" /\ Sock!Emit(ps, "parse")
      BY <2>5 DEF OnPublish, Sock!ParsePacket
    <3>2. Head(inq).qos \in 0..2 /\ IdAfter(1) \in Id
      BY <1>2, <3>1, Parsing, IdAfterIs
    <3>3. ps \in {<< >>, << PubAck("PUBACK", IdAfter(1)) >>, << PubAck("PUBREC", IdAfter(1)) >>}
      BY <3>2 DEF Ack
    <3>4. ps \in Seq(OutPacket) /\ \A k \in DOMAIN ps : ps[k].type \notin Request
      <4> HIDE DEF ps
      <4>1. CASE ps = << >>
        BY <4>1
      <4>2. ASSUME NEW t \in {"PUBACK", "PUBREC"}, ps = << PubAck(t, IdAfter(1)) >>
            PROVE  ps \in Seq(OutPacket) /\ \A k \in DOMAIN ps : ps[k].type \notin Request
        BY <3>2, <4>2, OutPackets DEF Request
      <4> QED BY <3>3, <4>1, <4>2
    <3> HIDE DEF ps
    <3>5. queued' = queued \o ps
      BY <1>2, <3>1, <3>4, Emits
    <3> QED BY <1>2, <3>4, <3>5, IdsKept
  <2>6. CASE Loop \/ BrokerReads \/ BrokerGoes \/ UNCHANGED vars
             \/ \E topic \in Topics, qos \in 0..2 : BrokerPublishes(topic, qos)
    BY <1>2, <2>6, HandsNothing DEF RequestIdsDiffer
  <2> QED BY <1>2, <2>1, <2>2, <2>3, <2>4, <2>5, <2>6 DEF Next, Client, Handler, Broker
<1>3. IInv /\ RequestIdsDiffer /\ [Next]_vars => RequestIdsDiffer'
  BY <1>2
<1> QED BY <1>1, <1>3, Invariant, PTL DEF Spec
-----------------------------------------------------------------------------
(* Types.                                                                  *)

\* f[i] is the callbacks made for the first i handlers, of which `set` says
\* which are efficient.
IsMade(f, k, topic, set) ==
    f = [i \in 0..k |->
           IF i = 0 THEN << >>
           ELSE IF CbMatches(topic, Filters[i]) /\ set[i]
                THEN Append(f[i - 1], << i, topic >>)
                ELSE f[i - 1]]

\* There is such a function, however many handlers.
LEMMA MadeExists ==
    ASSUME NEW topic, NEW set
    PROVE  \A k \in Nat : \E f : IsMade(f, k, topic, set)
<1> DEFINE S == {k \in Nat : \E f : IsMade(f, k, topic, set)}
           OneMore(f, i) == IF CbMatches(topic, Filters[i]) /\ set[i]
                            THEN Append(f[i - 1], << i, topic >>)
                            ELSE f[i - 1]
<1>0. \A f, k : IsMade(f, k, topic, set)
                  <=> f = [i \in 0..k |-> IF i = 0 THEN << >> ELSE OneMore(f, i)]
  BY DEF IsMade
<1>n. \A f, g, i : f[i - 1] = g[i - 1] => OneMore(f, i) = OneMore(g, i)
  OBVIOUS
<1> HIDE DEF OneMore
<1>1. 0 \in S
  <2> DEFINE f == [i \in 0..0 |-> << >>]
  <2>1. f = [i \in 0..0 |-> IF i = 0 THEN << >> ELSE OneMore(f, i)]
    <3>1. \A i \in 0..0 : i = 0
      OBVIOUS
    <3> QED BY <3>1
  <2> HIDE DEF f
  <2> QED BY <2>1, <1>0
<1>2. ASSUME NEW k \in Nat, k \in S PROVE k + 1 \in S
  <2>1. PICK f : IsMade(f, k, topic, set)
    BY <1>2
  <2>2. f = [i \in 0..k |-> IF i = 0 THEN << >> ELSE OneMore(f, i)]
    BY <1>0, <2>1
  <2> DEFINE g == [i \in 0 .. k + 1 |-> IF i = 0 THEN << >> ELSE OneMore(f, i)]
  <2>3. \A i \in 0..k : i \in 0 .. k + 1
    OBVIOUS
  <2>4. \A i \in 0..k : g[i] = f[i]
    BY <2>2, <2>3
  <2>5. \A i \in 0 .. k + 1 : i # 0 => i - 1 \in 0..k
    OBVIOUS
  <2>6. \A i \in 0 .. k + 1 : i # 0 => OneMore(f, i) = OneMore(g, i)
    BY <2>4, <2>5, <1>n
  <2>7. g = [i \in 0 .. k + 1 |-> IF i = 0 THEN << >> ELSE OneMore(g, i)]
    BY <2>6
  <2> HIDE DEF g
  <2> QED BY <2>7, <1>0
<1> HIDE DEF S
<1>3. \A k \in Nat : k \in S
  BY <1>1, <1>2, SetInduction
<1> QED BY <1>3 DEF S

\* The callbacks of a PUBLISH are calls of filters with its topic.
LEMMA CallsType ==
    ASSUME NEW topic \in Topics
    PROVE  Calls(topic) \in Seq(Filter \X Topics)
<1> DEFINE n == Len(Filters)
           f == CHOOSE g : IsMade(g, n, topic, efficient)
           All == Filter \X Topics
<1>1. n \in Nat /\ Filter = 1..n
  BY ClientAssumption DEF ClientAssumption, Filter
<1>2. IsMade(f, n, topic, efficient)
  BY <1>1, MadeExists
<1>3. Calls(topic) = f[n]
  BY DEF Calls, IsMade
<1> HIDE DEF f, n
<1> DEFINE S == {i \in Nat : i <= n => f[i] \in Seq(All)}
<1>4. 0 \in S
  <2>1. f[0] = << >>
    BY <1>1, <1>2 DEF IsMade
  <2>2. f[0] \in Seq(All)
    <3> HIDE DEF All
    <3> QED BY <2>1
  <2> QED BY <2>2
<1>5. ASSUME NEW i \in Nat, i \in S PROVE i + 1 \in S
  <2> SUFFICES ASSUME i + 1 <= n PROVE f[i + 1] \in Seq(All)
    OBVIOUS
  <2>1. f[i] \in Seq(All)
    BY <1>1, <1>5
  <2>2. i + 1 \in 0..n /\ i + 1 # 0 /\ (i + 1) - 1 = i /\ i + 1 \in Filter
    BY <1>1
  <2>3. f[i + 1] \in {f[i], Append(f[i], << i + 1, topic >>)}
    BY <1>2, <2>2 DEF IsMade
  <2>4. << i + 1, topic >> \in All
    BY <2>2
  <2>5. f[i] \in Seq(All) /\ Append(f[i], << i + 1, topic >>) \in Seq(All)
    <3> DEFINE e == << i + 1, topic >>
    <3>1. e \in All
      BY <2>4
    <3> HIDE DEF All, e
    <3>2. f[i] \in Seq(All) /\ Append(f[i], e) \in Seq(All)
      BY <2>1, <3>1
    <3> QED BY <3>2 DEF e
  <2> QED BY <2>3, <2>5, Zenon
<1> HIDE DEF S
<1>6. \A i \in Nat : i \in S
  BY <1>4, <1>5, SetInduction
<1> HIDE DEF All
<1>7. f[n] \in Seq(All)
  BY <1>1, <1>6 DEF S
<1> QED BY <1>3, <1>7 DEF All

\* The types that IInv does not give.
RestInv ==
    /\ nextId \in 0..MaxPacketId
    /\ efficient \in [Filter -> BOOLEAN]
    /\ granted \subseteq Filter
    /\ brPubs \in Seq(InPacket)
    /\ calls \in Seq(Filter \X Topics)

\* A packet the parser has in hand.
LEMMA HeadType ==
    ASSUME IInv, inq # << >>
    PROVE  /\ Head(inq).type = "PUBLISH" =>
                Head(inq).topic \in Topics /\ Head(inq).qos \in 0..2
           /\ Head(inq).type = "SUBACK" => Head(inq).granted \subseteq Filter
BY TailIs DEF IInv, InPacket

\* The broker grants some of the filters.
LEMMA ReplyGrants ==
    ASSUME NEW p \in OutPacket, NEW reply \in Replies(p), reply.type = "SUBACK"
    PROVE  reply.granted \subseteq Filter
<1>1. reply \in InPacket
  BY InPackets
<1> QED BY <1>1 DEF InPacket

LEMMA InitRest == Init => RestInv
<1> SUFFICES ASSUME Init PROVE RestInv
  OBVIOUS
<1>1. \A S : << >> \in Seq(S)
  OBVIOUS
<1>2. 0 \in 0..MaxPacketId
  BY ClientAssumption DEF ClientAssumption
<1> QED BY <1>1, <1>2 DEF Init, RestInv

\* The handlers' own state.
LEMMA HandlerRest ==
    ASSUME IInv, RestInv, Handler
    PROVE  RestInv'
<1> USE DEF RestInv
<1>c. MaxPacketId \in Nat \ {0} /\ NPublish + 1 \in Nat
  BY ClientAssumption DEF ClientAssumption
<1>1. CASE OnConnected
  <2>1. nextId' \in 0..MaxPacketId
    BY <1>1, <1>c DEF OnConnected
  <2> QED BY <1>1, <2>1 DEF OnConnected, brokerVars
<1>2. CASE \E ping \in BOOLEAN : (ping => proto /\ Pings < MaxPings) /\ OnPoll(ping)
  BY <1>2 DEF OnPoll, mqttVars, brokerVars
<1>3. CASE OnConnack
  <2>1. inq # << >> /\ nextId' = IdAfter(NPublish + 1)
    BY <1>3 DEF OnConnack
  <2>2. nextId' \in Id
    BY <1>c, <2>1, Parsing, IdAfterIs
  <2>3. nextId' \in 0..MaxPacketId
    BY <1>c, <2>2 DEF Id
  <2> QED BY <1>3, <2>3 DEF OnConnack, brokerVars
<1>4. CASE OnSuback
  <2>1. efficient' = [i \in Filter |-> i \in Head(inq).granted]
    BY <1>4 DEF OnSuback, Efficient
  <2>2. efficient' \in [Filter -> BOOLEAN]
    BY <2>1
  <2> QED BY <1>4, <2>2 DEF OnSuback, brokerVars
<1>5. CASE OnPublish
  <2> DEFINE p == Head(inq)
             ack == Ack(p.qos, IdAfter(1))
  <2>1. /\ inq # << >> /\ p.type = "PUBLISH"
        /\ nextId' = IdAfter(Len(ack)) /\ calls' = calls \o Calls(p.topic)
        /\ UNCHANGED << filterSet, efficient, subacked, brokerVars >>
    BY <1>5 DEF OnPublish
  <2>2. p.topic \in Topics /\ p.qos \in 0..2 /\ nextId \in Id
    BY <2>1, HeadType, Parsing
  <2>3. Len(ack) \in Nat
    <3>1. ack \in {<< >>, << PubAck("PUBACK", IdAfter(1)) >>, << PubAck("PUBREC", IdAfter(1)) >>}
      BY <2>2 DEF Ack
    <3>2. \A x : Len(<< >>) \in Nat /\ Len(<< x >>) \in Nat
      OBVIOUS
    <3> QED BY <3>1, <3>2
  <2>4. nextId' \in 0..MaxPacketId
    <3> HIDE DEF ack
    <3>1. nextId' \in Id
      BY <2>1, <2>2, <2>3, IdAfterIs
    <3> QED BY <1>c, <3>1 DEF Id
  <2>5. calls' \in Seq(Filter \X Topics)
    <3>1. Calls(p.topic) \in Seq(Filter \X Topics)
      BY <2>2, CallsType
    <3> DEFINE All == Filter \X Topics
               made == Calls(p.topic)
    <3>2. calls \in Seq(All) /\ made \in Seq(All)
      BY <3>1
    <3> HIDE DEF All, made
    <3>3. calls \o made \in Seq(All)
      BY <3>2
    <3> QED BY <2>1, <3>3 DEF All, made
  <2> QED BY <2>1, <2>4, <2>5 DEF brokerVars
<1>6. CASE OnOther
  BY <1>6 DEF OnOther, mqttVars, brokerVars
<1> QED BY <1>1, <1>2, <1>3, <1>4, <1>5, <1>6 DEF Handler

\* The broker's own state.
LEMMA BrokerRest ==
    ASSUME IInv, RestInv, Broker
    PROVE  RestInv'
<1> USE DEF RestInv, mqttVars
<1>1. CASE BrokerReads
  <2> DEFINE p == written[brRead + 1]
  <2>1. p \in OutPacket
    BY <1>1 DEF BrokerReads, IInv, TypeInv
  <2>2. /\ \/ \E reply \in Replies(p) :
                 granted' = IF reply.type = "SUBACK" THEN reply.granted ELSE granted
           \/ granted' = granted
        /\ UNCHANGED << brPubs, mqttVars >>
    BY <1>1 DEF BrokerReads
  <2> HIDE DEF p
  <2>3. granted' \subseteq Filter
    BY <2>1, <2>2, ReplyGrants
  <2> QED BY <2>2, <2>3
<1>2. ASSUME NEW topic \in Topics, NEW qos \in 0..2, BrokerPublishes(topic, qos)
      PROVE  RestInv'
  <2> DEFINE p == [type |-> "PUBLISH", topic |-> topic, qos |-> qos]
  <2>1. brPubs' = Append(brPubs, p) /\ UNCHANGED << granted, mqttVars >>
    BY <1>2 DEF BrokerPublishes
  <2>2. p \in InPacket
    BY Published
  <2> HIDE DEF p
  <2> QED BY <2>1, <2>2
<1>3. CASE BrokerGoes
  BY <1>3 DEF BrokerGoes, brokerVars
<1> QED BY <1>1, <1>2, <1>3 DEF Broker

LEMMA NextRest == IInv /\ RestInv /\ [Next]_vars => RestInv'
<1> SUFFICES ASSUME IInv, RestInv, [Next]_vars PROVE RestInv'
  OBVIOUS
<1>1. CASE Loop \/ UNCHANGED vars
  BY <1>1 DEF Loop, RestInv, vars, mqttVars, brokerVars
<1> QED BY <1>1, HandlerRest, BrokerRest DEF Next, Client

LEMMA Rest == Spec => []RestInv
<1> QED BY InitRest, NextRest, Invariant, PTL DEF Spec

\* Every variable of the MQTT layer and of the broker keeps its type: a packet
\* id in use is never 0 or beyond MAX_PACKET_ID, `efficient` is written for
\* every filter, and a callback is made for one of the filters.
THEOREM TypesKept == Spec => []TypeOK
<1>1. IInv /\ RestInv => TypeOK
  BY DEF IInv, TypeInv, RestInv, TypeOK
<1> QED BY <1>1, Invariant, Rest, PTL

-----------------------------------------------------------------------------
(* Answers, pings, and how long the stream gets.                           *)

\* CONNECT, and the CONNACK handler's packets.
Opening == (IF proto THEN 1 ELSE 0) + (IF filterSet THEN NPublish + 1 ELSE 0)

\* What was appended is the opening packets, pings, and one answer to each
\* PUBLISH that was parsed and asks for one.
CountInv ==
    /\ Len(brPubs) <= MaxPublish
    /\ AckOnce
    /\ Pings <= MaxPings
    /\ Len(queued) = Opening + Pings + HowMany(queued, Acks)

\* The counts over what a handler appends.
LEMMA Counts ==
    /\ /\ HowMany(<< >>, Acks) = 0 /\ HowMany(<< >>, {PingReq}) = 0
       /\ HowMany(<< >>, ToAck) = 0
    /\ HowMany(<< Connect >>, Acks) = 0 /\ HowMany(<< Connect >>, {PingReq}) = 0
    /\ HowMany(<< PingReq >>, Acks) = 0 /\ HowMany(<< PingReq >>, {PingReq}) = 1
    /\ \A t \in {"PUBACK", "PUBREC"}, id \in Id :
          /\ HowMany(<< PubAck(t, id) >>, Acks) = 1
          /\ HowMany(<< PubAck(t, id) >>, {PingReq}) = 0
<1>1. ASSUME NEW S PROVE HowMany(<< >>, S) = 0
  <2>1. << >> \in Seq({}) /\ Len(<< >>) = 0
    OBVIOUS
  <2>2. HowMany(<< >>, S) \in Nat /\ HowMany(<< >>, S) <= Len(<< >>)
    BY <2>1, HowManyType
  <2> QED BY <2>1, <2>2
<1>2. Connect \notin Acks /\ Connect # PingReq /\ PingReq \notin Acks
  <2>1. \A p \in Acks : p.type \in {"PUBACK", "PUBREC"}
    BY DEF Acks, PubAck
  <2> QED BY <2>1, OutPackets
<1>3. \A t \in {"PUBACK", "PUBREC"}, id \in Id : PubAck(t, id) \in Acks /\ PubAck(t, id) # PingReq
  <2>1. \A t \in {"PUBACK", "PUBREC"}, id \in Id : PubAck(t, id).type # PingReq.type
    BY OutPackets
  <2> QED BY <2>1 DEF Acks
<1>4. ASSUME NEW p, NEW S PROVE HowMany(<< p >>, S) = IF p \in S THEN 1 ELSE 0
  BY HowManyOne, Zenon
<1> QED BY <1>1, <1>2, <1>3, <1>4

\* The CONNACK handler answers nothing and does not ping.
LEMMA BurstCounts ==
    ASSUME NEW ids \in [1..(NPublish + 1) -> Id]
    PROVE  HowMany(Burst(ids), Acks) = 0 /\ HowMany(Burst(ids), {PingReq}) = 0
<1> DEFINE ps == Burst(ids)
<1>1. /\ ps \in Seq(OutPacket) /\ Len(ps) = NPublish + 1
      /\ ps[1] = Subscribe(ids[1])
      /\ \A k \in 2 .. NPublish + 1 : ps[k] = Publish(ids[k])
  BY BurstIs
<1> HIDE DEF ps
<1>2. \A k \in 1 .. NPublish + 1 : ids[k] \in Id /\ (k = 1 \/ k \in 2 .. NPublish + 1)
  BY ClientAssumption DEF ClientAssumption
<1>3. \A k \in 1 .. NPublish + 1 : ps[k].type \in {"SUBSCRIBE", "PUBLISH"}
  BY <1>1, <1>2, OutPackets
<1>4. \A p \in Acks \cup {PingReq} : p.type \notin {"SUBSCRIBE", "PUBLISH"}
  <2>1. \A p \in Acks : p.type \in {"PUBACK", "PUBREC"}
    BY DEF Acks, PubAck
  <2> QED BY <2>1, OutPackets
<1>5. \A k \in 1..Len(ps) : ps[k] \notin Acks /\ ps[k] \notin {PingReq}
  BY <1>1, <1>3, <1>4
<1> QED BY <1>1, <1>5, HowManyType DEF ps

\* The invariant after a step that appends `ps`: PUBLISH packets are answered
\* as they leave, and the pings and the opening packets are accounted for.
LEMMA CountStep ==
    ASSUME TypeInv, CountInv, NEW ps \in Seq(OutPacket), queued' = queued \o ps,
           Len(brPubs') <= MaxPublish,
           HowMany(brPubs', ToAck) + HowMany(inq, ToAck)
             = HowMany(brPubs, ToAck) + HowMany(inq', ToAck) + HowMany(ps, Acks),
           HowMany(brPubs', ToAck) \in Nat, HowMany(brPubs, ToAck) \in Nat,
           HowMany(inq', ToAck) \in Nat, HowMany(inq, ToAck) \in Nat,
           Pings + HowMany(ps, {PingReq}) <= MaxPings,
           Opening' \in Nat, Opening \in Nat,
           Len(ps) + Opening = Opening' + HowMany(ps, {PingReq}) + HowMany(ps, Acks)
    PROVE  CountInv'
<1> DEFINE a  == HowMany(queued, Acks)    a1 == HowMany(queued', Acks)
           da == HowMany(ps, Acks)
           g  == HowMany(queued, {PingReq}) g1 == HowMany(queued', {PingReq})
           dg == HowMany(ps, {PingReq})
           l  == Len(queued) l1 == Len(queued') dl == Len(ps)
           b  == HowMany(brPubs, ToAck) b1 == HowMany(brPubs', ToAck)
           i  == HowMany(inq, ToAck) i1 == HowMany(inq', ToAck)
           o  == Opening o1 == Opening'
<1>1. queued \in Seq(OutPacket)
  BY DEF TypeInv
<1>2. a1 = a + da /\ a \in Nat /\ da \in Nat
  BY <1>1, HowManyConcat, HowManyType
<1>3. g1 = g + dg /\ g \in Nat /\ dg \in Nat
  BY <1>1, HowManyConcat, HowManyType
<1>4. l1 = l + dl /\ l \in Nat /\ dl \in Nat
  BY <1>1, ConcatProperties, LenProperties
<1>5. b = a + i /\ g <= MaxPings /\ l = o + g + a
  BY DEF CountInv, AckOnce, Pings
<1>6. b1 + i = b + i1 + da /\ g + dg <= MaxPings /\ dl + o = o1 + dg + da
  BY DEF Pings
<1>7. b \in Nat /\ b1 \in Nat /\ i \in Nat /\ i1 \in Nat /\ o \in Nat /\ o1 \in Nat
  OBVIOUS
<1>8. MaxPings \in Nat
  BY ClientAssumption DEF ClientAssumption
<1> HIDE DEF a, a1, da, g, g1, dg, l, l1, dl, b, b1, i, i1, o, o1
<1>9. b1 = a1 + i1 /\ g1 <= MaxPings /\ l1 = o1 + g1 + a1
  BY <1>2, <1>3, <1>4, <1>5, <1>6, <1>7, <1>8
<1>10. AckOnce' /\ (Pings <= MaxPings)' /\ (Len(queued) = Opening + Pings + HowMany(queued, Acks))'
  BY <1>9 DEF a1, g1, l1, b1, i1, o1, AckOnce, Pings
<1> QED BY <1>10 DEF CountInv

\* Which of the broker's packets ask for an answer.
LEMMA AsksForOne ==
    ASSUME NEW p \in InPacket
    PROVE  p \in ToAck <=> p.type = "PUBLISH" /\ p.qos \in 1..2
<1>1. p \in ToAck => p.type = "PUBLISH" /\ p.qos \in 1..2
  BY DEF ToAck
<1>2. ASSUME p.type = "PUBLISH" PROVE p \in [type : {"PUBLISH"}, topic : Topics, qos : 0..2]
  BY <1>2 DEF InPacket
<1>3. ASSUME p.type = "PUBLISH", p.qos \in 1..2 PROVE p \in ToAck
  BY <1>2, <1>3 DEF ToAck
<1> QED BY <1>1, <1>3

\* The counts are numbers.
LEMMA CountTypes ==
    ASSUME IInv, RestInv
    PROVE  /\ HowMany(brPubs, ToAck) \in Nat /\ HowMany(inq, ToAck) \in Nat
           /\ Opening \in Nat
<1>1. inq \in Seq(InPacket) /\ brPubs \in Seq(InPacket)
  BY DEF IInv, TypeInv, RestInv
<1>2. Opening \in Nat
  BY ClientAssumption DEF ClientAssumption, Opening
<1> QED BY <1>1, <1>2, HowManyType

\* A packet is cut off and answered as it asks to be.
LEMMA ParseCount ==
    ASSUME IInv, RestInv, CountInv, NEW ps \in Seq(OutPacket),
           Sock!ParsePacket(ps), inq # << >>, UNCHANGED brokerVars,
           HowMany(ps, Acks) = IF Head(inq) \in ToAck THEN 1 ELSE 0,
           HowMany(ps, {PingReq}) = 0,
           Opening' \in Nat,
           Len(ps) + Opening = Opening' + HowMany(ps, Acks)
    PROVE  CountInv'
<1>1. TypeInv /\ inq' = Tail(inq) /\ Sock!Emit(ps, "parse") /\ brPubs' = brPubs
  BY DEF IInv, Sock!ParsePacket, brokerVars
<1>2. queued' = queued \o ps
  BY <1>1, Emits
<1>3. inq \in Seq(InPacket) /\ inq' \in Seq(InPacket)
  BY <1>1, TailIs DEF TypeInv
<1>4. HowMany(inq, ToAck) = (IF Head(inq) \in ToAck THEN 1 ELSE 0) + HowMany(inq', ToAck)
  BY <1>1, <1>3, HowManyTail, Zenon
<1> DEFINE b == HowMany(brPubs, ToAck) b1 == HowMany(brPubs', ToAck)
           i == HowMany(inq, ToAck) i1 == HowMany(inq', ToAck)
           a == HowMany(ps, Acks)
           g == HowMany(ps, {PingReq})
           o == Opening o1 == Opening'
           l == Len(ps)
<1>5. b \in Nat /\ i \in Nat /\ i1 \in Nat /\ o \in Nat /\ a \in Nat
  <2>1. i1 \in Nat /\ a \in Nat
    BY <1>3, HowManyType
  <2> QED BY <2>1, CountTypes
<1>6. b1 = b /\ i = a + i1
  BY <1>1, <1>4
<1>7. Pings \in Nat /\ Pings <= MaxPings /\ Len(brPubs') <= MaxPublish
  <2>1. Pings \in Nat
    BY <1>1, HowManyType DEF Pings, TypeInv
  <2> QED BY <1>1, <2>1 DEF CountInv
<1>8. g = 0 /\ l + o = o1 + a /\ o1 \in Nat
  OBVIOUS
<1> HIDE DEF b, b1, i, i1, a, g, o, o1, l
<1>9. /\ b1 + i = b + i1 + a /\ b1 \in Nat
      /\ Pings + g <= MaxPings
      /\ l + o = o1 + g + a
  BY <1>5, <1>6, <1>7, <1>8, ClientAssumption DEF ClientAssumption
<1> QED BY <1>1, <1>2, <1>5, <1>7, <1>8, <1>9, CountStep DEF b, b1, i, i1, a, g, o, o1, l

\* Nothing but a handler appends, and only the broker publishes.
LEMMA QuietCount ==
    ASSUME IInv, RestInv, CountInv,
           UNCHANGED << queued, proto, filterSet, brPubs >>,
           inq' = inq \/ \E p \in InPacket : p \notin ToAck /\ inq' = Append(inq, p)
    PROVE  CountInv'
<1>1. HowMany(inq', ToAck) = HowMany(inq, ToAck)
  <2>1. CASE inq' = inq
    BY <2>1
  <2>2. ASSUME NEW p \in InPacket, p \notin ToAck, inq' = Append(inq, p)
        PROVE  HowMany(inq', ToAck) = HowMany(inq, ToAck)
    <3>1. inq \in Seq(InPacket)
      BY DEF IInv, TypeInv
    <3>2. HowMany(inq', ToAck) = HowMany(inq, ToAck) + 0
      BY <2>2, <3>1, HowManyAppend, Zenon
    <3> QED BY <3>2, CountTypes
  <2> QED BY <2>1, <2>2
<1>2. Opening' = Opening /\ Pings' = Pings /\ HowMany(queued', Acks) = HowMany(queued, Acks)
  BY DEF Opening, Pings
<1> QED BY <1>1, <1>2 DEF CountInv, AckOnce

LEMMA InitCount == Init => CountInv
<1> SUFFICES ASSUME Init PROVE CountInv
  OBVIOUS
<1>1. queued = << >> /\ inq = << >> /\ brPubs = << >> /\ ~proto /\ ~filterSet
  BY DEF Init, Sock!Init
<1>2. Opening = 0 /\ Len(brPubs) = 0 /\ Len(queued) = 0
  BY <1>1 DEF Opening
<1>3. /\ HowMany(queued, Acks) = 0 /\ HowMany(queued, {PingReq}) = 0
      /\ HowMany(inq, ToAck) = 0 /\ HowMany(brPubs, ToAck) = 0
  BY <1>1, Counts
<1> QED BY <1>2, <1>3, ClientAssumption DEF ClientAssumption, CountInv, AckOnce, Pings

LEMMA ConnectedCount ==
    ASSUME IInv, RestInv, CountInv, OnConnected
    PROVE  CountInv'
<1>1. queued = << >> /\ ~proto /\ ~filterSet /\ inq = << >>
  <2>1. ~proto
    BY Connects
  <2>2. queued = << >> /\ written = << >>
    BY Connects
  <2>3. brRead = 0
    BY <2>2 DEF IInv, TypeInv
  <2> QED BY <2>1, <2>2, <2>3 DEF IInv, ConnackInv
<1>2. /\ Sock!Emit(Hello, Sock!AfterConnect(flags')) /\ proto' /\ ~filterSet'
      /\ inq' = inq /\ brPubs' = brPubs
  BY Connects DEF OnConnected, Sock!ConnectCb, Sock!recvVars, brokerVars
<1>3. Hello \in Seq(OutPacket) /\ Len(Hello) = 1
  BY OutPackets DEF Hello
<1>4. queued' = queued \o Hello
  BY <1>2, <1>3, Emits DEF IInv
<1>5. Opening = 0 /\ Opening' = 1
  BY <1>1, <1>2 DEF Opening
<1>6. HowMany(Hello, Acks) = 0 /\ HowMany(Hello, {PingReq}) = 0
  BY Counts DEF Hello
<1>7. TypeInv /\ Len(brPubs') <= MaxPublish /\ Pings <= MaxPings /\ Pings \in Nat
  BY <1>2, HowManyType DEF IInv, CountInv, Pings, TypeInv
<1> DEFINE b == HowMany(brPubs, ToAck) b1 == HowMany(brPubs', ToAck)
           i == HowMany(inq, ToAck) i1 == HowMany(inq', ToAck)
<1>8. b1 = b /\ i1 = i /\ b \in Nat /\ i \in Nat
  BY <1>2, CountTypes
<1> HIDE DEF b, b1, i, i1
<1>9. b1 + i = b + i1 + HowMany(Hello, Acks) /\ b1 \in Nat /\ i1 \in Nat
  BY <1>6, <1>8
<1>10. Pings + HowMany(Hello, {PingReq}) <= MaxPings
  BY <1>6, <1>7
<1>11. /\ Opening' \in Nat /\ Opening \in Nat
       /\ Len(Hello) + Opening = Opening' + HowMany(Hello, {PingReq}) + HowMany(Hello, Acks)
  BY <1>3, <1>5, <1>6
<1> QED BY <1>3, <1>4, <1>7, <1>8, <1>9, <1>10, <1>11, CountStep DEF b, b1, i, i1

LEMMA PollCount ==
    ASSUME IInv, RestInv, CountInv, NEW ping \in BOOLEAN,
           ping => proto /\ Pings < MaxPings, OnPoll(ping)
    PROVE  CountInv'
<1> DEFINE ps == IF ping THEN << PingReq >> ELSE << >>
           g  == HowMany(ps, {PingReq})
<1>1. /\ Sock!Emit(ps, Sock!AfterPoll(flags))
      /\ proto' = proto /\ filterSet' = filterSet /\ inq' = inq /\ brPubs' = brPubs
  BY DEF OnPoll, Sock!PollCb, Sock!recvVars, mqttVars, brokerVars
<1>2. /\ ps \in Seq(OutPacket) /\ HowMany(ps, Acks) = 0
      /\ g = IF ping THEN 1 ELSE 0
      /\ Len(ps) = g
  BY OutPackets, Counts
<1>3. Pings \in Nat /\ Pings <= MaxPings /\ MaxPings \in Nat
  BY HowManyType, ClientAssumption DEF IInv, TypeInv, CountInv, Pings, ClientAssumption
<1> HIDE DEF ps
<1>4. queued' = queued \o ps
  BY <1>1, <1>2, Emits DEF IInv
<1> HIDE DEF g
<1>5. Pings + g <= MaxPings
  BY <1>2, <1>3
<1>6. Opening' = Opening /\ Opening \in Nat
  BY <1>1, CountTypes DEF Opening
<1> DEFINE b == HowMany(brPubs, ToAck) b1 == HowMany(brPubs', ToAck)
           i == HowMany(inq, ToAck) i1 == HowMany(inq', ToAck)
           o == Opening o1 == Opening'
<1>7. b1 = b /\ i1 = i /\ b \in Nat /\ i \in Nat /\ o1 = o /\ o \in Nat
  BY <1>1, <1>6, CountTypes
<1>8. TypeInv /\ Len(brPubs') <= MaxPublish /\ g \in Nat
  BY <1>1, <1>2 DEF IInv, CountInv
<1> HIDE DEF b, b1, i, i1, o, o1
<1>9. b1 + i = b + i1 + HowMany(ps, Acks) /\ b1 \in Nat /\ i1 \in Nat
  BY <1>2, <1>7
<1>10. Len(ps) + o = o1 + g + HowMany(ps, Acks) /\ o1 \in Nat
  BY <1>2, <1>7, <1>8
<1> QED BY <1>2, <1>4, <1>5, <1>7, <1>8, <1>9, <1>10, CountStep DEF b, b1, i, i1, o, o1, g

LEMMA ConnackCount ==
    ASSUME IInv, RestInv, CountInv, OnConnack
    PROVE  CountInv'
<1> DEFINE ids == [k \in 1..(NPublish + 1) |-> IdAfter(k)]
           ps  == Burst(ids)
<1>1. /\ inq # << >> /\ Head(inq).type = "CONNACK" /\ Sock!ParsePacket(ps)
      /\ filterSet' = TRUE /\ UNCHANGED brokerVars
  BY DEF OnConnack
<1>2. nextId \in Id /\ ~filterSet /\ proto /\ proto' = proto
  BY <1>1, Parsing DEF Sock!ParsePacket
<1>3. ids \in [1..(NPublish + 1) -> Id]
  BY <1>2, BurstIds
<1> HIDE DEF ids
<1>4. ps \in Seq(OutPacket) /\ Len(ps) = NPublish + 1
  BY <1>3, BurstIs
<1>5. HowMany(ps, Acks) = 0 /\ HowMany(ps, {PingReq}) = 0
  BY <1>3, BurstCounts
<1> HIDE DEF ps
<1>6. Head(inq) \notin ToAck
  BY <1>1, TailIs, AsksForOne DEF IInv
<1>7. /\ Opening = 1 /\ Opening' = 1 + (NPublish + 1) /\ Opening' \in Nat
  BY <1>1, <1>2, ClientAssumption DEF Opening, ClientAssumption
<1>8. Len(ps) + Opening = Opening' + HowMany(ps, Acks)
  BY <1>4, <1>5, <1>7, ClientAssumption DEF ClientAssumption
<1> QED BY <1>1, <1>4, <1>5, <1>6, <1>7, <1>8, ParseCount

LEMMA AnswerCount ==
    ASSUME IInv, RestInv, CountInv, OnSuback \/ OnPublish \/ OnOther
    PROVE  CountInv'
<1> DEFINE ack == IF OnPublish THEN Ack(Head(inq).qos, IdAfter(1)) ELSE << >>
<1>1. /\ inq # << >> /\ Sock!ParsePacket(ack)
      /\ OnPublish <=> Head(inq).type = "PUBLISH"
      /\ filterSet' = filterSet /\ UNCHANGED brokerVars
  BY DEF OnSuback, OnPublish, OnOther, mqttVars
<1>2. nextId \in Id /\ proto' = proto /\ Head(inq) \in InPacket
  BY <1>1, Parsing, TailIs DEF Sock!ParsePacket, IInv
<1>3. IdAfter(1) \in Id
  BY <1>2, IdAfterIs
<1>4. Head(inq).type = "PUBLISH" => Head(inq).qos \in 0..2
  BY <1>1, HeadType
<1>5. ack = IF Head(inq).type = "PUBLISH" /\ Head(inq).qos = 1
            THEN << PubAck("PUBACK", IdAfter(1)) >>
            ELSE IF Head(inq).type = "PUBLISH" /\ Head(inq).qos = 2
            THEN << PubAck("PUBREC", IdAfter(1)) >> ELSE << >>
  <2>1. ASSUME Head(inq).qos = 0 PROVE Ack(Head(inq).qos, IdAfter(1)) = << >>
    BY <2>1 DEF Ack
  <2>2. ASSUME Head(inq).qos = 1
        PROVE  Ack(Head(inq).qos, IdAfter(1)) = << PubAck("PUBACK", IdAfter(1)) >>
    BY <2>2 DEF Ack
  <2>3. ASSUME Head(inq).qos = 2
        PROVE  Ack(Head(inq).qos, IdAfter(1)) = << PubAck("PUBREC", IdAfter(1)) >>
    BY <2>3 DEF Ack
  <2> QED BY <1>1, <1>4, <2>1, <2>2, <2>3
<1> HIDE DEF ack
<1>6. /\ ack \in Seq(OutPacket) /\ HowMany(ack, {PingReq}) = 0
      /\ Len(ack) = HowMany(ack, Acks)
      /\ HowMany(ack, Acks) = IF Head(inq) \in ToAck THEN 1 ELSE 0
  <2>1. ASSUME NEW t \in {"PUBACK", "PUBREC"}, ack = << PubAck(t, IdAfter(1)) >>,
               Head(inq) \in ToAck
        PROVE  /\ ack \in Seq(OutPacket) /\ HowMany(ack, {PingReq}) = 0
               /\ Len(ack) = HowMany(ack, Acks) /\ HowMany(ack, Acks) = 1
    <3> DEFINE p == PubAck(t, IdAfter(1))
    <3>1. p \in OutPacket /\ HowMany(<< p >>, Acks) = 1 /\ HowMany(<< p >>, {PingReq}) = 0
      BY <1>3, OutPackets, Counts
    <3>2. ack = << p >>
      BY <2>1
    <3> HIDE DEF p
    <3>3. << p >> \in Seq(OutPacket) /\ Len(<< p >>) = 1
      BY <3>1
    <3> QED BY <3>1, <3>2, <3>3
  <2>2. ASSUME ack = << >>
        PROVE  /\ ack \in Seq(OutPacket) /\ HowMany(ack, {PingReq}) = 0
               /\ Len(ack) = HowMany(ack, Acks) /\ HowMany(ack, Acks) = 0
    BY <2>2, Counts
  <2>3. Head(inq) \in ToAck <=> Head(inq).type = "PUBLISH" /\ Head(inq).qos \in 1..2
    BY <1>2, AsksForOne
  <2>4. \/ /\ Head(inq) \notin ToAck /\ ack = << >>
        \/ /\ Head(inq) \in ToAck
           /\ \E t \in {"PUBACK", "PUBREC"} : ack = << PubAck(t, IdAfter(1)) >>
    <3>1. \A n \in 0..2 : n \in 1..2 <=> n = 1 \/ n = 2
      OBVIOUS
    <3>2. Head(inq).type = "PUBLISH" =>
             (Head(inq).qos \in 1..2 <=> Head(inq).qos = 1 \/ Head(inq).qos = 2)
      BY <1>4, <3>1
    <3> QED BY <1>5, <2>3, <3>2
  <2> QED BY <2>1, <2>2, <2>4
<1>7. Opening' = Opening /\ Opening \in Nat
  BY <1>1, <1>2, CountTypes DEF Opening
<1> DEFINE a == HowMany(ack, Acks) o == Opening o1 == Opening' l == Len(ack)
<1>8. a \in Nat /\ l = a /\ o1 = o /\ o \in Nat
  BY <1>6, <1>7
<1> HIDE DEF a, o, o1, l
<1>9. l + o = o1 + a /\ o1 \in Nat
  BY <1>8
<1> QED BY <1>1, <1>6, <1>9, ParseCount DEF a, o, o1, l

\* The broker publishes.
LEMMA PublishesCount ==
    ASSUME IInv, RestInv, CountInv,
           NEW topic \in Topics, NEW qos \in 0..2, BrokerPublishes(topic, qos)
    PROVE  CountInv'
<1> DEFINE p == [type |-> "PUBLISH", topic |-> topic, qos |-> qos]
           e == IF p \in ToAck THEN 1 ELSE 0
<1>1. /\ inq' = Append(inq, p) /\ brPubs' = Append(brPubs, p)
      /\ Len(brPubs) < MaxPublish
      /\ UNCHANGED << queued, proto, filterSet >>
  BY DEF BrokerPublishes, Sock!PeerSend, Sock!sendVars, Sock!loopVars, mqttVars
<1>2. p \in InPacket
  BY Published
<1> HIDE DEF p
<1>3. inq \in Seq(InPacket) /\ brPubs \in Seq(InPacket)
  BY DEF IInv, TypeInv, RestInv
<1>4. /\ HowMany(inq', ToAck) = HowMany(inq, ToAck) + e
      /\ HowMany(brPubs', ToAck) = HowMany(brPubs, ToAck) + e
  BY <1>1, <1>2, <1>3, HowManyAppend, Zenon
<1>5. Len(brPubs') <= MaxPublish
  BY <1>1, <1>3, AppendProperties, LenProperties, ClientAssumption DEF ClientAssumption
<1>6. /\ Opening' = Opening /\ Pings' = Pings
      /\ HowMany(queued', Acks) = HowMany(queued, Acks) /\ queued' = queued
  BY <1>1 DEF Opening, Pings
<1> DEFINE b == HowMany(brPubs, ToAck) b1 == HowMany(brPubs', ToAck)
           i == HowMany(inq, ToAck) i1 == HowMany(inq', ToAck)
           a == HowMany(queued, Acks) a1 == HowMany(queued', Acks)
<1>7. b \in Nat /\ i \in Nat /\ e \in Nat /\ a \in Nat
  BY CountTypes, HowManyType DEF IInv, TypeInv
<1>8. b = a + i /\ b1 = b + e /\ i1 = i + e /\ a1 = a
  BY <1>4, <1>6 DEF CountInv, AckOnce
<1> HIDE DEF b, b1, i, i1, a, a1, e
<1>9. b1 = a1 + i1
  BY <1>7, <1>8
<1>10. AckOnce'
  BY <1>9 DEF b1, a1, i1, AckOnce
<1> QED BY <1>5, <1>6, <1>10 DEF CountInv

\* Everything else.
LEMMA RestCount ==
    ASSUME IInv, RestInv, CountInv,
           Loop \/ BrokerReads \/ BrokerGoes \/ UNCHANGED vars
    PROVE  CountInv'
<1> USE DEF mqttVars, brokerVars, Sock!vars, Sock!sendVars, Sock!recvVars, Sock!loopVars
<1>1. UNCHANGED << queued, filterSet >>
  BY HandsNothing
<1>2. CASE Loop
  <2>1. UNCHANGED << proto, brPubs, inq >>
    BY <1>2 DEF Loop, Sock!SockPoll, Sock!HandshakeSpin, Sock!Halted,
       Sock!CanReadCb, Sock!CanReadCbAlert,
       Sock!CanReadCbControl, Sock!CanReadCbFails,
       Sock!ParseFragment, Sock!ParseEnd, Sock!CanWriteCbEmpty, Sock!CanWriteCb,
       Sock!CanWriteCbFails, Sock!HandshakeResumes, Sock!SigPipe
  <2> QED BY <1>1, <2>1, QuietCount
<1>3. CASE BrokerReads
  <2> DEFINE p == written[brRead + 1]
  <2>1. p \in OutPacket
    BY <1>3 DEF BrokerReads, IInv, TypeInv
  <2>2. /\ UNCHANGED << proto, brPubs >>
        /\ inq' = inq \/ \E reply \in Replies(p) : inq' = Append(inq, reply)
    BY <1>3 DEF BrokerReads, Sock!PeerSend
  <2> HIDE DEF p
  <2>3. \A reply \in Replies(p) : reply \in InPacket /\ reply \notin ToAck
    BY <2>1, InPackets, AsksForOne
  <2> QED BY <1>1, <2>2, <2>3, QuietCount
<1>4. CASE BrokerGoes
  <2>1. UNCHANGED << proto, brPubs, inq >>
    BY <1>4 DEF BrokerGoes, Sock!PeerClose, Sock!PeerReset, Sock!PeerControl
  <2> QED BY <1>1, <2>1, QuietCount
<1>5. CASE UNCHANGED vars
  <2>1. UNCHANGED << proto, brPubs, inq >>
    BY <1>5 DEF vars
  <2> QED BY <1>1, <2>1, QuietCount
<1> QED BY <1>2, <1>3, <1>4, <1>5

LEMMA NextCount == IInv /\ RestInv /\ CountInv /\ [Next]_vars => CountInv'
<1> SUFFICES ASSUME IInv, RestInv, CountInv, [Next]_vars PROVE CountInv'
  OBVIOUS
<1>1. CASE OnConnected
  BY <1>1, ConnectedCount
<1>2. CASE \E ping \in BOOLEAN : (ping => proto /\ Pings < MaxPings) /\ OnPoll(ping)
  BY <1>2, PollCount
<1>3. CASE OnConnack
  BY <1>3, ConnackCount
<1>4. CASE OnSuback \/ OnPublish \/ OnOther
  BY <1>4, AnswerCount
<1>5. CASE \E topic \in Topics, qos \in 0..2 : BrokerPublishes(topic, qos)
  BY <1>5, PublishesCount
<1>6. CASE Loop \/ BrokerReads \/ BrokerGoes \/ UNCHANGED vars
  BY <1>6, RestCount
<1> QED BY <1>1, <1>2, <1>3, <1>4, <1>5, <1>6 DEF Next, Client, Handler, Broker

LEMMA Counted == Spec => []CountInv
BY InitCount, NextCount, Invariant, Rest, InitRest, PTL DEF Spec

\* Each PUBLISH with QoS 1 or 2 that was parsed got one answer, and one only,
\* in any order of reads, polls and publications, and on subscriptions of an
\* earlier session as well.
THEOREM EachAnsweredOnce == Spec => []AckOnce
<1>1. CountInv => AckOnce
  BY DEF CountInv
<1> QED BY <1>1, Counted, PTL

-----------------------------------------------------------------------------
(* The opening packets in send_buf.                                        *)

\* CONNECT has left send_buf before the CONNACK handler appends its packets, in
\* whatever way send() fails: CONNACK is the answer to a CONNECT that went out,
\* and then send_buf holds no other.
THEOREM OpeningNeverTogether == Spec => []OpeningApart
<1>1. IInv => OpeningApart
  <2> SUFFICES ASSUME IInv,
                      NEW j \in DOMAIN sendBuf, sendBuf[j].type = "CONNECT",
                      NEW k \in DOMAIN sendBuf
               PROVE  sendBuf[k].type \notin {"SUBSCRIBE", "PUBLISH"}
    BY DEF OpeningApart
  <2>1. written = << >> /\ sendBuf = queued
    BY DEF IInv, ConnectInv, None
  <2>2. brRead = 0
    BY <2>1 DEF IInv, TypeInv
  <2>3. ~filterSet
    BY <2>2 DEF IInv, ConnackInv
  <2> QED BY <2>1, <2>3 DEF IInv, RequestInv, None
<1> QED BY <1>1, Invariant, PTL

-----------------------------------------------------------------------------
(* Delivery.                                                               *)

\* A topic that is one of the filters and no prefix of another reaches the
\* callback of that filter, if the filter is efficient.
LEMMA OneCall ==
    ASSUME NEW i \in Filter, efficient[i],
           \A j \in Filter : IsPrefix(Filters[i], Filters[j]) => i = j
    PROVE  Calls(Filters[i]) = << << i, Filters[i] >> >>
<1> DEFINE n == Len(Filters)
           topic == Filters[i]
           call == << i, topic >>
           f == CHOOSE g : IsMade(g, n, topic, efficient)
<1>1. n \in Nat /\ Filter = 1..n /\ i \in 1..n
  BY ClientAssumption DEF ClientAssumption, Filter
<1>2. IsMade(f, n, topic, efficient)
  BY <1>1, MadeExists
<1>3. Calls(topic) = f[n]
  BY DEF Calls, IsMade
<1>4. CbMatches(topic, Filters[i])
  <2>1. Len(topic) \in Nat
    BY <1>1, ElementOfSeq, LenProperties DEF ClientAssumption, Filter
  <2> QED BY <2>1 DEF CbMatches, IsPrefix
<1>5. \A j \in 1..n : CbMatches(topic, Filters[j]) => j = i
  BY <1>1 DEF CbMatches
<1>m. /\ f[0] = << >>
      /\ \A j \in 1..n : f[j] = IF CbMatches(topic, Filters[j]) /\ efficient[j]
                               THEN Append(f[j - 1], << j, topic >>) ELSE f[j - 1]
  <2>1. 0 \in 0..n /\ \A j \in 1..n : j \in 0..n /\ j # 0
    BY <1>1
  <2> HIDE DEF f, n, topic
  <2> QED BY <1>2, <2>1 DEF IsMade
<1>6. f[0] = << >>
  BY <1>m
<1>7. ASSUME NEW j \in 0 .. n - 1
      PROVE  f[j + 1] = IF j + 1 = i THEN Append(f[j], call) ELSE f[j]
  <2>1. j + 1 \in 0..n /\ j + 1 # 0 /\ (j + 1) - 1 = j /\ j + 1 \in 1..n
    BY <1>1
  <2>2. f[j + 1] = IF CbMatches(topic, Filters[j + 1]) /\ efficient[j + 1]
                   THEN Append(f[j], << j + 1, topic >>) ELSE f[j]
    <3> HIDE DEF f, n, topic
    <3> QED BY <1>m, <2>1
  <2>3. CASE j + 1 = i
    <3> HIDE DEF f, n, topic
    <3>1. f[i] = IF CbMatches(topic, Filters[i]) /\ efficient[i]
                 THEN Append(f[j], << i, topic >>) ELSE f[j]
      BY <2>2, <2>3
    <3> QED BY <1>4, <2>3, <3>1
  <2>4. CASE j + 1 # i
    BY <1>5, <2>1, <2>2, <2>4
  <2> QED BY <2>3, <2>4
<1> HIDE DEF f, n, topic, call
<1> DEFINE S == {j \in Nat : j <= n => f[j] = IF j < i THEN << >> ELSE << call >>}
<1>8. 0 \in S
  BY <1>1, <1>6
<1>9. ASSUME NEW j \in Nat, j \in S PROVE j + 1 \in S
  <2> SUFFICES ASSUME j + 1 <= n
               PROVE  f[j + 1] = IF j + 1 < i THEN << >> ELSE << call >>
    OBVIOUS
  <2>1. f[j] = IF j < i THEN << >> ELSE << call >>
    BY <1>1, <1>9
  <2>2. f[j + 1] = IF j + 1 = i THEN Append(f[j], call) ELSE f[j]
    BY <1>1, <1>7
  <2>3. Append(<< >>, call) = << call >>
    OBVIOUS
  <2>4. j \in Nat /\ i \in Nat
    BY <1>1
  <2>5. CASE j + 1 = i
    <3>1. j < i /\ ~(j + 1 < i)
      BY <2>4, <2>5
    <3> QED BY <2>1, <2>2, <2>3, <2>5, <3>1
  <2>6. CASE j + 1 < i
    <3>1. j < i /\ j + 1 # i
      BY <2>4, <2>6
    <3> QED BY <2>1, <2>2, <2>6, <3>1
  <2>7. CASE i < j + 1
    <3>1. ~(j < i) /\ j + 1 # i /\ ~(j + 1 < i)
      BY <2>4, <2>7
    <3> QED BY <2>1, <2>2, <3>1
  <2>8. j + 1 = i \/ j + 1 < i \/ i < j + 1
    BY <2>4
  <2> QED BY <2>5, <2>6, <2>7, <2>8
<1> HIDE DEF S
<1>10. \A j \in Nat : j \in S
  BY <1>8, <1>9, SetInduction
<1>11. f[n] = << call >>
  <2>1. n \in S /\ n <= n /\ ~(n < i)
    BY <1>1, <1>10
  <2> QED BY <2>1 DEF S
<1> QED BY <1>3, <1>11 DEF call, topic

\* Only the parser takes a packet off.
LEMMA OnlyParse ==
    ASSUME IInv, [Next]_vars, Len(inq') = Len(inq) - 1, Head(inq).type = "PUBLISH"
    PROVE  OnPublish
<1> USE DEF mqttVars, brokerVars, Sock!vars, Sock!sendVars, Sock!recvVars, Sock!loopVars
<1>1. /\ inq' # inq
      /\ \A p \in InPacket : inq' # Append(inq, p)
  <2>1. inq \in Seq(InPacket) /\ Len(inq) \in Nat
    BY LenProperties DEF IInv, TypeInv
  <2>2. \A p \in InPacket : Len(Append(inq, p)) = Len(inq) + 1
    BY <2>1, AppendProperties
  <2>3. Len(inq) - 1 # Len(inq) /\ Len(inq) - 1 # Len(inq) + 1
    BY <2>1
  <2> QED BY <2>2, <2>3, Zenon
<1>2. CASE OnConnected
  BY <1>1, <1>2 DEF OnConnected, Sock!ConnectCb
<1>3. CASE \E ping \in BOOLEAN : (ping => proto /\ Pings < MaxPings) /\ OnPoll(ping)
  BY <1>1, <1>3 DEF OnPoll, Sock!PollCb
<1>4. CASE OnConnack \/ OnSuback \/ OnOther
  BY <1>4 DEF OnConnack, OnSuback, OnOther
<1>5. CASE Loop
  <2>1. inq' = inq
    BY <1>5 DEF Loop, Sock!SockPoll, Sock!HandshakeSpin, Sock!Halted,
       Sock!CanReadCb, Sock!CanReadCbAlert,
       Sock!CanReadCbControl, Sock!CanReadCbFails,
       Sock!ParseFragment, Sock!ParseEnd, Sock!CanWriteCbEmpty, Sock!CanWriteCb,
       Sock!CanWriteCbFails, Sock!HandshakeResumes, Sock!SigPipe
  <2> QED BY <1>1, <2>1
<1>6. CASE BrokerReads
  <2> DEFINE p == written[brRead + 1]
  <2>1. p \in OutPacket
    BY <1>6 DEF BrokerReads, IInv, TypeInv
  <2>2. inq' = inq \/ \E reply \in Replies(p) : inq' = Append(inq, reply)
    BY <1>6 DEF BrokerReads, Sock!PeerSend
  <2> HIDE DEF p
  <2>3. \A reply \in Replies(p) : reply \in InPacket
    BY <2>1, InPackets
  <2> QED BY <1>1, <2>2, <2>3
<1>7. CASE \E topic \in Topics, qos \in 0..2 : BrokerPublishes(topic, qos)
  <2>1. PICK topic \in Topics, qos \in 0..2 : BrokerPublishes(topic, qos)
    BY <1>7
  <2> DEFINE p == [type |-> "PUBLISH", topic |-> topic, qos |-> qos]
  <2>2. inq' = Append(inq, p)
    BY <2>1 DEF BrokerPublishes, Sock!PeerSend
  <2>3. p \in InPacket
    BY Published
  <2> HIDE DEF p
  <2> QED BY <1>1, <2>2, <2>3
<1>8. CASE BrokerGoes
  BY <1>1, <1>8 DEF BrokerGoes, Sock!PeerClose, Sock!PeerReset, Sock!PeerControl
<1>9. CASE UNCHANGED vars
  BY <1>1, <1>9 DEF vars
<1> QED BY <1>2, <1>3, <1>4, <1>5, <1>6, <1>7, <1>8, <1>9
        DEF Next, Client, Handler, Broker

\* As long as no filter is a prefix of another (main.c's are not), a PUBLISH on
\* the exact topic of a granted filter is passed to the callback of that filter
\* once and to no other, whatever malloc left in `efficient`.
THEOREM LiteralsDelivered ==
    ASSUME \A i, j \in Filter : IsPrefix(Filters[i], Filters[j]) => i = j
    PROVE  Spec => LiteralDelivered
<1>1. ASSUME IInv, [Next]_vars,
             NEW p \in InPacket, NEW i \in Filter, subacked /\ i \in granted,
             p.type = "PUBLISH" /\ p.topic = Filters[i],
             inq # << >> /\ inq' = Tail(inq) /\ Head(inq) = p
      PROVE  calls' = calls \o << << i, p.topic >> >>
  <2>1. OnPublish
    <3>1. Len(Tail(inq)) = Len(inq) - 1
      BY <1>1, HeadTailProperties DEF IInv, TypeInv
    <3> QED BY <1>1, <3>1, OnlyParse
  <2>2. calls' = calls \o Calls(Filters[i])
    BY <1>1, <2>1 DEF OnPublish
  <2>3. efficient[i]
    BY <1>1 DEF IInv, GrantsFollowed
  <2>4. Calls(Filters[i]) = << << i, Filters[i] >> >>
    BY <2>3, OneCall
  <2> QED BY <1>1, <2>2, <2>4
<1>2. IInv /\ [Next]_vars =>
        [\A p \in InPacket, i \in Filter :
            /\ subacked /\ i \in granted
            /\ p.type = "PUBLISH" /\ p.topic = Filters[i]
            => Called(p, << << i, p.topic >> >>)]_vars
  BY <1>1 DEF Called
<1> QED BY <1>2, Invariant, PTL DEF Spec, LiteralDelivered

=============================================================================
