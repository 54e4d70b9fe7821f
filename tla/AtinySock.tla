------------------------------ MODULE AtinySock ------------------------------
(***************************************************************************)
(* The event loop of the SDK: src/atiny/atiny_sock.c, the buffers and the  *)
(* event dispatch of src/atiny/atiny.c, and main()'s `for(;;) atiny_poll`. *)
(*                                                                         *)
(* One thread runs everything.  An iteration is one select() followed by   *)
(* up to four callbacks; the variable `phase` names the callback that runs *)
(* next, and each callback is one action.  Between two of them only the    *)
(* network moves.  The loop that cuts packets off recv_buf (in             *)
(* atiny_mqtt_event_handler) is part of the read callback; its iterations  *)
(* are actions of their own.                                               *)
(*                                                                         *)
(* What a handler decides is a parameter: `ps` is the sequence of packets  *)
(* it appends to send_buf.  AtinyClient supplies the MQTT handlers.        *)
(*                                                                         *)
(* Data.  send_buf is the sequence of whole packets in it (every encoder   *)
(* appends a whole packet, and ssl_write never takes a part of one).       *)
(* recv_buf, TLS records and what ssl_read hands over are counted in       *)
(* bytes, because records and reads do not respect packet boundaries:      *)
(* `inq` is the packets the peer has sent that are not cut off yet, in     *)
(* order, and recvLen, plain and wire say where its bytes are.             *)
(***************************************************************************)
EXTENDS Integers, Sequences, Sums

CONSTANTS
    OutPacket,      \* packets the client can send
    InPacket,       \* packets the peer can send
    OutSize,        \* [OutPacket -> Nat \ {0}], bytes
    InSize,         \* [InPacket -> bytes]; a packet has a 2-byte header
    Outputs,        \* what a handler may append at once: a set of sequences
    SendBufSize,    \* ATINY_SEND_BUF_SIZE
    RecvBufSize,    \* ATINY_RECV_BUF_SIZE
    SendFailures,   \* how ifuncs->send may fail while the peer is there:
                    \* "zero" (it returns 0), "error" (it returns -1)
    SplitPackets,   \* may the peer put one packet in two TLS records?
    ControlRecords, \* may it send non-fatal alerts or HelloRequest?
    MaxQueued,      \* bound on the packets ever appended to send_buf
    MaxInq          \* bound on the peer's packets not cut off yet

ASSUME SizeAssumption ==
    /\ OutSize \in [OutPacket -> Nat \ {0}]
    /\ InSize \in [InPacket -> {n \in Nat : n >= 2}]
    /\ SendBufSize \in Nat
    /\ RecvBufSize \in {n \in Nat : n >= 2}

ASSUME EnvAssumption ==
    /\ Outputs \subseteq Seq(OutPacket)
    /\ << >> \in Outputs
    /\ SendFailures \subseteq {"zero", "error"}
    /\ SplitPackets \in BOOLEAN /\ ControlRecords \in BOOLEAN
    /\ MaxQueued \in Nat
    /\ MaxInq \in Nat

VARIABLES
    flags,    \* nc->flags
    phase,    \* the callback of the iteration that runs next
    proto,    \* nc->proto_handler # NULL
    sendBuf,  \* nc->send_buf
    recvLen,  \* nc->recv_buf.len
    ssl,      \* mbedtls handshake state: "fresh", "up", or "down" (failed)
    out,      \* the encrypted record mbedtls still has to send (out_left)
    plain,    \* decrypted bytes ssl_read has not handed over (in_offt)
    inq,      \* the peer's packets not cut off recv_buf yet
    wire,     \* application bytes of each record the socket has received;
              \* 0 for a control record
    peer,     \* the TCP connection: "open", "eof" or "reset"
    queued,   \* history: everything ever appended to send_buf
    written,  \* history: everything in records handed to TCP in full
    skipped   \* history: what left send_buf without being in such a record

loopVars == << flags, phase, proto >>
sendVars == << sendBuf, out, queued, written, skipped >>
recvVars == << recvLen, plain, inq, wire >>
vars == << loopVars, sendVars, recvVars, ssl, peer >>

\* ATINY_FG_UDP and ATINY_FG_ERR are set but no code tests them.
Flags  == {"CONNECTING", "CAN_RD", "CAN_WR", "RECONNECT"}
Phases == {"select", "poll", "connect", "read", "parse", "write",
           "fault", "killed"}
Halt   == {"fault", "killed"}

Min2(a, b) == IF a <= b THEN a ELSE b

\* Bytes of a sequence of packets: nc->send_buf.len, and what the peer sent.
Bytes(ps)   == Total([i \in DOMAIN ps |-> OutSize[ps[i]]])
InBytes(ps) == Total([i \in DOMAIN ps |-> InSize[ps[i]]])

-----------------------------------------------------------------------------
(* How an iteration goes on: atiny_mgr_handle_conn tests the flags in turn. *)

AfterRead(fl)    == IF "CAN_WR" \in fl THEN "write" ELSE "select"
AfterConnect(fl) == IF "CAN_RD" \in fl THEN "read" ELSE AfterRead(fl)
AfterPoll(fl)    == IF "CONNECTING" \in fl THEN "connect" ELSE AfterConnect(fl)

\* Mutants: written at `data` instead of `data + len`.
AppendedBug(buf, ps) == ps \o buf

\* The encoders write at send_buf.data + send_buf.len.
Appended(buf, ps) == buf \o ps

\* mqtt_encode_connect refuses to write when the room is short, and then
\* atiny_mqtt_connect returns -1, which its caller ignores.
Fitting(ps) == IF Bytes(sendBuf \o ps) <= SendBufSize THEN ps ELSE << >>

\* A handler appends `ps` to send_buf.  Apart from mqtt_encode_connect no
\* encoder looks at the room that is left, so the bytes may go past the end
\* of the allocation: nothing is noticed, or the heap is damaged ("fault").
Emit(ps, next) ==
    /\ sendBuf' = Appended(sendBuf, ps)
    /\ queued' = queued \o ps
    /\ \/ phase' = next
       \/ Bytes(sendBuf') > SendBufSize /\ phase' = "fault"
    /\ UNCHANGED << out, written, skipped >>

-----------------------------------------------------------------------------
(* atiny_sock_poll.  select() watches for input always and for output only *)
(* while send_buf holds something; it sees the socket, not the bytes       *)
(* mbedtls has already decrypted.  It reports a part of what is ready:     *)
(* nothing on a time-out or an error, no CAN_WR while the peer's window is *)
(* closed.  A flag that is not reported keeps its value.                   *)

\* Mutant: select() is not asked about output.
ReadyBug == IF wire # << >> \/ peer # "open" THEN {"CAN_RD"} ELSE {}

Ready == (IF wire # << >> \/ peer # "open" THEN {"CAN_RD"} ELSE {})
         \cup (IF sendBuf # << >> THEN {"CAN_WR"} ELSE {})

SockPoll(ready) ==
    /\ phase = "select"
    /\ ready \subseteq Ready
    /\ flags' = flags \cup ready
    /\ phase' = "poll"
    /\ UNCHANGED << proto, sendVars, recvVars, ssl, peer >>

\* atiny_nc_poll_cb: ATINY_EV_POLL goes to the protocol handler once there
\* is one; before that main.c's ev_handler ignores it.
PollCb(ps) ==
    /\ phase = "poll"
    /\ ~proto => ps = << >>
    /\ Emit(ps, AfterPoll(flags))
    /\ UNCHANGED << flags, proto, recvVars, ssl, peer >>

-----------------------------------------------------------------------------
(* atiny_nc_connect_cb.  The handshake loop of atiny_ssl_handshake runs    *)
(* until mbedtls reports success or an error that is not a retry.          *)
(* ATINY_EV_CONNECTED is dispatched in both cases, and ev_handler          *)
(* registers the protocol handler; what it sends is CONNECT.               *)

ConnectCb(ps) ==
    /\ phase = "connect"
    /\ proto' = TRUE
    /\ \/ /\ peer = "open"
          /\ ssl' = "up"
          /\ flags' = flags \ {"CONNECTING", "CAN_RD", "CAN_WR"}
       \/ /\ peer # "eof"
          /\ ssl' = "down"
          /\ flags' = flags \ {"CONNECTING"}
    /\ Emit(Fitting(ps), AfterConnect(flags'))
    /\ UNCHANGED << recvVars, peer >>

\* The peer closed during the handshake: recv() returns 0, atiny_ssl_recv
\* turns that into WANT_READ, and the loop calls mbedtls_ssl_handshake again.
\* (A peer that sends an alert before it closes is a failure of ConnectCb
\* followed by PeerClose.)
HandshakeSpin ==
    /\ phase = "connect"
    /\ peer = "eof"
    /\ UNCHANGED vars

-----------------------------------------------------------------------------
(* atiny_nc_can_read_cb.  mbedtls_ssl_read hands over what is left of the  *)
(* current record, or else decrypts the next one.                          *)

\* Mutants: the length passed to ssl_read is the size of the buffer; or one
\* byte is kept for a terminator.
SpaceBug   == RecvBufSize
SpaceShort == RecvBufSize - recvLen - 1

\* recv_buf.size - recv_buf.len
Space == RecvBufSize - recvLen

\* Mutant: the rest of a record is dropped.
LeftOverBug(record, rc) == 0

\* What mbedtls keeps of a record after handing over rc bytes.
LeftOver(record, rc) == record - rc

CanReadCb ==
    LET record == IF plain > 0 THEN plain ELSE Head(wire)
        rc     == IF Space > 0 THEN Min2(record, Space) ELSE 0
    IN  /\ phase = "read"
        /\ ssl = "up"
        /\ plain > 0 \/ (wire # << >> /\ record > 0)
        /\ flags' = flags \ {"CAN_RD"}
        /\ recvLen' = recvLen + rc
        /\ IF Space > 0
           THEN /\ plain' = LeftOver(record, rc)
                /\ wire' = IF plain > 0 THEN wire ELSE Tail(wire)
           ELSE UNCHANGED << plain, wire >>
        /\ phase' = IF rc > 0 THEN "parse" ELSE AfterRead(flags')
        /\ UNCHANGED << proto, sendVars, inq, ssl, peer >>

\* mbedtls_ssl_read_record skips a warning alert and reads the next record in
\* the same call, which on a blocking socket waits for the peer.
CanReadCbAlert ==
    /\ phase = "read"
    /\ ssl = "up"
    /\ plain = 0 /\ wire # << >> /\ Space > 0
    /\ Head(wire) = 0
    /\ wire' = Tail(wire)
    /\ UNCHANGED << loopVars, sendVars, recvLen, plain, inq, ssl, peer >>

\* HelloRequest and no_renegotiation make mbedtls_ssl_read return WANT_READ.
\* CAN_RD stays set, so the next iteration reads again, and that read waits
\* for the peer.
CanReadCbControl ==
    /\ phase = "read"
    /\ ssl = "up"
    /\ plain = 0 /\ wire # << >> /\ Space > 0
    /\ Head(wire) = 0
    /\ wire' = Tail(wire)
    /\ flags' = flags \cup {"CAN_RD", "RECONNECT"}
    /\ phase' = AfterRead(flags)
    /\ UNCHANGED << proto, sendVars, recvLen, plain, inq, ssl, peer >>

\* mbedtls_ssl_read returns another negative value: the handshake never succeeded,
\* or the peer is gone.  WANT_READ (recv() returned 0) keeps CAN_RD set, and
\* every negative value sets RECONNECT.
CanReadCbFails ==
    /\ phase = "read"
    /\ ssl = "down" \/ (plain = 0 /\ wire = << >> /\ peer # "open")
    /\ \/ flags' = (flags \ {"CAN_RD"}) \cup {"RECONNECT"}
       \/ peer = "eof" /\ flags' = flags \cup {"CAN_RD", "RECONNECT"}
    /\ phase' = AfterRead(flags')
    /\ UNCHANGED << proto, sendVars, recvVars, ssl, peer >>

-----------------------------------------------------------------------------
(* The ATINY_EV_RECV loop of atiny_mqtt_event_handler.  The parser does    *)
(* not ask whether the packet whose header it sees is complete.            *)

\* Mutant: the loop stops while a two-byte packet is in the buffer.
TooShortBug == recvLen < 4

\* MQTTPACKET_BUFFER_TOO_SHORT
TooShort == recvLen < 2

\* What atiny_mqtt_parser returns: the header's length and remaining length.
PacketLen == InSize[Head(inq)]

\* memmove and recv_buf.len -= len
ParsePacket(ps) ==
    /\ phase = "parse"
    /\ ~TooShort /\ inq # << >>
    /\ recvLen >= PacketLen
    /\ recvLen' = recvLen - PacketLen
    /\ inq' = Tail(inq)
    /\ Emit(ps, "parse")
    /\ UNCHANGED << flags, proto, plain, wire, ssl, peer >>

\* recv_buf.len - len, the length given to memmove, wraps around.
ParseFragment ==
    /\ phase = "parse"
    /\ ~TooShort /\ inq # << >>
    /\ recvLen < PacketLen
    /\ phase' = "fault"
    /\ UNCHANGED << flags, proto, sendVars, recvVars, ssl, peer >>

\* MQTTPACKET_BUFFER_TOO_SHORT ends the loop.
ParseEnd ==
    /\ phase = "parse"
    /\ TooShort
    /\ phase' = AfterRead(flags)
    /\ UNCHANGED << flags, proto, sendVars, recvVars, ssl, peer >>

-----------------------------------------------------------------------------
(* atiny_nc_can_write_cb over mbedtls_ssl_write.  While an earlier record  *)
(* is not out in full, ssl_write only sends the rest of that record and    *)
(* still returns the length of the buffer it was called with.              *)

CanWriteCbEmpty ==
    /\ phase = "write"
    /\ sendBuf = << >>
    /\ flags' = flags \ {"CAN_WR"}
    /\ phase' = "select"
    /\ UNCHANGED << proto, sendVars, recvVars, ssl, peer >>

\* Mutant: send_buf.len is not reduced.
ShiftedBug(rc) == sendBuf

\* send_buf after memmove and `len -= rc`.
Shifted(rc) == SubSeq(sendBuf, rc + 1, Len(sendBuf))

CanWriteCb ==
    LET record == IF out = << >> THEN sendBuf ELSE out
        rc     == Len(sendBuf)
    IN  /\ phase = "write"
        /\ sendBuf # << >>
        /\ ssl = "up"
        /\ peer # "reset"
        /\ written' = written \o record
        /\ skipped' = skipped
                      \o SubSeq(sendBuf, Len(record) + 1, Len(sendBuf))
        /\ out' = << >>
        /\ sendBuf' = Shifted(rc)
        /\ flags' = flags \ {"CAN_WR"}
        /\ phase' = "select"
        /\ UNCHANGED << queued, proto, recvVars, ssl, peer >>

\* A negative result.  0 from send() becomes WANT_WRITE, which keeps CAN_WR
\* set; as every negative value does, it also sets RECONNECT.
CanWriteCbFails(failure) ==
    /\ phase = "write"
    /\ sendBuf # << >>
    /\ \/ failure \in SendFailures
       \/ failure = "error" /\ (peer = "reset" \/ ssl = "down")
    /\ out' = IF out = << >> /\ ssl = "up" THEN sendBuf ELSE out
    /\ flags' = (flags \ (IF failure = "zero" THEN {} ELSE {"CAN_WR"}))
                \cup {"RECONNECT"}
    /\ phase' = "select"
    /\ UNCHANGED << proto, sendBuf, queued, written, skipped,
                    recvVars, ssl, peer >>

\* The handshake that failed goes on inside ssl_read or ssl_write, and may
\* succeed after all; the callback then continues with the session up.
HandshakeResumes ==
    /\ phase \in {"read", "write"}
    /\ ssl = "down"
    /\ phase = "write" => sendBuf # << >>
    /\ peer = "open"
    /\ ssl' = "up"
    /\ UNCHANGED << loopVars, sendVars, recvVars, peer >>

\* send() on a connection that was reset raises SIGPIPE, which nothing
\* handles.
SigPipe ==
    /\ peer = "reset"
    /\ phase = "connect" \/ (phase = "write" /\ sendBuf # << >>)
    /\ phase' = "killed"
    /\ UNCHANGED << flags, proto, sendVars, recvVars, ssl, peer >>

-----------------------------------------------------------------------------
(* The peer and TCP.                                                       *)

\* A packet comes in a record of its own, at the end of the record before,
\* or cut in two.
PeerSend(p) ==
    LET size == InSize[p]
    IN  /\ peer = "open"
        /\ ssl = "up"
        /\ inq' = Append(inq, p)
        /\ \/ wire' = Append(wire, size)
           \/ /\ wire # << >> /\ wire[Len(wire)] > 0
              /\ wire' = [wire EXCEPT ![Len(wire)] = @ + size]
           \/ /\ SplitPackets
              /\ \E k \in 1..(size - 1) : wire' = wire \o << k, size - k >>
        /\ UNCHANGED << loopVars, sendVars, recvLen, plain, ssl, peer >>

PeerControl ==
    /\ ControlRecords
    /\ peer = "open" /\ ssl = "up"
    /\ wire' = Append(wire, 0)
    /\ UNCHANGED << loopVars, sendVars, recvLen, plain, inq, ssl, peer >>

PeerClose ==
    /\ peer = "open"
    /\ peer' = "eof"
    /\ UNCHANGED << loopVars, sendVars, recvVars, ssl >>

PeerReset ==
    /\ peer # "reset"
    /\ peer' = "reset"
    /\ UNCHANGED << loopVars, sendVars, recvVars, ssl >>

-----------------------------------------------------------------------------
\* nc comes from malloc and its flags are or-ed into: bits that were not
\* written hold anything.  connect() has succeeded, or failed unnoticed.
Init ==
    /\ \E garbage \in SUBSET (Flags \ {"CONNECTING"}) :
          flags = garbage \cup {"CONNECTING"}
    /\ phase = "select"
    /\ proto = FALSE
    /\ sendBuf = << >> /\ out = << >>
    /\ recvLen = 0 /\ plain = 0 /\ inq = << >> /\ wire = << >>
    /\ ssl = "fresh"
    /\ peer \in {"open", "reset"}
    /\ queued = << >> /\ written = << >> /\ skipped = << >>

Handler(ps) == PollCb(ps) \/ ConnectCb(ps) \/ ParsePacket(ps)

Callback ==
    \/ \E ps \in Outputs : Len(queued) + Len(ps) <= MaxQueued /\ Handler(ps)
    \/ CanReadCb \/ CanReadCbAlert \/ CanReadCbControl \/ CanReadCbFails
    \/ ParseFragment \/ ParseEnd
    \/ CanWriteCbEmpty \/ CanWriteCb
    \/ \E failure \in {"zero", "error"} : CanWriteCbFails(failure)
    \/ HandshakeResumes
    \/ SigPipe

Peer ==
    \/ \E p \in InPacket : Len(inq) < MaxInq /\ PeerSend(p)
    \/ Len(wire) < MaxInq /\ PeerControl
    \/ PeerClose
    \/ PeerReset

Halted == phase \in Halt /\ UNCHANGED vars

Next ==
    \/ \E ready \in SUBSET {"CAN_RD", "CAN_WR"} : SockPoll(ready)
    \/ Callback
    \/ HandshakeSpin
    \/ Peer
    \/ Halted

\* The thread keeps running; select() reports all that is ready again and
\* again (the peer's window does not stay closed); send() does not fail for
\* ever.  Nothing is assumed of the peer.
Fairness ==
    /\ WF_vars(\E ready \in SUBSET {"CAN_RD", "CAN_WR"} : SockPoll(ready))
    /\ SF_vars(SockPoll(Ready))
    /\ WF_vars(Callback)
    /\ SF_vars(CanWriteCb)

Spec == Init /\ [][Next]_vars /\ Fairness

-----------------------------------------------------------------------------
(* Invariants.  AtinySockProofs proves them for all constants.             *)

\* Every variable has its type; recv_buf.len never exceeds the buffer.
TypeOK ==
    /\ flags \subseteq Flags
    /\ phase \in Phases
    /\ proto \in BOOLEAN
    /\ sendBuf \in Seq(OutPacket) /\ out \in Seq(OutPacket)
    /\ recvLen \in 0..RecvBufSize
    /\ ssl \in {"fresh", "up", "down"}
    /\ plain \in Nat
    /\ inq \in Seq(InPacket) /\ wire \in Seq(Nat)
    /\ peer \in {"open", "eof", "reset"}
    /\ queued \in Seq(OutPacket) /\ written \in Seq(OutPacket)
    /\ skipped \in Seq(OutPacket)

\* The RECV loop leaves at most one byte in recv_buf, so atiny_nc_can_read_cb
\* never finds the buffer full and never reads 0 bytes for lack of room.
RecvDrained == phase \notin {"parse", "fault"} => recvLen <= 1

\* The record mbedtls is still sending is the front of send_buf: a retry
\* never sends bytes that send_buf has given up.
RecordIsFront ==
    Len(out) <= Len(sendBuf) /\ out = SubSeq(sendBuf, 1, Len(out))

\* Until a retry skips something, send_buf holds exactly what was appended
\* and has not gone out, in order (memmove and `len -= rc` in
\* atiny_nc_can_write_cb against the appends of atiny_mqtt.c).
SendConserved == skipped = << >> => queued = written \o sendBuf

\* Packets are never reordered or doubled, whatever send() returns: what went
\* out is what was appended with some packets left out.
NoReorder ==
    \E f \in [DOMAIN written -> DOMAIN queued] :
        /\ \A i, j \in DOMAIN written : i < j => f[i] < f[j]
        /\ \A i \in DOMAIN written : written[i] = queued[f[i]]

\* No received byte is lost, counted twice or cut off with the wrong packet:
\* recv_buf, mbedtls and the socket together hold exactly the packets that
\* have not been cut off (atiny_nc_can_read_cb and the loop in
\* atiny_mqtt_event_handler).
RecvConserved == recvLen + plain + Total(wire) = InBytes(inq)

\* The loop does not end in a fault: true of buffers that hold what arrives and
\* what the handlers append, and of packets that are not split.
NoFault == phase # "fault"

\* The send path implements OutStream: each step appends or delivers a prefix
\* of what is due, or changes neither.  True while send() does not fail on an
\* open connection (SendFailures = {}).
Stream == INSTANCE OutStream WITH queued <- queued, written <- written
StreamSpec == Stream!Spec
=============================================================================
