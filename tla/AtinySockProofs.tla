--------------------------- MODULE AtinySockProofs ---------------------------
(***************************************************************************)
(* Theorems about AtinySock, for every value of its constants: its         *)
(* invariants, and that the send path implements OutStream as long as      *)
(* send() does not fail on an open connection.                             *)
(***************************************************************************)
EXTENDS AtinySock, SumProofs

USE DEF Flags, Phases

\* The next callback is one of the phases, whatever the flags.
LEMMA NextPhase ==
    ASSUME NEW fl
    PROVE  /\ AfterRead(fl) \in {"write", "select"}
           /\ AfterConnect(fl) \in {"read", "write", "select"}
           /\ AfterPoll(fl) \in {"connect", "read", "write", "select"}
BY DEF AfterRead, AfterConnect, AfterPoll

\* What atiny_mqtt_connect hands to send_buf may be appended, too.
LEMMA FittingIs ==
    ASSUME NEW ps \in Outputs
    PROVE  /\ Fitting(ps) \in {ps, << >>} /\ Fitting(ps) \in Outputs
           /\ Len(Fitting(ps)) <= Len(ps)
<1>1. ps \in Seq(OutPacket) /\ << >> \in Outputs
  BY EnvAssumption
<1>2. Fitting(ps) \in {ps, << >>}
  BY DEF Fitting
<1>3. Len(ps) \in Nat /\ Len(<< >>) = 0
  BY <1>1, LenProperties
<1> QED BY <1>1, <1>2, <1>3

\* A handler's step appends something and goes on.
LEMMA HandlerEmits ==
    ASSUME NEW ps \in Outputs, Handler(ps)
    PROVE  \E qs \in Outputs, next \in Phases :
              Emit(qs, next) /\ next # "fault" /\ Len(qs) <= Len(ps)
<1>1. Len(ps) <= Len(ps)
  BY EnvAssumption, LenProperties
<1>2. CASE PollCb(ps)
  <2>1. Emit(ps, AfterPoll(flags)) /\ AfterPoll(flags) \in Phases
        /\ AfterPoll(flags) # "fault"
    BY <1>2, NextPhase DEF PollCb
  <2> QED BY <1>1, <2>1
<1>3. CASE ConnectCb(ps)
  <2>1. Emit(Fitting(ps), AfterConnect(flags')) /\ AfterConnect(flags') \in Phases
        /\ AfterConnect(flags') # "fault"
    BY <1>3, NextPhase DEF ConnectCb
  <2> QED BY <2>1, FittingIs
<1>4. CASE ParsePacket(ps)
  BY <1>1, <1>4 DEF ParsePacket
<1> QED BY <1>2, <1>3, <1>4 DEF Handler

\* A handler keeps the type of what it touches.
LEMMA EmitType ==
    ASSUME TypeOK, NEW ps \in Outputs, NEW next \in Phases, Emit(ps, next)
    PROVE  /\ sendBuf' \in Seq(OutPacket) /\ queued' \in Seq(OutPacket)
           /\ out' \in Seq(OutPacket) /\ written' \in Seq(OutPacket)
           /\ skipped' \in Seq(OutPacket) /\ phase' \in Phases
           /\ phase' \in {next, "fault"}
<1>1. ps \in Seq(OutPacket)
  BY EnvAssumption
<1>2. /\ sendBuf \o ps \in Seq(OutPacket)
      /\ queued \o ps \in Seq(OutPacket)
  BY <1>1, ConcatProperties DEF TypeOK
<1> QED
  BY <1>2 DEF Emit, Appended, TypeOK

-----------------------------------------------------------------------------
(* Type correctness.                                                       *)

LEMMA TypeHandler ==
    ASSUME TypeOK, NEW ps \in Outputs, Handler(ps)
    PROVE  TypeOK'
<1>1. CASE PollCb(ps)
  <2>1. AfterPoll(flags) \in Phases
    BY NextPhase
  <2> QED
    BY <1>1, <2>1, EmitType DEF TypeOK, PollCb, recvVars
<1>2. CASE ConnectCb(ps)
  <2>1. AfterConnect(flags') \in Phases
    BY NextPhase
  <2> QED
    BY <1>2, <2>1, EmitType, FittingIs DEF TypeOK, ConnectCb, recvVars
<1>3. CASE ParsePacket(ps)
  <2>1. Head(inq) \in InPacket /\ Tail(inq) \in Seq(InPacket)
    BY <1>3, HeadTailProperties DEF ParsePacket, TypeOK
  <2>2. PacketLen \in Nat
    BY <2>1, SizeAssumption DEF PacketLen
  <2>3. recvLen' \in 0..RecvBufSize
    BY <1>3, <2>2, SizeAssumption DEF ParsePacket, TypeOK
  <2> QED
    BY <1>3, <2>1, <2>3, EmitType DEF TypeOK, ParsePacket
<1> QED
  BY <1>1, <1>2, <1>3 DEF Handler

LEMMA TypeRead ==
    ASSUME TypeOK, CanReadCb
    PROVE  TypeOK'
<1> DEFINE record == IF plain > 0 THEN plain ELSE Head(wire)
           rc     == IF Space > 0 THEN Min2(record, Space) ELSE 0
<1>1. Space \in Nat
  BY SizeAssumption DEF Space, TypeOK
<1>2. record \in Nat
  BY HeadTailProperties DEF CanReadCb, TypeOK
<1>3. rc \in 0..Space /\ (Space > 0 => rc <= record)
  BY <1>1, <1>2 DEF Min2
<1>4. recvLen' \in 0..RecvBufSize
  <2>1. recvLen' = recvLen + rc
    BY DEF CanReadCb
  <2> HIDE DEF rc
  <2> QED
    BY <2>1, <1>3, SizeAssumption DEF Space, TypeOK
<1>5. plain' \in Nat /\ wire' \in Seq(Nat)
  <2>1. CASE Space > 0
    <3>1. plain' = record - rc /\ wire' = IF plain > 0 THEN wire ELSE Tail(wire)
      BY <2>1 DEF CanReadCb, LeftOver
    <3>2. plain > 0 \/ wire # << >>
      BY DEF CanReadCb
    <3>3. wire' \in Seq(Nat)
      BY <3>1, <3>2, HeadTailProperties DEF TypeOK
    <3> HIDE DEF record, rc
    <3> QED
      BY <2>1, <3>1, <3>3, <1>2, <1>3, <1>1
  <2>2. CASE ~(Space > 0)
    BY <2>2 DEF CanReadCb, TypeOK
  <2> QED
    BY <2>1, <2>2
<1>6. phase' \in Phases
  BY NextPhase DEF CanReadCb
<1> QED
  BY <1>4, <1>5, <1>6 DEF CanReadCb, TypeOK, sendVars

LEMMA TypeCallback ==
    ASSUME TypeOK, Callback
    PROVE  TypeOK'
<1>1. ASSUME NEW ps \in Outputs, Handler(ps)
      PROVE  TypeOK'
  BY <1>1, TypeHandler
<1>2. CASE CanReadCb
  BY <1>2, TypeRead
<1>3. CASE CanReadCbControl \/ CanReadCbAlert
  <2>1. Tail(wire) \in Seq(Nat)
    BY <1>3, HeadTailProperties DEF CanReadCbControl, CanReadCbAlert, TypeOK
  <2> QED
    BY <1>3, <2>1, NextPhase
       DEF CanReadCbControl, CanReadCbAlert, TypeOK, sendVars, loopVars
<1>4. CASE CanReadCbFails
  BY <1>4, NextPhase DEF CanReadCbFails, TypeOK, sendVars, recvVars
<1>5. CASE ParseFragment
  BY <1>5 DEF ParseFragment, TypeOK, sendVars, recvVars
<1>6. CASE ParseEnd
  BY <1>6, NextPhase DEF ParseEnd, TypeOK, sendVars, recvVars
<1>7. CASE CanWriteCbEmpty
  BY <1>7 DEF CanWriteCbEmpty, TypeOK, sendVars, recvVars
<1>8. CASE CanWriteCb
  <2> DEFINE record == IF out = << >> THEN sendBuf ELSE out
  <2>1. /\ record \in Seq(OutPacket)
        /\ Len(record) \in Nat /\ Len(sendBuf) \in Nat
    BY LenProperties DEF TypeOK
  <2>2. SubSeq(sendBuf, Len(record) + 1, Len(sendBuf)) \in Seq(OutPacket)
    BY <2>1, ElementOfSeq, SubSeqProperties DEF TypeOK
  <2>3. sendBuf' = << >>
    BY <1>8, <2>1, SubSeqEmpty DEF CanWriteCb, Shifted
  <2>4. written' \in Seq(OutPacket) /\ skipped' \in Seq(OutPacket)
    BY <1>8, <2>1, <2>2, ConcatProperties DEF CanWriteCb, TypeOK
  <2> QED
    BY <1>8, <2>3, <2>4 DEF CanWriteCb, TypeOK, recvVars
<1>9. ASSUME NEW failure \in {"zero", "error"}, CanWriteCbFails(failure)
      PROVE  TypeOK'
  BY <1>9 DEF CanWriteCbFails, TypeOK, recvVars
<1>10. CASE HandshakeResumes
  BY <1>10 DEF HandshakeResumes, TypeOK, loopVars, sendVars, recvVars
<1>11. CASE SigPipe
  BY <1>11 DEF SigPipe, TypeOK, sendVars, recvVars
<1> QED
  BY <1>1, <1>2, <1>3, <1>4, <1>5, <1>6, <1>7, <1>8, <1>9, <1>10, <1>11
     DEF Callback

LEMMA TypePeer ==
    ASSUME TypeOK, Peer
    PROVE  TypeOK'
<1>1. ASSUME NEW p \in InPacket, PeerSend(p)
      PROVE  TypeOK'
  <2> DEFINE size == InSize[p]
  <2>1. size \in Nat
    BY SizeAssumption
  <2>2. inq' \in Seq(InPacket)
    BY <1>1, AppendProperties DEF PeerSend, TypeOK
  <2>3. wire' \in Seq(Nat)
    <3>1. CASE wire' = Append(wire, size)
      BY <3>1, <2>1, AppendProperties DEF TypeOK
    <3>2. CASE /\ wire # << >>
               /\ wire' = [wire EXCEPT ![Len(wire)] = @ + size]
      <4>1. Len(wire) \in 1..Len(wire) /\ wire[Len(wire)] \in Nat
        BY <3>2, EmptySeq, LenProperties, ElementOfSeq DEF TypeOK
      <4>2. wire \in Seq(Nat) /\ wire[Len(wire)] + size \in Nat
        BY <2>1, <4>1 DEF TypeOK
      <4>3. [wire EXCEPT ![Len(wire)] = wire[Len(wire)] + size] \in Seq(Nat)
        BY <4>1, <4>2, ExceptSeq
      <4> QED
        BY <3>2, <4>3
    <3>3. ASSUME NEW k \in 1..(size - 1), wire' = wire \o << k, size - k >>
          PROVE  wire' \in Seq(Nat)
      <4>1. k \in Nat /\ size - k \in Nat
        BY <2>1
      <4>2. << k, size - k >> \in Seq(Nat)
        BY <4>1
      <4> QED
        BY <3>3, <4>2, ConcatProperties DEF TypeOK
    <3> QED
      BY <1>1, <3>1, <3>2, <3>3 DEF PeerSend
  <2> QED
    BY <1>1, <2>2, <2>3 DEF PeerSend, TypeOK, loopVars, sendVars
<1>2. CASE PeerControl
  <2>1. wire' \in Seq(Nat)
    BY <1>2, AppendProperties DEF PeerControl, TypeOK
  <2> QED
    BY <1>2, <2>1 DEF PeerControl, TypeOK, loopVars, sendVars
<1>3. CASE PeerClose
  BY <1>3 DEF PeerClose, TypeOK, loopVars, sendVars, recvVars
<1>4. CASE PeerReset
  BY <1>4 DEF PeerReset, TypeOK, loopVars, sendVars, recvVars
<1> QED
  BY <1>1, <1>2, <1>3, <1>4 DEF Peer

LEMMA TypeStep ==
    ASSUME TypeOK, [Next]_vars
    PROVE  TypeOK'
<1>1. ASSUME NEW ready \in SUBSET {"CAN_RD", "CAN_WR"}, SockPoll(ready)
      PROVE  TypeOK'
  BY <1>1 DEF SockPoll, TypeOK, sendVars, recvVars
<1>2. CASE Callback
  BY <1>2, TypeCallback
<1>3. CASE Peer
  BY <1>3, TypePeer
<1>4. CASE UNCHANGED vars
  BY <1>4 DEF vars, loopVars, sendVars, recvVars, TypeOK
<1> QED
  BY <1>1, <1>2, <1>3, <1>4 DEF Next, HandshakeSpin, Halted

LEMMA TypeInit == Init => TypeOK
<1> SUFFICES ASSUME Init PROVE TypeOK
  OBVIOUS
<1>1. flags \subseteq Flags
  BY DEF Init
<1>2. 0 \in 0..RecvBufSize /\ 0 \in Nat
  BY SizeAssumption
<1>3. << >> \in Seq(OutPacket) /\ << >> \in Seq(InPacket) /\ << >> \in Seq(Nat)
  BY EmptySeq
<1>4. /\ sendBuf \in Seq(OutPacket) /\ out \in Seq(OutPacket)
      /\ queued \in Seq(OutPacket) /\ written \in Seq(OutPacket)
      /\ skipped \in Seq(OutPacket)
      /\ inq \in Seq(InPacket) /\ wire \in Seq(Nat)
  BY <1>3, Zenon DEF Init
<1>5. recvLen \in 0..RecvBufSize /\ plain \in Nat
  BY <1>2, Zenon DEF Init
<1> QED
  BY <1>1, <1>4, <1>5 DEF Init, TypeOK

\* Every reachable state of the event loop is well typed; in particular
\* atiny_nc_can_read_cb never reads past the end of recv_buf.
THEOREM TypeCorrect == Spec => []TypeOK
BY TypeInit, TypeStep, PTL DEF Spec

-----------------------------------------------------------------------------
(* The receive buffer is drained by each RECV event.                       *)

LEMMA DrainedStep ==
    ASSUME TypeOK, RecvDrained, [Next]_vars
    PROVE  RecvDrained'
<1>1. ASSUME NEW ready \in SUBSET {"CAN_RD", "CAN_WR"}, SockPoll(ready)
      PROVE  RecvDrained'
  BY <1>1 DEF SockPoll, RecvDrained, recvVars
<1>2. ASSUME NEW ps \in Outputs, Handler(ps)
      PROVE  RecvDrained'
  <2>1. CASE PollCb(ps)
    BY <2>1 DEF PollCb, RecvDrained, recvVars
  <2>2. CASE ConnectCb(ps)
    BY <2>2 DEF ConnectCb, RecvDrained, recvVars
  <2>3. CASE ParsePacket(ps)
    BY <2>3 DEF ParsePacket, Emit, RecvDrained
  <2> QED
    BY <1>2, <2>1, <2>2, <2>3 DEF Handler
<1>3. CASE CanReadCb
  <2> DEFINE record == IF plain > 0 THEN plain ELSE Head(wire)
             rc     == IF Space > 0 THEN Min2(record, Space) ELSE 0
  <2>1. recvLen <= 1 /\ recvLen \in Nat
    BY <1>3, SizeAssumption DEF CanReadCb, RecvDrained, TypeOK
  <2>2. record \in Nat /\ Space \in Int
    BY <1>3, HeadTailProperties, SizeAssumption
       DEF CanReadCb, TypeOK, Space
  <2>3. rc \in Nat
    BY <2>2 DEF Min2
  <2>4. /\ recvLen' = recvLen + rc
        /\ phase' = IF rc > 0 THEN "parse" ELSE AfterRead(flags')
    BY <1>3 DEF CanReadCb
  <2> HIDE DEF rc
  <2> QED
    BY <2>1, <2>3, <2>4 DEF RecvDrained
<1>4. CASE CanReadCbControl \/ CanReadCbAlert
  BY <1>4 DEF CanReadCbControl, CanReadCbAlert, RecvDrained, loopVars
<1>5. CASE CanReadCbFails
  BY <1>5 DEF CanReadCbFails, RecvDrained, recvVars
<1>6. CASE ParseFragment
  BY <1>6 DEF ParseFragment, RecvDrained
<1>7. CASE ParseEnd
  BY <1>7 DEF ParseEnd, TooShort, RecvDrained, TypeOK, recvVars
<1>8. CASE CanWriteCbEmpty \/ CanWriteCb
  BY <1>8 DEF CanWriteCbEmpty, CanWriteCb, RecvDrained, recvVars
<1>9. ASSUME NEW failure \in {"zero", "error"}, CanWriteCbFails(failure)
      PROVE  RecvDrained'
  BY <1>9 DEF CanWriteCbFails, RecvDrained, recvVars
<1>10. CASE HandshakeResumes \/ SigPipe
  BY <1>10 DEF HandshakeResumes, SigPipe, RecvDrained, loopVars, recvVars
<1>11. CASE Peer
  BY <1>11 DEF Peer, PeerSend, PeerControl, PeerClose, PeerReset,
               RecvDrained, loopVars, recvVars
<1>12. CASE UNCHANGED vars
  BY <1>12 DEF vars, loopVars, recvVars, RecvDrained
<1> QED
  BY <1>1, <1>2, <1>3, <1>4, <1>5, <1>6, <1>7, <1>8, <1>9, <1>10, <1>11,
     <1>12 DEF Next, Callback, HandshakeSpin, Halted

\* Between RECV events recv_buf holds at most one byte, so the read callback
\* always has room to read into.
THEOREM ReceiveDrained == Spec => []RecvDrained
<1>1. Init => RecvDrained
  BY DEF Init, RecvDrained
<1> QED
  BY <1>1, TypeCorrect, DrainedStep, PTL DEF Spec

-----------------------------------------------------------------------------
(* The send buffer.  SendConserved needs RecordIsFront: a write that finds  *)
(* an unfinished record skips nothing only when that record is the whole    *)
(* of send_buf, and then it is send_buf.                                    *)

SendInv == RecordIsFront /\ SendConserved

\* The rest of a sequence is empty only if nothing was left.
LEMMA RestOf ==
    ASSUME NEW s \in Seq(OutPacket), NEW k \in Nat
    PROVE  /\ SubSeq(s, k + 1, Len(s)) \in Seq(OutPacket)
           /\ SubSeq(s, k + 1, Len(s)) = << >> => Len(s) <= k
<1> DEFINE rest == SubSeq(s, k + 1, Len(s))
<1>1. /\ k + 1 \in Int /\ Len(s) \in Int
      /\ \A i \in (k + 1)..Len(s) : s[i] \in OutPacket
  BY ElementOfSeq, LenProperties
<1>2. /\ rest \in Seq(OutPacket)
      /\ Len(rest) = IF k + 1 <= Len(s) THEN Len(s) - (k + 1) + 1 ELSE 0
  BY <1>1, SubSeqProperties
<1> HIDE DEF rest
<1>3. ASSUME rest = << >>
      PROVE  Len(s) <= k
  <2>1. Len(rest) = 0
    BY <1>3
  <2>2. Len(s) \in Nat
    BY LenProperties
  <2> QED
    BY <1>2, <2>1, <2>2
<1> QED
  BY <1>2, <1>3 DEF rest

\* Concatenation, for the sequences at hand.
LEMMA Concat ==
    /\ \A s, t, u \in Seq(OutPacket) : (s \o t) \o u = s \o (t \o u)
    /\ \A s, t \in Seq(OutPacket) :
          s \o t = << >> => s = << >> /\ t = << >>
BY ConcatAssociative, ConcatEqualIffEmpty

\* Appending to send_buf does not disturb its front.
LEMMA EmitSend ==
    ASSUME TypeOK, SendInv, NEW ps \in Outputs, NEW next, Emit(ps, next)
    PROVE  SendInv'
<1>1. ps \in Seq(OutPacket)
  BY EnvAssumption
<1>2. /\ sendBuf' = sendBuf \o ps /\ queued' = queued \o ps
      /\ out' = out /\ written' = written /\ skipped' = skipped
  BY DEF Emit, Appended
<1>3. /\ Len(out) \in Nat /\ Len(sendBuf) \in Nat /\ Len(ps) \in Nat
      /\ Len(sendBuf \o ps) = Len(sendBuf) + Len(ps)
  BY <1>1, LenProperties, ConcatProperties DEF TypeOK
<1>4. RecordIsFront'
  <2>1. SubSeq(sendBuf \o ps, 1, Len(out)) = SubSeq(sendBuf, 1, Len(out))
    <3>1. CASE Len(out) = 0
      BY <3>1, SubSeqEmpty
    <3>2. CASE Len(out) > 0
      <4>1. Len(out) \in 1..Len(sendBuf) /\ 1 \in 1..Len(sendBuf)
        BY <1>3, <3>2 DEF SendInv, RecordIsFront
      <4> QED
        BY <1>1, <4>1, SubSeqOfConcat1 DEF TypeOK
    <3>3. Len(out) = 0 \/ Len(out) > 0
      BY <1>3
    <3> QED
      BY <3>1, <3>2, <3>3, Zenon
  <2>2. Len(out) <= Len(sendBuf \o ps)
    BY <1>3 DEF SendInv, RecordIsFront
  <2> QED
    BY <1>2, <2>1, <2>2 DEF SendInv, RecordIsFront
<1>5. SendConserved'
  <2> SUFFICES ASSUME skipped' = << >>
               PROVE  queued' = written' \o sendBuf'
    BY DEF SendConserved
  <2>1. queued = written \o sendBuf
    BY <1>2 DEF SendInv, SendConserved
  <2>2. written \in Seq(OutPacket) /\ sendBuf \in Seq(OutPacket)
    BY DEF TypeOK
  <2>3. (written \o sendBuf) \o ps = written \o (sendBuf \o ps)
    BY <1>1, <2>2, Concat
  <2> QED
    BY <1>2, <2>1, <2>3
<1> QED
  BY <1>4, <1>5 DEF SendInv

\* atiny_nc_can_write_cb leaves send_buf empty and no record unfinished.
LEMMA WriteSend ==
    ASSUME TypeOK, SendInv, CanWriteCb
    PROVE  SendInv'
<1> DEFINE record == IF out = << >> THEN sendBuf ELSE out
           missed == SubSeq(sendBuf, Len(record) + 1, Len(sendBuf))
<1>1. /\ Len(record) \in Nat /\ Len(sendBuf) \in Nat
      /\ record \in Seq(OutPacket) /\ Len(record) <= Len(sendBuf)
  BY LenProperties DEF TypeOK, SendInv, RecordIsFront
<1>2. sendBuf' = << >> /\ out' = << >>
  BY <1>1, SubSeqEmpty DEF CanWriteCb, Shifted
<1>3. written' = written \o record /\ skipped' = skipped \o missed
      /\ queued' = queued
  BY DEF CanWriteCb
<1>4. RecordIsFront'
  BY <1>2, SubSeqEmpty DEF RecordIsFront
<1>5. SendConserved'
  <2> SUFFICES ASSUME skipped' = << >>
               PROVE  queued' = written' \o sendBuf'
    BY DEF SendConserved
  <2>1. /\ missed \in Seq(OutPacket)
        /\ missed = << >> => Len(sendBuf) <= Len(record)
    <3>1. sendBuf \in Seq(OutPacket) /\ Len(record) \in Nat
      BY <1>1 DEF TypeOK
    <3> HIDE DEF record
    <3> QED
      BY <3>1, RestOf
  <2>2. skipped \in Seq(OutPacket) /\ skipped \o missed = << >>
    BY <1>3 DEF TypeOK
  <2>3. skipped = << >> /\ missed = << >>
    <3> HIDE DEF missed
    <3> QED
      BY <2>1, <2>2, Concat, Zenon
  <2>4. Len(record) = Len(sendBuf)
    <3> HIDE DEF record, missed
    <3> QED
      BY <1>1, <2>1, <2>3
  <2>5. record = sendBuf
    BY <1>1, <2>4, SubSeqFull DEF TypeOK, SendInv, RecordIsFront
  <2>6. written \o record \in Seq(OutPacket)
    BY <1>1, ConcatProperties DEF TypeOK
  <2>7. (written \o record) \o << >> = written \o record
    BY <2>6, ConcatEmptySeq
  <2> QED
    BY <1>2, <1>3, <2>3, <2>5, <2>7 DEF SendInv, SendConserved
<1> QED
  BY <1>4, <1>5 DEF SendInv

\* No other step appends to send_buf or takes anything from it.
LEMMA SendStep ==
    ASSUME TypeOK, SendInv, [Next]_vars
    PROVE  SendInv'
<1> USE DEF SendInv
<1>1. ASSUME NEW ps \in Outputs, Handler(ps)
      PROVE  SendInv'
  <2>1. PICK qs \in Outputs, next \in Phases : Emit(qs, next)
    BY <1>1, HandlerEmits
  <2> QED
    BY <2>1, EmitSend
<1>2. CASE CanWriteCb
  BY <1>2, WriteSend
<1>3. ASSUME NEW failure \in {"zero", "error"}, CanWriteCbFails(failure)
      PROVE  SendInv'
  <2>1. Len(sendBuf) \in Nat /\ SubSeq(sendBuf, 1, Len(sendBuf)) = sendBuf
    BY LenProperties, SubSeqFull DEF TypeOK
  <2> QED
    BY <1>3, <2>1 DEF CanWriteCbFails, RecordIsFront, SendConserved
<1>4. CASE UNCHANGED sendVars
  BY <1>4 DEF sendVars, RecordIsFront, SendConserved
<1>5. ASSUME Callback, ~CanWriteCb,
             \A ps \in Outputs : ~Handler(ps),
             \A failure \in {"zero", "error"} : ~CanWriteCbFails(failure)
      PROVE  UNCHANGED sendVars
  BY <1>5
     DEF Callback, CanReadCb, CanReadCbAlert, CanReadCbControl, CanReadCbFails,
              ParseFragment, ParseEnd, CanWriteCbEmpty, HandshakeResumes,
              SigPipe, sendVars
<1>6. ASSUME Peer
      PROVE  UNCHANGED sendVars
  BY <1>6 DEF Peer, PeerSend, PeerControl, PeerClose, PeerReset
<1>7. ASSUME NEW ready, SockPoll(ready)
      PROVE  UNCHANGED sendVars
  BY <1>7 DEF SockPoll
<1>8. CASE UNCHANGED vars
  BY <1>4, <1>8 DEF vars
<1> QED
  BY <1>1, <1>2, <1>3, <1>4, <1>5, <1>6, <1>7, <1>8
     DEF Next, HandshakeSpin, Halted

\* A record that mbedtls is still sending is the front of send_buf, and as
\* long as no retry has skipped anything send_buf holds what was appended and
\* has not gone out: no packet is lost, doubled or reordered.
THEOREM SendBufferConserved == Spec => [](RecordIsFront /\ SendConserved)
<1>1. Init => SendInv
  BY SubSeqEmpty, EmptySeq, ConcatEmptySeq
     DEF Init, SendInv, RecordIsFront, SendConserved
<1> QED
  BY <1>1, TypeCorrect, SendStep, PTL DEF Spec, SendInv

\* A retry of a record that did not go out never sends bytes that send_buf
\* has given up (atiny_nc_can_write_cb over mbedtls_ssl_write).
THEOREM RetrySendsTheFront == Spec => []RecordIsFront
BY SendBufferConserved, PTL

-----------------------------------------------------------------------------
(* The send path implements OutStream.                                     *)

\* While send() fails only on a connection that is lost, a write never finds
\* an unfinished record.
NoRetry ==
    SendFailures = {} => skipped = << >> /\ (out = << >> \/ peer = "reset")

LEMMA NoRetryStep ==
    ASSUME TypeOK, NoRetry, [Next]_vars
    PROVE  NoRetry'
<1> SUFFICES ASSUME SendFailures = {}
             PROVE  skipped' = << >> /\ (out' = << >> \/ peer' = "reset")
  BY DEF NoRetry
<1>1. skipped = << >> /\ (out = << >> \/ peer = "reset")
  BY DEF NoRetry
<1>2. ASSUME NEW ps \in Outputs, Handler(ps)
      PROVE  skipped' = << >> /\ (out' = << >> \/ peer' = "reset")
  <2>1. PICK qs \in Outputs, next \in Phases : Emit(qs, next)
    BY <1>2, HandlerEmits
  <2>2. peer' = peer
    BY <1>2 DEF Handler, PollCb, ConnectCb, ParsePacket
  <2> QED
    BY <1>1, <2>1, <2>2 DEF Emit
<1>3. CASE CanWriteCb
  <2>1. SubSeq(sendBuf, Len(sendBuf) + 1, Len(sendBuf)) = << >>
    BY LenProperties, SubSeqEmpty DEF TypeOK
  <2>2. skipped' = skipped \o << >> /\ out' = << >>
    BY <1>1, <1>3, <2>1 DEF CanWriteCb
  <2>3. << >> \o << >> = << >>
    BY EmptySeq, ConcatEmptySeq
  <2> QED
    BY <1>1, <2>2, <2>3
<1>4. ASSUME NEW failure \in {"zero", "error"}, CanWriteCbFails(failure)
      PROVE  skipped' = << >> /\ (out' = << >> \/ peer' = "reset")
  BY <1>1, <1>4 DEF CanWriteCbFails
<1>5. CASE UNCHANGED << skipped, out >> /\ (peer = "reset" => peer' = "reset")
  BY <1>1, <1>5
<1>6. ASSUME Callback, ~CanWriteCb,
             \A ps \in Outputs : ~Handler(ps),
             \A failure \in {"zero", "error"} : ~CanWriteCbFails(failure)
      PROVE  UNCHANGED << skipped, out, peer >>
  BY <1>6
     DEF Callback, CanReadCb, CanReadCbAlert, CanReadCbControl, CanReadCbFails,
              ParseFragment, ParseEnd, CanWriteCbEmpty, HandshakeResumes,
              SigPipe, sendVars
<1>7. ASSUME Peer
      PROVE  UNCHANGED << skipped, out >> /\ (peer = "reset" => peer' = "reset")
  BY <1>7 DEF Peer, PeerSend, PeerControl, PeerClose, PeerReset, sendVars
<1>8. ASSUME NEW ready, SockPoll(ready)
      PROVE  UNCHANGED << skipped, out, peer >>
  BY <1>8 DEF SockPoll, sendVars
<1>9. CASE UNCHANGED vars
  BY <1>5, <1>9 DEF vars, sendVars
<1> QED
  BY <1>2, <1>3, <1>4, <1>5, <1>6, <1>7, <1>8, <1>9
     DEF Next, HandshakeSpin, Halted

\* What comes before a suffix is a prefix.
LEMMA PrefixConcat ==
    ASSUME NEW s \in Seq(OutPacket), NEW t \in Seq(OutPacket)
    PROVE  Stream!IsPrefix(s, s \o t)
<1>1. /\ Len(s) \in Nat /\ Len(t) \in Nat
      /\ Len(s \o t) = Len(s) + Len(t)
  BY LenProperties, ConcatProperties
<1>2. SubSeq(s, 1, Len(s)) = SubSeq(s \o t, 1, Len(s))
  <2>1. CASE Len(s) = 0
    BY <2>1, SubSeqEmpty
  <2>2. CASE Len(s) > 0
    <3>1. Len(s) \in 1..Len(s) /\ 1 \in 1..Len(s)
      BY <1>1, <2>2
    <3> QED
      BY <3>1, SubSeqOfConcat1
  <2>3. Len(s) = 0 \/ Len(s) > 0
    BY <1>1
  <2> QED
    BY <2>1, <2>2, <2>3, Zenon
<1> QED
  BY <1>1, <1>2 DEF Stream!IsPrefix

\* Every step of the loop appends, or delivers what is due, or neither.
LEMMA StreamStep ==
    ASSUME SendFailures = {}, TypeOK, SendInv, NoRetry, [Next]_vars
    PROVE  [Stream!Next]_<< queued, written >>
<1>1. ASSUME NEW ps \in Outputs, Handler(ps)
      PROVE  Stream!Enqueue
  <2> PICK qs \in Outputs, next \in Phases : Emit(qs, next)
    BY <1>1, HandlerEmits
  <2>1. queued' = queued \o qs /\ written' = written
    BY DEF Emit
  <2>2. queued \in Seq(OutPacket) /\ qs \in Seq(OutPacket)
    BY EnvAssumption DEF TypeOK
  <2> QED
    BY <2>1, <2>2, PrefixConcat DEF Stream!Enqueue
<1>2. CASE CanWriteCb
  <2>1. written' = written \o sendBuf /\ queued' = queued
    BY <1>2 DEF CanWriteCb, NoRetry
  <2>2. queued = written \o sendBuf
    BY DEF SendInv, SendConserved, NoRetry
  <2>3. /\ written \in Seq(OutPacket) /\ sendBuf \in Seq(OutPacket)
        /\ queued \in Seq(OutPacket) /\ << >> \in Seq(OutPacket)
    BY EmptySeq DEF TypeOK
  <2>4. queued \o << >> = queued
    BY <2>3, ConcatEmptySeq
  <2>5. Stream!IsPrefix(written, written') /\ Stream!IsPrefix(written', queued)
    BY <2>1, <2>2, <2>3, <2>4, PrefixConcat
  <2> QED
    BY <2>1, <2>5 DEF Stream!Next, Stream!Deliver
<1>3. ASSUME NEW failure \in {"zero", "error"}, CanWriteCbFails(failure)
      PROVE  UNCHANGED << queued, written >>
  BY <1>3 DEF CanWriteCbFails
<1>4. ASSUME Callback, ~CanWriteCb,
             \A ps \in Outputs : ~Handler(ps),
             \A failure \in {"zero", "error"} : ~CanWriteCbFails(failure)
      PROVE  UNCHANGED << queued, written >>
  BY <1>4
     DEF Callback, CanReadCb, CanReadCbAlert, CanReadCbControl, CanReadCbFails,
              ParseFragment, ParseEnd, CanWriteCbEmpty, HandshakeResumes,
              SigPipe, sendVars
<1>5. ASSUME Peer
      PROVE  UNCHANGED << queued, written >>
  BY <1>5 DEF Peer, PeerSend, PeerControl, PeerClose, PeerReset, sendVars
<1>6. ASSUME NEW ready, SockPoll(ready)
      PROVE  UNCHANGED << queued, written >>
  BY <1>6 DEF SockPoll, sendVars
<1>7. CASE UNCHANGED vars
  BY <1>7 DEF vars, sendVars
<1> QED
  BY <1>1, <1>2, <1>3, <1>4, <1>5, <1>6, <1>7
     DEF Next, HandshakeSpin, Halted, Stream!Next

\* The send path of atiny_sock.c implements OutStream: if ifuncs->send fails
\* only on a lost connection (the blocking sockets of atiny_sock.c), packets
\* go out once, in the order in which the handlers appended them.
THEOREM SendPathIsStream == SendFailures = {} => (Spec => StreamSpec)
<1> SUFFICES ASSUME SendFailures = {} PROVE Spec => StreamSpec
  OBVIOUS
<1>1. Init => Stream!Init
  BY DEF Init, Stream!Init
<1>2. Init => NoRetry
  BY DEF Init, NoRetry
<1>3. TypeOK /\ SendInv /\ NoRetry /\ [Next]_vars
        => [Stream!Next]_<< queued, written >>
  BY StreamStep
<1>4. Spec => []SendInv
  BY SendBufferConserved DEF SendInv
<1> QED
  BY <1>1, <1>2, <1>3, <1>4, TypeCorrect, NoRetryStep, PTL
     DEF Spec, StreamSpec, Stream!Spec

-----------------------------------------------------------------------------
(* What was received.  The bytes in recv_buf, in mbedtls and in the socket  *)
(* are those of the packets that are not cut off yet.                       *)

\* The sizes of packets of the peer, in order.
InSizes(ps) == [i \in DOMAIN ps |-> InSize[ps[i]]]

LEMMA InSizesType ==
    ASSUME NEW ps \in Seq(InPacket)
    PROVE  /\ InSizes(ps) \in Seq(Nat) /\ InSizes(ps) \in Seq(Int)
           /\ Len(InSizes(ps)) = Len(ps)
           /\ \A i \in 1..Len(ps) : /\ InSizes(ps)[i] = InSize[ps[i]]
                                    /\ ps[i] \in InPacket
                                    /\ InSize[ps[i]] \in Nat
<1>1. /\ Len(ps) \in Nat /\ DOMAIN ps = 1..Len(ps)
      /\ \A i \in 1..Len(ps) : ps[i] \in InPacket
  BY LenProperties, ElementOfSeq
<1>2. \A p \in InPacket : InSize[p] \in Nat
  BY SizeAssumption
<1>3. InSizes(ps) = [i \in 1..Len(ps) |-> InSize[ps[i]]]
  BY <1>1 DEF InSizes
<1> QED BY <1>1, <1>2, <1>3

\* One more packet.
LEMMA InSizesAppend ==
    ASSUME NEW ps \in Seq(InPacket), NEW p \in InPacket
    PROVE  InSizes(Append(ps, p)) = Append(InSizes(ps), InSize[p])
<1> DEFINE qs == Append(ps, p)
           t  == Append(InSizes(ps), InSize[p])
<1>1. /\ qs \in Seq(InPacket) /\ Len(qs) = Len(ps) + 1
      /\ \A i \in 1..Len(ps) : qs[i] = ps[i]
      /\ qs[Len(ps) + 1] = p
      /\ Len(ps) \in Nat
  BY AppendProperties, LenProperties
<1>2. InSize[p] \in Nat
  BY SizeAssumption
<1>3. /\ t \in Seq(Nat) /\ Len(t) = Len(ps) + 1
      /\ \A i \in 1..Len(ps) : t[i] = InSizes(ps)[i]
      /\ t[Len(ps) + 1] = InSize[p]
  BY <1>2, InSizesType, AppendProperties
<1> HIDE DEF qs, t
<1>4. /\ InSizes(qs) \in Seq(Nat) /\ Len(InSizes(qs)) = Len(ps) + 1
      /\ \A i \in 1..(Len(ps) + 1) : InSizes(qs)[i] = InSize[qs[i]]
  BY <1>1, InSizesType
<1>5. ASSUME NEW i \in 1..(Len(ps) + 1) PROVE InSizes(qs)[i] = t[i]
  <2>1. InSizes(qs)[i] = InSize[qs[i]]
    BY <1>4
  <2>2. CASE i \in 1..Len(ps)
    BY <1>1, <1>3, <2>1, <2>2, InSizesType
  <2>3. CASE i = Len(ps) + 1
    BY <1>1, <1>3, <2>1, <2>3
  <2> QED BY <1>1, <2>2, <2>3
<1>6. InSizes(qs) = t
  BY <1>3, <1>4, <1>5, SeqEqual
<1> QED BY <1>6 DEF qs, t

\* The first packet, and the rest.
LEMMA InSizesTail ==
    ASSUME NEW ps \in Seq(InPacket), ps # << >>
    PROVE  /\ Head(InSizes(ps)) = InSize[Head(ps)]
           /\ InSizes(Tail(ps)) = Tail(InSizes(ps))
           /\ InSizes(ps) # << >> /\ Head(ps) \in InPacket
           /\ Tail(ps) \in Seq(InPacket) /\ Len(Tail(ps)) = Len(ps) - 1
<1> DEFINE s == InSizes(ps)
           u == InSizes(Tail(ps))
<1>1. /\ Len(ps) \in Nat /\ Len(ps) # 0
      /\ Tail(ps) \in Seq(InPacket) /\ Len(Tail(ps)) = Len(ps) - 1
      /\ \A i \in 1..(Len(ps) - 1) : Tail(ps)[i] = ps[i + 1]
      /\ Head(ps) = ps[1] /\ Head(ps) \in InPacket
  BY HeadTailProperties, LenProperties, EmptySeq
<1>2. /\ s \in Seq(Nat) /\ Len(s) = Len(ps)
      /\ \A i \in 1..Len(ps) : s[i] = InSize[ps[i]]
  BY InSizesType
<1>3. /\ u \in Seq(Nat) /\ Len(u) = Len(ps) - 1
      /\ \A i \in 1..(Len(ps) - 1) : u[i] = InSize[Tail(ps)[i]]
  BY <1>1, InSizesType
<1> HIDE DEF s, u
<1>4. s # << >>
  BY <1>1, <1>2
<1>5. /\ Tail(s) \in Seq(Nat) /\ Len(Tail(s)) = Len(ps) - 1
      /\ \A i \in 1..(Len(ps) - 1) : Tail(s)[i] = s[i + 1]
  BY <1>2, <1>4, HeadTailProperties
<1>6. ASSUME NEW i \in 1..(Len(ps) - 1) PROVE u[i] = Tail(s)[i]
  <2>1. i + 1 \in 1..Len(ps)
    BY <1>1
  <2>2. u[i] = InSize[Tail(ps)[i]] /\ Tail(ps)[i] = ps[i + 1]
    BY <1>1, <1>3
  <2>3. Tail(s)[i] = s[i + 1] /\ s[i + 1] = InSize[ps[i + 1]]
    BY <1>2, <1>5, <2>1
  <2> QED BY <2>2, <2>3
<1>7. u = Tail(s)
  BY <1>3, <1>5, <1>6, SeqEqual
<1>8. Head(s) = InSize[Head(ps)]
  BY <1>1, <1>2, <1>4
<1> QED BY <1>1, <1>4, <1>7, <1>8 DEF s, u

\* The bytes of one more packet, and of all but the first.
LEMMA InBytesFacts ==
    ASSUME NEW ps \in Seq(InPacket)
    PROVE  /\ InBytes(ps) = Total(InSizes(ps))
           /\ InBytes(ps) \in Nat
           /\ \A p \in InPacket : InBytes(Append(ps, p)) = InBytes(ps) + InSize[p]
           /\ ps # << >> => InBytes(ps) = InSize[Head(ps)] + InBytes(Tail(ps))
<1>1. \A qs : InBytes(qs) = Total(InSizes(qs))
  BY DEF InBytes, InSizes
<1>2. InSizes(ps) \in Seq(Int) /\ InSizes(ps) \in Seq(Nat)
  BY InSizesType
<1>3. ASSUME NEW p \in InPacket
      PROVE  InBytes(Append(ps, p)) = InBytes(ps) + InSize[p]
  <2>1. InSize[p] \in Int
    BY SizeAssumption
  <2> QED BY <1>1, <1>2, <2>1, InSizesAppend, TotalAppend
<1>4. ASSUME ps # << >>
      PROVE  InBytes(ps) = InSize[Head(ps)] + InBytes(Tail(ps))
  BY <1>1, <1>2, <1>4, InSizesTail, TotalTail
<1>5. InBytes(ps) \in Nat
  BY <1>1, <1>2, TotalType
<1> QED BY <1>1, <1>3, <1>4, <1>5

\* The steps that move received bytes; all others leave them alone.
LEMMA RecvSteps ==
    ASSUME [Next]_vars
    PROVE  \/ CanReadCb \/ CanReadCbControl \/ CanReadCbAlert
           \/ \E ps \in Outputs : ParsePacket(ps)
           \/ \E p \in InPacket : Len(inq) < MaxInq /\ PeerSend(p)
           \/ PeerControl
           \/ UNCHANGED recvVars
<1>1. ASSUME NEW ps \in Outputs, Handler(ps)
      PROVE  ParsePacket(ps) \/ UNCHANGED recvVars
  BY <1>1 DEF Handler, PollCb, ConnectCb
<1>2. ASSUME Callback, ~CanReadCb, ~CanReadCbControl, ~CanReadCbAlert,
             \A ps \in Outputs : ~Handler(ps)
      PROVE  UNCHANGED recvVars
  BY <1>2 DEF Callback, CanReadCbFails, ParseFragment, ParseEnd,
              CanWriteCbEmpty, CanWriteCb, CanWriteCbFails, HandshakeResumes,
              SigPipe, recvVars
<1>3. ASSUME Peer
      PROVE  \/ \E p \in InPacket : Len(inq) < MaxInq /\ PeerSend(p)
             \/ PeerControl
             \/ UNCHANGED recvVars
  BY <1>3 DEF Peer, PeerClose, PeerReset
<1>4. ASSUME NEW ready, SockPoll(ready)
      PROVE  UNCHANGED recvVars
  BY <1>4 DEF SockPoll
<1>5. CASE UNCHANGED vars
  BY <1>5 DEF vars
<1> QED BY <1>1, <1>2, <1>3, <1>4, <1>5 DEF Next, HandshakeSpin, Halted

\* What the read callback does to recv_buf, mbedtls and the socket: rc bytes
\* of the current record, or of the next, move into recv_buf.
LEMMA ReadMoves ==
    ASSUME TypeOK, CanReadCb
    PROVE  /\ inq' = inq
           /\ \/ recvLen' = recvLen /\ plain' = plain /\ wire' = wire
              \/ /\ plain > 0 /\ wire' = wire
                 /\ recvLen' + plain' = recvLen + plain
                 /\ plain' > 0 => recvLen' = RecvBufSize
              \/ /\ plain = 0 /\ wire # << >> /\ wire' = Tail(wire)
                 /\ recvLen' + plain' = recvLen + Head(wire)
                 /\ plain' > 0 => recvLen' = RecvBufSize
<1> DEFINE record == IF plain > 0 THEN plain ELSE Head(wire)
           rc     == IF Space > 0 THEN Min2(record, Space) ELSE 0
<1>1. /\ Space \in Int /\ recvLen \in Nat /\ plain \in Nat
      /\ Space = RecvBufSize - recvLen /\ RecvBufSize \in Nat
  BY SizeAssumption DEF Space, TypeOK
<1>2. record \in Nat /\ (plain > 0 \/ wire # << >>)
  BY HeadTailProperties DEF CanReadCb, TypeOK
<1>3. inq' = inq
  BY DEF CanReadCb
<1>4. CASE Space > 0
  <2>1. /\ recvLen' = recvLen + rc /\ plain' = record - rc
        /\ wire' = IF plain > 0 THEN wire ELSE Tail(wire)
    BY <1>4 DEF CanReadCb, LeftOver
  <2>2. rc = IF record <= Space THEN record ELSE Space
    BY <1>4 DEF Min2
  <2>3. rc \in Nat
    BY <1>1, <1>2, <1>4, <2>2
  <2> HIDE DEF rc
  <2>4. /\ recvLen' + plain' = recvLen + record
        /\ plain' > 0 => recvLen' = RecvBufSize
    <3> HIDE DEF record
    <3> QED BY <1>1, <1>2, <2>1, <2>2, <2>3
  <2>5. CASE plain > 0
    BY <1>1, <1>3, <2>1, <2>4, <2>5
  <2>6. CASE ~(plain > 0)
    BY <1>1, <1>2, <1>3, <2>1, <2>4, <2>6
  <2> QED BY <2>5, <2>6
<1>5. CASE ~(Space > 0)
  BY <1>1, <1>3, <1>5 DEF CanReadCb
<1> QED BY <1>4, <1>5

LEMMA RecvStep ==
    ASSUME TypeOK, RecvConserved, [Next]_vars
    PROVE  RecvConserved'
<1> USE DEF RecvConserved
<1>1. /\ recvLen \in Nat /\ plain \in Nat
      /\ wire \in Seq(Int) /\ wire \in Seq(Nat) /\ inq \in Seq(InPacket)
      /\ Total(wire) \in Int /\ InBytes(inq) \in Nat
  <2>1. wire \in Seq(Nat) /\ inq \in Seq(InPacket)
    BY DEF TypeOK
  <2>2. wire \in Seq(Int)
    BY <2>1
  <2>3. Total(wire) \in Int /\ InBytes(inq) \in Nat
    BY <2>1, <2>2, TotalType, InBytesFacts
  <2> QED BY <2>1, <2>2, <2>3, SizeAssumption DEF TypeOK
<1>2. CASE CanReadCb
  <2>1. CASE wire' = wire /\ recvLen' + plain' = recvLen + plain /\ inq' = inq
    BY <1>1, <2>1
  <2>2. CASE /\ plain = 0 /\ wire # << >> /\ wire' = Tail(wire)
             /\ recvLen' + plain' = recvLen + Head(wire) /\ inq' = inq
    <3>1. /\ Total(wire) = Head(wire) + Total(Tail(wire))
          /\ Head(wire) \in Int /\ Tail(wire) \in Seq(Int)
          /\ Total(Tail(wire)) \in Int
      BY <1>1, <2>2, TotalTail, TotalType
    <3>2. recvLen + Head(wire) + Total(Tail(wire)) = recvLen + plain + Total(wire)
      BY <1>1, <2>2, <3>1
    <3> QED BY <2>2, <3>2
  <2>3. \/ /\ wire' = wire /\ recvLen' + plain' = recvLen + plain
           /\ inq' = inq
        \/ /\ plain = 0 /\ wire # << >> /\ wire' = Tail(wire)
           /\ recvLen' + plain' = recvLen + Head(wire) /\ inq' = inq
    BY <1>2, ReadMoves, Zenon
  <2> QED BY <2>1, <2>2, <2>3
<1>3. CASE CanReadCbControl \/ CanReadCbAlert
  <2>1. /\ wire # << >> /\ Head(wire) = 0 /\ wire' = Tail(wire)
        /\ UNCHANGED << recvLen, plain, inq >>
    BY <1>3 DEF CanReadCbControl, CanReadCbAlert
  <2>2. /\ Total(wire) = Head(wire) + Total(Tail(wire))
        /\ Tail(wire) \in Seq(Int) /\ Total(Tail(wire)) \in Int
    BY <1>1, <2>1, TotalTail, TotalType
  <2> QED BY <1>1, <2>1, <2>2
<1>4. ASSUME NEW ps \in Outputs, ParsePacket(ps)
      PROVE  RecvConserved'
  <2>1. /\ inq # << >> /\ inq' = Tail(inq)
        /\ recvLen' = recvLen - InSize[Head(inq)]
        /\ UNCHANGED << plain, wire >>
    BY <1>4 DEF ParsePacket, PacketLen
  <2>2. /\ InBytes(inq) = InSize[Head(inq)] + InBytes(Tail(inq))
        /\ Head(inq) \in InPacket /\ Tail(inq) \in Seq(InPacket)
    BY <1>1, <2>1, InBytesFacts, InSizesTail
  <2>3. InSize[Head(inq)] \in Nat /\ InBytes(Tail(inq)) \in Nat
    BY <2>2, SizeAssumption, InBytesFacts
  <2> DEFINE size == InSize[Head(inq)]
             rest == InBytes(Tail(inq))
  <2>4. size \in Nat /\ rest \in Nat /\ InBytes(inq) = size + rest
    BY <2>2, <2>3
  <2>5. recvLen' = recvLen - size
    BY <2>1
  <2>6. InBytes(inq') = rest
    BY <2>1
  <2>7. plain' = plain /\ Total(wire') = Total(wire)
    BY <2>1
  <2>8. recvLen + plain + Total(wire) = size + rest
    BY <2>4
  <2> HIDE DEF size, rest
  <2>9. recvLen - size + plain + Total(wire) = rest
    BY <1>1, <2>4, <2>8
  <2> QED BY <2>5, <2>6, <2>7, <2>9
<1>5. ASSUME NEW p \in InPacket, PeerSend(p)
      PROVE  RecvConserved'
  <2> DEFINE size == InSize[p]
  <2>1. size \in Nat /\ size \in Int
    BY SizeAssumption
  <2>2. inq' = Append(inq, p) /\ UNCHANGED << recvLen, plain >>
    BY <1>5 DEF PeerSend
  <2>3. InBytes(inq') = InBytes(inq) + size
    BY <1>1, <2>2, InBytesFacts
  <2>4. Total(wire') = Total(wire) + size
    <3>1. CASE wire' = Append(wire, size)
      BY <1>1, <2>1, <3>1, TotalAppend
    <3>2. CASE wire # << >> /\ wire' = [wire EXCEPT ![Len(wire)] = @ + size]
      BY <1>1, <2>1, <3>2, TotalLast
    <3>3. ASSUME NEW k \in 1..(size - 1), wire' = wire \o << k, size - k >>
          PROVE  Total(wire') = Total(wire) + size
      <4>1. k \in Int /\ size - k \in Int
        BY <2>1
      <4>2. << k, size - k >> = Append(<< k >>, size - k)
        BY <4>1
      <4>3. << k >> \in Seq(Int) /\ Total(<< k >>) = k
        BY <4>1, TotalOne
      <4>4. /\ << k, size - k >> \in Seq(Int)
            /\ Total(<< k, size - k >>) = k + (size - k)
        BY <4>1, <4>2, <4>3, TotalAppend
      <4>5. Total(wire') = Total(wire) + (k + (size - k))
        BY <1>1, <3>3, <4>4, TotalConcat
      <4> QED BY <1>1, <2>1, <4>1, <4>5
    <3> QED BY <1>5, <3>1, <3>2, <3>3 DEF PeerSend
  <2> HIDE DEF size
  <2> QED BY <1>1, <2>1, <2>2, <2>3, <2>4
<1>6. CASE PeerControl
  <2>1. wire' = Append(wire, 0) /\ UNCHANGED << recvLen, plain, inq >>
    BY <1>6 DEF PeerControl
  <2>2. Total(wire') = Total(wire) + 0
    BY <1>1, <2>1, TotalAppend
  <2> QED BY <1>1, <2>1, <2>2
<1>7. CASE UNCHANGED recvVars
  BY <1>7 DEF recvVars
<1> QED BY <1>2, <1>3, <1>4, <1>5, <1>6, <1>7, RecvSteps

\* No received byte is lost, counted twice or cut off with the wrong packet,
\* whatever the sizes of records, reads and buffers: recv_buf, mbedtls and the
\* socket together hold exactly the packets that are not cut off yet.
THEOREM ReceiveConserved == Spec => []RecvConserved
<1>1. Init => RecvConserved
  <2>1. << >> \in Seq(Int) /\ << >> \in Seq(InPacket) /\ Len(<< >>) = 0
    BY EmptySeq
  <2>2. Len(InSizes(<< >>)) = 0 /\ InSizes(<< >>) \in Seq(Int)
    BY <2>1, InSizesType
  <2>3. Total(<< >>) = 0 /\ InBytes(<< >>) = 0
    BY <2>1, <2>2, TotalType, InBytesFacts
  <2> QED BY <2>3 DEF Init, RecvConserved
<1> QED BY <1>1, TypeCorrect, RecvStep, PTL DEF Spec

-----------------------------------------------------------------------------
(* The order of what goes out.                                              *)

\* The first w of n places of q that hold s, in ascending order.
Places(f, n, s, q) ==
    /\ f \in [1..Len(s) -> 1..n]
    /\ \A i, j \in 1..Len(s) : i < j => f[i] < f[j]
    /\ \A i \in 1..Len(s) : s[i] = q[f[i]]

\* How much of what was appended has left send_buf.
Sent == Len(queued) - Len(sendBuf)

\* send_buf is the end of what was appended.
BufferIsEnd ==
    /\ Sent \in Nat
    /\ \A i \in 1..Len(sendBuf) : sendBuf[i] = queued[Sent + i]

\* What went out lies, in order, in what has left send_buf.
OrderInv ==
    /\ BufferIsEnd
    /\ \E f : Places(f, Sent, written, queued)

\* A handler appends to both.
LEMMA EmitOrder ==
    ASSUME TypeOK, OrderInv, NEW ps \in Outputs, NEW next, Emit(ps, next)
    PROVE  OrderInv'
<1>1. ps \in Seq(OutPacket) /\ Len(ps) \in Nat
  BY EnvAssumption, LenProperties
<1>2. /\ sendBuf' = sendBuf \o ps /\ queued' = queued \o ps /\ written' = written
  BY DEF Emit, Appended
<1>3. /\ Len(sendBuf) \in Nat /\ Len(queued) \in Nat /\ Len(written) \in Nat
      /\ Len(sendBuf') = Len(sendBuf) + Len(ps)
      /\ Len(queued') = Len(queued) + Len(ps)
      /\ \A i \in 1..Len(sendBuf) : sendBuf'[i] = sendBuf[i]
      /\ \A i \in 1..Len(queued) : queued'[i] = queued[i]
      /\ \A i \in 1..Len(ps) : sendBuf'[Len(sendBuf) + i] = ps[i]
      /\ \A i \in 1..Len(ps) : queued'[Len(queued) + i] = ps[i]
  BY <1>1, <1>2, LenProperties, ConcatProperties DEF TypeOK
<1>4. Sent' = Sent /\ Sent \in Nat /\ Sent + Len(sendBuf) = Len(queued)
  BY <1>3, <1>1 DEF Sent, OrderInv, BufferIsEnd
<1>5. ASSUME NEW i \in 1..Len(sendBuf') PROVE sendBuf'[i] = queued'[Sent + i]
  <2>1. CASE i \in 1..Len(sendBuf)
    <3>1. Sent + i \in 1..Len(queued)
      BY <1>3, <1>4, <2>1
    <3> QED BY <1>3, <2>1, <3>1 DEF OrderInv, BufferIsEnd
  <2>2. CASE i \notin 1..Len(sendBuf)
    <3>1. i - Len(sendBuf) \in 1..Len(ps)
      BY <1>1, <1>3, <2>2
    <3> DEFINE b == Len(sendBuf)
               n == Sent
    <3>2. i \in Int /\ b \in Nat /\ n \in Nat /\ Len(queued) = n + b
      BY <1>3, <1>4
    <3> HIDE DEF b, n
    <3>3. i = b + (i - b) /\ n + i = Len(queued) + (i - b)
      BY <3>2
    <3> QED BY <1>3, <3>1, <3>3 DEF b, n
  <2> QED BY <2>1, <2>2
<1>6. PICK f : Places(f, Sent, written, queued)
  BY DEF OrderInv
<1>7. Places(f, Sent, written, queued')
  <2>1. ASSUME NEW i \in 1..Len(written) PROVE written[i] = queued'[f[i]]
    <3>1. f[i] \in 1..Sent /\ written[i] = queued[f[i]]
      BY <1>6 DEF Places
    <3>2. f[i] \in 1..Len(queued)
      BY <1>3, <1>4, <3>1
    <3> QED BY <1>3, <3>1, <3>2
  <2> QED BY <1>6, <2>1 DEF Places
<1>8. BufferIsEnd'
  BY <1>4, <1>5 DEF BufferIsEnd
<1>9. Places(f, Sent', written', queued')
  BY <1>2, <1>4, <1>7
<1> QED BY <1>8, <1>9 DEF OrderInv

\* A write takes the front of send_buf, or all of it, and drops the rest.
LEMMA WriteOrder ==
    ASSUME TypeOK, RecordIsFront, OrderInv, CanWriteCb
    PROVE  OrderInv'
<1> DEFINE record == IF out = << >> THEN sendBuf ELSE out
           m == Len(record)
           w == Len(written)
<1>1. /\ record \in Seq(OutPacket) /\ m \in Nat /\ w \in Nat
      /\ Len(sendBuf) \in Nat /\ Len(queued) \in Nat
      /\ m <= Len(sendBuf)
  BY LenProperties DEF TypeOK, RecordIsFront
<1>2. ASSUME NEW i \in 1..m PROVE record[i] = sendBuf[i]
  <2>1. CASE out = << >>
    BY <2>1
  <2>2. CASE out # << >>
    <3>1. out = SubSeq(sendBuf, 1, Len(out)) /\ record = out
      BY <2>2 DEF RecordIsFront
    <3>2. /\ 1 \in Int /\ Len(out) \in Int
          /\ \A j \in 1..Len(out) : sendBuf[j] \in OutPacket
      BY <1>1, <3>1, ElementOfSeq DEF TypeOK
    <3>3. \A j \in 1..(Len(out) - 1 + 1) :
              SubSeq(sendBuf, 1, Len(out))[j] = sendBuf[1 + j - 1]
      BY <3>2, SubSeqProperties
    <3>4. i \in 1..(Len(out) - 1 + 1) /\ 1 + i - 1 = i
      BY <1>1, <3>1
    <3>5. SubSeq(sendBuf, 1, Len(out))[i] = sendBuf[1 + i - 1]
      BY <3>3, <3>4
    <3> QED BY <3>1, <3>4, <3>5
  <2> QED BY <2>1, <2>2
<1>3. /\ sendBuf' = << >> /\ queued' = queued /\ written' = written \o record
  BY <1>1, SubSeqEmpty DEF CanWriteCb, Shifted
<1>4. /\ Sent \in Nat /\ Sent + Len(sendBuf) = Len(queued)
      /\ Sent' = Len(queued) /\ Len(sendBuf') = 0
  BY <1>1, <1>3, EmptySeq DEF Sent, OrderInv, BufferIsEnd
<1>5. /\ Len(written') = w + m
      /\ \A i \in 1..w : written'[i] = written[i]
      /\ \A i \in 1..m : written'[w + i] = record[i]
  <2>1. written \in Seq(OutPacket)
    BY DEF TypeOK
  <2> HIDE DEF record
  <2> QED BY <1>1, <1>3, <2>1, ConcatProperties
<1> HIDE DEF record, m, w
<1>6. PICK f : Places(f, Sent, written, queued)
  BY DEF OrderInv
<1>7. /\ f \in [1..w -> 1..Sent]
      /\ \A i, j \in 1..w : i < j => f[i] < f[j]
      /\ \A i \in 1..w : written[i] = queued[f[i]]
  BY <1>6 DEF Places, w
<1> DEFINE g == [i \in 1..(w + m) |-> IF i <= w THEN f[i] ELSE Sent + (i - w)]
<1>8. \A i \in 1..(w + m) : /\ g[i] \in 1..Len(queued)
                            /\ i <= w => i \in 1..w /\ g[i] = f[i] /\ f[i] \in 1..Sent
                            /\ i > w => i - w \in 1..m /\ g[i] = Sent + (i - w)
  <2> TAKE i \in 1..(w + m)
  <2>1. CASE i <= w
    <3>1. i \in 1..w
      BY <1>1, <2>1
    <3>2. f[i] \in 1..Sent /\ g[i] = f[i]
      BY <1>7, <2>1, <3>1
    <3> HIDE DEF g
    <3> QED BY <1>1, <1>4, <2>1, <3>1, <3>2
  <2>2. CASE i > w
    <3>1. i - w \in 1..m /\ g[i] = Sent + (i - w)
      BY <1>1, <2>2
    <3> HIDE DEF g
    <3> QED BY <1>1, <1>4, <2>2, <3>1
  <2> QED BY <1>1, <2>1, <2>2
<1>9. g \in [1..(w + m) -> 1..Len(queued)]
  BY <1>8
<1> HIDE DEF g
<1>10. ASSUME NEW i \in 1..(w + m), NEW j \in 1..(w + m), i < j
       PROVE  g[i] < g[j]
  <2>1. CASE j <= w
    <3>1. i \in 1..w /\ j \in 1..w /\ g[i] = f[i] /\ g[j] = f[j]
      BY <1>1, <1>8, <1>10, <2>1
    <3> QED BY <1>7, <1>10, <3>1
  <2>2. CASE i <= w /\ j > w
    <3>1. g[i] \in 1..Sent /\ g[j] = Sent + (j - w) /\ j - w \in 1..m
      BY <1>8, <2>2
    <3> QED BY <1>1, <1>4, <3>1
  <2>3. CASE i > w /\ j > w
    <3>1. g[i] = Sent + (i - w) /\ g[j] = Sent + (j - w)
      BY <1>8, <2>3
    <3> QED BY <1>1, <1>4, <1>10, <3>1
  <2> QED BY <1>1, <1>10, <2>1, <2>2, <2>3
<1>11. ASSUME NEW i \in 1..(w + m) PROVE written'[i] = queued[g[i]]
  <2>1. CASE i <= w
    <3>1. i \in 1..w /\ g[i] = f[i]
      BY <1>8, <2>1
    <3> QED BY <1>5, <1>7, <3>1
  <2>2. CASE i > w
    <3>1. i - w \in 1..m /\ g[i] = Sent + (i - w) /\ w + (i - w) = i
      BY <1>1, <1>8, <2>2
    <3>2. written'[i] = record[i - w] /\ record[i - w] = sendBuf[i - w]
      BY <1>2, <1>5, <3>1
    <3>3. i - w \in 1..Len(sendBuf)
      BY <1>1, <3>1
    <3>4. sendBuf[i - w] = queued[Sent + (i - w)]
      BY <3>3 DEF OrderInv, BufferIsEnd
    <3> QED BY <3>1, <3>2, <3>4
  <2> QED BY <1>1, <2>1, <2>2
<1>12. Places(g, Sent', written', queued')
  BY <1>3, <1>4, <1>5, <1>9, <1>10, <1>11 DEF Places
<1>13. BufferIsEnd'
  BY <1>1, <1>4 DEF BufferIsEnd
<1> QED BY <1>12, <1>13 DEF OrderInv

LEMMA OrderStep ==
    ASSUME TypeOK, RecordIsFront, OrderInv, [Next]_vars
    PROVE  OrderInv'
<1>1. ASSUME NEW ps \in Outputs, Handler(ps)
      PROVE  OrderInv'
  <2>1. PICK qs \in Outputs, next \in Phases : Emit(qs, next)
    BY <1>1, HandlerEmits
  <2> QED BY <2>1, EmitOrder
<1>2. CASE CanWriteCb
  BY <1>2, WriteOrder
<1>3. CASE UNCHANGED << sendBuf, queued, written >>
  <2>1. sendBuf' = sendBuf /\ queued' = queued /\ written' = written
    BY <1>3
  <2>2. Sent' = Sent
    BY <2>1 DEF Sent
  <2> QED BY <2>1, <2>2 DEF OrderInv, BufferIsEnd
<1>4. ASSUME NEW failure \in {"zero", "error"}, CanWriteCbFails(failure)
      PROVE  UNCHANGED << sendBuf, queued, written >>
  BY <1>4 DEF CanWriteCbFails
<1>5. ASSUME Callback, ~CanWriteCb,
             \A ps \in Outputs : ~Handler(ps),
             \A failure \in {"zero", "error"} : ~CanWriteCbFails(failure)
      PROVE  UNCHANGED << sendBuf, queued, written >>
  BY <1>5
     DEF Callback, CanReadCb, CanReadCbAlert, CanReadCbControl, CanReadCbFails,
              ParseFragment, ParseEnd, CanWriteCbEmpty, HandshakeResumes,
              SigPipe, sendVars
<1>6. ASSUME Peer
      PROVE  UNCHANGED << sendBuf, queued, written >>
  BY <1>6 DEF Peer, PeerSend, PeerControl, PeerClose, PeerReset, sendVars
<1>7. ASSUME NEW ready, SockPoll(ready)
      PROVE  UNCHANGED << sendBuf, queued, written >>
  BY <1>7 DEF SockPoll, sendVars
<1>8. CASE UNCHANGED vars
  BY <1>3, <1>8 DEF vars, sendVars
<1> QED
  BY <1>1, <1>2, <1>3, <1>4, <1>5, <1>6, <1>7, <1>8
     DEF Next, HandshakeSpin, Halted

LEMMA OrderInvariant == Spec => []OrderInv
<1>1. Init => OrderInv
  <2> SUFFICES ASSUME Init PROVE OrderInv
    OBVIOUS
  <2>1. Len(sendBuf) = 0 /\ Len(queued) = 0 /\ Len(written) = 0
    BY EmptySeq DEF Init
  <2>2. Sent = 0
    BY <2>1 DEF Sent
  <2>3. Places([i \in 1..0 |-> 0], 0, written, queued)
    BY <2>1 DEF Places
  <2> QED BY <2>1, <2>2, <2>3 DEF OrderInv, BufferIsEnd
<1>2. Spec => []RecordIsFront
  BY RetrySendsTheFront
<1> QED BY <1>1, <1>2, TypeCorrect, OrderStep, PTL DEF Spec

LEMMA OrderImplies ==
    ASSUME TypeOK, OrderInv
    PROVE  NoReorder
<1>1. PICK f : Places(f, Sent, written, queued)
  BY DEF OrderInv
<1>2. /\ DOMAIN written = 1..Len(written) /\ DOMAIN queued = 1..Len(queued)
      /\ Len(queued) \in Nat /\ Len(sendBuf) \in Nat
  BY LenProperties DEF TypeOK
<1>3. Sent \in Nat /\ Sent <= Len(queued)
  BY <1>2 DEF OrderInv, BufferIsEnd, Sent
<1>4. f \in [DOMAIN written -> DOMAIN queued]
  BY <1>1, <1>2, <1>3 DEF Places
<1> QED BY <1>1, <1>2, <1>4 DEF Places, NoReorder

\* Whatever send() returns and however often a record is retried, no packet
\* overtakes another or goes out twice: what went out is what was appended
\* with some packets left out.
THEOREM NeverReordered == Spec => []NoReorder
BY OrderInvariant, OrderImplies, TypeCorrect, PTL

-----------------------------------------------------------------------------
(* The faults.  While no packet is split over two records, every record     *)
(* ends where a packet ends; a RECV event then finds a fragment only when   *)
(* recv_buf had no room for the whole record.                               *)

\* n bytes are a number of whole packets of those that are not cut off.
Boundary(n, ps) == \E k \in 0..Len(ps) : n = Upto(InSizes(ps), k)

\* The bytes up to the end of the j-th record that mbedtls has not read.
RecordEnd(j) == recvLen + plain + Upto(wire, j)

RecordsWhole == \A j \in 0..Len(wire) : Boundary(RecordEnd(j), inq)

FaultExplained == phase = "fault" => plain > 0 \/ Bytes(sendBuf) > SendBufSize

\* The boundaries of a longer sequence of packets, and of one without its head.
LEMMA BoundaryFacts ==
    ASSUME NEW ps \in Seq(InPacket)
    PROVE  /\ Boundary(InBytes(ps), ps)
           /\ \A n \in Int, p \in InPacket :
                  Boundary(n, ps) => Boundary(n, Append(ps, p))
           /\ \A n \in Nat : Boundary(n, ps) /\ n > 0
                 => /\ ps # << >> /\ InSize[Head(ps)] <= n
                    /\ Boundary(n - InSize[Head(ps)], Tail(ps))
<1>1. /\ InSizes(ps) \in Seq(Int) /\ InSizes(ps) \in Seq(Nat)
      /\ Len(InSizes(ps)) = Len(ps) /\ Len(ps) \in Nat
  BY InSizesType, LenProperties
<1>2. Boundary(InBytes(ps), ps)
  <2>1. Len(ps) \in 0..Len(ps) /\ Upto(InSizes(ps), Len(ps)) = InBytes(ps)
    BY <1>1, UptoEnds, InBytesFacts
  <2> QED BY <2>1 DEF Boundary
<1>3. ASSUME NEW n \in Int, NEW p \in InPacket, Boundary(n, ps)
      PROVE  Boundary(n, Append(ps, p))
  <2>1. PICK k \in 0..Len(ps) : n = Upto(InSizes(ps), k)
    BY <1>3 DEF Boundary
  <2>2. InSize[p] \in Int
    BY SizeAssumption
  <2>3. Upto(InSizes(Append(ps, p)), k) = Upto(InSizes(ps), k)
    <3>1. InSizes(Append(ps, p)) = Append(InSizes(ps), InSize[p])
      BY InSizesAppend
    <3>2. k \in 0..Len(InSizes(ps))
      BY <1>1
    <3>3. Upto(Append(InSizes(ps), InSize[p]), k) = Upto(InSizes(ps), k)
      BY <1>1, <2>2, <3>2, UptoAppend
    <3> QED BY <3>1, <3>3, Zenon
  <2>4. k \in 0..Len(Append(ps, p))
    BY <1>1, AppendProperties
  <2> QED BY <2>1, <2>3, <2>4 DEF Boundary
<1>4. ASSUME NEW n \in Nat, Boundary(n, ps), n > 0
      PROVE  /\ ps # << >> /\ InSize[Head(ps)] <= n
             /\ Boundary(n - InSize[Head(ps)], Tail(ps))
  <2>1. PICK k \in 0..Len(ps) : n = Upto(InSizes(ps), k)
    BY <1>4 DEF Boundary
  <2>2. k # 0
    BY <1>1, <1>4, <2>1, UptoEnds
  <2>3. ps # << >>
    <3>1. Len(ps) # 0
      BY <1>1, <2>2
    <3> QED BY <3>1, EmptySeq
  <2>4. k - 1 \in 0..(Len(ps) - 1) /\ (k - 1) + 1 = k
    BY <1>1, <2>2
  <2>5. /\ Head(InSizes(ps)) = InSize[Head(ps)] /\ Head(ps) \in InPacket
        /\ InSizes(Tail(ps)) = Tail(InSizes(ps)) /\ InSizes(ps) # << >>
        /\ Tail(ps) \in Seq(InPacket) /\ Len(Tail(ps)) = Len(ps) - 1
    BY <2>3, InSizesTail
  <2>6. n = InSize[Head(ps)] + Upto(InSizes(Tail(ps)), k - 1)
    <3>1. Upto(InSizes(ps), (k - 1) + 1)
             = Head(InSizes(ps)) + Upto(Tail(InSizes(ps)), k - 1)
      BY <1>1, <2>4, <2>5, UptoTail
    <3> QED BY <2>1, <2>4, <2>5, <3>1
  <2>7. Upto(InSizes(Tail(ps)), k - 1) \in Nat /\ InSize[Head(ps)] \in Nat
    <3>1. /\ InSizes(Tail(ps)) \in Seq(Int) /\ InSizes(Tail(ps)) \in Seq(Nat)
          /\ Len(InSizes(Tail(ps))) = Len(ps) - 1
      BY <2>5, InSizesType
    <3> QED BY <2>4, <2>5, <3>1, UptoEnds, SizeAssumption
  <2> DEFINE size == InSize[Head(ps)]
             rest == Upto(InSizes(Tail(ps)), k - 1)
  <2>8. size <= n /\ n - size = rest
    <3>1. size \in Nat /\ rest \in Nat /\ n = size + rest
      BY <2>6, <2>7
    <3> HIDE DEF size, rest
    <3> QED BY <3>1
  <2> QED BY <2>3, <2>4, <2>5, <2>8 DEF Boundary
<1> QED BY <1>2, <1>3, <1>4

\* Types of the sums at hand.
LEMMA RecvTypes ==
    ASSUME TypeOK
    PROVE  /\ recvLen \in Nat /\ plain \in Nat
           /\ wire \in Seq(Int) /\ wire \in Seq(Nat) /\ inq \in Seq(InPacket)
           /\ Len(wire) \in Nat
           /\ \A j \in 0..Len(wire) : Upto(wire, j) \in Nat
           /\ \A j \in 0..Len(wire) : RecordEnd(j) \in Nat
<1>1. wire \in Seq(Nat) /\ inq \in Seq(InPacket)
  BY DEF TypeOK
<1>2. wire \in Seq(Int)
  BY <1>1
<1>3. recvLen \in Nat /\ plain \in Nat
  BY SizeAssumption DEF TypeOK
<1>4. \A j \in 0..Len(wire) : Upto(wire, j) \in Nat
  BY <1>1, <1>2, UptoEnds
<1> QED BY <1>1, <1>2, <1>3, <1>4, LenProperties DEF RecordEnd


\* All the records together end where the last packet ends.
LEMMA LastEnds ==
    ASSUME NEW w \in Seq(Nat), NEW ps \in Seq(InPacket), NEW n \in Nat,
           n + Total(w) = InBytes(ps)
    PROVE  Boundary(n + Upto(w, Len(w)), ps)
<1>1. w \in Seq(Int)
  OBVIOUS
<1>2. Upto(w, Len(w)) = Total(w)
  BY <1>1, UptoEnds
<1> QED BY <1>2, BoundaryFacts

LEMMA WholeStep ==
    ASSUME ~SplitPackets, TypeOK, TypeOK', RecvConserved, RecvConserved',
           RecordsWhole, [Next]_vars
    PROVE  RecordsWhole'
<1>1. /\ recvLen \in Nat /\ plain \in Nat
      /\ wire \in Seq(Int) /\ wire \in Seq(Nat) /\ inq \in Seq(InPacket)
      /\ Len(wire) \in Nat
      /\ \A j \in 0..Len(wire) : Upto(wire, j) \in Nat
      /\ \A j \in 0..Len(wire) : RecordEnd(j) \in Nat
  BY RecvTypes
<1>2. Boundary(RecordEnd(Len(wire))', inq')
  <2>1. wire' \in Seq(Nat) /\ inq' \in Seq(InPacket) /\ recvLen' + plain' \in Nat
    <3>1. wire' \in Seq(Nat) /\ inq' \in Seq(InPacket)
      BY DEF TypeOK
    <3>2. recvLen' \in 0..RecvBufSize /\ plain' \in Nat
      BY DEF TypeOK
    <3>3. recvLen' \in Nat
      BY <3>2, SizeAssumption
    <3>4. \A m, n \in Nat : m + n \in Nat
      OBVIOUS
    <3> QED BY <3>1, <3>2, <3>3, <3>4, Zenon
  <2>2. recvLen' + plain' + Total(wire') = InBytes(inq')
    BY DEF RecvConserved
  <2>3. Boundary(recvLen' + plain' + Upto(wire', Len(wire')), inq')
    BY <2>1, <2>2, LastEnds
  <2> QED BY <2>3 DEF RecordEnd
<1>3. CASE recvLen' + plain' = recvLen + plain /\ wire' = wire /\ inq' = inq
  <2>1. \A j \in 0..Len(wire) : RecordEnd(j)' = RecordEnd(j)
    BY <1>3 DEF RecordEnd
  <2> QED BY <1>3, <2>1 DEF RecordsWhole
<1>4. CASE /\ plain = 0 /\ wire # << >> /\ wire' = Tail(wire) /\ inq' = inq
           /\ recvLen' + plain' = recvLen + Head(wire)
  <2>1. Len(wire') = Len(wire) - 1 /\ Head(wire) \in Nat
    BY <1>1, <1>4, HeadTailProperties
  <2>2. ASSUME NEW j \in 0..Len(wire') PROVE Boundary(RecordEnd(j)', inq')
    <3>1. j \in 0..(Len(wire) - 1) /\ j + 1 \in 0..Len(wire)
      BY <1>1, <2>1
    <3>2. Upto(wire, j + 1) = Head(wire) + Upto(wire', j)
      BY <1>1, <1>4, <3>1, UptoTail
    <3>3. Upto(wire', j) \in Nat
      <4>1. wire' \in Seq(Int) /\ wire' \in Seq(Nat)
        BY <1>1, <1>4, HeadTailProperties
      <4> QED BY <4>1, UptoEnds
    <3>4. RecordEnd(j)' = RecordEnd(j + 1)
      <4>1. /\ RecordEnd(j)' = recvLen' + plain' + Upto(wire', j)
            /\ RecordEnd(j + 1) = recvLen + plain + Upto(wire, j + 1)
        BY DEF RecordEnd
      <4> DEFINE u == Upto(wire', j)
                 h == Head(wire)
      <4>2. u \in Nat /\ h \in Nat
        BY <2>1, <3>3
      <4>3. Upto(wire, j + 1) = h + u /\ recvLen' + plain' = recvLen + h
        BY <1>4, <3>2
      <4>4. RecordEnd(j)' = (recvLen + h) + u
        BY <4>1, <4>3
      <4>5. RecordEnd(j + 1) = recvLen + plain + (h + u)
        BY <4>1, <4>3
      <4> HIDE DEF u, h
      <4> QED BY <1>1, <1>4, <4>2, <4>4, <4>5
    <3>5. Boundary(RecordEnd(j + 1), inq)
      BY <3>1 DEF RecordsWhole
    <3> QED BY <1>4, <3>4, <3>5
  <2> QED BY <2>2 DEF RecordsWhole
<1>5. CASE CanReadCb
  <2>1. \/ /\ wire' = wire /\ recvLen' + plain' = recvLen + plain
           /\ inq' = inq
        \/ /\ plain = 0 /\ wire # << >> /\ wire' = Tail(wire)
           /\ recvLen' + plain' = recvLen + Head(wire) /\ inq' = inq
    BY <1>5, ReadMoves, Zenon
  <2> QED BY <1>3, <1>4, <2>1
<1>6. CASE CanReadCbControl \/ CanReadCbAlert
  <2>1. /\ wire # << >> /\ Head(wire) = 0 /\ wire' = Tail(wire) /\ plain = 0
        /\ recvLen' = recvLen /\ plain' = plain /\ inq' = inq
    BY <1>6 DEF CanReadCbControl, CanReadCbAlert
  <2>2. recvLen' + plain' = recvLen + Head(wire)
    BY <1>1, <2>1
  <2> QED BY <1>4, <2>1, <2>2
<1>7. ASSUME NEW ps \in Outputs, ParsePacket(ps)
      PROVE  RecordsWhole'
  <2> DEFINE size == InSize[Head(inq)]
  <2>1. /\ inq # << >> /\ inq' = Tail(inq) /\ recvLen >= size
        /\ recvLen' = recvLen - size
        /\ plain' = plain /\ wire' = wire
    BY <1>7 DEF ParsePacket, PacketLen
  <2>2. size \in Nat /\ size >= 2
    BY <1>1, <2>1, InSizesTail, SizeAssumption
  <2> HIDE DEF size
  <2>3. ASSUME NEW j \in 0..Len(wire) PROVE Boundary(RecordEnd(j)', inq')
    <3> DEFINE n == RecordEnd(j)
               u == Upto(wire, j)
    <3>1. n \in Nat /\ u \in Nat /\ n = recvLen + plain + u
      BY <1>1 DEF RecordEnd
    <3>2. RecordEnd(j)' = recvLen' + plain + u
      BY <2>1 DEF RecordEnd
    <3> HIDE DEF n, u
    <3>3. n > 0 /\ RecordEnd(j)' = n - size
      BY <1>1, <2>1, <2>2, <3>1, <3>2
    <3>4. Boundary(n, inq)
      BY DEF RecordsWhole, n
    <3>5. Boundary(n - InSize[Head(inq)], Tail(inq))
      BY <1>1, <3>1, <3>3, <3>4, BoundaryFacts
    <3> QED BY <2>1, <3>3, <3>5 DEF size
  <2> QED BY <2>1, <2>3 DEF RecordsWhole
<1>8. ASSUME NEW p \in InPacket, PeerSend(p)
      PROVE  RecordsWhole'
  <2> DEFINE size == InSize[p]
  <2>1. size \in Int
    BY SizeAssumption
  <2>2. inq' = Append(inq, p) /\ recvLen' = recvLen /\ plain' = plain
    BY <1>8 DEF PeerSend
  <2>3. ASSUME NEW j \in 0..Len(wire), Upto(wire', j) = Upto(wire, j)
        PROVE  Boundary(RecordEnd(j)', inq')
    <3>1. RecordEnd(j)' = RecordEnd(j)
      BY <2>2, <2>3 DEF RecordEnd
    <3>2. Boundary(RecordEnd(j), inq) /\ RecordEnd(j) \in Int
      BY <1>1 DEF RecordsWhole
    <3> QED BY <1>1, <2>2, <3>1, <3>2, BoundaryFacts
  <2>4. CASE wire' = Append(wire, size)
    <3>1. Len(wire') = Len(wire) + 1
      BY <1>1, <2>1, <2>4, AppendProperties
    <3>2. \A j \in 0..Len(wire) : Upto(wire', j) = Upto(wire, j)
      BY <1>1, <2>1, <2>4, UptoAppend
    <3>3. \A j \in 0..Len(wire') : j \in 0..Len(wire) \/ j = Len(wire')
      BY <1>1, <3>1
    <3> QED BY <1>2, <2>3, <3>2, <3>3 DEF RecordsWhole
  <2>5. CASE wire # << >> /\ wire' = [wire EXCEPT ![Len(wire)] = @ + size]
    <3>1. Len(wire') = Len(wire)
      BY <1>1, <2>5
    <3>2. \A j \in 0..(Len(wire) - 1) : Upto(wire', j) = Upto(wire, j)
      BY <1>1, <2>1, <2>5, UptoLast
    <3>3. \A j \in 0..Len(wire') : \/ j \in 0..Len(wire) /\ j \in 0..(Len(wire) - 1)
                                   \/ j = Len(wire')
      BY <1>1, <3>1
    <3> QED BY <1>2, <2>3, <3>2, <3>3 DEF RecordsWhole
  <2> QED BY <1>8, <2>4, <2>5 DEF PeerSend
<1>9. CASE PeerControl
  <2>1. wire' = Append(wire, 0) /\ UNCHANGED << recvLen, plain, inq >>
    BY <1>9 DEF PeerControl
  <2>2. Len(wire') = Len(wire) + 1
    BY <1>1, <2>1, AppendProperties
  <2>3. \A j \in 0..Len(wire) : Upto(wire', j) = Upto(wire, j)
    BY <1>1, <2>1, UptoAppend
  <2>4. \A j \in 0..Len(wire) : RecordEnd(j)' = RecordEnd(j)
    BY <2>1, <2>3 DEF RecordEnd
  <2>5. \A j \in 0..Len(wire') : j \in 0..Len(wire) \/ j = Len(wire')
    BY <1>1, <2>2
  <2> QED BY <1>2, <2>1, <2>4, <2>5 DEF RecordsWhole
<1>10. CASE UNCHANGED recvVars
  BY <1>3, <1>10 DEF recvVars
<1> QED BY <1>5, <1>6, <1>7, <1>8, <1>9, <1>10, RecvSteps

LEMMA FaultStep ==
    ASSUME TypeOK, RecordsWhole, FaultExplained, [Next]_vars
    PROVE  FaultExplained'
<1>1. ASSUME NEW ps \in Outputs, Handler(ps)
      PROVE  FaultExplained'
  <2>1. PICK qs \in Outputs, next \in Phases : Emit(qs, next) /\ next # "fault"
    BY <1>1, HandlerEmits
  <2>2. phase' = "fault" => Bytes(sendBuf') > SendBufSize
    BY <2>1 DEF Emit
  <2> QED BY <2>2 DEF FaultExplained
<1>2. CASE ParseFragment
  <2>1. /\ inq # << >> /\ recvLen < InSize[Head(inq)] /\ ~(recvLen < 2)
        /\ plain' = plain
    BY <1>2 DEF ParseFragment, PacketLen, TooShort, recvVars
  <2>2. /\ recvLen \in Nat /\ plain \in Nat /\ inq \in Seq(InPacket)
        /\ wire \in Seq(Int) /\ Len(wire) \in Nat
    BY RecvTypes
  <2>3. RecordEnd(0) = recvLen + plain
    <3>1. Upto(wire, 0) = 0
      BY <2>2, UptoEnds
    <3> QED BY <2>2, <3>1 DEF RecordEnd
  <2>4. Boundary(recvLen + plain, inq)
    <3>1. 0 \in 0..Len(wire)
      BY <2>2
    <3> QED BY <2>3, <3>1 DEF RecordsWhole
  <2>5. InSize[Head(inq)] <= recvLen + plain
    <3>1. recvLen + plain \in Nat /\ recvLen + plain > 0
      BY <2>1, <2>2
    <3> QED BY <2>2, <2>4, <3>1, BoundaryFacts
  <2>6. InSize[Head(inq)] \in Nat
    BY <2>1, <2>2, InSizesTail, SizeAssumption
  <2> DEFINE size == InSize[Head(inq)]
  <2> HIDE DEF size
  <2>7. plain > 0
    BY <2>1, <2>2, <2>5, <2>6 DEF size
  <2> QED BY <2>1, <2>7 DEF FaultExplained
<1>3. CASE Peer
  <2>1. phase' = phase /\ sendBuf' = sendBuf /\ plain' = plain
    BY <1>3 DEF Peer, PeerSend, PeerControl, PeerClose, PeerReset,
                loopVars, sendVars, recvVars
  <2> QED BY <2>1 DEF FaultExplained
<1>4. ASSUME Callback, ~ParseFragment, \A ps \in Outputs : ~Handler(ps)
      PROVE  phase' # "fault"
  BY <1>4, NextPhase
     DEF Callback, CanReadCb, CanReadCbAlert, CanReadCbControl, CanReadCbFails, ParseEnd,
         CanWriteCbEmpty, CanWriteCb, CanWriteCbFails, HandshakeResumes,
         SigPipe, loopVars
<1>5. ASSUME NEW ready, SockPoll(ready)
      PROVE  phase' # "fault"
  BY <1>5 DEF SockPoll
<1>6. CASE UNCHANGED vars
  BY <1>6 DEF vars, loopVars, sendVars, recvVars, FaultExplained
<1> QED
  BY <1>1, <1>2, <1>3, <1>4, <1>5, <1>6
     DEF Next, HandshakeSpin, Halted, FaultExplained

RecvInv == TypeOK /\ RecvConserved

LEMMA RecvInvariant == Spec => []RecvInv
BY TypeCorrect, ReceiveConserved, PTL DEF RecvInv

\* While the peer puts no packet into two records, the loop faults for lack of
\* room only: a record larger than the room in recv_buf, of which the parser
\* sees a part, or a handler's append past the end of send_buf.
THEOREM FaultsAreOverruns == ~SplitPackets => (Spec => []FaultExplained)
<1> SUFFICES ASSUME ~SplitPackets PROVE Spec => []FaultExplained
  OBVIOUS
<1>1. Init => FaultExplained
  BY DEF Init, FaultExplained
<1>2. Init /\ RecvInv => RecordsWhole
  <2> SUFFICES ASSUME Init, RecvInv PROVE RecordsWhole
    OBVIOUS
  <2>1. Len(wire) = 0
    BY EmptySeq DEF Init
  <2>2. \A j \in 0..Len(wire) : j = Len(wire)
    BY <2>1
  <2>3. wire \in Seq(Nat) /\ inq \in Seq(InPacket) /\ recvLen + plain \in Nat
    BY SizeAssumption DEF RecvInv, TypeOK
  <2>4. recvLen + plain + Total(wire) = InBytes(inq)
    BY DEF RecvInv, RecvConserved
  <2>5. Boundary(recvLen + plain + Upto(wire, Len(wire)), inq)
    BY <2>3, <2>4, LastEnds
  <2> QED BY <2>2, <2>5 DEF RecordsWhole, RecordEnd
<1>3. RecvInv /\ RecvInv' /\ RecordsWhole /\ [Next]_vars => RecordsWhole'
  BY WholeStep DEF RecvInv
<1>4. RecvInv /\ RecordsWhole /\ FaultExplained /\ [Next]_vars => FaultExplained'
  BY FaultStep DEF RecvInv
<1> QED BY <1>1, <1>2, <1>3, <1>4, RecvInvariant, PTL DEF Spec

-----------------------------------------------------------------------------
(* Buffers that are large enough.                                           *)

\* recv_buf holds whatever the peer has on its way, send_buf whatever the
\* handlers append.
Roomy ==
    /\ \A ps \in Seq(InPacket) : Len(ps) <= MaxInq => InBytes(ps) <= RecvBufSize
    /\ \A ps \in Seq(OutPacket) :
          Len(ps) <= MaxQueued => Bytes(ps) <= SendBufSize

\* Then mbedtls never keeps a part of a record back.
NothingLeft == plain = 0 /\ Len(inq) <= MaxInq

LEMMA NothingLeftStep ==
    ASSUME Roomy, TypeOK, TypeOK', RecvConserved', NothingLeft, [Next]_vars
    PROVE  NothingLeft'
<1> USE DEF NothingLeft
<1>1. CASE CanReadCb
  <2>1. inq' = inq /\ (plain' > 0 => recvLen' = RecvBufSize \/ plain' = plain)
    BY <1>1, ReadMoves, Zenon
  <2>2. /\ recvLen' \in Nat /\ plain' \in Nat /\ Total(wire') \in Nat
        /\ inq' \in Seq(InPacket)
    <3>1. wire' \in Seq(Nat) /\ inq' \in Seq(InPacket)
      BY DEF TypeOK
    <3>2. wire' \in Seq(Int)
      BY <3>1
    <3> QED BY <3>1, <3>2, TotalType, SizeAssumption DEF TypeOK
  <2>3. recvLen' + plain' + Total(wire') <= RecvBufSize
    BY <2>1, <2>2 DEF Roomy, RecvConserved
  <2> DEFINE t == Total(wire')
             r == recvLen'
             n == plain'
  <2>4. RecvBufSize \in Nat
    BY SizeAssumption
  <2>5. /\ t \in Nat /\ r \in Nat /\ n \in Nat
        /\ r + n + t <= RecvBufSize
    BY <2>2, <2>3
  <2>6. ASSUME plain' > 0 PROVE FALSE
    <3>1. CASE recvLen' = RecvBufSize
      <4>1. r = RecvBufSize /\ n > 0
        BY <2>6, <3>1
      <4> HIDE DEF t, r, n
      <4> QED BY <2>4, <2>5, <4>1
    <3>2. CASE plain' = plain
      BY <2>6, <3>2
    <3> QED BY <2>1, <2>6, <3>1, <3>2
  <2> QED BY <2>1, <2>2, <2>6
<1>2. CASE CanReadCbControl \/ CanReadCbAlert
  BY <1>2 DEF CanReadCbControl, CanReadCbAlert
<1>3. ASSUME NEW ps \in Outputs, ParsePacket(ps)
      PROVE  NothingLeft'
  <2>1. inq # << >> /\ inq' = Tail(inq) /\ plain' = plain
    BY <1>3 DEF ParsePacket
  <2>2. Len(inq') = Len(inq) - 1 /\ Len(inq) \in Nat
    BY <2>1, HeadTailProperties, LenProperties DEF TypeOK
  <2> QED BY <2>1, <2>2, EnvAssumption
<1>4. ASSUME NEW p \in InPacket, Len(inq) < MaxInq, PeerSend(p)
      PROVE  NothingLeft'
  <2>1. inq' = Append(inq, p) /\ plain' = plain
    BY <1>4 DEF PeerSend
  <2>2. Len(inq') = Len(inq) + 1 /\ Len(inq) \in Nat
    BY <2>1, AppendProperties, LenProperties DEF TypeOK
  <2> QED BY <1>4, <2>1, <2>2, EnvAssumption
<1>5. CASE PeerControl
  BY <1>5 DEF PeerControl
<1>6. CASE UNCHANGED recvVars
  BY <1>6 DEF recvVars
<1> QED BY <1>1, <1>2, <1>3, <1>4, <1>5, <1>6, RecvSteps

\* Never more packets are appended than the bound allows.
QueueBounded == Len(queued) <= MaxQueued

LEMMA QueueStep ==
    ASSUME TypeOK, QueueBounded, [Next]_vars
    PROVE  QueueBounded'
<1>1. ASSUME NEW ps \in Outputs, Len(queued) + Len(ps) <= MaxQueued, Handler(ps)
      PROVE  QueueBounded'
  <2>1. PICK qs \in Outputs, next \in Phases :
               Emit(qs, next) /\ Len(qs) <= Len(ps)
    BY <1>1, HandlerEmits
  <2>2. queued' = queued \o qs
    BY <2>1 DEF Emit
  <2>3. /\ Len(queued \o qs) = Len(queued) + Len(qs)
        /\ Len(qs) \in Nat /\ Len(ps) \in Nat /\ Len(queued) \in Nat
    BY EnvAssumption, ConcatProperties, LenProperties DEF TypeOK
  <2> QED BY <1>1, <2>1, <2>2, <2>3, EnvAssumption DEF QueueBounded
<1>2. ASSUME Callback, \A ps \in Outputs :
                 ~(Len(queued) + Len(ps) <= MaxQueued /\ Handler(ps))
      PROVE  queued' = queued
  BY <1>2
     DEF Callback, CanReadCb, CanReadCbAlert, CanReadCbControl, CanReadCbFails,
              ParseFragment, ParseEnd, CanWriteCbEmpty, CanWriteCb,
              CanWriteCbFails, HandshakeResumes, SigPipe, sendVars
<1>3. CASE Peer
  BY <1>3 DEF Peer, PeerSend, PeerControl, PeerClose, PeerReset, sendVars,
              QueueBounded
<1>4. ASSUME NEW ready, SockPoll(ready)
      PROVE  queued' = queued
  BY <1>4 DEF SockPoll, sendVars
<1>5. CASE UNCHANGED vars
  BY <1>5 DEF vars, sendVars, QueueBounded
<1> QED
  BY <1>1, <1>2, <1>3, <1>4, <1>5
     DEF Next, HandshakeSpin, Halted, QueueBounded

\* With buffers that hold what arrives and what is appended, and packets that
\* are not split over records, the loop never faults.
THEOREM RoomyNeverFaults == ~SplitPackets /\ Roomy => (Spec => []NoFault)
<1> SUFFICES ASSUME ~SplitPackets, Roomy PROVE Spec => []NoFault
  OBVIOUS
<1>1. Init => NothingLeft /\ QueueBounded
  <2>1. Len(<< >>) = 0 /\ 0 <= MaxInq /\ 0 <= MaxQueued
    BY EmptySeq, EnvAssumption
  <2> QED BY <2>1 DEF Init, NothingLeft, QueueBounded
<1>2. RecvInv /\ RecvInv' /\ NothingLeft /\ [Next]_vars => NothingLeft'
  BY NothingLeftStep DEF RecvInv
<1>3. RecvInv /\ QueueBounded /\ [Next]_vars => QueueBounded'
  BY QueueStep DEF RecvInv
<1>4. RecvInv /\ NothingLeft /\ QueueBounded /\ OrderInv /\ FaultExplained
         => NoFault
  <2> SUFFICES ASSUME RecvInv, NothingLeft, QueueBounded, OrderInv,
                      FaultExplained
               PROVE  NoFault
    OBVIOUS
  <2>1. sendBuf \in Seq(OutPacket) /\ Len(sendBuf) \in Nat /\ Len(queued) \in Nat
    BY LenProperties DEF RecvInv, TypeOK
  <2>2. Len(sendBuf) <= MaxQueued
    BY <2>1, EnvAssumption DEF OrderInv, BufferIsEnd, Sent, QueueBounded
  <2>3. Bytes(sendBuf) <= SendBufSize
    BY <2>1, <2>2 DEF Roomy
  <2>4. Bytes(sendBuf) \in Int
    <3>1. \A i \in 1..Len(sendBuf) : sendBuf[i] \in OutPacket
      BY <2>1, ElementOfSeq
    <3>2. \A q \in OutPacket : OutSize[q] \in Int
      BY SizeAssumption
    <3>3. [i \in DOMAIN sendBuf |-> OutSize[sendBuf[i]]] \in Seq(Int)
      <4>1. DOMAIN sendBuf = 1..Len(sendBuf)
        BY <2>1, LenProperties
      <4> QED BY <2>1, <3>1, <3>2, <4>1
    <3> QED BY <3>3, TotalType DEF Bytes
  <2>5. ~(Bytes(sendBuf) > SendBufSize)
    BY <2>3, <2>4, SizeAssumption
  <2>6. ~(plain > 0)
    BY DEF NothingLeft
  <2> QED BY <2>5, <2>6 DEF FaultExplained, NoFault
<1>5. Spec => []FaultExplained
  BY FaultsAreOverruns
<1> QED
  BY <1>1, <1>2, <1>3, <1>4, <1>5, RecvInvariant, OrderInvariant, PTL DEF Spec

=============================================================================
