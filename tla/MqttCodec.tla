------------------------------- MODULE MqttCodec -------------------------------
(***************************************************************************)
(* mqtt_packet.c: one packet from its options to bytes and back.           *)
(*                                                                         *)
(* A behaviour encodes one packet, with a step for each round of the loop  *)
(* in mqtt_encode_len, and takes it off a buffer with the client's parser, *)
(* with a step for each round of the loop in mqtt_decode_len.  Other bytes *)
(* may follow the packet in the buffer, so that one packet shows how a     *)
(* stream of them is cut.                                                  *)
(*                                                                         *)
(* The client's packets (from = "client") are written by the encoders of   *)
(* mqtt_packet.c; the broker's are external and written as MQTT 3.1.1      *)
(* says.  A packet's first byte and its strings are sequences of numbers;  *)
(* Stale is a byte of the buffer that the encoder has not written.         *)
(***************************************************************************)
EXTENDS Integers, Sequences, SequencesExt, Sums

CONSTANTS
    Base,      \* MQTT_PACKET_LEN_MASK (128)
    Packets,   \* the options of the packets to encode
    After,     \* what may follow the packet in the buffer
    BufLen     \* room for a CONNECT in send_buf

Byte  == 2 * Base   \* numbers are written in base 256
Stale == -1

Cube == Base * Base * Base

Connect == 1   Connack == 2   Publish == 3   Subscribe == 8
Suback  == 9   Pingreq == 12
Puback == 4    Pubrec == 5    Pingresp == 13
ClientTypes == {Connect, Publish, Puback, Pubrec, Subscribe, Pingreq}
BrokerTypes == {Connack, Publish, Suback, Pingresp}

-----------------------------------------------------------------------------
(* The encoders.                                                           *)

\* mqtt_encode_num takes an unsigned short.
Num(n) == << (n \div Byte) % Byte, n % Byte >>

\* mqtt_encode_string
Str(s) == Num(Len(s)) \o s

\* What a CONNECT sends of its options: a flag counts only with its string, and
\* a will needs both of its strings.
WillSent(o)    == "will" \in o.flags /\ {"will_topic", "will_msg"} \subseteq DOMAIN o.strings
FlagSent(o, f) == f \in o.flags /\ f \in DOMAIN o.strings

ConnectStrings(o) ==
    << o.strings["client_id"] >>
    \o (IF WillSent(o)
        THEN << o.strings["will_topic"], o.strings["will_msg"] >> ELSE << >>)
    \o (IF FlagSent(o, "user_name") THEN << o.strings["user_name"] >> ELSE << >>)
    \o (IF FlagSent(o, "password") THEN << o.strings["password"] >> ELSE << >>)

SumLen(strings) == Total([k \in DOMAIN strings |-> Len(strings[k])])

\* mqtt_connect_head_t as it lies in the memory of a little-endian host.
ConnectHead(o) ==
    LET bit(f, b) == IF f \in o.flags THEN b ELSE 0
    IN  << 0, 4, 1, 1, 1, 1, 4,
           bit("will", 4) + bit("password", 64) + bit("user_name", 128),
           o.keep_alive % Byte, o.keep_alive \div Byte >>

\* What follows the fixed header, as it is written.
Body(o) ==
    CASE o.type = Connect ->
           ConnectHead(o)
           \o FlattenSeq([k \in DOMAIN ConnectStrings(o) |-> Str(ConnectStrings(o)[k])])
      [] o.type = Publish ->
           Str(o.topic) \o (IF o.qos > 0 THEN Num(o.id) ELSE << >>) \o o.msg
      [] o.type = Subscribe ->
           Num(o.id) \o FlattenSeq([k \in DOMAIN o.topics |-> Str(o.topics[k]) \o << o.qoss[k] >>])
      [] o.type \in {Puback, Pubrec} -> Num(o.id)
      [] o.type = Suback -> Num(o.id) \o o.codes
      [] o.type = Connack -> << 0, 0 >>
      [] o.type \in {Pingreq, Pingresp} -> << >>

\* Mutant: the qos of a topic is not counted.
RemainingBug(o) ==
    CASE o.from = "client" /\ o.type = Subscribe -> 2 + SumLen(o.topics) + 2 * Len(o.topics)
      [] o.from = "client" /\ o.type = Publish -> 2 + Len(o.topic) + 2 + Len(o.msg)
      [] OTHER -> Len(Body(o))

\* remaining_len, which the encoders add up before they write.  For a PUBLISH
\* it has the packet id in it whatever the QoS.
Remaining(o) ==
    IF o.from = "broker" THEN Len(Body(o))
    ELSE CASE o.type = Connect ->
                10 + SumLen(ConnectStrings(o)) + 2 * Len(ConnectStrings(o))
           [] o.type = Publish -> (2 + Len(o.topic)) + 2 + Len(o.msg)
           [] o.type = Subscribe -> 2 + SumLen(o.topics) + 3 * Len(o.topics)
           [] o.type \in {Puback, Pubrec} -> 2
           [] o.type = Pingreq -> 0

\* Options as the types of mqtt_packet.h and the encoders' use of them allow.
\* A SUBACK has a code for each topic of a SUBSCRIBE, which counts its topics in
\* an unsigned char.
OptionsOK(o) ==
    CASE o.type = Connect ->
           /\ o.strings \in [DOMAIN o.strings -> Seq(Int)]
           /\ "client_id" \in DOMAIN o.strings
           /\ o.keep_alive \in Nat
      [] o.type = Publish ->
           /\ o.topic \in Seq(Int) /\ o.msg \in Seq(Int)
           /\ o.id \in 0 .. (Byte * Byte - 1)
           /\ o.from = "broker" => Len(o.topic) < Byte * Byte
      [] o.type = Subscribe ->
           /\ o.topics \in Seq(Seq(Int)) /\ o.qoss \in [DOMAIN o.topics -> Int]
           /\ o.id \in Nat
      [] o.type \in {Puback, Pubrec} -> o.id \in Nat
      [] o.type = Suback ->
           /\ o.codes \in Seq(Int) /\ Len(o.codes) < Byte
           /\ o.id \in 0 .. (Byte * Byte - 1)
      [] OTHER -> TRUE

ASSUME CodecAssumption ==
    /\ Base \in Nat /\ Base > 1
    /\ BufLen \in Nat
    /\ After \subseteq Seq(Int)
    /\ \A o \in Packets :
          /\ o.type \in IF o.from = "client" THEN ClientTypes ELSE BrokerTypes
          /\ o.from \in {"client", "broker"}
          /\ OptionsOK(o)
          /\ Remaining(o) \in 0 .. (Base * Cube - 1)
          /\ o.dup \in 0..1 /\ o.qos \in 0..2 /\ o.retain \in 0..1

\* The first byte of the fixed header, and mqtt_decode_fixhead's view of it.
First(o) == 16 * o.type + 8 * o.dup + 2 * o.qos + o.retain
TypeOf(byte) == byte \div 16
QosOf(byte)  == (byte \div 2) % 4

VARIABLES
    pc,      \* "encode_len", "encode", "decode_len", "parse", "done"
    opt,     \* options: the packet
    field,   \* the bytes mqtt_encode_len has written
    len,     \* its len
    buf,     \* the buffer the packet is written to and parsed from
    rc,      \* in mqtt_decode_len
    mul,     \* in mqtt_decode_len
    rem_len, \* *len of mqtt_decode_len
    parsed   \* what the parser has made of the packet

encodeVars == << opt, field, len >>
decodeVars == << rc, mul, rem_len >>
vars == << pc, encodeVars, buf, decodeVars, parsed >>

\* A byte of the buffer.  Behind its contents there are older bytes.
At(i) == IF i \in DOMAIN buf THEN buf[i] ELSE Stale
From(i, n) == [k \in 1..n |-> At(i + k - 1)]

\* Mutant: the top bit is set when the byte is not zero.
DigitBug(n) == IF n % Base > 0 THEN (n % Base) + Base ELSE n % Base

\* One byte of the remaining length n; the top bit says that more follow.
Digit(n) == IF n \div Base > 0 THEN (n % Base) + Base ELSE n % Base

\* A round of mqtt_encode_len.
EncodeLen ==
    /\ pc = "encode_len"
    /\ field' = Append(field, Digit(len))
    /\ len' = len \div Base
    /\ pc' = IF len' > 0 THEN "encode_len" ELSE "encode"
    /\ UNCHANGED << opt, buf, decodeVars, parsed >>

\* The packet's bytes.  Where an encoder writes less than it reports the
\* buffer keeps what was there.
Encoded(o) ==
    LET body    == Body(o)
        missing == Remaining(o) - Len(body)
    IN  << First(o) >> \o field \o body
        \o [k \in 1 .. (IF missing > 0 THEN missing ELSE 0) |-> Stale]

\* The rest of an encoder.  Only mqtt_encode_connect looks at the room.
Encode ==
    /\ pc = "encode"
    /\ IF opt.type = Connect /\ 1 + Len(field) + Remaining(opt) > BufLen
       THEN pc' = "done" /\ UNCHANGED buf
       ELSE /\ pc' = "decode_len"
            /\ \E after \in After : buf' = Encoded(opt) \o after
    /\ UNCHANGED << encodeVars, decodeVars, parsed >>

\* Mutant: the third byte is the last one.
TooLongBug(m) == m >= Cube

\* A fifth byte of the length is refused.
TooLong(m) == m > Cube

\* A round of mqtt_decode_len.
DecodeLen ==
    LET byte == At(2 + rc)
    IN  /\ pc = "decode_len"
        /\ rem_len' = rem_len + (byte % Base) * mul
        /\ IF TooLong(mul)
           THEN rc' = -1 /\ pc' = "parse" /\ UNCHANGED mul
           ELSE /\ rc' = rc + 1
                /\ mul' = mul * Base
                /\ pc' = IF byte >= Base THEN "decode_len" ELSE "parse"
        /\ UNCHANGED << encodeVars, buf, parsed >>

-----------------------------------------------------------------------------
(* The decoders.  `len` of the C code is 1 + rc here.                      *)

\* mqtt_decode_num
NumAt(i) == At(i) * Byte + At(i + 1)

\* Mutants of MsgLen and PayloadAt: the length of the topic is forgotten; the
\* packet id is taken for a part of the message.
MsgLenBug(topic_len) == rem_len - 2
PayloadAtBug(at, qos) == at

\* publish_payload.msg_len, the same for each QoS.
MsgLen(topic_len) == rem_len - topic_len - 2

\* Where the payload begins: `at` is the byte behind the topic.
PayloadAt(at, qos) == IF qos > 0 THEN at + 2 ELSE at

\* mqtt_decode_publish
DecodePublish ==
    LET head  == 1 + rc
        topic_len == NumAt(head + 1)
        at    == head + 3 + topic_len
        qos   == QosOf(At(1))
    IN  [type |-> Publish, qos |-> qos,
         topic |-> From(head + 3, topic_len),
         id    |-> IF qos > 0 THEN NumAt(at) ELSE 0,
         msg   |-> From(PayloadAt(at, qos), MsgLen(topic_len))]

\* Mutant: the packet id is counted as return codes.
CountBug == rem_len % Byte

\* options->count, an unsigned char.
Count == (rem_len - 2) % Byte

\* mqtt_decode_suback
DecodeSuback ==
    LET head == 1 + rc
    IN  [type |-> Suback, id |-> NumAt(head + 1), codes |-> From(head + 3, Count)]

\* Mutant: the length field is taken to be one byte.
PacketLenBug == 2 + rem_len

\* What the parser returns.
PacketLen == 1 + rc + rem_len

\* atiny_mqtt_parser and the memmove behind it.
Parse ==
    /\ pc = "parse"
    /\ parsed' = CASE TypeOf(At(1)) = Publish -> DecodePublish
                   [] TypeOf(At(1)) = Suback  -> DecodeSuback
                   [] OTHER -> [type |-> TypeOf(At(1))]
    /\ buf' = SubSeq(buf, PacketLen + 1, Len(buf))
    /\ pc' = "done"
    /\ UNCHANGED << encodeVars, decodeVars >>

Done == pc = "done" /\ UNCHANGED vars

Init ==
    /\ pc = "encode_len"
    /\ opt \in Packets
    /\ field = << >> /\ len = Remaining(opt)
    /\ buf = << >>
    /\ rc = 0 /\ mul = 1 /\ rem_len = 0
    /\ parsed = [type |-> 0]

Next == EncodeLen \/ Encode \/ DecodeLen \/ Parse \/ Done

Spec == Init /\ [][Next]_vars

-----------------------------------------------------------------------------
(* Properties.                                                             *)

\* Encoder and decoder agree: the length that mqtt_decode_len returns is the
\* one mqtt_encode_len was given, in one to four bytes and all of them read,
\* also at the values where the number of bytes changes.
LengthRoundTrip ==
    pc = "parse" =>
        /\ rem_len = Remaining(opt)
        /\ rc = Len(field) /\ rc \in 1..4

\* The parser cuts the packet and nothing else off the buffer, and sees the
\* type it was sent with.
Framed ==
    pc = "done" /\ parsed.type # 0 =>
        /\ parsed.type = opt.type
        /\ buf \in After

\* An encoder writes as many bytes as it reports, apart from the two stale
\* bytes that end a QoS 0 PUBLISH (mqtt_encode_publish).
WritesWhatItReports ==
    Remaining(opt) - Len(Body(opt)) =
        IF opt.from = "client" /\ opt.type = Publish /\ opt.qos = 0 THEN 2 ELSE 0

\* The topic and the message the callbacks get from mqtt_decode_publish are
\* those that were published.  With QoS 1 and 2 the message is given two bytes
\* that are not its own.
PublishDecoded ==
    (pc = "done" /\ parsed.type = Publish /\ opt.from = "broker") =>
        /\ parsed.topic = opt.topic /\ parsed.qos = opt.qos
        /\ opt.qos > 0 => parsed.id = opt.id
        /\ IsPrefix(opt.msg, parsed.msg)
        /\ Len(parsed.msg) - Len(opt.msg) = IF opt.qos > 0 THEN 2 ELSE 0

\* mqtt_decode_suback gives the return codes the broker has sent, no more and
\* no fewer.
SubackDecoded ==
    pc = "done" /\ parsed.type = Suback => parsed.codes = opt.codes /\ parsed.id = opt.id
=============================================================================
