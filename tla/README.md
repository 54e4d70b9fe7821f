# Verification of the Lite_MQTT device SDK

TLA+ modules of the SDK's event loop and MQTT client, the TLC configurations
that check them on small instances, and theorems about them proved with TLAPS
for all values of the constants.

## 1. The system

`main()` (src/src/atiny/main.c) initialises the SDK, connects to an MQTT broker
over TLS and then calls `atiny_poll` for ever. There is one thread. An iteration
of the loop is one `select()` (at most one second) and up to four callbacks, in
a fixed order: poll, connect, read, write. The callbacks run to their end,
blocking in `recv()` or `send()` when they have to; between two of them only the
network moves.

| Component | State | Operations | Depends on |
|---|---|---|---|
| Event loop, `atiny_sock.c` | `nc->flags`, the socket | `atiny_sock_poll`, `atiny_nc_{poll,connect,can_read,can_write}_cb` | TLS adapter; dispatches events to the protocol handler or, before there is one, to the user's |
| Connection and buffers, `atiny.c`, `atiny.h` | `send_buf`, `recv_buf`, the handlers | `atiny_connect`, `atiny_register_proto`, `atiny_poll` | called by `main` |
| MQTT layer, `atiny_mqtt.c` | `atiny_mqtt_proto_data_t`: keep-alive, next packet id, one message handler per topic | `atiny_mqtt_event_handler`, `atiny_mqtt_parser`, connect, ping, publish, subscribe, puback | appends to `send_buf`, cuts packets off `recv_buf`; calls `ev_handler` and the topic callbacks |
| Application, `main.c` | the built-in topics | `ev_handler`: CONNECTED, CONNACK, PUBLISH | MQTT layer |
| Packet codec, `mqtt_packet.c` | none | encoders and decoders | called by the MQTT layer |
| TLS adapter, `atiny_mbed_ssl.c` | the mbedTLS contexts | init, handshake, send, recv, destroy | mbedTLS; calls back `atiny_sock_send`/`recv` |
| mbedTLS 2.6.0 (vendored) | the record being sent, the record being read, the handshake state | `mbedtls_ssl_handshake`, `_read`, `_write` | TLS adapter |
| Platform adapter, log, entropy | none that matters | malloc, clock, mutex, output, random bytes | all |

What is hard in it:

- **State across iterations.** `send_buf` grows in five handlers and shrinks in
  one callback, while mbedTLS may still hold a record cut from it. `recv_buf`,
  the TLS record and the socket each hold a part of the incoming stream, and
  packet, record and read boundaries are independent.
- **Flags.** They live longer than the iteration that sets them, start with
  what malloc left, and decide which callback runs on what.
- **Failures.** The peer may close or reset at any point, the handshake may
  fail, `send()` may fail. Every path ends in a flag and the loop goes on.
- **Ordering with the broker.** CONNECT, CONNACK, SUBSCRIBE and SUBACK each
  depend on the one before, publications cross them, and the client connects
  with `clean_session` = 0, so subscriptions of an earlier session are live
  before the client has asked for any.
- **Limits.** Buffers of 1024 bytes, packet ids of 16 bits, the last one or two
  bytes of a read.

What makes the components correct:

- *event loop and buffers*: what is appended goes out once, in order, and in
  the end; what arrives is accounted for byte by byte; the buffers stay in
  bounds and never fill up for good; a lost connection is noticed.
- *MQTT layer and application*: CONNECT first and once, requests only after
  CONNACK, different ids for requests in flight, one answer per PUBLISH, the
  right callback for a topic, no use of handler entries that were not written.
- *codec*: decoding undoes encoding; lengths are what is written.
- *TLS adapter and start-up*: each context released once; nothing is used
  after a failure.

`PROJECT.json` lists the places in the code where these can go wrong
("hazards").

## 2. Modules

| Module | What it is |
|---|---|
| `Startup` | `main` up to the first poll: allocations, contexts and the socket, with each failure |
| `StartupProofs` | theorems about `Startup` |
| `AtinySock` | the event loop, the buffers, TLS as the loop uses it, and the peer; what handlers append is a parameter |
| `OutStream` | the abstract promise of the send path: a FIFO stream |
| `AtinySockProofs` | theorems about `AtinySock` |
| `AtinyClient` | the MQTT layer and `ev_handler` on top of `AtinySock`, with a broker |
| `MqttSession` | the abstract promise of the client: which packets open a session, in which order |
| `AtinyClientProofs` | theorems about `AtinyClient`, with the refinement of `MqttSession` |
| `Sums` | the sum of a sequence, and how many of its elements are in a set |
| `SumProofs` | lemmas about them |
| `NatSets` | induction over the natural numbers, for a set |
| `Keepalive` | the keep-alive in time: the clock, `last_time`, pings |
| `KeepaliveProofs` | theorems about `Keepalive` |
| `MqttCodec` | the packet encoders and decoders, down to bytes |
| `MqttCodecProofs` | theorems about `MqttCodec`: the length field, framing, what is decoded |
| `TlsClient` | `atiny_ssl_handshake` and the mbedTLS client below it: handshake, renegotiation, read, write, with a server |
| `TlsLockstep` | the invariant of `TlsClient` that keeps the two ends in step |
| `TlsClientProofs` | theorems about `TlsClient`: what it reads, that the ends stay in step, what it writes |
| `MCAtinySock`, `MCAtinyClient`, `MCMqttCodec` | small instances, and the liveness properties |

`Startup` ends where `AtinySock` begins (`ServedComplete` is what its initial
state assumes). `AtinyClient` is an instance of `AtinySock` with the packets of
the handlers; `Keepalive` is the same loop seen in time, `MqttCodec` one packet
of it seen in bytes, and `TlsClient` what `AtinySock` sees as one outcome of
`ConnectCb` and as records that `ssl_read` and `ssl_write` move.

### Startup

`pc` is the statement that runs next; an action is a call of `atiny_init`,
`atiny_connect`, `atiny_ssl_init` or `atiny_sock_connect` with its error branch.
`heap` says of each block whether it is allocated, `content` what has been
written into each TLS context ("raw" is what malloc left), `parts` which
allocations hang off the contexts. What an mbedTLS call does to a context is a
set of outcomes (`CrtParse`, `PkParseKey`, `SslSetup`, ...). Certificates and key
are PEM, as in atiny_config.c; the DER formats that `mbedtls_pk_parse_key` tries
next are not outcomes (there a context that could not be allocated may stay empty
and still count as parsed). Reading a raw
context is harmless if the memory happens to be zero; otherwise `dirty` is set
and the call may fail, go on, or crash.

| Action | Code |
|---|---|
| `AtinyInit`, `AllocNc`, `AllocBufs` | `atiny_init`, the head of `atiny_connect`, `atiny_buf_malloc` |
| `ParseAddress` | `atiny_parse_address` |
| `AllocContexts` ... `SetHostname` | the calls of `atiny_ssl_init`, in order |
| `SslExit`, `Release` | the exits of `atiny_ssl_init` and `atiny_connect` |
| `Connect`, `Poll` | `atiny_sock_connect`; the first `atiny_poll`, whatever was returned |

### AtinySock

`phase` is the callback that runs next; each callback is an action, so a step of
the peer can come between any two. `select`, `poll`, `connect`, `read`, `write`
are the callbacks in order (`AfterPoll`, `AfterConnect`, `AfterRead` are the
tests of `atiny_mgr_handle_conn`), `parse` is the loop of
`atiny_mqtt_event_handler` inside the read callback, and two values are ends:
`killed` (SIGPIPE) and `fault` (memory outside a buffer was touched and the
damage showed).

`sendBuf` is the sequence of whole packets in `send_buf`. `recvLen`, `plain` and
`wire` count bytes: in `recv_buf`, decrypted but not handed over by mbedTLS, and
in each record that waits in the socket (0 for a record without data). `inq` is
the packets those bytes belong to. `ssl` is the handshake's state and `out` the
record mbedTLS could not send in full. `queued`, `written` and `skipped` are
histories.

| Action | Code |
|---|---|
| `SockPoll` | `atiny_sock_poll` up to `atiny_mgr_handle_conn`; what select reports is any part of what is ready |
| `PollCb` | `atiny_nc_poll_cb` |
| `ConnectCb`, `HandshakeSpin` | `atiny_nc_connect_cb` with `atiny_ssl_handshake`: success, failure, or no end; CONNECT is the one packet that is not appended when the room is short (`Fitting`) |
| `CanReadCb`, `CanReadCbControl`, `CanReadCbFails` | `atiny_nc_can_read_cb`: data, a record that makes `ssl_read` return without data (HelloRequest, no_renegotiation), an error |
| `CanReadCbAlert` | a warning alert, which the same call skips to read the next record |
| `ParsePacket`, `ParseFragment`, `ParseEnd` | one round of the RECV loop, with a whole packet, with a part of one, and its end |
| `CanWriteCb`, `CanWriteCbEmpty`, `CanWriteCbFails` | `atiny_nc_can_write_cb` |
| `HandshakeResumes` | `mbedtls_ssl_read`/`_write` continue an unfinished handshake |
| `SigPipe` | `send()` on a reset connection |
| `PeerSend`, `PeerControl`, `PeerClose`, `PeerReset` | the peer |

A read that has nothing to return blocks in `recv()`: no action of the loop is
enabled until the peer moves.

Abstractions. A send_buf record is written whole or not at all: with records of
at most 1024 bytes (`MBEDTLS_SSL_MAX_CONTENT_LEN` is 5000) `ssl_write` never
takes a part of the buffer. How much of a record has reached the peer when
send() fails is not modelled; `written` is what has gone out in full. TLS
content, certificates and renegotiation are the outcome of `ConnectCb`;
`TlsClient` has the messages, and the renegotiation with which each session
begins.

### AtinyClient

Adds `atiny_mqtt_proto_data_t` (`nextId`, `filterSet` for the entries of
`messageHandlers` having been written, `efficient`) and the broker (`granted`,
`brRead`, `brPubs`). Each handler action conjoins a handler step of `AtinySock`
with the packets it appends: `OnConnected`, `OnPoll`, `OnConnack`, `OnSuback`,
`OnPublish`, `OnOther`; `Loop` is every other step of the loop. The broker is
external. It answers what it reads, in order; it publishes on granted
subscriptions, with a QoS above 0 only on those of an earlier session, because
the client asks for QoS 0. Topics and filters are sequences of pieces: bytes, or
runs of bytes of which none begins another, with "/" and "#" pieces of their own.
Then the parser's memcmp over the length of the topic is `IsPrefix`.

`MqttSession` is refined with `state <- SessionState` (from `queued`,
`filterSet` and `subacked`) and `sent` the types of the packets appended.
`Connect`, `Accepted`, `Granted`, `Ping` and `Answer` are the images of
`OnConnected`, `OnConnack`, `OnSuback`, `OnPoll` and `OnPublish`; everything else
leaves the session alone.

When a ping is due is left open: a poll may find the interval over at any time.

### Keepalive

`now` is true time in poll periods, `clock` what `atiny_gettime_ms` returns. An
iteration is `Select`, `Poll`, `Read`, `Write`; time passes in select() only
(`Wait`), at most one period per call and none while `send_buf` can be written.
`lastTime` is `last_time` of the protocol data, which every append sets and a
read does not. `Window` closes and opens the peer's TCP window, `SetClock` sets
the wall clock, by any amount that keeps it above 0 and from wrapping before the
end (in milliseconds the width is 64 bits). atiny_adapter.h:53-56 describes
`atiny_gettime_ms` as the time since boot; the code reads `gettimeofday`, which can
be set. The subtraction is unsigned (`Elapsed`). Callbacks do not block
here; `AtinySock` has those that do. The interval is the one the application
asked for (60 s). The broker's own limit is not modelled: the CONNECT packet
carries `keep_alive` in host byte order (mqtt_packet.c:155 copies the struct),
so on a little-endian machine the broker reads 15360 s.

### MqttCodec

A behaviour takes one packet from its options to bytes and back: a step per
round of `mqtt_encode_len` (`EncodeLen`), the rest of the encoder (`Encode`), a
step per round of `mqtt_decode_len` (`DecodeLen`), and the parser's decoding and
cut (`Parse`), with other bytes behind the packet. `Body` is what each encoder
writes after the fixed header and `Remaining` the length it announces, which are
computed apart in the code and differ for a QoS 0 PUBLISH. Bytes that nobody has
written are `Stale`. The broker's packets (CONNACK, SUBACK, PUBLISH, PINGRESP) are
external and as MQTT 3.1.1 says. `Base` is `MQTT_PACKET_LEN_MASK`.

### TlsClient

`api` is the call in progress: `handshake` and `renegotiate` are the two loops of
`atiny_ssl_handshake`, `read` and `write` the calls of the callbacks, `idle`
between two. `state` is `ssl->state`; each state has its action, named as the
function (`WriteClientHello`, `ParseServerHello`, ...), and `FlushOutput` is the
flush every step begins with. `cur` is the record being read, from the current
message on, with `keep` for `keep_current_message`; `out` is the record `send()`
has not taken. Keys are numbered by the handshake that made them, and the
checksum (`hash`) is the sequence of the messages it covers, so that Finished can
be compared. `ReadRecord`, `HandOver` and `ReadRest` are `mbedtls_ssl_read`,
`WriteData` is `ssl_write_real`, and both run `mbedtls_ssl_handshake` first when one
is not over. `RefuseRenegotiation` is the answer to a HelloRequest.

The server is external and conforms to TLS: it packs its flight into records in
several ways, may ask for a certificate, may send a ticket, accepts, refuses or
ignores the second hello, and sends data, warnings and HelloRequest when it may.
A handshake that fails ends the model (`api = "failed"`): what the loop then does
is in `AtinySock`. Two further ends are causes `swallowed` and `overwritten`: an
alert and data meet in the one output buffer.

## 3. Runs

Two packets each way of two and three bytes (`MCAtinySock`), or the packets of
one session with two filters, two topics and three ids (`MCAtinyClient`).

| Run | Properties | What it shows |
|---|---|---|
| `SockFit` | `NoFault`, `StreamSpec`, `Flushed`, `InputProgress` | the normal case: nothing touches memory outside the buffers, the send path is a FIFO, queued data goes out in the end, received packets are taken |
| `SockTight` | `TypeOK`, `RecvConserved`, `RecvDrained`, `RecordIsFront`, `SendConserved`, `NoReorder` | the hostile case: split packets, records larger than the room in `recv_buf`, a full `send_buf`, failing `send()` |
| `Client` | `TypeOK`, `GrantsFollowed`, `RequestIdsDiffer`, `OpeningApart`, `SessionSpec` | the start of a session; with three ids the burst uses the last one and wraps; CONNECT is out of `send_buf` when SUBSCRIBE and the publications come; the whole implements `MqttSession` |
| `ClientPublish` | `NoWildFilter`, `AckOnce`, `LiteralDelivered`, `SessionEstablished` | two publications at any moment after CONNACK; the session gets established |
| `Keepalive` | `HeardInTime`, `PingOnlyIdle`, `PingsBounded` | interval 3, 14 periods: several pings, the window closed for any part of it; the clock set up to twice, back by less or more than the interval, or ahead: each setting delays a ping by at most an interval and a period, and costs at most one |
| `Startup` | `FreedOnce`, `ServedComplete`, `FailureReleases`, `MisuseExplained` | every subset of allocations refused, every call failing, any heap |
| `MqttCodec` | `LengthRoundTrip`, `Framed`, `WritesWhatItReports`, `PublishDecoded`, `SubackDecoded` | each type of packet, with lengths around each boundary of the field |
| `Tls` | `InStep`, `ReadInOrder`, `WrittenOnce`, `ConnectSent` | two handshakes, stalls anywhere, data and alerts across them |

Four more runs show where the code departs from what the repository says:

| Run | Violated | What happens |
|---|---|---|
| `SockSpin` | `ConnectEnds` | a peer that closes in the handshake: `recv()` 0 is WANT_READ, and the handshake loop has no other exit |
| `SockFailed` | `FailedSessionClosed` | after a failed handshake CONNECTED is dispatched and the context used |
| `ClientWildcard` | `EveryPublishDelivered` | a topic under `.../messages/todevice/#` matches no filter |
| `StartupKey` | `KeyContextEmpty` | the key is parsed into a context that nobody has initialised |

Further departures that the models contain and no run refutes:

- `ATINY_FG_RECONNECT` is set by a failed read or write, and no code tests it.
- A retried `ssl_write` with a longer buffer reports bytes it has not sent
  (`skipped`). It needs a port whose `send()` returns 0; blocking sockets do not.
- A wall clock that is set delays a ping by up to one interval and one period, or
  sends one too many (`HeardInTime`, `PingsBounded`).
- A packet that is split over records, or a record larger than the room in
  `recv_buf`, makes the length wrap around in `memmove` (`ParseFragment`).
- A record that makes `ssl_read` return without data leads to a read that blocks
  while `send_buf` waits (`CanReadCbControl`).
- A write after the peer's reset raises SIGPIPE, which nothing ignores, and ends the
  process (`SigPipe`).
- PUBACK and PUBREC carry a fresh packet id instead of that of the PUBLISH (`Ack`).
- `main` polls after a failed `atiny_connect`, and on a socket that was not opened
  (causes in `MisuseExplained`).
- The topic and message of a QoS 1 or 2 PUBLISH: the message is given two bytes
  too many (`PublishDecoded`), and a QoS 0 PUBLISH of the client ends in two
  stale bytes (`WritesWhatItReports`).

**Bounds.** `MaxQueued` (3, or what a session appends) and `MaxInq` (2 or 3)
bound the packets each way. Three packets are enough for one in a record being
sent, one appended behind it and one more; two incoming packets are enough for
every way of sharing, cutting and straddling records and reads. In `SockTight`
`recv_buf` (4 bytes) holds less than the two packets (5) and `send_buf` (5) less
than what may be appended. In the client runs buffers have room: CONNECT, the
SUBSCRIBE and the rest keep the order of magnitude of their real sizes (38, 486
and about 100 bytes of 1024).

`Startup`: address lists of up to two nodes, enough for a chosen node with one
skipped before it. `MqttCodec`: base 4 instead of 128, so that four length bytes
are reached by packets of 255 bytes; the messages put the length on both sides
of 4, 16 and 64, and on 255. Other numbers keep their width relative to the base
(a byte is `2 * Base`). `Tls`: `RenegoMaxRecords` 3 instead of 16 (the counter is
reached with two packets, a warning and what follows), two packets each way, one
warning, one HelloRequest. `CHECK_DEADLOCK FALSE` in `Tls.cfg`: a failed handshake
ends the model, and a silent server with a client that has nothing to write stops
it too.

**Fairness.** The thread runs (`WF` of the callbacks and of select()). `SF` of
`SockPoll(Ready)`: select() does not for ever report only a part of what is
ready; it stands for a peer that reads, so that the TCP window opens again.
`SF` of `CanWriteCb`: `send()` does not fail for ever. In `ClientPublish` also `WF`
of the broker's reading. Nothing makes the peer send. `Flushed` and
`SessionEstablished` end with the connection, and `Flushed` excepts a read that
never returns (`<>[](phase = "read")`: the peer sends nothing any more, or only warnings); one that waits
for a record which comes is not excepted. In `TlsClient` the thread runs, the server reads, and a
`send()` that stalls succeeds in the end; `ConnectSent` excepts servers that
refuse or ignore the second hello (the code leaves them without a CONNECT) and
the read that blocks.

## 4. Proofs

`AtinySockProofs` assumes `SizeAssumption` and `EnvAssumption` of `AtinySock`
(packets have at least two bytes, buffers are natural numbers, handlers append
sequences of packets) and nothing about bounds. It proves

- `TypeCorrect`: `Spec => []TypeOK`. The part that is not bookkeeping is
  `recvLen \in 0..RecvBufSize`: a read is limited by `Space`, and a packet is cut
  off only when it is there.
- `ReceiveDrained`: `Spec => []RecvDrained`, from `TypeOK`: the RECV loop leaves
  only through `TooShort`, and nothing but a read fills `recv_buf`.
- `SendBufferConserved`: `RecordIsFront /\ SendConserved`. `SendConserved` alone
  is not inductive: a write with an unfinished record keeps the balance only if
  that record is the front of `send_buf`. With it, a write that skips nothing
  has an empty rest, so the record is as long as `send_buf` and equals it.
- `SendPathIsStream`: if `SendFailures = {}` then `Spec => StreamSpec`. The extra
  invariant `NoRetry` says that an unfinished record exists only on a reset
  connection; then each write sends all of `send_buf`, and `SendConserved` makes
  the result a prefix of `queued`.
- `RetrySendsTheFront`: `Spec => []RecordIsFront`, a part of the invariant above
  that a run checks by itself.
- `ReceiveConserved`: `Spec => []RecvConserved`, the balance of bytes over
  `recv_buf`, mbedTLS and the socket. It is inductive with `TypeOK`; the work is in
  the sums over the packets and over the records (`SumProofs`).
- `NeverReordered`: `Spec => []NoReorder`. The property asks for an embedding of
  `written` in `queued`; a retry leaves packets out, so where a written packet came
  from is not a function of the state. `OrderInv` says that `send_buf` is the end of
  `queued` and that there is an increasing choice of places (`Places`) for `written`
  in what comes before; a write extends it with the places of the record.
- `FaultsAreOverruns` and `RoomyNeverFaults`: without split packets, every record
  ends where a packet ends (`RecordsWhole`, with `Boundary`), so the parser meets a
  fragment only while mbedTLS holds a part of a record back, for lack of room. If
  the buffers hold all that `MaxInq` and `MaxQueued` allow (`Roomy`), nothing is held
  back (`NothingLeft`), and `NoFault` holds. `Roomy` is satisfied by `SockFit.cfg`;
  the code does not guarantee it (`SockTight`).

`AtinyClientProofs` assumes `ClientAssumption` only: any filters, topics, sizes
and bounds, and any `SendFailures`. `NoWildFilter`, `GrantsFollowed` and the session
are far from inductive: they hold because packets come in an order that depends
on what was sent before, across both buffers, the TLS record, the broker and
the stream back. The invariant `IInv` says where each packet that matters can be:

- `OnceInv`: `ATINY_EV_CONNECTED` comes once (the flag is cleared with it).
- `ConnectInv`: CONNECT is the first packet of `queued` and of `written` and no other;
  until something is written `send_buf` is all there was, and the record mbedTLS
  holds is the front of `send_buf`, so a retry cannot bring anything before it.
- `ConnackInv`: CONNACK is the broker's first packet and no other, so as long as
  the filters are not written it is the head of `inq`.
- `SubscribeInv`, `SubackInv`: SUBSCRIBE exists once, after CONNACK, on one side of
  the stream; so does SUBACK, and while it is under way it says what is granted.
- `RequestInv`: before CONNACK the client has asked for nothing.

Two invariants stand on `IInv`. `RestInv` completes the types; with it `TypesKept`
proves `TypeOK`. `CountInv` says what `queued` consists of: CONNECT, the burst, the
pings, and one answer for each PUBLISH with QoS 1 or 2 that has left `inq`
(`HowMany` over the three sequences). It gives `EachAnsweredOnce` (`AckOnce`).

`OpeningNeverTogether` (`OpeningApart`): while CONNECT is in `send_buf` nothing has
been written (`ConnectInv`), so the broker has read nothing, the CONNACK has not
come (`ConnackInv`) and the client has asked for nothing (`RequestInv`).

`LiteralsDelivered` proves `LiteralDelivered` if no filter is a prefix of another,
which is so in main.c (a topic that is a prefix of two filters, byte by byte, would reach
both callbacks, by the parser's memcmp). `Calls` is a recursive function over the
handlers; the proof computes it, one handler after the other.

From `IInv` follow `FiltersWritten` (`NoWildFilter`), `GrantsKnown` (`GrantsFollowed`) and
`SessionImplemented` (`Spec => SessionSpec`: each handler step is the abstract step,
each other step a stutter). `RequestIdsUnique` adds the arithmetic of
`getNextPacketId`: k calls after `nextId` the id is `nextId + k`, less `MaxPacketId`
when it has wrapped; so the burst's ids differ if `NPublish < MaxPacketId` (3 and
65535 in the code). `IdAfter` is a recursive function, and that it exists for
every k is an induction; the library's induction theorems take a predicate,
which the provers cannot instantiate, so `NatSets` derives induction for a set
(`SetInduction`) from the well-foundedness of `<`.

`KeepaliveProofs` assumes `TimeAssumption` (the interval is positive, and the clock
starts above 0 and far enough from where it wraps). `ElapsedIs` says what the
unsigned subtraction gives: the age of the last packet by the clock, or, when a
step back has made that negative, far more than the interval. `HeardAlways`
(`HeardInTime`) is about all time and every setting: `HeardInv` says that a ping can be
late by `Interval + 1` per setting (`Delay`) on top of what may have passed since the
last write, which depends on where the loop is (`Allowed`: one period more between
the end of a full select() and the next poll). A setting back by more than the
last packet's age makes the next poll send a ping; one by less leaves an age of
at least 0, and so at most one more interval to wait.
`PingWhileSteady` (`PingOnlyIdle`) is about the time before the clock is set
(`steps = 0`), when the clock is true time plus a constant (`SteadyInv`).
`PingsAreBounded` (`PingsBounded`): each ping has used up a slot of `Interval + 1` or a setting of the
clock, and while the clock is off by what it was not when the last packet was
appended, one setting is unused (`CountInv`).

`StartupProofs` assumes `MaxAddresses \in Nat \ {0}`. `NoDoubleFree`,
`FailureCleansUp`, `ServedIsComplete` and `MisuseHasCause` follow from one
invariant that goes through `atiny_ssl_init` statement by statement: what is
allocated (`HeapInv`), what is loaded unless memory has been misused (`LoadInv`),
what `main` polls (`PollInv`), and that a context that is missing has been noticed
(`RefusedInv`).

`MqttCodecProofs` assumes `CodecAssumption` and proves `LengthCorrect`: for every
base above 1 and every length below its fourth power, `mqtt_decode_len` returns
what `mqtt_encode_len` was given and reads the bytes it wrote. The invariant says
of each round which quotient of the length is left to encode (`FieldInv`), that
the packet holds the field at its place (`BufInv`), and that the value decoded so
far plus the multiplier times the remaining quotient is the length (`DecodeInv`).
`EncodersCountWhatTheyWrite` (`WritesWhatItReports`) compares, for each type, the length
of what is written with `Remaining`, for any number and length of strings and
topics. `PacketsAreFramed`, `PublishIsDecoded` and `SubackIsDecoded` rest on `PacketInv`:
from `Encode` on the buffer is the fixed header, the body and the bytes behind, so
the decoder's offsets can be read off it. `OptionsOK` is what the types of
mqtt_packet.h and the two-byte length of a string allow.

`TlsClientProofs` assumes `TlsAssumption` and proves three theorems.

`ReadsInOrder` (`ReadInOrder`): data is neither lost nor repeated when it arrives while the
renegotiation waits for its ServerHello. `ReadInOrder` is inductive once the records
are known to be of one of two kinds, data of a single message or messages of which
none is data (`Records`), and once a record that is read in halves is known to be
data (`InputInv`). Then whatever `mbedtls_ssl_read_record` obtains is the front of
what is left (`ObtainedData`), a record that is kept stays at that front, and a step
of the handshake that drops it has either seen no data or failed. The invariant does
not need the two ends to be in step.

`EndsStayInStep` (`InStep`): `InStep` looks at failures only, and says nothing of the
records under way that would cause the next one. Its invariant is `LockInv` of
`TlsLockstep`. A handshake is two rows of messages, one for each direction, which
depend on the suite the server has chosen (`DownSteps`, `UpSteps`); each end is at a
place in either row, named by the message that comes next. `LockInv` says

- what is under way `Leads` from the reader's place to the writer's, each record
  with the key and the contents that the row asks for there: for the client the rest
  of the record it is in and `toClient` lead from `Awaited` to `Offered` (`DownInv`),
  for the server `toServer` and `out` lead from `srv` to `Promised` (`Listening`);
  alerts, and between the handshakes data and HelloRequests, stand beside the row
  and leave the place (`DownBeside`);
- where there is no such row: the hello is on its way (`HelloComing`), was refused or
  ignored (`Unanswered`), or the server has heard all (`Through`); the record the
  client has put aside is a kept ServerHelloDone (`KeptDone`), or one beside the row
  (`PutAside`);
- what the client knows of the server's choices at each state: its two keys, the
  suite, the certificate request, and what the checksum covers (`KnownInv`).

The proof has one lemma for each step of either end. A step of the handshake that
reads meets the first of the records that lead on (`ReadsNext`), so what it obtains is
the message awaited or something beside the row; a step that writes appends the
record that leads on from `Promised`. `FlightLeads` shows that the server's flight
leads past itself in whatever records it is packed. Once a call of the client has
failed, only the server's half (`UpInv`) remains. The path that `Leads` speaks of is
quantified without bound, so TLC cannot evaluate `LockInv` as it stands; with the set
of places reached in its stead it held in every state of the run `Tls`.

`WritesOnce` (`WrittenOnce`): from `LockInv`, packets are under way only when the
renegotiation is over and the server is in `Through` (`SentQuiet`), so no handshake
message ever stands for a packet or takes its place in `out`. `mbedtls_ssl_write` that
finds `out` full of its own packet reports it only when the flush has sent it.

Only model-checked: liveness (`Flushed`, `InputProgress`, `SessionEstablished`,
`ConnectSent`), which is beyond the prover. Every invariant and every action property
of the runs that pass is a theorem.

## 5. Not modelled

- **mbedTLS** beyond the control flow of the client: cryptography, big numbers,
  X.509 and ASN.1, the cipher suites, PSK and ECJPAKE handshakes (not configured
  by the adapter), DTLS, session resumption (nobody sets a session) and the
  server side, which `MBEDTLS_SSL_SRV_C` leaves out. It is vendored code and most
  of the repository's lines: what the models cover is the SDK and the part of
  mbedTLS that it runs.
- **Malformed packets** from the broker: a length field of more than four bytes,
  a PUBLISH shorter than its topic. The broker of the models conforms.
- `atiny_sock_discon` and `atiny_ssl_destroy`, which nothing calls;
  `ATINY_FG_ERR`, which nothing tests; the build without `WITH_DTLS`.
- `mbedtls_port` (not built), log, entropy and the mutex functions, which do
  nothing on Linux.
