------------------------------ MODULE TlsClient ------------------------------
(***************************************************************************)
(* The TLS client as the SDK runs it: mbedtls_ssl_handshake, called in a   *)
(* loop by atiny_ssl_handshake, then mbedtls_ssl_renegotiate, called in    *)
(* the same way, then the mbedtls_ssl_read and mbedtls_ssl_write of the    *)
(* callbacks, either of which goes on with a handshake that is not over.   *)
(*                                                                         *)
(* Data.  A message is its name and what the other side needs of it.  A    *)
(* key is 0 (none) or the number of the handshake that agreed on it.  The  *)
(* checksum of a handshake is the sequence of the messages it covers.      *)
(*                                                                         *)
(* The server conforms to TLS and is external.  A handshake that fails     *)
(* ends the model: what the loop does then is in AtinySock.                *)
(***************************************************************************)
EXTENDS Naturals, Sequences

CONSTANTS
    RenegoMaxRecords, \* conf->renego_max_records
    Stalls,           \* may send() return 0?
    MaxWritten,       \* bound on the client's packets
    MaxData,          \* bound on the server's packets
    MaxWarnings,      \* bound on the alerts that mean nothing
    MaxAsked          \* bound on HelloRequest

ASSUME TlsAssumption ==
    /\ RenegoMaxRecords \in Nat /\ Stalls \in BOOLEAN
    /\ MaxWritten \in Nat /\ MaxData \in Nat
    /\ MaxWarnings \in Nat /\ MaxAsked \in Nat

VARIABLES
    api,       \* the call in progress, "idle" between two, "failed" at the end;
               \* "read_on": mbedtls_ssl_read past its handshake
    cause,     \* why it has failed
    state,     \* ssl->state
    renego,    \* ssl->renego_status
    seen,      \* ssl->renego_records_seen
    cur,       \* the record in in_msg, from the current message on
    keep,      \* ssl->keep_current_message
    offt,      \* ssl->in_offt # NULL: half of the data in cur is handed over
    hash,      \* what update_checksum has seen
    suite,     \* what the ServerHello said
    auth,      \* ssl->client_auth
    keyIn,     \* ssl->transform_in
    keyOut,    \* ssl->transform_out
    out,       \* the record that waits in out_buf, as a sequence of at most one
    written,   \* packets mbedtls_ssl_write has reported as written
    delivered, \* packets mbedtls_ssl_read has handed over
    toServer, toClient,  \* the records under way
    srv,       \* the message the server waits for, or "up", "over", "confused"
    srvHash, srvSuite, srvIn, srvOut,
    answer,    \* its answer to the renegotiation
    got,       \* the packets it has received
    sent,      \* how many packets it has sent
    warned, asked

call       == << api, cause >>
handshake  == << state, renego, seen, suite, auth >>
input      == << cur, keep, offt, hash, keyIn >>
output     == << out, keyOut >>
clientVars == << call, handshake, input, output, written, delivered >>
serverVars == << srv, srvHash, srvSuite, srvIn, srvOut, answer, got, sent,
                 warned, asked >>
vars == << clientVars, serverVars, toServer, toClient >>

\* mbedtls_ssl_states, in the order of `ssl->state++`.
States ==
    << "HELLO_REQUEST", "CLIENT_HELLO", "SERVER_HELLO", "SERVER_CERTIFICATE",
       "SERVER_KEY_EXCHANGE", "CERTIFICATE_REQUEST", "SERVER_HELLO_DONE",
       "CLIENT_CERTIFICATE", "CLIENT_KEY_EXCHANGE", "CERTIFICATE_VERIFY",
       "CLIENT_CHANGE_CIPHER_SPEC", "CLIENT_FINISHED",
       "SERVER_CHANGE_CIPHER_SPEC", "SERVER_FINISHED", "FLUSH_BUFFERS",
       "HANDSHAKE_WRAPUP", "HANDSHAKE_OVER" >>

After(s) == States[1 + CHOOSE i \in DOMAIN States : States[i] = s]

Over == state = "HANDSHAKE_OVER"

Msg(m, info) == [m |-> m, info |-> info]
Record(ct, key, msgs) == [ct |-> ct, key |-> key, msgs |-> msgs]
Name(r) == Head(r.msgs).m
Info(r) == Head(r.msgs).info

NoSuite == [ske |-> FALSE, auth |-> FALSE, ticket |-> FALSE, secure |-> FALSE]

\* The key the handshake in progress agrees on.
Negotiated == IF renego = "initial" THEN 1 ELSE 2

-----------------------------------------------------------------------------
(* Calls and their results.                                                *)

\* WANT_READ or WANT_WRITE: atiny_ssl_handshake calls again, a callback
\* leaves it to the next iteration.
Wanting == IF api \in {"read", "write"} THEN "idle" ELSE api

\* MBEDTLS_ERR_SSL_WAITING_SERVER_HELLO_RENEGO: atiny_ssl_handshake and
\* mbedtls_ssl_write return it, mbedtls_ssl_read goes on to read.
Waiting == IF api = "read" THEN "read_on" ELSE "idle"

Fail(why) == api' = "failed" /\ cause' = why

InCall == api \in {"handshake", "renegotiate", "read", "write"}

\* mbedtls_ssl_handshake_client_step, past the flush it begins with.
Stepping(s) == InCall /\ state = s /\ out = << >>

\* mbedtls_ssl_write_record: send() takes the record or returns 0.
Write(r, done) ==
    \/ toServer' = Append(toServer, r) /\ api' = done /\ UNCHANGED out
    \/ Stalls /\ out' = << r >> /\ api' = Wanting /\ UNCHANGED toServer

\* mbedtls_ssl_flush_output in client_step.
FlushOutput ==
    /\ InCall /\ ~Over /\ out # << >>
    /\ \/ toServer' = toServer \o out /\ out' = << >> /\ UNCHANGED api
       \/ Stalls /\ api' = Wanting /\ UNCHANGED << toServer, out >>
    /\ UNCHANGED << cause, handshake, input, keyOut, written, delivered, toClient >>

-----------------------------------------------------------------------------
(* mbedtls_ssl_read_record.                                                *)

\* Is the current record used up?
Exhausted == ~keep /\ ~offt /\ Len(cur.msgs) <= 1

\* update_handshake_status
Hashed(r) ==
    IF r.ct = "handshake" /\ ~Over THEN Append(hash, Name(r)) ELSE hash

Obtains(r, rest) == [rec |-> r, hash |-> Hashed(r), rest |-> rest]

\* The first record under way, if it decrypts and is no alert to skip.
Fetched ==
    IF /\ toClient # << >>
       /\ Head(toClient).key = keyIn
       /\ Name(Head(toClient)) \notin {"warning", "fatal"}
    THEN {Obtains(Head(toClient), Tail(toClient))}
    ELSE {}

\* Mutant: a message that was kept is added to the checksum a second time.
ObtainedTwice ==
    CASE keep \/ offt -> {Obtains(cur, toClient)}
      [] Exhausted    -> Fetched
      [] OTHER        -> {Obtains([cur EXCEPT !.msgs = Tail(@)], toClient)}

\* The next message: the one that was kept, data that is not used up, the
\* first one of the next record, or the next one of this record.
Obtained ==
    CASE keep \/ offt -> {[rec |-> cur, hash |-> hash, rest |-> toClient]}
      [] Exhausted    -> Fetched
      [] OTHER        -> {Obtains([cur EXCEPT !.msgs = Tail(@)], toClient)}

Takes(o) == cur' = o.rec /\ hash' = o.hash /\ toClient' = o.rest

ServerStates == {"SERVER_HELLO", "SERVER_CERTIFICATE", "SERVER_KEY_EXCHANGE",
    "CERTIFICATE_REQUEST", "SERVER_HELLO_DONE", "SERVER_CHANGE_CIPHER_SPEC",
    "SERVER_FINISHED"}

\* read_record is about to look at the first record under way.
Fetching ==
    /\ Exhausted /\ toClient # << >>
    /\ \/ \E s \in ServerStates : Stepping(s)
       \/ api = "read_on" \/ (api = "read" /\ Over)
    /\ state = "SERVER_KEY_EXCHANGE" => suite.ske

\* Other warnings are skipped; a fatal alert and a record that does not
\* decrypt are errors.
AlertOrBad ==
    /\ Fetching
    /\ LET r == Head(toClient) IN
         IF r.key = keyIn /\ Name(r) \in {"warning", "fatal"}
         THEN IF Name(r) = "warning" THEN UNCHANGED call ELSE Fail("refused")
         ELSE r.key # keyIn /\ Fail("bad_record")
    /\ cur' = Head(toClient) /\ toClient' = Tail(toClient)
    /\ UNCHANGED << handshake, keep, offt, hash, keyIn, output, written,
                    delivered, toServer >>

-----------------------------------------------------------------------------
(* The steps of the handshake.                                             *)

\* The handshake message m is expected in state s; then `good`, which may
\* change what is not in the list below.
Parse(s, ct, m, good) ==
    /\ Stepping(s)
    /\ \E o \in Obtained :
         /\ Takes(o)
         /\ IF o.rec.ct = ct /\ Name(o.rec) = m
            THEN good
            ELSE Fail("unexpected") /\ UNCHANGED << state, suite, keyIn >>
    /\ keep' = FALSE
    /\ UNCHANGED << renego, seen, auth, offt, output, written, delivered, toServer >>

\* A handshake message is written.  The state moves on before it is sent.
WriteMessage(s, m, info, key) ==
    /\ Stepping(s)
    /\ state' = After(s)
    /\ hash' = Append(hash, m)
    /\ keyOut' = key
    /\ Write(Record("handshake", key, << Msg(m, info) >>), api)
    /\ UNCHANGED << cause, renego, seen, suite, auth, cur, keep, offt, keyIn,
                    written, delivered, toClient >>

\* A step without I/O.
Skip(s, condition) ==
    /\ Stepping(s) /\ condition
    /\ state' = After(s)
    /\ UNCHANGED << call, renego, seen, suite, auth, input, output, written,
                    delivered, toServer, toClient >>

HelloRequest == Skip("HELLO_REQUEST", TRUE)

WriteClientHello == WriteMessage("CLIENT_HELLO", "ClientHello", << >>, keyOut)

\* Mutant: a record that comes in between is not kept.
ParseServerHelloDrops ==
    /\ Stepping("SERVER_HELLO")
    /\ \E o \in Obtained :
         /\ Takes(o)
         /\ IF o.rec.ct # "handshake"
            THEN api' = Waiting /\ seen' = seen + 1
                 /\ UNCHANGED << cause, state, suite >>
            ELSE suite' = Info(o.rec) /\ state' = After(state)
                 /\ UNCHANGED << call, seen >>
    /\ keep' = FALSE
    /\ UNCHANGED << renego, auth, offt, keyIn, output, written, delivered, toServer >>

\* While a renegotiation waits for its ServerHello, other records may come in
\* between, up to a limit.  Without renegotiation_info the first handshake is
\* accepted and the second one is not.
ParseServerHello ==
    /\ Stepping("SERVER_HELLO")
    /\ \E o \in Obtained :
         LET between == o.rec.ct # "handshake" /\ renego = "in_progress"
         IN /\ Takes(o)
            /\ seen' = IF between THEN seen + 1 ELSE seen
            /\ keep' = (between /\ seen' <= RenegoMaxRecords)
            /\ CASE between /\ seen' > RenegoMaxRecords ->
                      Fail("unanswered") /\ UNCHANGED << state, suite >>
                 [] between /\ seen' <= RenegoMaxRecords ->
                      api' = Waiting /\ UNCHANGED << cause, state, suite >>
                 [] ~between /\ Name(o.rec) # "ServerHello" ->
                      /\ Fail(IF Name(o.rec) = "HelloRequest" THEN "asked"
                                                              ELSE "unexpected")
                      /\ UNCHANGED << state, suite >>
                 [] OTHER ->
                      /\ suite' = Info(o.rec)
                      /\ IF renego = "in_progress" /\ ~suite'.secure
                         THEN Fail("legacy") /\ UNCHANGED state
                         ELSE state' = After(state) /\ UNCHANGED call
    /\ UNCHANGED << renego, auth, offt, keyIn, output, written, delivered, toServer >>

\* The state moves on before the certificate is verified.
ParseCertificate ==
    Parse("SERVER_CERTIFICATE", "handshake", "Certificate",
          /\ state' = After(state)
          /\ UNCHANGED call \/ Fail("certificate")
          /\ UNCHANGED << suite, keyIn >>)

ParseServerKeyExchange ==
    \/ Skip("SERVER_KEY_EXCHANGE", ~suite.ske)
    \/ /\ suite.ske
       /\ Parse("SERVER_KEY_EXCHANGE", "handshake", "ServerKeyExchange",
                state' = After(state) /\ UNCHANGED << call, suite, keyIn >>)

\* Mutant: the message that is no CertificateRequest is not kept.
ParseCertificateRequestDrops ==
    /\ Stepping("CERTIFICATE_REQUEST")
    /\ \E o \in Obtained :
         /\ Takes(o)
         /\ state' = After(state)
         /\ auth' = (Name(o.rec) = "CertificateRequest")
         /\ keep' = FALSE
    /\ UNCHANGED << call, renego, seen, suite, offt, keyIn, output, written,
                    delivered, toServer >>

\* A message that is no CertificateRequest is kept for the next step.
ParseCertificateRequest ==
    /\ Stepping("CERTIFICATE_REQUEST")
    /\ \E o \in Obtained :
         /\ Takes(o)
         /\ IF o.rec.ct = "handshake"
            THEN /\ state' = After(state)
                 /\ auth' = (Name(o.rec) = "CertificateRequest")
                 /\ keep' = ~auth'
                 /\ UNCHANGED call
            ELSE Fail("unexpected") /\ keep' = FALSE /\ UNCHANGED << state, auth >>
    /\ UNCHANGED << renego, seen, suite, offt, keyIn, output, written, delivered,
                    toServer >>

ParseServerHelloDone ==
    Parse("SERVER_HELLO_DONE", "handshake", "ServerHelloDone",
          state' = After(state) /\ UNCHANGED << call, suite, keyIn >>)

\* mbedtls_ssl_conf_own_cert has been called: what is asked for is sent.
WriteCertificate ==
    \/ Skip("CLIENT_CERTIFICATE", ~auth)
    \/ auth /\ WriteMessage("CLIENT_CERTIFICATE", "Certificate", << >>, keyOut)

WriteClientKeyExchange ==
    WriteMessage("CLIENT_KEY_EXCHANGE", "ClientKeyExchange", << >>, keyOut)

WriteCertificateVerify ==
    \/ Skip("CERTIFICATE_VERIFY", ~auth)
    \/ auth /\ WriteMessage("CERTIFICATE_VERIFY", "CertificateVerify", << >>, keyOut)

WriteChangeCipherSpec ==
    /\ Stepping("CLIENT_CHANGE_CIPHER_SPEC")
    /\ state' = After(state)
    /\ Write(Record("ccs", keyOut, << Msg("ccs", << >>) >>), api)
    /\ UNCHANGED << cause, renego, seen, suite, auth, input, keyOut, written,
                    delivered, toClient >>

\* The first record under the new key.
WriteFinished == WriteMessage("CLIENT_FINISHED", "Finished", hash, Negotiated)

\* SERVER_NEW_SESSION_TICKET, which takes the place of the next state until
\* the ticket has come.
ParseNewSessionTicket ==
    /\ suite.ticket
    /\ Parse("SERVER_CHANGE_CIPHER_SPEC", "handshake", "NewSessionTicket",
             suite' = [suite EXCEPT !.ticket = FALSE]
             /\ UNCHANGED << call, state, keyIn >>)

ParseChangeCipherSpec ==
    /\ ~suite.ticket
    /\ Parse("SERVER_CHANGE_CIPHER_SPEC", "ccs", "ccs",
             /\ state' = After(state) /\ keyIn' = Negotiated
             /\ UNCHANGED << call, suite >>)

\* calc_finished comes before the read.
ParseFinished ==
    Parse("SERVER_FINISHED", "handshake", "Finished",
          /\ IF Info(cur') = hash
             THEN state' = After(state) /\ UNCHANGED call
             ELSE Fail("finished") /\ UNCHANGED state
          /\ UNCHANGED << suite, keyIn >>)

FlushBuffers == Skip("FLUSH_BUFFERS", TRUE)

Wrapup ==
    /\ Stepping("HANDSHAKE_WRAPUP")
    /\ state' = After(state)
    /\ IF renego = "in_progress" THEN renego' = "done" /\ seen' = 0
                                 ELSE UNCHANGED << renego, seen >>
    /\ UNCHANGED << call, suite, auth, input, output, written, delivered,
                    toServer, toClient >>

-----------------------------------------------------------------------------
(* atiny_ssl_handshake and the callbacks.                                  *)

\* The first loop of atiny_ssl_handshake ends; ssl_start_renegotiation.
StartRenegotiation ==
    /\ api = "handshake" /\ Over
    /\ api' = "renegotiate"
    /\ state' = "HELLO_REQUEST" /\ renego' = "in_progress"
    /\ hash' = << >> /\ suite' = NoSuite
    /\ UNCHANGED << cause, seen, auth, cur, keep, offt, keyIn, output, written,
                    delivered, toServer, toClient >>

\* The calls the event loop makes and the return of atiny_ssl_handshake.
Calls ==
    /\ \/ api = "renegotiate" /\ Over /\ api' = "idle"
       \/ api = "idle" /\ (toClient # << >> \/ offt) /\ api' = "read"
       \/ api = "idle" /\ written < MaxWritten /\ api' = "write"
    /\ UNCHANGED << cause, handshake, input, output, written, delivered,
                    toServer, toClient >>

\* The end of mbedtls_ssl_read: the data is handed over, in one call or two.
HandOver(r) ==
    /\ \/ delivered' = Append(delivered, Info(r)) /\ offt' = FALSE
       \/ ~offt /\ offt' = TRUE /\ UNCHANGED delivered
    /\ keep' = FALSE /\ api' = "idle"

ReadRest ==
    /\ (api = "read" /\ Over) \/ api = "read_on"
    /\ offt
    /\ HandOver(cur)
    /\ UNCHANGED << cause, handshake, cur, hash, keyIn, output, written,
                    toServer, toClient >>

\* HelloRequest is refused: renegotiation is off for the server.  The alert
\* is written whatever waits in the output buffer.
RefuseRenegotiation ==
    /\ IF out = << >>
       THEN /\ Write(Record("alert", keyOut, << Msg("no_renegotiation", << >>) >>), "idle")
            /\ UNCHANGED cause
       ELSE Fail("overwritten") /\ UNCHANGED << out, toServer >>
    /\ UNCHANGED << offt, delivered >>

ReadRecord ==
    /\ (api = "read" /\ Over) \/ api = "read_on"
    /\ ~offt
    /\ \E o \in Obtained :
         /\ Takes(o)
         /\ keep' = FALSE
         /\ CASE o.rec.ct = "data" ->
                   HandOver(o.rec) /\ UNCHANGED << cause, out, toServer >>
              [] o.rec.ct = "handshake" /\ Name(o.rec) = "HelloRequest" ->
                   RefuseRenegotiation
              [] o.rec.ct = "alert" ->
                   api' = "idle" /\ UNCHANGED << cause, out, toServer, offt, delivered >>
              [] OTHER ->
                   Fail("unexpected") /\ UNCHANGED << out, toServer, offt, delivered >>
    /\ UNCHANGED << handshake, keyIn, keyOut, written >>

\* Mutant: the flush of an unfinished record is not the write.
WriteDataAgain ==
    /\ api = "write" /\ Over
    /\ IF out = << >>
       THEN /\ Write(Record("data", keyOut, << Msg("data", written + 1) >>), "idle")
            /\ written' = IF out' = << >> THEN written + 1 ELSE written
       ELSE /\ toServer' = toServer \o out /\ out' = << >>
            /\ api' = "idle" /\ UNCHANGED written
    /\ UNCHANGED << cause, handshake, input, keyOut, delivered, toClient >>

\* ssl_write_real.  What waits in the output buffer is taken for the caller's
\* record; when it is an alert, the packet is lost.
WriteData ==
    /\ api = "write" /\ Over
    /\ CASE out = << >> ->
              /\ Write(Record("data", keyOut, << Msg("data", written + 1) >>), "idle")
              /\ written' = IF out' = << >> THEN written + 1 ELSE written
              /\ UNCHANGED cause
         [] out # << >> /\ Head(out).ct = "data" ->
              /\ api' = "idle" /\ UNCHANGED cause
              /\ \/ toServer' = toServer \o out /\ out' = << >> /\ written' = written + 1
                 \/ Stalls /\ UNCHANGED << toServer, out, written >>
         [] OTHER ->
              Fail("swallowed") /\ UNCHANGED << toServer, out, written >>
    /\ UNCHANGED << handshake, input, keyOut, delivered, toClient >>

Client ==
    \/ FlushOutput \/ AlertOrBad
    \/ HelloRequest \/ WriteClientHello \/ ParseServerHello \/ ParseCertificate
    \/ ParseServerKeyExchange \/ ParseCertificateRequest \/ ParseServerHelloDone
    \/ WriteCertificate \/ WriteClientKeyExchange \/ WriteCertificateVerify
    \/ WriteChangeCipherSpec \/ WriteFinished
    \/ ParseNewSessionTicket \/ ParseChangeCipherSpec \/ ParseFinished
    \/ FlushBuffers \/ Wrapup
    \/ StartRenegotiation \/ Calls \/ ReadRest \/ ReadRecord \/ WriteData

-----------------------------------------------------------------------------
(* The server.                                                             *)

Sends(records) == toClient' = toClient \o records

Alert(m) == << Record("alert", srvOut, << Msg(m, << >>) >>) >>

Names(msgs) == [i \in DOMAIN msgs |-> msgs[i].m]

\* Its hello flight, in one record or in several.
Flight(s) ==
    << Msg("ServerHello", s), Msg("Certificate", << >>) >>
    \o (IF s.ske THEN << Msg("ServerKeyExchange", << >>) >> ELSE << >>)
    \o (IF s.auth THEN << Msg("CertificateRequest", << >>) >> ELSE << >>)
    \o << Msg("ServerHelloDone", << >>) >>

Packings(key, msgs) ==
    {<< Record("handshake", key, msgs) >>,
     [i \in DOMAIN msgs |-> Record("handshake", key, << msgs[i] >>)]}

Accept ==
    \E s \in [ske : BOOLEAN, auth : BOOLEAN, ticket : BOOLEAN, secure : BOOLEAN] :
        /\ srv = "up" => s.secure = srvSuite.secure
        /\ srvSuite' = s
        /\ srv' = IF s.auth THEN "Certificate" ELSE "ClientKeyExchange"
        /\ srvHash' = << "ClientHello" >> \o Names(Flight(s))
        /\ \E rs \in Packings(srvOut, Flight(s)) : Sends(rs)

\* A renegotiation may be accepted, refused, or not answered.
OnClientHello ==
    \/ Accept /\ answer' = (IF srv = "up" THEN "accepted" ELSE answer)
    \/ /\ srv' = "over" /\ Sends(Alert("fatal"))
       /\ UNCHANGED << srvHash, srvSuite, answer >>
    \/ /\ srv = "up"
       /\ \/ answer' = "refused" /\ Sends(Alert("no_renegotiation"))
          \/ answer' = "ignored" /\ UNCHANGED toClient
       /\ UNCHANGED << srv, srvHash, srvSuite >>

OnFinished ==
    LET ticket == IF srvSuite.ticket THEN << Msg("NewSessionTicket", << >>) >> ELSE << >>
        h == srvHash \o << "Finished" >> \o Names(ticket)
    IN  /\ srvOut' = srvIn
        /\ srv' = "up"
        /\ Sends([i \in DOMAIN ticket |-> Record("handshake", srvOut, << ticket[i] >>)]
                 \o << Record("ccs", srvOut, << Msg("ccs", << >>) >>),
                       Record("handshake", srvIn, << Msg("Finished", h) >>) >>)

Following == [Certificate |-> "ClientKeyExchange", CertificateVerify |-> "ccs"]

ServerReads ==
    /\ toServer # << >> /\ srv \notin {"over", "confused"}
    /\ toServer' = Tail(toServer)
    /\ LET r == Head(toServer)
           expected == r.key = srvIn /\ Name(r) = srv
       IN CASE r.key = srvIn /\ r.ct = "alert" ->
                 UNCHANGED << srv, srvHash, srvSuite, srvIn, srvOut, answer, got, toClient >>
            [] r.key = srvIn /\ r.ct = "data" /\ srv = "up" ->
                 /\ got' = Append(got, Info(r))
                 /\ UNCHANGED << srv, srvHash, srvSuite, srvIn, srvOut, answer, toClient >>
            [] r.key = srvIn /\ Name(r) = "ClientHello" /\ srv \in {"up", "ClientHello"} ->
                 OnClientHello /\ UNCHANGED << srvIn, srvOut, got >>
            [] expected /\ srv = "ccs" ->
                 /\ srv' = "Finished" /\ srvIn' = srvIn + 1
                 /\ UNCHANGED << srvHash, srvSuite, srvOut, answer, got, toClient >>
            [] expected /\ srv = "Finished" /\ Info(r) = srvHash ->
                 OnFinished /\ UNCHANGED << srvHash, srvSuite, srvIn, answer, got >>
            [] expected /\ srv \in {"Certificate", "ClientKeyExchange", "CertificateVerify"} ->
                 /\ srv' = IF srv = "ClientKeyExchange"
                           THEN (IF srvSuite.auth THEN "CertificateVerify" ELSE "ccs")
                           ELSE Following[srv]
                 /\ srvHash' = Append(srvHash, Name(r))
                 /\ UNCHANGED << srvSuite, srvIn, srvOut, answer, got, toClient >>
            [] OTHER ->
                 /\ srv' = "confused"
                 /\ UNCHANGED << srvHash, srvSuite, srvIn, srvOut, answer, got, toClient >>
    /\ UNCHANGED << sent, warned, asked >>

\* On its own it sends packets, warnings and HelloRequest.
ServerSends ==
    /\ \/ /\ srv = "up" /\ sent < MaxData
          /\ sent' = sent + 1
          /\ Sends(<< Record("data", srvOut, << Msg("data", sent + 1) >>) >>)
          /\ UNCHANGED << warned, asked >>
       \/ /\ srv \notin {"over", "confused"} /\ warned < MaxWarnings
          /\ warned' = warned + 1 /\ Sends(Alert("warning"))
          /\ UNCHANGED << sent, asked >>
       \/ /\ srv = "up" /\ asked < MaxAsked
          /\ asked' = asked + 1
          /\ Sends(<< Record("handshake", srvOut, << Msg("HelloRequest", << >>) >>) >>)
          /\ UNCHANGED << sent, warned >>
    /\ UNCHANGED << srv, srvHash, srvSuite, srvIn, srvOut, answer, got, toServer >>

Init ==
    /\ api = "handshake" /\ cause = "none"
    /\ state = "HELLO_REQUEST" /\ renego = "initial" /\ seen = 0
    /\ cur = Record("none", 0, << >>) /\ keep = FALSE /\ offt = FALSE
    /\ hash = << >> /\ suite = NoSuite /\ auth = FALSE
    /\ keyIn = 0 /\ keyOut = 0 /\ out = << >>
    /\ written = 0 /\ delivered = << >>
    /\ toServer = << >> /\ toClient = << >>
    /\ srv = "ClientHello" /\ srvHash = << >> /\ srvSuite = NoSuite
    /\ srvIn = 0 /\ srvOut = 0 /\ answer = "none" /\ got = << >>
    /\ sent = 0 /\ warned = 0 /\ asked = 0

Next ==
    \/ Client /\ UNCHANGED serverVars
    \/ (ServerReads \/ ServerSends) /\ UNCHANGED clientVars

\* The client's thread runs, and the server reads.  A send() that returns 0
\* is tried again and succeeds in the end.
Fairness ==
    /\ WF_vars(Client /\ UNCHANGED serverVars)
    /\ WF_vars(ServerReads /\ UNCHANGED clientVars)
    /\ SF_vars(FlushOutput /\ UNCHANGED serverVars /\ out' = << >>)
    /\ SF_vars(WriteData /\ UNCHANGED serverVars /\ toServer' # toServer)

Spec == Init /\ [][Next]_vars /\ Fairness

-----------------------------------------------------------------------------
(* Properties.                                                             *)

\* The two ends never lose step: whatever is stalled, retried, kept, skipped
\* or packed into one record, no message is missing, doubled, unexpected or
\* under the wrong key, and both Finished agree with what the other side has
\* seen.
InStep ==
    /\ srv # "confused"
    /\ cause \notin {"bad_record", "unexpected", "finished"}

DataOf(r) == IF r.ct = "data" THEN << Info(r) >> ELSE << >>

DataIn(records) ==
    LET data[i \in 0..Len(records)] ==
          IF i = 0 THEN << >> ELSE data[i - 1] \o DataOf(records[i])
    IN  data[Len(records)]

UpTo(n) == [i \in 1..n |-> i]

\* What the server sends while a renegotiation waits for its ServerHello is
\* handed over like the rest, once and in order, or still to come.
ReadInOrder ==
    api # "failed" =>
        delivered \o (IF keep \/ offt THEN DataOf(cur) ELSE << >>)
                  \o DataIn(toClient) = UpTo(sent)

\* A packet that mbedtls_ssl_write has reported, after any number of retries,
\* has been sent once and in order; one that waits is not reported yet.  Not
\* so when it meets an alert in the output buffer, where the model ends.
WrittenOnce ==
    cause \notin {"swallowed", "overwritten"} =>
        /\ got \o DataIn(toServer) = UpTo(written)
        /\ DataIn(out) \in {<< >>, << written + 1 >>}

\* The client waits in mbedtls_ssl_read for a record that need not come.
Blocked == api \in {"read", "read_on"} /\ toClient = << >>

\* A server that answers both hellos gets the first packet (CONNECT), unless
\* the handshake fails or a read that found a warning only blocks the loop.
ConnectSent ==
    \/ <>(got # << >> \/ api = "failed" \/ answer \in {"refused", "ignored"})
    \/ <>[]Blocked
=============================================================================
