----------------------------- MODULE TlsLockstep -----------------------------
(***************************************************************************)
(* Why the two ends of TlsClient stay in step.  A handshake is two rows of *)
(* messages, one for each direction.  An end is at a place in a row, named *)
(* by the message that comes next, and the records under way lead from the *)
(* place of the reader to the place of the writer.                         *)
(***************************************************************************)
EXTENDS TlsClient

Suites == [ske : BOOLEAN, auth : BOOLEAN, ticket : BOOLEAN, secure : BOOLEAN]
ContentTypes == {"none", "handshake", "ccs", "alert", "data"}
MessageNames ==
    {"ClientHello", "ServerHello", "Certificate", "ServerKeyExchange",
     "CertificateRequest", "ServerHelloDone", "ClientKeyExchange",
     "CertificateVerify", "NewSessionTicket", "Finished", "HelloRequest", "ccs",
     "warning", "fatal", "no_renegotiation", "data"}
Infos == Nat \cup Suites \cup Seq(MessageNames)
Messages == [m : MessageNames, info : Infos]

\* A record of data is one message.
Records ==
    {r \in [ct : ContentTypes, key : Nat, msgs : Seq(Messages)] :
       r.ct = "data" => Len(r.msgs) = 1 /\ Name(r) = "data"}

\* The steps T lead from p to q along the records w.
Leads(T, p, q, w) ==
    \E f : /\ f[0] = p /\ f[Len(w)] = q
           /\ \A i \in 1..Len(w) : << f[i - 1], w[i], f[i] >> \in T

-----------------------------------------------------------------------------
(* What has been hashed, message by message.                               *)

Hello0 == << "ClientHello" >>
Hello1 == Append(Hello0, "ServerHello")
Hello2 == Append(Hello1, "Certificate")
Hello3(s) == IF s.ske THEN Append(Hello2, "ServerKeyExchange") ELSE Hello2
Hello4(s) == IF s.auth THEN Append(Hello3(s), "CertificateRequest") ELSE Hello3(s)
Hello5(s) == Append(Hello4(s), "ServerHelloDone")
Reply1(s) == IF s.auth THEN Append(Hello5(s), "Certificate") ELSE Hello5(s)
Reply2(s) == Append(Reply1(s), "ClientKeyExchange")
Reply3(s) == IF s.auth THEN Append(Reply2(s), "CertificateVerify") ELSE Reply2(s)
Reply4(s) == Append(Reply3(s), "Finished")
Final(s) == IF s.ticket THEN Append(Reply4(s), "NewSessionTicket") ELSE Reply4(s)

-----------------------------------------------------------------------------
(* From the server to the client, in handshake k.                          *)

Request(s) == IF s.auth THEN "CertificateRequest" ELSE "ServerHelloDone"
Exchange(s) == IF s.ske THEN "ServerKeyExchange" ELSE Request(s)
AfterFlight(s) == IF s.ticket THEN "NewSessionTicket" ELSE "ccs"

DownPlaces ==
    {"ServerHello", "Certificate", "ServerKeyExchange", "CertificateRequest",
     "ServerHelloDone", "NewSessionTicket", "ccs", "Finished", "end"}

DownThen(s, p) ==
    CASE p = "ServerHello"        -> "Certificate"
      [] p = "Certificate"        -> Exchange(s)
      [] p = "ServerKeyExchange"  -> Request(s)
      [] p = "CertificateRequest" -> "ServerHelloDone"
      [] p = "ServerHelloDone"    -> AfterFlight(s)
      [] p = "NewSessionTicket"   -> "ccs"
      [] p = "ccs"                -> "Finished"
      [] p = "Finished"           -> "end"
      [] OTHER                    -> "end"

DownInfo(s, p) ==
    CASE p = "ServerHello" -> s [] p = "Finished" -> Final(s) [] OTHER -> << >>

DownKey(k, p) == IF p \in {"Finished", "end"} THEN k ELSE k - 1

\* What is left of the flight.
Flight5 == << Msg("ServerHelloDone", << >>) >>
Flight4(s) == IF s.auth THEN << Msg("CertificateRequest", << >>) >> \o Flight5
                        ELSE Flight5
Flight3(s) == IF s.ske THEN << Msg("ServerKeyExchange", << >>) >> \o Flight4(s)
                       ELSE Flight4(s)
Flight2(s) == << Msg("Certificate", << >>) >> \o Flight3(s)

FlightFrom(s, p) ==
    CASE p = "Certificate"        -> Flight2(s)
      [] p = "ServerKeyExchange"  -> Flight3(s)
      [] p = "CertificateRequest" -> Flight4(s)
      [] p = "ServerHelloDone"    -> Flight5
      [] OTHER                    -> << >>

FlightPlaces ==
    {"Certificate", "ServerKeyExchange", "CertificateRequest", "ServerHelloDone"}

\* Records of the row: one message, or the whole flight.
DownMoves(k, s, p, r, q) ==
    /\ p # "end"
    /\ r.key = DownKey(k, p)
    /\ r.ct = IF p = "ccs" THEN "ccs" ELSE "handshake"
    /\ \/ r.msgs = << Msg(p, DownInfo(s, p)) >> /\ q = DownThen(s, p)
       \/ p = "ServerHello" /\ r.msgs = Flight(s) /\ q = AfterFlight(s)

\* Records beside the row: alerts, and between two handshakes data and
\* HelloRequest.
Between(k, p) == p = "end" \/ (p = "ServerHello" /\ k = 2)

DownBeside(k, p, r) ==
    /\ Len(r.msgs) = 1 /\ r.key = DownKey(k, p)
    /\ \/ r.ct = "alert" /\ Name(r) = "warning"
       \/ r.ct = "alert" /\ Name(r) = "fatal" /\ p = "ServerHello"
       \/ r.ct = "alert" /\ Name(r) = "no_renegotiation" /\ p = "ServerHello" /\ k = 2
       \/ r.ct = "data" /\ Between(k, p)
       \/ r.ct = "handshake" /\ Name(r) = "HelloRequest" /\ Between(k, p)

DownSteps(k, s) ==
    {t \in DownPlaces \X Records \X DownPlaces :
       \/ DownMoves(k, s, t[1], t[2], t[3])
       \/ DownBeside(k, t[1], t[2]) /\ t[3] = t[1]}

-----------------------------------------------------------------------------
(* From the client to the server, after the ClientHello.                   *)

First(s) == IF s.auth THEN "Certificate" ELSE "ClientKeyExchange"
Verify(s) == IF s.auth THEN "CertificateVerify" ELSE "ccs"

Hearing == {"Certificate", "ClientKeyExchange", "CertificateVerify", "ccs", "Finished"}
UpPlaces == Hearing \cup {"up"}

UpThen(s, p) ==
    CASE p = "Certificate"       -> "ClientKeyExchange"
      [] p = "ClientKeyExchange" -> Verify(s)
      [] p = "CertificateVerify" -> "ccs"
      [] p = "ccs"               -> "Finished"
      [] OTHER                   -> "up"

UpHash(s, p) ==
    CASE p = "Certificate"       -> Hello5(s)
      [] p = "ClientKeyExchange" -> Reply1(s)
      [] p = "CertificateVerify" -> Reply2(s)
      [] OTHER                   -> Reply3(s)

UpRecord(k, s, p) ==
    Record(IF p = "ccs" THEN "ccs" ELSE "handshake",
           IF p = "Finished" THEN k ELSE k - 1,
           << Msg(p, IF p = "Finished" THEN Reply3(s) ELSE << >>) >>)

UpSteps(k, s) ==
    {t \in Hearing \X Records \X UpPlaces :
       t[2] = UpRecord(k, s, t[1]) /\ t[3] = UpThen(s, t[1])}

-----------------------------------------------------------------------------
(* Where the two ends are.                                                 *)

HelloStates == {"HELLO_REQUEST", "CLIENT_HELLO"}
FlightStates ==
    {"SERVER_CERTIFICATE", "SERVER_KEY_EXCHANGE", "CERTIFICATE_REQUEST",
     "SERVER_HELLO_DONE"}
ReplyStates ==
    {"CLIENT_CERTIFICATE", "CLIENT_KEY_EXCHANGE", "CERTIFICATE_VERIFY",
     "CLIENT_CHANGE_CIPHER_SPEC", "CLIENT_FINISHED"}
EndStates == {"FLUSH_BUFFERS", "HANDSHAKE_WRAPUP", "HANDSHAKE_OVER"}
ClosingStates ==
    {"SERVER_CHANGE_CIPHER_SPEC", "SERVER_FINISHED"} \cup EndStates
ClientStates ==
    HelloStates \cup {"SERVER_HELLO"} \cup FlightStates \cup ReplyStates
                \cup ClosingStates

\* The message the client waits for.
Awaited ==
    CASE state \in HelloStates \cup {"SERVER_HELLO"} -> "ServerHello"
      [] state = "SERVER_CERTIFICATE"        -> "Certificate"
      [] state = "SERVER_KEY_EXCHANGE"       -> Exchange(srvSuite)
      [] state = "CERTIFICATE_REQUEST"       -> Request(srvSuite)
      [] state = "SERVER_HELLO_DONE"         -> "ServerHelloDone"
      [] state \in ReplyStates               -> AfterFlight(srvSuite)
      [] state = "SERVER_CHANGE_CIPHER_SPEC" ->
           IF suite.ticket THEN "NewSessionTicket" ELSE "ccs"
      [] state = "SERVER_FINISHED"           -> "Finished"
      [] OTHER                               -> "end"

\* The message the server sends next, in the client's handshake.
Offered ==
    IF srvOut = Negotiated THEN "end"
    ELSE IF srv \in Hearing THEN AfterFlight(srvSuite) ELSE "ServerHello"

\* The message the client writes next, once its hello is accepted.
Promised ==
    CASE state = "CLIENT_KEY_EXCHANGE"       -> "ClientKeyExchange"
      [] state = "CERTIFICATE_VERIFY"        -> Verify(srvSuite)
      [] state = "CLIENT_CHANGE_CIPHER_SPEC" -> "ccs"
      [] state = "CLIENT_FINISHED"           -> "Finished"
      [] state \in ClosingStates             -> "up"
      [] OTHER                               -> First(srvSuite)

Covered ==
    CASE state \in HelloStates             -> << >>
      [] state = "SERVER_HELLO"            -> Hello0
      [] state = "SERVER_CERTIFICATE"      -> Hello1
      [] state = "SERVER_KEY_EXCHANGE"     -> Hello2
      [] state = "CERTIFICATE_REQUEST"     -> Hello3(srvSuite)
      [] state = "SERVER_HELLO_DONE"       ->
           IF keep THEN Hello5(srvSuite) ELSE Hello4(srvSuite)
      [] state = "CLIENT_CERTIFICATE"      -> Hello5(srvSuite)
      [] state = "CLIENT_KEY_EXCHANGE"     -> Reply1(srvSuite)
      [] state = "CERTIFICATE_VERIFY"      -> Reply2(srvSuite)
      [] state \in {"CLIENT_CHANGE_CIPHER_SPEC", "CLIENT_FINISHED"} -> Reply3(srvSuite)
      [] state = "SERVER_CHANGE_CIPHER_SPEC" ->
           IF suite.ticket THEN Reply4(srvSuite) ELSE Final(srvSuite)
      [] OTHER                             -> Final(srvSuite)

Start == IF renego = "initial" THEN "ClientHello" ELSE "up"
Sent == toServer \o out

-----------------------------------------------------------------------------
(* The invariant.                                                          *)

Types ==
    /\ api \in {"handshake", "renegotiate", "read", "read_on", "write", "idle", "failed"}
    /\ state \in ClientStates
    /\ renego \in {"initial", "in_progress", "done"}
    /\ toServer \in Seq(Records)
    /\ out = << >> \/ \E r \in Records : out = << r >>
    /\ srv \in UpPlaces \cup {"ClientHello", "over"}

\* No failure of the client says that it has lost step.
Causes == cause \notin {"bad_record", "unexpected", "finished"}

\* Where the calls stand.
CallInv ==
    /\ cause = "none"
    /\ renego = "initial" <=> api = "handshake"
    /\ renego = "done" => state = "HANDSHAKE_OVER"
    /\ state = "HANDSHAKE_OVER" => renego # "in_progress"
    /\ api = "read_on" => keep /\ state = "SERVER_HELLO" /\ renego = "in_progress"

\* The hello is not written yet, or on its way.
HelloComing ==
    /\ srv = Start /\ srvOut = Negotiated - 1
    /\ \/ state \in HelloStates /\ Sent = << >>
       \/ /\ state = "SERVER_HELLO"
          /\ Sent = << Record("handshake", Negotiated - 1, << Msg("ClientHello", << >>) >>) >>

\* It was refused or not answered.
Unanswered ==
    /\ state = "SERVER_HELLO" /\ Sent = << >> /\ srvOut = Negotiated - 1
    /\ srv = "over" \/ (srv = "up" /\ Negotiated = 2)

\* It was accepted, and what is under way leads the server to the client.
Listening ==
    /\ srv \in Hearing /\ srvOut = Negotiated - 1
    /\ srv \in {"Certificate", "CertificateVerify"} => srvSuite.auth
    /\ srvHash = UpHash(srvSuite, srv)
    /\ state \notin HelloStates
    /\ Leads(UpSteps(Negotiated, srvSuite), srv, Promised, Sent)

\* Past the handshakes the client sends packets and refusals.
Beyond(r) ==
    /\ r.key = 2
    /\ r.ct = "data" \/ (r.ct = "alert" /\ Name(r) = "no_renegotiation")

\* The server has heard all.
Through ==
    /\ srv = "up" /\ srvOut = Negotiated
    /\ state \in ClosingStates
    /\ renego = "done" \/ Sent = << >>
    /\ \A i \in 1..Len(Sent) : Beyond(Sent[i])

\* What the server has heard and what is under way to it.
UpInv ==
    /\ srvIn = IF srv = "Finished" THEN srvOut + 1 ELSE srvOut
    /\ HelloComing \/ Unanswered \/ Listening \/ Through

\* What the client knows of the server's choices.
KnownInv ==
    /\ keyOut = IF state \in ClosingStates THEN Negotiated ELSE Negotiated - 1
    /\ keyIn = DownKey(Negotiated, Awaited)
    /\ state \notin EndStates => hash = Covered
    /\ suite \in Suites
    /\ state \in FlightStates \cup ReplyStates => suite = srvSuite
    /\ state = "SERVER_CHANGE_CIPHER_SPEC" /\ suite.ticket => srvSuite.ticket
    /\ state \in {"SERVER_HELLO_DONE"} \cup ReplyStates => auth = srvSuite.auth

\* What is left of the record r after its first message, and then the
\* records w, lead from p to q.
Comes(k, s, p, q, r, w) ==
    \/ Len(r.msgs) <= 1 /\ Leads(DownSteps(k, s), p, q, w)
    \/ /\ Len(r.msgs) > 1 /\ r.ct = "handshake" /\ p \in FlightPlaces
       /\ Tail(r.msgs) = FlightFrom(s, p)
       /\ Leads(DownSteps(k, s), AfterFlight(s), q, w)

\* A record beside the row that the client has not done with.
PutAside ==
    /\ keep \/ offt
    /\ Len(cur.msgs) = 1
    /\ \/ cur.ct = "data"
       \/ cur.ct = "alert" /\ Name(cur) = "no_renegotiation" /\ state = "SERVER_HELLO"
    /\ Negotiated = 2
    /\ state = "SERVER_HELLO" \/ (Over /\ ~keep)

\* The ServerHelloDone that was read for a CertificateRequest.
KeptDone ==
    /\ keep /\ ~offt /\ state = "SERVER_HELLO_DONE"
    /\ cur.ct = "handshake" /\ cur.msgs = Flight5

\* What is under way to the client.
DownInv ==
    \/ /\ ~keep /\ ~offt
       /\ Comes(Negotiated, srvSuite, Awaited, Offered, cur, toClient)
    \/ /\ KeptDone
       /\ Leads(DownSteps(Negotiated, srvSuite), AfterFlight(srvSuite), Offered, toClient)
    \/ /\ PutAside
       /\ Leads(DownSteps(Negotiated, srvSuite), Awaited, Offered, toClient)

LockInv ==
    /\ Types /\ Causes /\ UpInv
    /\ api # "failed" => CallInv /\ KnownInv /\ DownInv
=============================================================================
