----------------------------- MODULE MCAtinySock -----------------------------
(***************************************************************************)
(* Model-checking instances of AtinySock: two packets each way, one of two *)
(* and one of three bytes.                                                 *)
(***************************************************************************)
EXTENDS AtinySock, TLC

CONSTANTS a, b   \* packets, used in both directions

MCPackets == {a, b}
MCSize    == (a :> 2) @@ (b :> 3)
MCOutputs == {<< >>, << a >>, << b >>, << a, b >>}

-----------------------------------------------------------------------------
(* Properties.                                                             *)

\* The peer has gone, or the program.
Gone == peer # "open" \/ phase \in Halt

\* Once the session is up and the loop is back at select(), what is in
\* send_buf goes out while the connection lasts: the write interest of
\* atiny_sock_poll and the CAN_WR flag never lose it.  Only a read that never
\* returns, because the peer sends nothing or nothing but warning alerts, can
\* hold it up; a read that returns in the end does not.
Flushed ==
    \/ (sendBuf # << >> /\ ssl = "up" /\ phase = "select")
           ~> (sendBuf = << >> \/ Gone)
    \/ <>[](phase = "read")

\* What the peer sent does not stay in the buffers for ever.
InputProgress ==
    \/ []<>(inq = << >> \/ Gone)
    \/ []<><< inq # << >> /\ inq' = Tail(inq) >>_inq

-----------------------------------------------------------------------------
(* What the repository says and the code does not do.                      *)

\* The receive callback returns WANT_READ "when the operation would block"
\* (mbedtls/ssl.h): a handshake whose peer is gone ends.
ConnectEnds == phase = "connect" ~> phase # "connect"

\* "the ssl context becomes unusable [...] the current connection must be
\* closed" (mbedtls/ssl.h, mbedtls_ssl_handshake): no callback that calls
\* ssl_read or ssl_write runs after the handshake has failed.
FailedSessionClosed ==
    ssl = "down" => phase # "read" /\ (phase = "write" => sendBuf = << >>)
=============================================================================
