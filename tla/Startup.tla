------------------------------- MODULE Startup -------------------------------
(***************************************************************************)
(* From main() to the first callback: atiny_init, atiny_connect and        *)
(* atiny_ssl_init, with every way they can fail, and what main() then      *)
(* polls.  The subject is who owns which memory, and whether it has been   *)
(* written when it is read.                                                *)
(*                                                                         *)
(* Every allocation may fail.  Memory that malloc has returned and nobody  *)
(* has written holds anything: reading it is harmless if it happens to be  *)
(* zero, and otherwise `misused` records it and the process may die.       *)
(***************************************************************************)
EXTENDS Naturals

CONSTANT MaxAddresses   \* bound on what getaddrinfo() returns

ASSUME MaxAddressesAssumption == MaxAddresses \in Nat \ {0}

Buffers  == {"send_buf", "recv_buf"}
Contexts == {"ssl", "conf", "entropy", "ctr_drbg", "cacert", "clicert", "pkey",
             "timer"}
Blocks   == {"interface", "nc", "ssl_ctx"} \cup Buffers \cup Contexts

\* What hangs off the contexts.
Parts == {"ca_chain", "cli_chain", "key_data", "key_cert", "ssl_bufs",
          "handshake", "hostname", "addrinfo"}

VARIABLES
    pc,       \* the statement that runs next
    heap,     \* per block: "none" (no block, or a failed malloc), "live", "freed"
    content,  \* per context: "raw" (as malloc left it), "clean", "loaded", or
              \* "wild" (loaded on top of something)
    parts,    \* allocations inside the contexts that are still there
    mgrNc,    \* does mgr.nc point to nc, or is it as the stack left it?
    fd,       \* nc->sock_fd: "unset", "bad" (socket() has failed) or "open"
    conn,     \* what atiny_connect has returned
    refused,  \* history: one of the blocks could not be allocated
    dirty,    \* history: unwritten memory that was read was not zero
    misused,  \* history: "raw", "null" or "freed" memory, or no socket, was used
    twice     \* history: the blocks that were freed twice

objVars  == << heap, content, parts >>
histVars == << refused, dirty, misused, twice >>
vars == << pc, objVars, mgrNc, fd, conn, histVars >>

Null(o) == heap[o] = "none"

-----------------------------------------------------------------------------
(* Steps.                                                                  *)

Goto(next) == pc' = next

\* Memory is used that must not be: anything may follow.
Misuse(how, next) ==
    /\ misused' = how
    /\ pc' \in {"crashed", next}

\* malloc for a set of blocks, any of which may be refused.
Malloc(bs) ==
    \E got \in SUBSET bs :
        /\ heap' = [b \in Blocks |-> IF b \in got THEN "live" ELSE heap[b]]
        /\ refused' = (refused \/ got # bs)

\* free for a set of pointers; free(NULL) does nothing.
Freed(bs) ==
    /\ heap' = [b \in Blocks |-> IF b \in bs /\ ~Null(b) THEN "freed" ELSE heap[b]]
    /\ twice' = twice \cup {b \in bs : heap[b] = "freed"}

\* atiny_init.  A failed malloc ends in an assertion.
AtinyInit ==
    /\ pc = "init"
    /\ Malloc({"interface"})
    /\ Goto(IF heap'["interface"] = "live" THEN "alloc" ELSE "crashed")
    /\ UNCHANGED << content, parts, mgrNc, fd, conn, dirty, misused, twice >>

\* atiny_connect, up to the buffers.
AllocNc ==
    /\ pc = "alloc"
    /\ Malloc({"nc"})
    /\ IF heap'["nc"] = "live"
       THEN mgrNc' = "nc" /\ UNCHANGED conn /\ Goto("bufs")
       ELSE conn' = "null" /\ UNCHANGED mgrNc /\ Goto("poll")
    /\ UNCHANGED << content, parts, fd, dirty, misused, twice >>

\* atiny_buf_malloc, twice, with its assertion.
AllocBufs ==
    /\ pc = "bufs"
    /\ Malloc(Buffers)
    /\ Goto(IF \E b \in Buffers : heap'[b] = "none" THEN "crashed" ELSE "address")
    /\ UNCHANGED << content, parts, mgrNc, fd, conn, dirty, misused, twice >>

\* atiny_parse_address.  freeaddrinfo is called on the node that was chosen:
\* those before it are never freed.
ParseAddress ==
    /\ pc = "address"
    /\ \/ Goto("release") /\ UNCHANGED parts              \* getaddrinfo fails
       \/ \E n \in 1..MaxAddresses :
            \E families \in [1..n -> {"INET", "INET6"}] :
              IF \A k \in 1..n : families[k] # "INET"
              THEN Goto("release") /\ UNCHANGED parts
              ELSE /\ Goto("ssl_alloc")
                   /\ parts' = IF families[1] = "INET" THEN parts
                                                       ELSE parts \cup {"addrinfo"}
    /\ UNCHANGED << heap, content, mgrNc, fd, conn, histVars >>

-----------------------------------------------------------------------------
(* What the library does to a context.  Each operator gives the possible   *)
(* outcomes: does the call succeed, what is in the context and which parts *)
(* are allocated afterwards, did the call read dirty memory.               *)

Outcome(ok, after, adds, reads) ==
    [ok |-> ok, after |-> after, adds |-> adds, reads |-> reads]

\* mbedtls_x509_crt_parse_der goes to the end of the chain first.  A failure
\* frees what it has filled in; when memory runs out at the second
\* certificate the first one stays.
CrtParse(crt, chain) ==
    LET onClean == {Outcome(TRUE,  "loaded", {chain}, FALSE),
                    Outcome(FALSE, "clean",  {},      FALSE),
                    Outcome(FALSE, "loaded", {chain}, FALSE)}
    IN  CASE Null(crt) -> {Outcome(FALSE, content[crt], {}, FALSE)}
          [] ~Null(crt) /\ content[crt] = "raw" ->
                onClean \cup {Outcome(TRUE,  "wild", {chain}, TRUE),
                              Outcome(FALSE, "wild", {},      TRUE)}
          [] OTHER -> onClean

\* mbedtls_pk_parse_key: mbedtls_pk_setup refuses a context that is in use,
\* and the failure paths call mbedtls_pk_free, which calls through pk_info.
\* Some return before they have touched the context. The key is PEM: the DER
\* formats, which are tried next, are not outcomes.
PkParseKey ==
    LET onClean == {Outcome(TRUE,  "loaded", {"key_data"}, FALSE),
                    Outcome(FALSE, "clean",  {},           FALSE),
                    Outcome(FALSE, content["pkey"], {},    FALSE)}
    IN  CASE Null("pkey") -> {Outcome(FALSE, content["pkey"], {}, FALSE)}
          [] ~Null("pkey") /\ content["pkey"] = "raw" ->
                onClean \cup {Outcome(FALSE, "wild", {}, TRUE)}
          [] OTHER -> onClean

\* mbedtls_ssl_setup: the record buffers, then ssl_handshake_init; a failure
\* of the second leaves the first.
SslSetup ==
    {Outcome(TRUE,  "loaded", {"ssl_bufs", "handshake"}, FALSE),
     Outcome(FALSE, "clean",  {},                        FALSE),
     Outcome(FALSE, "clean",  {"ssl_bufs"},              FALSE)}

\* mbedtls_ssl_free and mbedtls_ssl_config_free: the parts they release.
SslFree    == {"ssl_bufs", "handshake", "hostname"}
ConfigFree == {"key_cert"}

-----------------------------------------------------------------------------
(* atiny_ssl_init.                                                         *)

\* Mutant: what cannot be loaded is ignored.
CallIgnores(o, outcomes, next, fail) ==
    \E r \in outcomes :
        /\ content' = [content EXCEPT ![o] = r.after]
        /\ parts' = parts \cup r.adds
        /\ dirty' = (dirty \/ r.reads)
        /\ IF r.reads THEN Misuse("raw", next)
                      ELSE Goto(next) /\ UNCHANGED misused
        /\ UNCHANGED refused

\* One call on context o: on success the next statement, on failure `fail`.
Call(o, outcomes, next, fail) ==
    \E r \in outcomes :
        /\ content' = [content EXCEPT ![o] = r.after]
        /\ parts' = parts \cup r.adds
        /\ dirty' = (dirty \/ r.reads)
        /\ LET then == IF r.ok THEN next ELSE fail
           IN IF r.reads THEN Misuse("raw", then)
                         ELSE Goto(then) /\ UNCHANGED misused
        /\ UNCHANGED refused

\* The structure and its eight contexts.  A structure that could not be
\* allocated is written to all the same.
AllocContexts ==
    /\ pc = "ssl_alloc"
    /\ Malloc({"ssl_ctx"} \cup Contexts)
    /\ IF heap'["ssl_ctx"] = "live"
       THEN Goto("ssl_init") /\ UNCHANGED misused
       ELSE Misuse("null", "crashed")
    /\ UNCHANGED << content, parts, mgrNc, fd, conn, dirty, twice >>

Initialised == {"ssl", "conf", "cacert", "ctr_drbg", "entropy"}

\* The *_init calls, which write through the pointers they get.  clicert and
\* pkey have none.
InitContexts ==
    /\ pc = "ssl_init"
    /\ IF \E o \in Initialised : Null(o)
       THEN Misuse("null", "crashed") /\ UNCHANGED content
       ELSE /\ content' = [o \in Contexts |->
                             IF o \in Initialised THEN "clean" ELSE content[o]]
            /\ Goto("seed") /\ UNCHANGED misused
    /\ UNCHANGED << heap, parts, mgrNc, fd, conn, refused, dirty, twice >>

\* mbedtls_ctr_drbg_seed
Seed ==
    /\ pc = "seed"
    /\ Call("ctr_drbg", {Outcome(TRUE, "loaded", {}, FALSE),
                         Outcome(FALSE, "clean", {}, FALSE)}, "ca", "ssl_exit")
    /\ UNCHANGED << heap, mgrNc, fd, conn, twice >>

LoadCa ==
    /\ pc = "ca"
    /\ Call("cacert", CrtParse("cacert", "ca_chain"), "cert", "ssl_exit")
    /\ UNCHANGED << heap, mgrNc, fd, conn, twice >>

LoadCert ==
    /\ pc = "cert"
    /\ Call("clicert", CrtParse("clicert", "cli_chain"), "key", "ssl_exit")
    /\ UNCHANGED << heap, mgrNc, fd, conn, twice >>

LoadKey ==
    /\ pc = "key"
    /\ Call("pkey", PkParseKey, "own_cert", "ssl_exit")
    /\ UNCHANGED << heap, mgrNc, fd, conn, twice >>

\* mbedtls_ssl_config_defaults and the mbedtls_ssl_conf_* calls cannot fail
\* for a client; mbedtls_ssl_conf_own_cert allocates.
OwnCert ==
    /\ pc = "own_cert"
    /\ Call("conf", {Outcome(TRUE, "loaded", {"key_cert"}, FALSE),
                     Outcome(FALSE, "loaded", {}, FALSE)}, "setup", "ssl_exit")
    /\ UNCHANGED << heap, mgrNc, fd, conn, twice >>

Setup ==
    /\ pc = "setup"
    /\ Call("ssl", SslSetup, "set_hostname", "ssl_exit")
    /\ UNCHANGED << heap, mgrNc, fd, conn, twice >>

SetHostname ==
    /\ pc = "set_hostname"
    /\ Call("ssl", {Outcome(TRUE, "loaded", {"hostname"}, FALSE),
                    Outcome(FALSE, "loaded", {}, FALSE)}, "connect", "ssl_exit")
    /\ UNCHANGED << heap, mgrNc, fd, conn, twice >>

\* Mutant: the SSL context is left out.
ReleasedBug == Contexts \ {"ssl"}

\* The contexts the exit path frees.
Released == Contexts

\* exit: in atiny_ssl_init.  Each context whose pointer is set is emptied and
\* freed; of cacert and clicert only the structure.  pkey may not have been
\* initialised, and mbedtls_pk_free looks at it.
SslExit ==
    /\ pc = "ssl_exit"
    /\ Freed(Released)
    /\ parts' = parts \ ((IF "ssl" \in Released THEN SslFree ELSE {})
                         \cup ConfigFree \cup {"key_data"})
    /\ \/ Goto("release") /\ UNCHANGED << dirty, misused >>
       \/ /\ ~Null("pkey") /\ content["pkey"] \in {"raw", "wild"}
          /\ dirty' = TRUE
          /\ Misuse("raw", "release")
    /\ UNCHANGED << content, mgrNc, fd, conn, refused >>

-----------------------------------------------------------------------------
(* The end of atiny_connect, and main()'s loop.                            *)

\* Mutants: the failure is not reported; atiny_ssl_destroy is called too.
ReleaseReturnsNc ==
    /\ pc = "release"
    /\ Freed({"nc"} \cup Buffers)
    /\ conn' = "nc"
    /\ Goto("poll")
    /\ UNCHANGED << content, parts, mgrNc, fd, refused, dirty, misused >>

ReleaseDestroys ==
    /\ pc = "release"
    /\ Freed({"nc", "conf", "ctr_drbg", "entropy", "timer", "ssl"} \cup Buffers)
    /\ conn' = "null"
    /\ Goto("poll")
    /\ UNCHANGED << content, parts, mgrNc, fd, refused, dirty, misused >>

\* A bad address or a failed atiny_ssl_init.  mgr.nc keeps its value.
Release ==
    /\ pc = "release"
    /\ Freed({"nc"} \cup Buffers)
    /\ conn' = "null"
    /\ Goto("poll")
    /\ UNCHANGED << content, parts, mgrNc, fd, refused, dirty, misused >>

\* atiny_sock_connect: a socket or a connection that fails is only logged.
Connect ==
    /\ pc = "connect"
    /\ fd' \in {"bad", "open"}
    /\ conn' = "nc"
    /\ Goto("poll")
    /\ UNCHANGED << objVars, mgrNc, histVars >>

\* The first atiny_poll with its connect callback, which takes the TLS
\* contexts into use.  main() has not looked at what atiny_connect returned,
\* and FD_SET takes any sock_fd.
Poll ==
    /\ pc = "poll"
    /\ CASE mgrNc = "wild"       -> Misuse("raw", "running") /\ UNCHANGED dirty
         [] heap["nc"] = "freed" -> Misuse("freed", "running") /\ UNCHANGED dirty
         [] mgrNc = "nc" /\ heap["nc"] = "live" /\ fd = "bad" ->
              Misuse("fd", "running") /\ UNCHANGED dirty
         [] OTHER ->
              IF \E o \in {"clicert", "pkey"} : content[o] = "wild"
              THEN dirty' = TRUE /\ Misuse("raw", "running")
              ELSE Goto("running") /\ UNCHANGED << dirty, misused >>
    /\ UNCHANGED << objVars, mgrNc, fd, conn, refused, twice >>

\* From here on AtinySock, or nothing.
Ended ==
    /\ pc \in {"running", "crashed"}
    /\ UNCHANGED vars

Init ==
    /\ pc = "init"
    /\ heap = [b \in Blocks |-> "none"]
    /\ content = [o \in Contexts |-> "raw"]
    /\ parts = {}
    /\ mgrNc = "wild" /\ fd = "unset" /\ conn = "none"
    /\ refused = FALSE /\ dirty = FALSE /\ misused = "none" /\ twice = {}

Next ==
    \/ AtinyInit \/ AllocNc \/ AllocBufs \/ ParseAddress
    \/ AllocContexts \/ InitContexts
    \/ Seed \/ LoadCa \/ LoadCert \/ LoadKey \/ OwnCert \/ Setup \/ SetHostname
    \/ SslExit \/ Release \/ Connect \/ Poll
    \/ Ended

Spec == Init /\ [][Next]_vars

-----------------------------------------------------------------------------
(* Properties.                                                             *)

\* No block is freed twice, whichever step fails: atiny_ssl_init and
\* atiny_connect divide the release between them.
FreedOnce == twice = {}

\* A connection that is served is complete: every block is allocated (nobody
\* looks at timer), the certificates and the key are loaded, the TLS context
\* is set up.  This is what AtinySock starts from.
ServedComplete ==
    pc = "running" /\ misused = "none" =>
        /\ conn = "nc" /\ fd = "open"
        /\ \A b \in Blocks \ {"timer"} : heap[b] = "live"
        /\ \A o \in Contexts \ {"entropy", "timer"} : content[o] = "loaded"
        /\ Parts \ {"addrinfo"} \subseteq parts

\* When atiny_connect fails, all it has allocated is released, except for the
\* structure atiny_ssl_ctx_t, the contents of the certificates and skipped
\* nodes of the address list.
FailureReleases ==
    conn = "null" =>
        /\ {b \in Blocks : heap[b] = "live"} \subseteq {"interface", "ssl_ctx"}
        /\ parts \subseteq {"ca_chain", "cli_chain", "addrinfo"}

\* Memory is misused only after one of four causes: malloc has failed for a
\* context, the heap was not zero under clicert or pkey, there is no socket, or
\* main() went on although atiny_connect had returned NULL.
MisuseExplained ==
    misused # "none" =>
        refused \/ dirty \/ conn = "null" \/ fd = "bad"

\* "On entry, ctx must be empty, either freshly initialised with
\* mbedtls_pk_init() or reset with mbedtls_pk_free()" (mbedtls/pk.h,
\* mbedtls_pk_parse_key).  Not what the code does.
KeyContextEmpty == pc = "key" /\ ~Null("pkey") => content["pkey"] = "clean"
=============================================================================
