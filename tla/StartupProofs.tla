----------------------------- MODULE StartupProofs -----------------------------
(***************************************************************************)
(* The invariants of Startup, for address lists of any length.             *)
(***************************************************************************)
EXTENDS Startup, TLAPS

\* The statements of atiny_ssl_init and atiny_connect, by what is behind them.
AfterInit  == {"seed", "ca", "cert", "key", "own_cert", "setup", "set_hostname", "connect"}
AfterSeed  == AfterInit \ {"seed"}
AfterCa    == AfterSeed \ {"ca"}
AfterCert  == AfterCa \ {"cert"}
AfterKey   == AfterCert \ {"key"}
AfterOwn   == AfterKey \ {"own_cert"}
AfterSetup == AfterOwn \ {"setup"}

BeforeSsl == {"init", "alloc", "bufs", "address"}
InSsl     == {"ssl_alloc", "ssl_init", "ssl_exit"} \cup AfterInit
AtEnd     == {"poll", "running", "crashed"}

Contents == {"raw", "clean", "loaded", "wild"}

\* The types of the variables.
TypeInv ==
    /\ pc \in BeforeSsl \cup InSsl \cup {"release"} \cup AtEnd
    /\ heap \in [Blocks -> {"none", "live", "freed"}]
    /\ content \in [Contexts -> Contents]
    /\ parts \subseteq Parts
    /\ mgrNc \in {"wild", "nc"}
    /\ fd \in {"unset", "bad", "open"}
    /\ conn \in {"none", "null", "nc"}
    /\ refused \in BOOLEAN /\ dirty \in BOOLEAN
    /\ misused \in {"none", "raw", "null", "freed", "fd"}

\* What has been allocated and released so far, statement by statement.
HeapInv ==
    /\ pc \in BeforeSsl \cup InSsl \cup {"release"} => conn = "none"
    /\ pc \notin AtEnd => fd = "unset"
    /\ pc \in {"init", "alloc"} => mgrNc = "wild"
    /\ pc = "init" => \A b \in Blocks : heap[b] = "none"
    /\ pc = "alloc" => \A b \in Blocks \ {"interface"} : heap[b] = "none"
    /\ pc = "bufs" => \A b \in Blocks \ {"interface", "nc"} : heap[b] = "none"
    /\ pc \in {"address", "ssl_alloc"} =>
         \A b \in {"ssl_ctx"} \cup Contexts : heap[b] = "none"
    /\ pc \in BeforeSsl => parts = {}
    /\ pc \in InSsl => \A b \in Contexts : heap[b] # "freed"
    /\ pc \in {"alloc", "bufs", "address"} \cup InSsl => heap["interface"] = "live"
    /\ pc \in {"bufs", "address", "release"} \cup InSsl => heap["nc"] = "live" /\ mgrNc = "nc"
    /\ pc \in {"address", "release"} \cup InSsl => \A b \in Buffers : heap[b] = "live"
    /\ pc \in AfterInit \cup {"ssl_init"} => heap["ssl_ctx"] = "live"
    /\ pc = "release" =>
         /\ \A b \in Contexts : heap[b] # "live"
         /\ parts \subseteq {"ca_chain", "cli_chain", "addrinfo"}

\* What the calls of atiny_ssl_init have achieved, as long as none of them
\* has read memory that nobody has written.
Loaded ==
    /\ pc \in AfterSeed => content["ctr_drbg"] = "loaded"
    /\ pc \in AfterSeed \ AfterCa => content["cacert"] = "clean"
    /\ pc \in AfterCa => content["cacert"] = "loaded" /\ "ca_chain" \in parts
    /\ pc \in AfterCert => content["clicert"] = "loaded" /\ "cli_chain" \in parts
    /\ pc \in AfterKey => content["pkey"] = "loaded" /\ "key_data" \in parts
    /\ pc \in AfterOwn => content["conf"] = "loaded" /\ "key_cert" \in parts
    /\ pc \in AfterSetup => /\ content["ssl"] = "loaded"
                            /\ {"ssl_bufs", "handshake"} \subseteq parts
    /\ pc = "connect" => "hostname" \in parts

LoadInv ==
    /\ pc \in AfterInit => \A o \in Initialised : heap[o] = "live"
    /\ pc = "seed" => content["cacert"] = "clean"
    /\ pc \in AfterCert => heap["clicert"] = "live"
    /\ pc \in AfterKey => heap["pkey"] = "live"
    /\ misused = "none" => Loaded

Complete ==
    /\ \A b \in Blocks \ {"timer"} : heap[b] = "live"
    /\ misused = "none" =>
         /\ \A o \in Contexts \ {"entropy", "timer"} : content[o] = "loaded"
         /\ Parts \ {"addrinfo"} \subseteq parts

\* What main() polls.
PollInv ==
    pc = "poll" =>
        \/ conn = "null" /\ (mgrNc = "wild" \/ heap["nc"] = "freed")
        \/ conn = "nc" /\ mgrNc = "nc" /\ fd \in {"bad", "open"} /\ Complete

\* A context that could not be allocated has been noticed.
RefusedInv ==
    pc \in InSsl \ {"ssl_alloc"} =>
        \A o \in Contexts : heap[o] = "none" => refused

\* The inductive invariant.
IInv ==
    /\ TypeInv /\ HeapInv /\ LoadInv /\ PollInv /\ RefusedInv
    /\ FreedOnce /\ ServedComplete /\ FailureReleases /\ MisuseExplained

-----------------------------------------------------------------------------
\* main() starts with nothing allocated.
LEMMA InitInv == Init => IInv
<1> SUFFICES ASSUME Init PROVE IInv
  OBVIOUS
<1> USE DEF Init, BeforeSsl, InSsl, AtEnd, AfterInit, AfterSeed, AfterCa,
            AfterCert, AfterKey, AfterOwn, AfterSetup
<1>1. TypeInv
  BY DEF TypeInv, Contents
<1>2. HeapInv /\ LoadInv /\ PollInv /\ RefusedInv
  BY DEF HeapInv, LoadInv, Loaded, PollInv, RefusedInv
<1>3. FreedOnce /\ ServedComplete /\ FailureReleases /\ MisuseExplained
  BY DEF FreedOnce, ServedComplete, FailureReleases, MisuseExplained
<1> QED BY <1>1, <1>2, <1>3 DEF IInv

-----------------------------------------------------------------------------
(* The calls of atiny_ssl_init.                                            *)

\* What Call does, without the set of outcomes: a call that succeeds without
\* reading unwritten memory has loaded its context and allocated `gains`.
Called(o, gains, next) ==
    /\ \E after \in Contents : content' = [content EXCEPT ![o] = after]
    /\ parts \subseteq parts' /\ parts' \subseteq Parts
    /\ dirty' \in BOOLEAN /\ (dirty => dirty')
    /\ refused' = refused
    /\ pc' \in {next, "ssl_exit", "crashed"}
    /\ misused' = misused \/ (misused' = "raw" /\ dirty')
    /\ pc' = next => heap[o] # "none"
    /\ pc' = next /\ misused' = "none" =>
         misused = "none" /\ content'[o] = "loaded" /\ gains \subseteq parts'

\* An outcome that Call may be given.
Sensible(o, gains, r) ==
    /\ r.ok \in BOOLEAN /\ r.reads \in BOOLEAN
    /\ r.after \in Contents /\ r.adds \subseteq Parts
    /\ r.ok => heap[o] # "none"
    /\ r.ok /\ ~r.reads => r.after = "loaded" /\ gains \subseteq r.adds

\* Outcome makes such a record.
LEMMA OutcomeSensible ==
    ASSUME NEW o, NEW gains, NEW ok \in BOOLEAN, NEW reads \in BOOLEAN,
           NEW after \in Contents, NEW adds \in SUBSET Parts,
           ok => heap[o] # "none",
           ok /\ ~reads => after = "loaded" /\ gains \subseteq adds
    PROVE  Sensible(o, gains, Outcome(ok, after, adds, reads))
<1> DEFINE r == Outcome(ok, after, adds, reads)
<1>1. /\ r.ok \in BOOLEAN /\ r.reads \in BOOLEAN
      /\ (r.ok <=> ok) /\ (r.reads <=> reads)
      /\ r.after = after /\ r.adds = adds
  BY DEF Outcome
<1> HIDE DEF r
<1>2. Sensible(o, gains, r)
  BY <1>1 DEF Sensible
<1> QED BY <1>2 DEF r

\* Call does what Called says, if its outcomes are sensible.
LEMMA CallCalled ==
    ASSUME TypeInv, NEW o \in Contexts, NEW gains, NEW outcomes, NEW next,
           next # "ssl_exit", next # "crashed",
           \A r \in outcomes : Sensible(o, gains, r), Call(o, outcomes, next, "ssl_exit")
    PROVE  Called(o, gains, next)
<1>1. PICK r \in outcomes :
        /\ content' = [content EXCEPT ![o] = r.after]
        /\ parts' = parts \cup r.adds
        /\ dirty' = (dirty \/ r.reads)
        /\ LET then == IF r.ok THEN next ELSE "ssl_exit"
           IN IF r.reads THEN Misuse("raw", then)
                         ELSE Goto(then) /\ UNCHANGED misused
        /\ UNCHANGED refused
  BY DEF Call
<1>2. /\ r.ok \in BOOLEAN /\ r.reads \in BOOLEAN
      /\ r.after \in Contents /\ r.adds \subseteq Parts
      /\ r.ok => heap[o] # "none"
      /\ r.ok /\ ~r.reads => r.after = "loaded" /\ gains \subseteq r.adds
  BY DEF Sensible
<1>3. content'[o] = r.after
  BY <1>1 DEF TypeInv
<1>4. CASE r.reads
  BY <1>1, <1>2, <1>4 DEF Called, Misuse, TypeInv
<1>5. CASE ~r.reads
  BY <1>1, <1>2, <1>3, <1>5 DEF Called, Goto, TypeInv
<1> QED BY <1>2, <1>4, <1>5

-----------------------------------------------------------------------------
(* Each action preserves the invariant.                                    *)

USE DEF Blocks, Buffers, Contexts, Parts, Initialised, BeforeSsl, InSsl, AtEnd,
        AfterInit, AfterSeed, AfterCa, AfterCert, AfterKey, AfterOwn, AfterSetup

\* atiny_init: the first block, or an assertion.
LEMMA AtinyInitStep == IInv /\ AtinyInit => IInv'
<1> SUFFICES ASSUME IInv, AtinyInit PROVE IInv'
  OBVIOUS
<1> USE DEF IInv, AtinyInit, Malloc, Goto
<1>1. TypeInv'
  BY DEF TypeInv, HeapInv, Contents
<1>2. HeapInv'
  BY DEF TypeInv, HeapInv
<1>3. LoadInv' /\ RefusedInv'
  BY DEF TypeInv, HeapInv, LoadInv, Loaded, RefusedInv
<1>4. PollInv'
  BY DEF TypeInv, HeapInv, LoadInv, Loaded, PollInv, Complete
<1>5. FreedOnce' /\ FailureReleases'
  BY DEF TypeInv, HeapInv, PollInv, FreedOnce, FailureReleases
<1>6. ServedComplete'
  BY DEF TypeInv, HeapInv, PollInv, Complete, ServedComplete
<1>7. MisuseExplained'
  BY DEF TypeInv, HeapInv, PollInv, RefusedInv, MisuseExplained
<1> QED BY <1>1, <1>2, <1>3, <1>4, <1>5, <1>6, <1>7

\* nc, or NULL and mgr.nc as the stack left it.
LEMMA AllocNcStep == IInv /\ AllocNc => IInv'
<1> SUFFICES ASSUME IInv, AllocNc PROVE IInv'
  OBVIOUS
<1> USE DEF IInv, AllocNc, Malloc, Goto
<1>1. TypeInv'
  BY DEF TypeInv, HeapInv, Contents
<1>2. HeapInv'
  BY DEF TypeInv, HeapInv
<1>3. LoadInv' /\ RefusedInv'
  BY DEF TypeInv, HeapInv, LoadInv, Loaded, RefusedInv
<1>4. PollInv'
  BY DEF TypeInv, HeapInv, LoadInv, Loaded, PollInv, Complete
<1>5. FreedOnce' /\ FailureReleases'
  BY DEF TypeInv, HeapInv, PollInv, FreedOnce, FailureReleases
<1>6. ServedComplete'
  BY DEF TypeInv, HeapInv, PollInv, Complete, ServedComplete
<1>7. MisuseExplained'
  BY DEF TypeInv, HeapInv, PollInv, RefusedInv, MisuseExplained
<1> QED BY <1>1, <1>2, <1>3, <1>4, <1>5, <1>6, <1>7

\* Both buffers, or an assertion.
LEMMA AllocBufsStep == IInv /\ AllocBufs => IInv'
<1> SUFFICES ASSUME IInv, AllocBufs PROVE IInv'
  OBVIOUS
<1> USE DEF IInv, AllocBufs, Malloc, Goto
<1>1. TypeInv'
  BY DEF TypeInv, HeapInv, Contents
<1>2. HeapInv'
  BY DEF TypeInv, HeapInv
<1>3. LoadInv' /\ RefusedInv'
  BY DEF TypeInv, HeapInv, LoadInv, Loaded, RefusedInv
<1>4. PollInv'
  BY DEF TypeInv, HeapInv, LoadInv, Loaded, PollInv, Complete
<1>5. FreedOnce' /\ FailureReleases'
  BY DEF TypeInv, HeapInv, PollInv, FreedOnce, FailureReleases
<1>6. ServedComplete'
  BY DEF TypeInv, HeapInv, PollInv, Complete, ServedComplete
<1>7. MisuseExplained'
  BY DEF TypeInv, HeapInv, PollInv, RefusedInv, MisuseExplained
<1> QED BY <1>1, <1>2, <1>3, <1>4, <1>5, <1>6, <1>7

\* An address, or the release of nc.
LEMMA ParseAddressStep == IInv /\ ParseAddress => IInv'
<1> SUFFICES ASSUME IInv, ParseAddress PROVE IInv'
  OBVIOUS
<1> USE DEF IInv, ParseAddress, histVars, Goto
<1>1. TypeInv'
  <2>1. parts' \in {parts, parts \cup {"addrinfo"}} /\ pc' \in {"release", "ssl_alloc"}
    OBVIOUS
  <2> QED BY <2>1 DEF TypeInv, Contents
<1>2. HeapInv'
  BY DEF TypeInv, HeapInv
<1>3. LoadInv' /\ RefusedInv'
  BY DEF TypeInv, HeapInv, LoadInv, Loaded, RefusedInv
<1>4. PollInv'
  BY DEF TypeInv, HeapInv, LoadInv, Loaded, PollInv, Complete
<1>5. FreedOnce' /\ FailureReleases'
  BY DEF TypeInv, HeapInv, PollInv, FreedOnce, FailureReleases
<1>6. ServedComplete'
  BY DEF TypeInv, HeapInv, PollInv, Complete, ServedComplete
<1>7. MisuseExplained'
  BY DEF TypeInv, HeapInv, PollInv, RefusedInv, MisuseExplained
<1> QED BY <1>1, <1>2, <1>3, <1>4, <1>5, <1>6, <1>7

\* The structure and the contexts, any of which may be refused.
LEMMA AllocContextsStep == IInv /\ AllocContexts => IInv'
<1> SUFFICES ASSUME IInv, AllocContexts PROVE IInv'
  OBVIOUS
<1> USE DEF IInv, AllocContexts, Malloc, Misuse, Goto
<1>1. TypeInv'
  BY DEF TypeInv, HeapInv, Contents
<1>2. HeapInv'
  BY DEF TypeInv, HeapInv
<1>3. LoadInv' /\ RefusedInv'
  BY DEF TypeInv, HeapInv, LoadInv, Loaded, RefusedInv
<1>4. PollInv'
  BY DEF TypeInv, HeapInv, LoadInv, Loaded, PollInv, Complete
<1>5. FreedOnce' /\ FailureReleases'
  BY DEF TypeInv, HeapInv, PollInv, FreedOnce, FailureReleases
<1>6. ServedComplete'
  BY DEF TypeInv, HeapInv, PollInv, Complete, ServedComplete
<1>7. MisuseExplained'
  BY DEF TypeInv, HeapInv, PollInv, RefusedInv, MisuseExplained
<1> QED BY <1>1, <1>2, <1>3, <1>4, <1>5, <1>6, <1>7

\* Five contexts are initialised; a refused one is misused.
LEMMA InitContextsStep == IInv /\ InitContexts => IInv'
<1> SUFFICES ASSUME IInv, InitContexts PROVE IInv'
  OBVIOUS
<1> USE DEF IInv, InitContexts, Null, Misuse, Goto
<1>1. TypeInv'
  BY DEF TypeInv, HeapInv, Contents
<1>2. HeapInv'
  BY DEF TypeInv, HeapInv
<1>3. LoadInv' /\ RefusedInv'
  BY DEF TypeInv, HeapInv, LoadInv, Loaded, RefusedInv
<1>4. PollInv'
  BY DEF TypeInv, HeapInv, LoadInv, Loaded, PollInv, Complete
<1>5. FreedOnce' /\ FailureReleases'
  BY DEF TypeInv, HeapInv, PollInv, FreedOnce, FailureReleases
<1>6. ServedComplete'
  BY DEF TypeInv, HeapInv, PollInv, Complete, ServedComplete
<1>7. MisuseExplained'
  BY DEF TypeInv, HeapInv, PollInv, RefusedInv, MisuseExplained
<1> QED BY <1>1, <1>2, <1>3, <1>4, <1>5, <1>6, <1>7

\* The random numbers are seeded, or all is released.
LEMMA SeedStep == IInv /\ Seed => IInv'
<1> SUFFICES ASSUME IInv, Seed PROVE IInv'
  OBVIOUS
<1> USE DEF IInv
<1>1. pc = "seed" /\ UNCHANGED << heap, mgrNc, fd, conn, twice >>
  BY DEF Seed
<1>2. Called("ctr_drbg", {}, "ca")
  <2> DEFINE outcomes == {Outcome(TRUE, "loaded", {}, FALSE),
                            Outcome(FALSE, "clean", {}, FALSE)}
  <2>1. \A r \in outcomes : Sensible("ctr_drbg", {}, r)
    <3>1. heap["ctr_drbg"] = "live"
      BY <1>1 DEF LoadInv, Initialised, AfterInit
    <3> QED BY <3>1, OutcomeSensible DEF Contents, Parts
  <2>2. Call("ctr_drbg", outcomes, "ca", "ssl_exit")
    BY DEF Seed
  <2> HIDE DEF outcomes
  <2> QED BY <2>1, <2>2, CallCalled DEF Contexts
<1>3. TypeInv'
  BY <1>1, <1>2 DEF TypeInv, Called
<1>4. HeapInv'
  BY <1>1, <1>2 DEF HeapInv, TypeInv, Called
<1>5. LoadInv'
  BY <1>1, <1>2 DEF TypeInv, HeapInv, LoadInv, Loaded, Called, Contents
<1>6. PollInv' /\ RefusedInv'
  BY <1>1, <1>2 DEF PollInv, RefusedInv, Called
<1>7. FreedOnce' /\ ServedComplete' /\ FailureReleases' /\ MisuseExplained'
  BY <1>1, <1>2 DEF Called, HeapInv, FreedOnce, ServedComplete, FailureReleases, MisuseExplained
<1> QED BY <1>3, <1>4, <1>5, <1>6, <1>7

\* The CA chain is parsed into a clean context.
LEMMA LoadCaStep == IInv /\ LoadCa => IInv'
<1> SUFFICES ASSUME IInv, LoadCa PROVE IInv'
  OBVIOUS
<1> USE DEF IInv
<1>1. pc = "ca" /\ UNCHANGED << heap, mgrNc, fd, conn, twice >>
  BY DEF LoadCa
<1>2. Called("cacert", {"ca_chain"}, "cert")
  <2>1. \A r \in CrtParse("cacert", "ca_chain") : Sensible("cacert", {"ca_chain"}, r)
    <3>1. heap["cacert"] = "live" /\ (misused = "none" => content["cacert"] = "clean") /\ content["cacert"] \in Contents
      BY <1>1 DEF TypeInv, LoadInv, Loaded, Initialised, AfterInit, AfterSeed, AfterCa, Contexts
    <3> QED BY <3>1, OutcomeSensible DEF CrtParse, Null, Contents, Parts
  <2> QED BY <2>1, CallCalled DEF LoadCa, Contexts
<1>3. TypeInv'
  BY <1>1, <1>2 DEF TypeInv, Called
<1>4. HeapInv'
  BY <1>1, <1>2 DEF HeapInv, TypeInv, Called
<1>5. LoadInv'
  BY <1>1, <1>2 DEF TypeInv, HeapInv, LoadInv, Loaded, Called, Contents
<1>6. PollInv' /\ RefusedInv'
  BY <1>1, <1>2 DEF PollInv, RefusedInv, Called
<1>7. FreedOnce' /\ ServedComplete' /\ FailureReleases' /\ MisuseExplained'
  BY <1>1, <1>2 DEF Called, HeapInv, FreedOnce, ServedComplete, FailureReleases, MisuseExplained
<1> QED BY <1>3, <1>4, <1>5, <1>6, <1>7

\* The client certificate is parsed into a context nobody initialised.
LEMMA LoadCertStep == IInv /\ LoadCert => IInv'
<1> SUFFICES ASSUME IInv, LoadCert PROVE IInv'
  OBVIOUS
<1> USE DEF IInv
<1>1. pc = "cert" /\ UNCHANGED << heap, mgrNc, fd, conn, twice >>
  BY DEF LoadCert
<1>2. Called("clicert", {"cli_chain"}, "key")
  <2>1. \A r \in CrtParse("clicert", "cli_chain") : Sensible("clicert", {"cli_chain"}, r)
    <3>1. content["clicert"] \in Contents
      BY <1>1 DEF TypeInv, Contexts
    <3> QED BY <3>1, OutcomeSensible DEF CrtParse, Null, Contents, Parts
  <2> QED BY <2>1, CallCalled DEF LoadCert, Contexts
<1>3. TypeInv'
  BY <1>1, <1>2 DEF TypeInv, Called
<1>4. HeapInv'
  BY <1>1, <1>2 DEF HeapInv, TypeInv, Called
<1>5. LoadInv'
  BY <1>1, <1>2 DEF TypeInv, HeapInv, LoadInv, Loaded, Called, Contents
<1>6. PollInv' /\ RefusedInv'
  BY <1>1, <1>2 DEF PollInv, RefusedInv, Called
<1>7. FreedOnce' /\ ServedComplete' /\ FailureReleases' /\ MisuseExplained'
  BY <1>1, <1>2 DEF Called, HeapInv, FreedOnce, ServedComplete, FailureReleases, MisuseExplained
<1> QED BY <1>3, <1>4, <1>5, <1>6, <1>7

\* So is the key.
LEMMA LoadKeyStep == IInv /\ LoadKey => IInv'
<1> SUFFICES ASSUME IInv, LoadKey PROVE IInv'
  OBVIOUS
<1> USE DEF IInv
<1>1. pc = "key" /\ UNCHANGED << heap, mgrNc, fd, conn, twice >>
  BY DEF LoadKey
<1>2. Called("pkey", {"key_data"}, "own_cert")
  <2>1. \A r \in PkParseKey : Sensible("pkey", {"key_data"}, r)
    <3>1. content["pkey"] \in Contents
      BY <1>1 DEF TypeInv, Contexts
    <3> QED BY <3>1, OutcomeSensible DEF PkParseKey, Null, Contents, Parts
  <2> QED BY <2>1, CallCalled DEF LoadKey, Contexts
<1>3. TypeInv'
  BY <1>1, <1>2 DEF TypeInv, Called
<1>4. HeapInv'
  BY <1>1, <1>2 DEF HeapInv, TypeInv, Called
<1>5. LoadInv'
  BY <1>1, <1>2 DEF TypeInv, HeapInv, LoadInv, Loaded, Called, Contents
<1>6. PollInv' /\ RefusedInv'
  BY <1>1, <1>2 DEF PollInv, RefusedInv, Called
<1>7. FreedOnce' /\ ServedComplete' /\ FailureReleases' /\ MisuseExplained'
  BY <1>1, <1>2 DEF Called, HeapInv, FreedOnce, ServedComplete, FailureReleases, MisuseExplained
<1> QED BY <1>3, <1>4, <1>5, <1>6, <1>7

\* The certificate and the key are added to the configuration.
LEMMA OwnCertStep == IInv /\ OwnCert => IInv'
<1> SUFFICES ASSUME IInv, OwnCert PROVE IInv'
  OBVIOUS
<1> USE DEF IInv
<1>1. pc = "own_cert" /\ UNCHANGED << heap, mgrNc, fd, conn, twice >>
  BY DEF OwnCert
<1>2. Called("conf", {"key_cert"}, "setup")
  <2> DEFINE outcomes == {Outcome(TRUE, "loaded", {"key_cert"}, FALSE),
                            Outcome(FALSE, "loaded", {}, FALSE)}
  <2>1. \A r \in outcomes : Sensible("conf", {"key_cert"}, r)
    <3>1. heap["conf"] = "live"
      BY <1>1 DEF LoadInv, Initialised, AfterInit
    <3> QED BY <3>1, OutcomeSensible DEF Contents, Parts
  <2>2. Call("conf", outcomes, "setup", "ssl_exit")
    BY DEF OwnCert
  <2> HIDE DEF outcomes
  <2> QED BY <2>1, <2>2, CallCalled DEF Contexts
<1>3. TypeInv'
  BY <1>1, <1>2 DEF TypeInv, Called
<1>4. HeapInv'
  BY <1>1, <1>2 DEF HeapInv, TypeInv, Called
<1>5. LoadInv'
  BY <1>1, <1>2 DEF TypeInv, HeapInv, LoadInv, Loaded, Called, Contents
<1>6. PollInv' /\ RefusedInv'
  BY <1>1, <1>2 DEF PollInv, RefusedInv, Called
<1>7. FreedOnce' /\ ServedComplete' /\ FailureReleases' /\ MisuseExplained'
  BY <1>1, <1>2 DEF Called, HeapInv, FreedOnce, ServedComplete, FailureReleases, MisuseExplained
<1> QED BY <1>3, <1>4, <1>5, <1>6, <1>7

\* The TLS context gets its buffers.
LEMMA SetupStep == IInv /\ Setup => IInv'
<1> SUFFICES ASSUME IInv, Setup PROVE IInv'
  OBVIOUS
<1> USE DEF IInv
<1>1. pc = "setup" /\ UNCHANGED << heap, mgrNc, fd, conn, twice >>
  BY DEF Setup
<1>2. Called("ssl", {"ssl_bufs", "handshake"}, "set_hostname")
  <2>1. \A r \in SslSetup : Sensible("ssl", {"ssl_bufs", "handshake"}, r)
    <3>1. heap["ssl"] = "live"
      BY <1>1 DEF LoadInv, Initialised, AfterInit
    <3> QED BY <3>1, OutcomeSensible DEF SslSetup, Contents, Parts
  <2> QED BY <2>1, CallCalled DEF Setup, Contexts
<1>3. TypeInv'
  BY <1>1, <1>2 DEF TypeInv, Called
<1>4. HeapInv'
  BY <1>1, <1>2 DEF HeapInv, TypeInv, Called
<1>5. LoadInv'
  BY <1>1, <1>2 DEF TypeInv, HeapInv, LoadInv, Loaded, Called, Contents
<1>6. PollInv' /\ RefusedInv'
  BY <1>1, <1>2 DEF PollInv, RefusedInv, Called
<1>7. FreedOnce' /\ ServedComplete' /\ FailureReleases' /\ MisuseExplained'
  BY <1>1, <1>2 DEF Called, HeapInv, FreedOnce, ServedComplete, FailureReleases, MisuseExplained
<1> QED BY <1>3, <1>4, <1>5, <1>6, <1>7

\* The last allocation of atiny_ssl_init.
LEMMA SetHostnameStep == IInv /\ SetHostname => IInv'
<1> SUFFICES ASSUME IInv, SetHostname PROVE IInv'
  OBVIOUS
<1> USE DEF IInv
<1>1. pc = "set_hostname" /\ UNCHANGED << heap, mgrNc, fd, conn, twice >>
  BY DEF SetHostname
<1>2. Called("ssl", {"hostname"}, "connect")
  <2> DEFINE outcomes == {Outcome(TRUE, "loaded", {"hostname"}, FALSE),
                            Outcome(FALSE, "loaded", {}, FALSE)}
  <2>1. \A r \in outcomes : Sensible("ssl", {"hostname"}, r)
    <3>1. heap["ssl"] = "live"
      BY <1>1 DEF LoadInv, Initialised, AfterInit
    <3> QED BY <3>1, OutcomeSensible DEF Contents, Parts
  <2>2. Call("ssl", outcomes, "connect", "ssl_exit")
    BY DEF SetHostname
  <2> HIDE DEF outcomes
  <2> QED BY <2>1, <2>2, CallCalled DEF Contexts
<1>3. TypeInv'
  BY <1>1, <1>2 DEF TypeInv, Called
<1>4. HeapInv'
  BY <1>1, <1>2 DEF HeapInv, TypeInv, Called
<1>5. LoadInv'
  BY <1>1, <1>2 DEF TypeInv, HeapInv, LoadInv, Loaded, Called, Contents
<1>6. PollInv' /\ RefusedInv'
  BY <1>1, <1>2 DEF PollInv, RefusedInv, Called
<1>7. FreedOnce' /\ ServedComplete' /\ FailureReleases' /\ MisuseExplained'
  BY <1>1, <1>2 DEF Called, HeapInv, FreedOnce, ServedComplete, FailureReleases, MisuseExplained
<1> QED BY <1>3, <1>4, <1>5, <1>6, <1>7

\* The exit of atiny_ssl_init releases the contexts, each once.
LEMMA SslExitStep == IInv /\ SslExit => IInv'
<1> SUFFICES ASSUME IInv, SslExit PROVE IInv'
  OBVIOUS
<1> USE DEF IInv, SslExit, Released, SslFree, ConfigFree, Freed, Null, Misuse, Goto
<1>1. TypeInv'
  BY DEF TypeInv, HeapInv, Contents
<1>2. HeapInv'
  BY DEF TypeInv, HeapInv
<1>3. LoadInv' /\ RefusedInv'
  BY DEF TypeInv, HeapInv, LoadInv, Loaded, RefusedInv
<1>4. PollInv'
  BY DEF TypeInv, HeapInv, LoadInv, Loaded, PollInv, Complete
<1>5. FreedOnce' /\ FailureReleases'
  BY DEF TypeInv, HeapInv, PollInv, FreedOnce, FailureReleases
<1>6. ServedComplete'
  BY DEF TypeInv, HeapInv, PollInv, Complete, ServedComplete
<1>7. MisuseExplained'
  BY DEF TypeInv, HeapInv, PollInv, RefusedInv, MisuseExplained
<1> QED BY <1>1, <1>2, <1>3, <1>4, <1>5, <1>6, <1>7

\* The exit of atiny_connect releases nc and its buffers.
LEMMA ReleaseStep == IInv /\ Release => IInv'
<1> SUFFICES ASSUME IInv, Release PROVE IInv'
  OBVIOUS
<1> USE DEF IInv, Release, Freed, Null, Goto
<1>1. TypeInv'
  BY DEF TypeInv, HeapInv, Contents
<1>2. HeapInv'
  BY DEF TypeInv, HeapInv
<1>3. LoadInv' /\ RefusedInv'
  BY DEF TypeInv, HeapInv, LoadInv, Loaded, RefusedInv
<1>4. PollInv'
  BY DEF TypeInv, HeapInv, LoadInv, Loaded, PollInv, Complete
<1>5. FreedOnce' /\ FailureReleases'
  BY DEF TypeInv, HeapInv, PollInv, FreedOnce, FailureReleases
<1>6. ServedComplete'
  BY DEF TypeInv, HeapInv, PollInv, Complete, ServedComplete
<1>7. MisuseExplained'
  BY DEF TypeInv, HeapInv, PollInv, RefusedInv, MisuseExplained
<1> QED BY <1>1, <1>2, <1>3, <1>4, <1>5, <1>6, <1>7

\* The socket, or the -1 that is only logged.
LEMMA ConnectStep == IInv /\ Connect => IInv'
<1> SUFFICES ASSUME IInv, Connect PROVE IInv'
  OBVIOUS
<1> USE DEF IInv, Connect, objVars, histVars, Goto
<1>1. TypeInv'
  BY DEF TypeInv, HeapInv, Contents
<1>2. HeapInv'
  BY DEF TypeInv, HeapInv
<1>3. LoadInv' /\ RefusedInv'
  BY DEF TypeInv, HeapInv, LoadInv, Loaded, RefusedInv
<1>4. PollInv'
  BY DEF TypeInv, HeapInv, LoadInv, Loaded, PollInv, Complete
<1>5. FreedOnce' /\ FailureReleases'
  BY DEF TypeInv, HeapInv, PollInv, FreedOnce, FailureReleases
<1>6. ServedComplete'
  BY DEF TypeInv, HeapInv, PollInv, Complete, ServedComplete
<1>7. MisuseExplained'
  BY DEF TypeInv, HeapInv, PollInv, RefusedInv, MisuseExplained
<1> QED BY <1>1, <1>2, <1>3, <1>4, <1>5, <1>6, <1>7

\* main() polls whatever atiny_connect returned.
LEMMA PollStep == IInv /\ Poll => IInv'
<1> SUFFICES ASSUME IInv, Poll PROVE IInv'
  OBVIOUS
<1> USE DEF IInv, Poll, objVars, Misuse, Goto
<1>1. TypeInv'
  BY DEF TypeInv, HeapInv, Contents
<1>2. HeapInv'
  BY DEF TypeInv, HeapInv
<1>3. LoadInv' /\ RefusedInv'
  BY DEF TypeInv, HeapInv, LoadInv, Loaded, RefusedInv
<1>4. PollInv'
  BY DEF TypeInv, HeapInv, LoadInv, Loaded, PollInv, Complete
<1>5. FreedOnce' /\ FailureReleases'
  BY DEF TypeInv, HeapInv, PollInv, FreedOnce, FailureReleases
<1>6. ServedComplete'
  BY DEF TypeInv, HeapInv, PollInv, Complete, ServedComplete
<1>7. MisuseExplained'
  <2>1. CASE conn = "null"
    BY <2>1 DEF MisuseExplained
  <2>2. CASE conn = "nc"
    <3>1. /\ mgrNc = "nc" /\ heap["nc"] = "live"
          /\ misused # "none" => refused \/ dirty \/ fd = "bad"
      BY <2>2 DEF PollInv, Complete, MisuseExplained
    <3>2. CASE fd = "bad"
      BY <3>2 DEF MisuseExplained
    <3>3. CASE fd # "bad"
      <4>1. \/ dirty'
            \/ UNCHANGED << dirty, misused >>
        BY <3>1, <3>3
      <4> QED BY <3>1, <3>3, <4>1 DEF MisuseExplained
    <3> QED BY <3>2, <3>3
  <2> QED BY <2>1, <2>2 DEF PollInv
<1> QED BY <1>1, <1>2, <1>3, <1>4, <1>5, <1>6, <1>7

\* Nothing of the start-up runs any more.
LEMMA EndedStep == IInv /\ (Ended \/ UNCHANGED vars) => IInv'
<1> SUFFICES ASSUME IInv, UNCHANGED vars PROVE IInv'
  BY DEF Ended
<1> USE DEF IInv, vars, objVars, histVars
<1>1. TypeInv' /\ HeapInv' /\ RefusedInv'
  BY DEF TypeInv, HeapInv, RefusedInv
<1>2. LoadInv' /\ PollInv'
  BY DEF LoadInv, Loaded, PollInv, Complete
<1>3. FreedOnce' /\ ServedComplete' /\ FailureReleases' /\ MisuseExplained'
  BY DEF FreedOnce, ServedComplete, FailureReleases, MisuseExplained
<1> QED BY <1>1, <1>2, <1>3

\* The invariant is inductive.
LEMMA NextInv == IInv /\ [Next]_vars => IInv'
BY AtinyInitStep, AllocNcStep, AllocBufsStep, ParseAddressStep, AllocContextsStep,
   InitContextsStep, SeedStep, LoadCaStep, LoadCertStep, LoadKeyStep,
   OwnCertStep, SetupStep, SetHostnameStep, SslExitStep, ReleaseStep,
   ConnectStep, PollStep,
   EndedStep DEF Next

\* Whichever allocation or call of the start-up fails, no block is freed
\* twice (atiny_ssl_init and atiny_connect each release their own).
THEOREM NoDoubleFree == Spec => []FreedOnce
<1>1. IInv => FreedOnce
  BY DEF IInv
<1> QED BY <1>1, InitInv, NextInv, PTL DEF Spec

\* When atiny_connect returns NULL, everything it allocated is released, but
\* for the listed parts.
THEOREM FailureCleansUp == Spec => []FailureReleases
<1>1. IInv => FailureReleases
  BY DEF IInv
<1> QED BY <1>1, InitInv, NextInv, PTL DEF Spec

\* A connection that main() comes to poll without a misuse of memory is
\* complete: what AtinySock assumes of its initial state.
THEOREM ServedIsComplete == Spec => []ServedComplete
<1>1. IInv => ServedComplete
  BY DEF IInv
<1> QED BY <1>1, InitInv, NextInv, PTL DEF Spec

\* There is no misuse of memory in the start-up but for the four causes.
THEOREM MisuseHasCause == Spec => []MisuseExplained
<1>1. IInv => MisuseExplained
  BY DEF IInv
<1> QED BY <1>1, InitInv, NextInv, PTL DEF Spec
=============================================================================
