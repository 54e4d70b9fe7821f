---------------------------- MODULE TlsClientProofs ----------------------------
(***************************************************************************)
(* What holds of TlsClient for every value of the constants: ReadInOrder,  *)
(* whatever the server sends is handed over once and in order; InStep, the *)
(* two ends stay in step; WrittenOnce, what is written is sent once.       *)
(***************************************************************************)
EXTENDS TlsLockstep, SequenceTheorems, NatSets

\* What a record holds.
LEMMA DataType ==
    ASSUME NEW r \in Records
    PROVE  /\ DataOf(r) \in Seq(Infos)
           /\ r.ct = "data" => /\ Info(r) \in Infos
                               /\ Name(r) = "data"
                               /\ DataOf(r) = << Info(r) >>
           /\ r.ct # "data" => DataOf(r) = << >>
<1>1. r.msgs \in Seq(Messages)
  BY DEF Records
<1>2. r.ct = "data" => Info(r) \in Infos /\ Name(r) = "data"
  <2> SUFFICES ASSUME r.ct = "data" PROVE Info(r) \in Infos /\ Name(r) = "data"
    OBVIOUS
  <2>1. Len(r.msgs) = 1 /\ Name(r) = "data"
    BY DEF Records
  <2>2. r.msgs # << >>
    BY <2>1
  <2>3. Head(r.msgs) \in Messages
    BY <1>1, <2>2, HeadTailProperties
  <2> QED BY <2>1, <2>3 DEF Info, Messages
<1> QED BY <1>2 DEF DataOf

-----------------------------------------------------------------------------
(* What a sequence of records holds.                                       *)

\* f[i] is what the first i records hold, up to the first k.
Collects(f, k, s) ==
    f = [i \in 0..k |-> IF i = 0 THEN << >> ELSE f[i - 1] \o DataOf(s[i])]

\* There is such a function (the recursion is well founded).
LEMMA CollectExists ==
    ASSUME NEW s
    PROVE  \A k \in Nat : \E f : Collects(f, k, s)
<1> DEFINE S == {k \in Nat : \E f : Collects(f, k, s)}
<1>1. 0 \in S
  <2>1. Collects([i \in 0..0 |-> << >>], 0, s)
    BY DEF Collects
  <2> QED BY <2>1
<1>2. ASSUME NEW k \in Nat, k \in S PROVE k + 1 \in S
  <2>1. PICK f : Collects(f, k, s)
    BY <1>2
  <2> DEFINE g == [i \in 0 .. k + 1 |->
                     IF i = 0 THEN << >> ELSE f[i - 1] \o DataOf(s[i])]
  <2>2. \A i \in 0..k : g[i] = f[i]
    BY <2>1 DEF Collects
  <2>3. \A i \in 0 .. k + 1 : i # 0 => i - 1 \in 0..k
    OBVIOUS
  <2>4. \A i \in 0 .. k + 1 : i # 0 => g[i - 1] = f[i - 1]
    BY <2>2, <2>3
  <2>5. g = [i \in 0 .. k + 1 |->
               IF i = 0 THEN << >> ELSE g[i - 1] \o DataOf(s[i])]
    BY <2>4
  <2> HIDE DEF g
  <2> QED BY <2>5 DEF Collects
<1> HIDE DEF S
<1>3. \A k \in Nat : k \in S
  BY <1>1, <1>2, SetInduction
<1> QED BY <1>3 DEF S

\* What the records hold is the last value of that function.
LEMMA DataIs ==
    ASSUME NEW s \in Seq(Records)
    PROVE  \E f : Collects(f, Len(s), s) /\ DataIn(s) = f[Len(s)]
<1> DEFINE f == CHOOSE g : Collects(g, Len(s), s)
<1>1. Collects(f, Len(s), s)
  BY CollectExists, LenProperties
<1>2. DataIn(s) = f[Len(s)]
  BY DEF DataIn, Collects
<1> QED BY <1>1, <1>2

\* One step of the function, and its type.
LEMMA CollectSteps ==
    ASSUME NEW s \in Seq(Records), NEW f, Collects(f, Len(s), s)
    PROVE  /\ f[0] = << >>
           /\ \A i \in 0 .. Len(s) - 1 : f[i + 1] = f[i] \o DataOf(s[i + 1])
           /\ \A i \in 0..Len(s) : f[i] \in Seq(Infos)
<1>0. Len(s) \in Nat
  BY LenProperties
<1>1. f[0] = << >>
  BY <1>0 DEF Collects
<1>2. ASSUME NEW i \in 0 .. Len(s) - 1
      PROVE  f[i + 1] = f[i] \o DataOf(s[i + 1])
  <2>1. i + 1 \in 0..Len(s) /\ i + 1 # 0 /\ (i + 1) - 1 = i
    BY <1>0
  <2> QED BY <2>1 DEF Collects
<1> DEFINE S == {i \in Nat : i <= Len(s) => f[i] \in Seq(Infos)}
<1>3. 0 \in S
  <2>1. << >> \in Seq(Infos)
    OBVIOUS
  <2> QED BY <1>1, <2>1
<1>4. ASSUME NEW i \in Nat, i \in S PROVE i + 1 \in S
  <2> SUFFICES ASSUME i + 1 <= Len(s) PROVE f[i + 1] \in Seq(Infos)
    OBVIOUS
  <2>1. i \in 0 .. Len(s) - 1 /\ i + 1 \in 1..Len(s)
    BY <1>0
  <2>2. DataOf(s[i + 1]) \in Seq(Infos)
    BY <2>1, ElementOfSeq, DataType
  <2>3. f[i] \in Seq(Infos)
    BY <1>0, <1>4, <2>1
  <2>4. f[i] \o DataOf(s[i + 1]) \in Seq(Infos)
    BY <2>2, <2>3, ConcatProperties
  <2> QED BY <1>2, <2>1, <2>4
<1> HIDE DEF S
<1>5. \A i \in Nat : i \in S
  BY <1>3, <1>4, SetInduction
<1>6. \A i \in 0..Len(s) : f[i] \in Seq(Infos)
  BY <1>0, <1>5 DEF S
<1> QED BY <1>1, <1>2, <1>6

\* Nothing holds nothing.
LEMMA DataNone == DataIn(<< >>) = << >>
<1>1. << >> \in Seq(Records) /\ Len(<< >>) = 0
  OBVIOUS
<1> DEFINE e == << >>
<1>2. PICK f : Collects(f, Len(e), e) /\ DataIn(e) = f[Len(e)]
  BY <1>1, DataIs
<1> QED BY <1>1, <1>2, CollectSteps

LEMMA DataInType ==
    ASSUME NEW s \in Seq(Records)
    PROVE  DataIn(s) \in Seq(Infos)
<1>1. PICK f : Collects(f, Len(s), s) /\ DataIn(s) = f[Len(s)]
  BY DataIs
<1>2. Len(s) \in 0..Len(s)
  BY LenProperties
<1> QED BY <1>1, <1>2, CollectSteps

\* Concatenation of what is held.
LEMMA Associates ==
    \A d, x, y \in Seq(Infos) :
       d \o x \in Seq(Infos) /\ (d \o x) \o y = d \o (x \o y)
<1> TAKE d, x, y \in Seq(Infos)
<1> QED BY ConcatProperties, ConcatAssociative

\* What a sequence holds that follows another.
LEMMA DataConcat ==
    ASSUME NEW s \in Seq(Records), NEW t \in Seq(Records)
    PROVE  /\ s \o t \in Seq(Records)
           /\ DataIn(s \o t) = DataIn(s) \o DataIn(t)
<1> DEFINE u == s \o t
<1>1. /\ u \in Seq(Records) /\ Len(u) = Len(s) + Len(t)
      /\ Len(s) \in Nat /\ Len(t) \in Nat
      /\ \A i \in 1..Len(s) : u[i] = s[i]
      /\ \A i \in 1..Len(t) : u[Len(s) + i] = t[i]
  BY ConcatProperties, LenProperties
<1> HIDE DEF u
<1>2. PICK f : Collects(f, Len(s), s) /\ DataIn(s) = f[Len(s)]
  BY DataIs
<1>3. PICK g : Collects(g, Len(t), t) /\ DataIn(t) = g[Len(t)]
  BY DataIs
<1>4. PICK h : Collects(h, Len(u), u) /\ DataIn(u) = h[Len(u)]
  BY <1>1, DataIs
<1>s. /\ f[0] = << >>
      /\ \A i \in 0 .. Len(s) - 1 : f[i + 1] = f[i] \o DataOf(s[i + 1])
  BY <1>2, CollectSteps
<1>t. /\ g[0] = << >>
      /\ \A i \in 0 .. Len(t) - 1 : g[i + 1] = g[i] \o DataOf(t[i + 1])
      /\ \A i \in 0..Len(t) : g[i] \in Seq(Infos)
  BY <1>3, CollectSteps
<1>u. /\ h[0] = << >>
      /\ \A i \in 0 .. Len(u) - 1 : h[i + 1] = h[i] \o DataOf(u[i + 1])
  BY <1>1, <1>4, CollectSteps
<1>5. \A i \in Nat : i <= Len(s) => h[i] = f[i]
  <2> DEFINE S == {i \in Nat : i <= Len(s) => h[i] = f[i]}
  <2>1. 0 \in S
    BY <1>s, <1>u
  <2>2. ASSUME NEW i \in Nat, i \in S PROVE i + 1 \in S
    <3> SUFFICES ASSUME i + 1 <= Len(s) PROVE h[i + 1] = f[i + 1]
      OBVIOUS
    <3>1. /\ i \in 0 .. Len(s) - 1 /\ i \in 0 .. Len(u) - 1
          /\ i + 1 \in 1..Len(s)
      BY <1>1
    <3>2. h[i] = f[i]
      BY <2>2, <3>1
    <3>3. u[i + 1] = s[i + 1]
      BY <1>1, <3>1
    <3>4. f[i + 1] = f[i] \o DataOf(s[i + 1])
      BY <1>s, <3>1
    <3>5. h[i + 1] = h[i] \o DataOf(u[i + 1])
      BY <1>u, <3>1
    <3> QED BY <3>2, <3>3, <3>4, <3>5
  <2> HIDE DEF S
  <2>3. \A i \in Nat : i \in S
    BY <2>1, <2>2, SetInduction
  <2> QED BY <2>3 DEF S
<1>6. DataIn(s) \in Seq(Infos) /\ h[Len(s)] = DataIn(s)
  BY <1>1, <1>2, <1>5, DataInType
<1> DEFINE d == DataIn(s)
<1>7. d \in Seq(Infos) /\ h[Len(s)] = d
  BY <1>6
<1> HIDE DEF d
<1>8. \A i \in Nat : i <= Len(t) => h[Len(s) + i] = d \o g[i]
  <2> DEFINE S == {i \in Nat : i <= Len(t) => h[Len(s) + i] = d \o g[i]}
  <2>1. 0 \in S
    <3>1. Len(s) + 0 = Len(s)
      BY <1>1
    <3>2. d \o << >> = d
      BY <1>7, ConcatEmptySeq
    <3> QED BY <3>1, <3>2, <1>7, <1>t
  <2>2. ASSUME NEW i \in Nat, i \in S PROVE i + 1 \in S
    <3> SUFFICES ASSUME i + 1 <= Len(t)
                 PROVE  h[Len(s) + (i + 1)] = d \o g[i + 1]
      OBVIOUS
    <3>1. /\ i \in 0 .. Len(t) - 1 /\ i + 1 \in 1..Len(t) /\ i \in 0..Len(t)
          /\ Len(s) + i \in 0 .. Len(u) - 1
          /\ (Len(s) + i) + 1 = Len(s) + (i + 1)
      BY <1>1
    <3>2. h[Len(s) + i] = d \o g[i]
      BY <2>2, <3>1
    <3>3. u[Len(s) + (i + 1)] = t[i + 1]
      BY <1>1, <3>1
    <3>4. g[i + 1] = g[i] \o DataOf(t[i + 1])
      BY <1>t, <3>1
    <3>5. h[Len(s) + (i + 1)] = h[Len(s) + i] \o DataOf(u[Len(s) + (i + 1)])
      BY <1>u, <3>1
    <3>6. g[i] \in Seq(Infos) /\ DataOf(t[i + 1]) \in Seq(Infos)
      BY <1>t, <3>1, ElementOfSeq, DataType
    <3>7. (d \o g[i]) \o DataOf(t[i + 1]) = d \o (g[i] \o DataOf(t[i + 1]))
      BY <1>7, <3>6, Associates
    <3> QED BY <3>2, <3>3, <3>4, <3>5, <3>7
  <2> HIDE DEF S
  <2>3. \A i \in Nat : i \in S
    BY <2>1, <2>2, SetInduction
  <2> QED BY <2>3 DEF S
<1>9. DataIn(u) = d \o DataIn(t)
  <2>1. h[Len(s) + Len(t)] = d \o g[Len(t)]
    BY <1>1, <1>8
  <2> QED BY <1>1, <1>3, <1>4, <2>1
<1> QED BY <1>1, <1>9 DEF d, u

\* What one record holds.
LEMMA DataOne ==
    ASSUME NEW r \in Records
    PROVE  << r >> \in Seq(Records) /\ DataIn(<< r >>) = DataOf(r)
<1>1. << r >> \in Seq(Records) /\ Len(<< r >>) = 1 /\ << r >>[1] = r
  OBVIOUS
<1> DEFINE s == << r >>
<1>2. PICK f : Collects(f, Len(s), s) /\ DataIn(s) = f[Len(s)]
  BY <1>1, DataIs
<1>3. f[0] = << >> /\ f[0 + 1] = f[0] \o DataOf(s[0 + 1])
  <2>1. 0 \in 0 .. Len(s) - 1 /\ s \in Seq(Records)
    BY <1>1
  <2> HIDE DEF s
  <2> QED BY <1>2, <2>1, CollectSteps
<1>4. << >> \o DataOf(r) = DataOf(r)
  BY DataType, ConcatEmptySeq
<1>5. 0 + 1 = 1
  OBVIOUS
<1> QED BY <1>1, <1>2, <1>3, <1>4, <1>5

\* The first record, and the rest.
LEMMA DataHead ==
    ASSUME NEW s \in Seq(Records), s # << >>
    PROVE  /\ Head(s) \in Records /\ Tail(s) \in Seq(Records)
           /\ DataIn(s) = DataOf(Head(s)) \o DataIn(Tail(s))
<1>1. Head(s) \in Records /\ Tail(s) \in Seq(Records)
  BY HeadTailProperties
<1>2. s = << Head(s) >> \o Tail(s)
  OBVIOUS
<1>3. DataIn(<< Head(s) >> \o Tail(s)) = DataIn(<< Head(s) >>) \o DataIn(Tail(s))
  BY <1>1, DataOne, DataConcat, Zenon
<1> QED BY <1>1, <1>2, <1>3, DataOne

\* Records without data.
LEMMA DataFree ==
    ASSUME NEW s \in Seq(Records), \A i \in 1..Len(s) : s[i].ct # "data"
    PROVE  DataIn(s) = << >>
<1>0. Len(s) \in Nat
  BY LenProperties
<1>1. PICK f : Collects(f, Len(s), s) /\ DataIn(s) = f[Len(s)]
  BY DataIs
<1>2. /\ f[0] = << >>
      /\ \A i \in 0 .. Len(s) - 1 : f[i + 1] = f[i] \o DataOf(s[i + 1])
  BY <1>1, CollectSteps
<1> DEFINE S == {i \in Nat : i <= Len(s) => f[i] = << >>}
<1>3. 0 \in S
  BY <1>2
<1>4. ASSUME NEW i \in Nat, i \in S PROVE i + 1 \in S
  <2> SUFFICES ASSUME i + 1 <= Len(s) PROVE f[i + 1] = << >>
    OBVIOUS
  <2>1. i \in 0 .. Len(s) - 1 /\ i + 1 \in 1..Len(s)
    BY <1>0
  <2>2. DataOf(s[i + 1]) = << >>
    BY <2>1 DEF DataOf
  <2>3. f[i] = << >>
    BY <1>0, <1>4, <2>1
  <2>4. << >> \o << >> = << >>
    OBVIOUS
  <2> QED BY <1>2, <2>1, <2>2, <2>3, <2>4
<1> HIDE DEF S
<1>5. \A i \in Nat : i \in S
  BY <1>3, <1>4, SetInduction
<1> QED BY <1>0, <1>1, <1>5 DEF S

-----------------------------------------------------------------------------
(* The inductive invariant: the types of what is read, that what is read   *)
(* in halves is data, and ReadInOrder.                                     *)

ServerInv ==
    /\ srvHash \in Seq(MessageNames) /\ srvSuite \in Suites
    /\ srvIn \in Nat /\ srvOut \in Nat /\ sent \in Nat

InputInv ==
    /\ toClient \in Seq(Records) /\ cur \in Records
    /\ keep \in BOOLEAN /\ offt \in BOOLEAN
    /\ delivered \in Seq(Infos)
    /\ offt => cur.ct = "data"

ReadInv == ServerInv /\ seen \in Nat /\ InputInv /\ ReadInOrder

\* What is left to hand over.
Kept == IF keep \/ offt THEN DataOf(cur) ELSE << >>
Left == Kept \o DataIn(toClient)

\* ReadInOrder, before and after a step.
LEMMA InOrderIs ==
    ASSUME InputInv
    PROVE  ReadInOrder <=> (api # "failed" => delivered \o Left = UpTo(sent))
<1>1. delivered \in Seq(Infos) /\ Kept \in Seq(Infos) /\ DataIn(toClient) \in Seq(Infos)
  <2>1. << >> \in Seq(Infos)
    OBVIOUS
  <2> QED BY <2>1, DataType, DataInType DEF InputInv, Kept
<1>2. (delivered \o Kept) \o DataIn(toClient) = delivered \o (Kept \o DataIn(toClient))
  BY <1>1, Associates
<1> QED BY <1>2, Zenon DEF ReadInOrder, Kept, Left

LEMMA InOrderNext ==
    ASSUME InputInv', api' # "failed" => delivered' \o Left' = UpTo(sent')
    PROVE  ReadInOrder'
<1> DEFINE d == delivered'
           x == Kept'
           y == DataIn(toClient')
<1>1. d \in Seq(Infos) /\ x \in Seq(Infos) /\ y \in Seq(Infos)
  <2>1. << >> \in Seq(Infos)
    OBVIOUS
  <2> QED BY <2>1, DataType, DataInType DEF InputInv, Kept
<1>2. Left' = x \o y
  BY DEF Left
<1>3. ReadInOrder' <=> (api' # "failed" => (d \o x) \o y = UpTo(sent'))
  BY DEF ReadInOrder, Kept
<1> HIDE DEF d, x, y
<1>4. (d \o x) \o y = d \o (x \o y)
  BY <1>1, Associates
<1> QED BY <1>2, <1>3, <1>4 DEF d

-----------------------------------------------------------------------------
(* The client.                                                             *)

\* Nothing is read.
LEMMA ReadStays ==
    ASSUME ReadInv, api # "failed",
           UNCHANGED << cur, keep, offt, delivered, toClient, sent >>
    PROVE  InputInv' /\ ReadInOrder'
BY DEF ReadInv, InputInv, ReadInOrder

\* mbedtls_ssl_read_record neither loses nor repeats data.
LEMMA ObtainedData ==
    ASSUME InputInv, NEW o \in Obtained
    PROVE  /\ o.rec \in Records /\ o.rest \in Seq(Records)
           /\ Left = DataOf(o.rec) \o DataIn(o.rest)
           /\ offt => o.rec = cur
<1>0. << >> \o DataIn(toClient) = DataIn(toClient)
  BY DataInType, ConcatEmptySeq DEF InputInv
<1>1. CASE keep \/ offt
  <2>1. o = [rec |-> cur, hash |-> hash, rest |-> toClient]
    BY <1>1 DEF Obtained, Exhausted
  <2>2. o.rec = cur /\ o.rest = toClient
    BY <2>1
  <2>3. Left = DataOf(cur) \o DataIn(toClient)
    BY <1>1, Zenon DEF Left, Kept
  <2> QED BY <2>2, <2>3 DEF InputInv
<1>2. CASE ~(keep \/ offt) /\ Exhausted
  <2>1. o \in Fetched
    BY <1>2 DEF Obtained
  <2>2. /\ toClient # << >>
        /\ o.rec = Head(toClient) /\ o.rest = Tail(toClient)
    BY <2>1 DEF Fetched, Obtains
  <2>3. Left = DataIn(toClient)
    BY <1>0, <1>2 DEF Left, Kept
  <2> QED BY <1>2, <2>2, <2>3, DataHead DEF InputInv
<1>3. CASE ~(keep \/ offt) /\ ~Exhausted
  <2>1. /\ o.rec = [cur EXCEPT !.msgs = Tail(@)] /\ o.rest = toClient
        /\ ~(Len(cur.msgs) <= 1)
    BY <1>3 DEF Obtained, Obtains, Exhausted
  <2>2. cur.msgs \in Seq(Messages) /\ cur.ct # "data"
    BY <2>1 DEF InputInv, Records
  <2>3. Tail(cur.msgs) \in Seq(Messages)
    <3>1. cur.msgs # << >>
      BY <2>1
    <3> QED BY <2>2, <3>1, HeadTailProperties
  <2>4. o.rec \in Records /\ o.rec.ct # "data"
    BY <2>1, <2>2, <2>3 DEF InputInv, Records
  <2>5. DataOf(o.rec) = << >>
    BY <2>4, DataType
  <2>6. Left = DataIn(toClient)
    BY <1>0, <1>3 DEF Left, Kept
  <2> QED BY <1>0, <1>3, <2>1, <2>4, <2>5, <2>6 DEF InputInv
<1> QED BY <1>1, <1>2, <1>3

\* What is read is kept, or no data, or the call fails.
LEMMA ReadKept ==
    ASSUME ReadInv, api # "failed", NEW o \in Obtained, Takes(o),
           keep' \in BOOLEAN, UNCHANGED << offt, delivered, sent >>,
           keep' \/ o.rec.ct # "data" \/ api' = "failed"
    PROVE  InputInv' /\ ReadInOrder'
<1>0. InputInv /\ ReadInOrder
  BY DEF ReadInv
<1>1. /\ o.rec \in Records /\ o.rest \in Seq(Records)
      /\ Left = DataOf(o.rec) \o DataIn(o.rest)
      /\ offt => o.rec = cur
  BY <1>0, ObtainedData
<1>2. cur' = o.rec /\ toClient' = o.rest
  BY DEF Takes
<1>3. InputInv'
  BY <1>0, <1>1, <1>2 DEF InputInv
<1>4. ASSUME api' # "failed"
      PROVE  Left' = DataOf(o.rec) \o DataIn(o.rest)
  <2>1. CASE keep'
    BY <1>2, <2>1 DEF Left, Kept
  <2>2. CASE o.rec.ct # "data"
    <3>1. DataOf(o.rec) = << >>
      BY <1>1, <2>2, DataType
    <3> QED BY <1>2, <3>1 DEF Left, Kept
  <2> QED BY <1>4, <2>1, <2>2
<1>5. delivered \o Left = UpTo(sent)
  BY <1>0, InOrderIs
<1> QED BY <1>1, <1>3, <1>4, <1>5, InOrderNext

\* Data is handed over, whole or half of it.
LEMMA ReadHandsOver ==
    ASSUME ReadInv, api # "failed", NEW o \in Obtained,
           cur' = o.rec, toClient' = o.rest, o.rec.ct = "data",
           HandOver(o.rec), UNCHANGED sent
    PROVE  InputInv' /\ ReadInOrder'
<1>0. InputInv /\ ReadInOrder
  BY DEF ReadInv
<1>1. /\ o.rec \in Records /\ o.rest \in Seq(Records)
      /\ Left = DataOf(o.rec) \o DataIn(o.rest)
  BY <1>0, ObtainedData
<1>2. DataOf(o.rec) = << Info(o.rec) >> /\ Info(o.rec) \in Infos
  BY <1>1, DataType
<1>3. delivered \o Left = UpTo(sent)
  BY <1>0, InOrderIs
<1>4. DataIn(o.rest) \in Seq(Infos) /\ delivered \in Seq(Infos)
  BY <1>0, <1>1, DataInType DEF InputInv
<1>5. CASE delivered' = Append(delivered, Info(o.rec)) /\ offt' = FALSE
  <2> DEFINE i == Info(o.rec)
             y == DataIn(o.rest)
             d == delivered
  <2>1. i \in Infos /\ y \in Seq(Infos) /\ d \in Seq(Infos) /\ << i >> \in Seq(Infos)
    BY <1>2, <1>4
  <2>2. Left' = << >> \o y
    BY <1>5 DEF Left, Kept, HandOver
  <2>3. delivered' = Append(d, i)
    BY <1>5
  <2>4. d \o (<< i >> \o y) = UpTo(sent)
    BY <1>1, <1>2, <1>3
  <2>5. keep' = FALSE /\ offt' = FALSE
    BY <1>5 DEF HandOver
  <2> HIDE DEF i, y
  <2>6. Append(d, i) = d \o << i >> /\ Append(d, i) \in Seq(Infos)
    BY <2>1, AppendIsConcat, AppendProperties
  <2>7. (d \o << i >>) \o y = d \o (<< i >> \o y) /\ << >> \o y = y
    BY <2>1, Associates, ConcatEmptySeq
  <2>8. InputInv'
    BY <1>1, <2>3, <2>5, <2>6 DEF InputInv
  <2> QED BY <2>2, <2>3, <2>4, <2>6, <2>7, <2>8, InOrderNext
<1>6. CASE offt' = TRUE /\ UNCHANGED delivered
  <2>1. keep' = FALSE
    BY DEF HandOver
  <2>2. InputInv'
    BY <1>1, <1>4, <1>6, <2>1 DEF InputInv
  <2>3. Left' = DataOf(o.rec) \o DataIn(o.rest)
    BY <1>6 DEF Left, Kept
  <2> QED BY <1>1, <1>3, <1>6, <2>2, <2>3, InOrderNext
<1> QED BY <1>5, <1>6 DEF HandOver

\* An alert is skipped, or the call fails.
LEMMA AlertRead ==
    ASSUME ReadInv, AlertOrBad, UNCHANGED sent
    PROVE  InputInv' /\ ReadInOrder'
<1>0. InputInv /\ ReadInOrder
  BY DEF ReadInv
<1>1. /\ toClient # << >> /\ api # "failed" /\ keep = FALSE /\ offt = FALSE
      /\ cur' = Head(toClient) /\ toClient' = Tail(toClient)
      /\ UNCHANGED << keep, offt, delivered >>
  BY <1>0 DEF AlertOrBad, Fetching, Exhausted, Stepping, InCall, InputInv, input
<1>2. /\ Head(toClient) \in Records /\ Tail(toClient) \in Seq(Records)
      /\ DataIn(toClient) = DataOf(Head(toClient)) \o DataIn(Tail(toClient))
  BY <1>0, <1>1, DataHead DEF InputInv
<1>3. InputInv'
  BY <1>0, <1>1, <1>2 DEF InputInv
<1>4. ASSUME api' # "failed"
      PROVE  DataOf(Head(toClient)) = << >>
  <2>1. Name(Head(toClient)) \in {"warning", "fatal"}
    BY <1>4 DEF AlertOrBad, Fail
  <2> QED BY <1>2, <2>1, DataType
<1>5. delivered \o Left = UpTo(sent)
  BY <1>0, <1>1, InOrderIs
<1>6. ASSUME api' # "failed"
      PROVE  Left = Left'
  <2>1. DataIn(Tail(toClient)) \in Seq(Infos)
    BY <1>2, DataInType
  <2>2. << >> \o DataIn(Tail(toClient)) = DataIn(Tail(toClient))
    BY <2>1, ConcatEmptySeq
  <2> QED BY <1>1, <1>2, <1>4, <1>6, <2>2 DEF Left, Kept
<1> QED BY <1>1, <1>3, <1>5, <1>6, InOrderNext

\* A message of the handshake is read: it is no data.
LEMMA Parsed ==
    ASSUME ReadInv, InCall, UNCHANGED << offt, delivered, sent >>, keep' = FALSE,
           NEW o \in Obtained, Takes(o), o.rec.ct # "data" \/ api' = "failed"
    PROVE  InputInv' /\ ReadInOrder'
BY ReadKept DEF InCall

LEMMA ClientReads ==
    ASSUME ReadInv, Client, UNCHANGED sent
    PROVE  InputInv' /\ ReadInOrder'
<1>s. ASSUME NEW s, NEW c, Skip(s, c) PROVE InputInv' /\ ReadInOrder'
  <2>1. api # "failed" /\ UNCHANGED << cur, keep, offt, delivered, toClient, sent >>
    BY <1>s DEF Skip, Stepping, InCall, input
  <2> QED BY <2>1, ReadStays
<1>w. ASSUME NEW s, NEW m, NEW info, NEW key, WriteMessage(s, m, info, key)
      PROVE  InputInv' /\ ReadInOrder'
  <2>1. api # "failed" /\ UNCHANGED << cur, keep, offt, delivered, toClient, sent >>
    BY <1>w DEF WriteMessage, Stepping, InCall
  <2> QED BY <2>1, ReadStays
<1>1. CASE FlushOutput
  <2>1. api # "failed" /\ UNCHANGED << cur, keep, offt, delivered, toClient, sent >>
    BY <1>1 DEF FlushOutput, InCall, input
  <2> QED BY <2>1, ReadStays
<1>2. CASE AlertOrBad
  BY <1>2, AlertRead
<1>3. CASE HelloRequest \/ FlushBuffers
  BY <1>3, <1>s DEF HelloRequest, FlushBuffers
<1>4. CASE WriteClientHello \/ WriteClientKeyExchange \/ WriteFinished
  BY <1>4, <1>w DEF WriteClientHello, WriteClientKeyExchange, WriteFinished
<1>5. CASE ParseServerHello
  <2> DEFINE between(o) == o.rec.ct # "handshake" /\ renego = "in_progress"
  <2>0. PICK o \in Obtained :
          /\ Takes(o)
          /\ seen' = (IF between(o) THEN seen + 1 ELSE seen)
          /\ keep' = (between(o) /\ seen' <= RenegoMaxRecords)
          /\ CASE between(o) /\ seen' > RenegoMaxRecords -> api' = "failed"
               [] between(o) /\ seen' <= RenegoMaxRecords -> TRUE
               [] ~between(o) /\ Name(o.rec) # "ServerHello" -> api' = "failed"
               [] OTHER -> TRUE
    BY <1>5 DEF ParseServerHello, Fail
  <2>1. keep' \/ Name(o.rec) = "ServerHello" \/ api' = "failed"
    <3>1. seen' <= RenegoMaxRecords \/ seen' > RenegoMaxRecords
      BY <2>0, TlsAssumption DEF ReadInv, TlsAssumption
    <3> QED BY <2>0, <3>1
  <2>2. api # "failed" /\ UNCHANGED << offt, delivered, sent >>
    BY <1>5 DEF ParseServerHello, Stepping, InCall
  <2>3. o.rec \in Records
    BY ObtainedData DEF ReadInv
  <2>4. keep' \/ o.rec.ct # "data" \/ api' = "failed"
    BY <2>1, <2>3, DataType
  <2>5. keep' \in BOOLEAN
    BY <2>0
  <2> QED BY <2>0, <2>2, <2>4, <2>5, ReadKept
<1>6. CASE ParseCertificate
  <2>1. PICK o \in Obtained : Takes(o) /\ (o.rec.ct # "data" \/ api' = "failed")
    BY <1>6 DEF ParseCertificate, Parse, Fail
  <2>2. InCall /\ keep' = FALSE /\ UNCHANGED << offt, delivered, sent >>
    BY <1>6 DEF ParseCertificate, Parse, Stepping
  <2> QED BY <2>1, <2>2, Parsed
<1>7. CASE ParseServerKeyExchange
  <2>1. CASE Skip("SERVER_KEY_EXCHANGE", ~suite.ske)
    BY <2>1, <1>s
  <2>2. CASE ~Skip("SERVER_KEY_EXCHANGE", ~suite.ske)
    <3>1. PICK o \in Obtained : Takes(o) /\ (o.rec.ct # "data" \/ api' = "failed")
      BY <1>7, <2>2 DEF ParseServerKeyExchange, Parse, Fail
    <3>2. InCall /\ keep' = FALSE /\ UNCHANGED << offt, delivered, sent >>
      BY <1>7, <2>2 DEF ParseServerKeyExchange, Parse, Stepping
    <3> QED BY <3>1, <3>2, Parsed
  <2> QED BY <2>1, <2>2
<1>8. CASE ParseCertificateRequest
  <2>1. PICK o \in Obtained :
          /\ Takes(o)
          /\ o.rec.ct # "data" \/ api' = "failed"
          /\ keep' \in BOOLEAN
    BY <1>8 DEF ParseCertificateRequest, Fail
  <2>2. api # "failed" /\ UNCHANGED << offt, delivered, sent >>
    BY <1>8 DEF ParseCertificateRequest, Stepping, InCall
  <2> QED BY <2>1, <2>2, ReadKept
<1>9. CASE ParseServerHelloDone
  <2>1. PICK o \in Obtained : Takes(o) /\ (o.rec.ct # "data" \/ api' = "failed")
    BY <1>9 DEF ParseServerHelloDone, Parse, Fail
  <2>2. InCall /\ keep' = FALSE /\ UNCHANGED << offt, delivered, sent >>
    BY <1>9 DEF ParseServerHelloDone, Parse, Stepping
  <2> QED BY <2>1, <2>2, Parsed
<1>10. CASE WriteCertificate \/ WriteCertificateVerify
  BY <1>10, <1>s, <1>w DEF WriteCertificate, WriteCertificateVerify
<1>11. CASE WriteChangeCipherSpec
  <2>1. api # "failed" /\ UNCHANGED << cur, keep, offt, delivered, toClient, sent >>
    BY <1>11 DEF WriteChangeCipherSpec, Stepping, InCall, input
  <2> QED BY <2>1, ReadStays
<1>12. CASE ParseNewSessionTicket
  <2>1. PICK o \in Obtained : Takes(o) /\ (o.rec.ct # "data" \/ api' = "failed")
    BY <1>12 DEF ParseNewSessionTicket, Parse, Fail
  <2>2. InCall /\ keep' = FALSE /\ UNCHANGED << offt, delivered, sent >>
    BY <1>12 DEF ParseNewSessionTicket, Parse, Stepping
  <2> QED BY <2>1, <2>2, Parsed
<1>13. CASE ParseChangeCipherSpec
  <2>1. PICK o \in Obtained : Takes(o) /\ (o.rec.ct # "data" \/ api' = "failed")
    BY <1>13 DEF ParseChangeCipherSpec, Parse, Fail
  <2>2. InCall /\ keep' = FALSE /\ UNCHANGED << offt, delivered, sent >>
    BY <1>13 DEF ParseChangeCipherSpec, Parse, Stepping
  <2> QED BY <2>1, <2>2, Parsed
<1>14. CASE ParseFinished
  <2>1. PICK o \in Obtained : Takes(o) /\ (o.rec.ct # "data" \/ api' = "failed")
    BY <1>14 DEF ParseFinished, Parse, Fail
  <2>2. InCall /\ keep' = FALSE /\ UNCHANGED << offt, delivered, sent >>
    BY <1>14 DEF ParseFinished, Parse, Stepping
  <2> QED BY <2>1, <2>2, Parsed
<1>15. CASE Wrapup \/ StartRenegotiation \/ Calls \/ WriteData
  <2>1. api # "failed" /\ UNCHANGED << cur, keep, offt, delivered, toClient, sent >>
    BY <1>15 DEF Wrapup, StartRenegotiation, Calls, WriteData, Stepping, InCall, input
  <2> QED BY <2>1, ReadStays
<1>16. CASE ReadRest
  <2> DEFINE o == [rec |-> cur, hash |-> hash, rest |-> toClient]
  <2>1. o \in Obtained /\ cur' = o.rec /\ toClient' = o.rest
    BY <1>16 DEF ReadRest, Obtained, Exhausted
  <2>2. o.rec.ct = "data" /\ api # "failed" /\ HandOver(o.rec)
    BY <1>16 DEF ReadRest, ReadInv, InputInv
  <2> HIDE DEF o
  <2> QED BY <2>1, <2>2, ReadHandsOver
<1>17. CASE ReadRecord
  <2>0. api # "failed" /\ ~offt /\ keep' = FALSE
    BY <1>17 DEF ReadRecord
  <2>1. PICK o \in Obtained :
          /\ Takes(o)
          /\ \/ o.rec.ct = "data" /\ HandOver(o.rec)
             \/ o.rec.ct # "data" /\ UNCHANGED << offt, delivered >>
    BY <1>17 DEF ReadRecord, RefuseRenegotiation
  <2>2. cur' = o.rec /\ toClient' = o.rest
    BY <2>1 DEF Takes
  <2>3. CASE o.rec.ct = "data" /\ HandOver(o.rec)
    BY <2>0, <2>2, <2>3, ReadHandsOver
  <2>4. CASE o.rec.ct # "data" /\ UNCHANGED << offt, delivered >>
    BY <2>0, <2>1, <2>4, ReadKept
  <2> QED BY <2>1, <2>3, <2>4
<1> QED BY <1>1, <1>2, <1>3, <1>4, <1>5, <1>6, <1>7, <1>8, <1>9, <1>10, <1>11,
           <1>12, <1>13, <1>14, <1>15, <1>16, <1>17 DEF Client

\* The records that came in between are counted.
LEMMA ClientCounts ==
    ASSUME seen \in Nat, Client
    PROVE  seen' \in Nat
<1>1. CASE ParseServerHello
  BY <1>1 DEF ParseServerHello
<1>2. CASE Wrapup
  BY <1>2 DEF Wrapup
<1>3. CASE UNCHANGED seen
  BY <1>3
<1>4. CASE FlushOutput \/ AlertOrBad \/ Calls \/ StartRenegotiation
           \/ ReadRest \/ ReadRecord \/ WriteData
  BY <1>3, <1>4 DEF FlushOutput, AlertOrBad, Calls, StartRenegotiation, ReadRest,
                    ReadRecord, WriteData, handshake
<1>5. CASE HelloRequest \/ FlushBuffers \/ WriteClientHello \/ WriteClientKeyExchange
           \/ WriteFinished \/ WriteCertificate \/ WriteCertificateVerify
           \/ WriteChangeCipherSpec
  BY <1>3, <1>5 DEF HelloRequest, FlushBuffers, WriteClientHello, WriteFinished,
                    WriteClientKeyExchange, WriteCertificate, WriteCertificateVerify,
                    WriteChangeCipherSpec, Skip, WriteMessage
<1>6. CASE ParseCertificate \/ ParseServerKeyExchange \/ ParseCertificateRequest
           \/ ParseServerHelloDone \/ ParseNewSessionTicket
           \/ ParseChangeCipherSpec \/ ParseFinished
  BY <1>3, <1>6 DEF ParseCertificate, ParseServerKeyExchange, ParseCertificateRequest,
                    ParseServerHelloDone, ParseNewSessionTicket,
                    ParseChangeCipherSpec, ParseFinished, Parse, Skip
<1> QED BY <1>1, <1>2, <1>4, <1>5, <1>6 DEF Client

-----------------------------------------------------------------------------
(* The server.                                                             *)

\* A record of no data, and one message of a name.
LEMMA SingleRecord ==
    ASSUME NEW ct \in ContentTypes, NEW key \in Nat, NEW m \in MessageNames, NEW info \in Infos,
           ct = "data" => m = "data"
    PROVE  Record(ct, key, << Msg(m, info) >>) \in Records
<1>1. << Msg(m, info) >> \in Seq(Messages)
  BY DEF Msg, Messages
<1> QED BY <1>1 DEF Records, Record, Name, Msg

\* What it sends that is no data.
LEMMA SentNoData ==
    ASSUME ReadInv, NEW rs \in Seq(Records), \A i \in 1..Len(rs) : rs[i].ct # "data",
           Sends(rs), UNCHANGED << cur, keep, offt, delivered, api, sent >>
    PROVE  InputInv' /\ ReadInOrder'
<1>0. InputInv /\ ReadInOrder
  BY DEF ReadInv
<1>1. DataIn(rs) = << >>
  BY DataFree
<1>2. toClient' = toClient \o rs
  BY DEF Sends
<1>3. toClient \o rs \in Seq(Records) /\ DataIn(toClient \o rs) = DataIn(toClient) \o << >>
  BY <1>0, <1>1, DataConcat DEF InputInv
<1>4. DataIn(toClient') = DataIn(toClient)
  BY <1>0, <1>2, <1>3, DataInType, ConcatEmptySeq DEF InputInv
<1>5. InputInv'
  BY <1>0, <1>2, <1>3 DEF InputInv
<1>6. ReadInOrder'
  BY <1>0, <1>4 DEF ReadInOrder
<1> QED BY <1>5, <1>6

\* A packet: the next number.
LEMMA SentData ==
    ASSUME ReadInv, sent' = sent + 1,
           Sends(<< Record("data", srvOut, << Msg("data", sent + 1) >>) >>),
           UNCHANGED << cur, keep, offt, delivered, api >>
    PROVE  InputInv' /\ ReadInOrder'
<1> DEFINE r == Record("data", srvOut, << Msg("data", sent + 1) >>)
           n == sent + 1
<1>0. InputInv /\ ReadInOrder /\ sent \in Nat /\ srvOut \in Nat
  BY DEF ReadInv, ServerInv
<1>n. n \in Infos /\ n \in Nat
  BY <1>0 DEF Infos
<1>1. r \in Records
  <2>1. ASSUME NEW k \in Nat, NEW i \in Infos
        PROVE  Record("data", k, << Msg("data", i) >>) \in Records
    <3>1. "data" \in MessageNames /\ "data" \in ContentTypes
      BY DEF MessageNames, ContentTypes
    <3> QED BY <3>1, SingleRecord
  <2> QED BY <1>0, <1>n, <2>1
<1>2. DataOf(r) = << n >>
  BY DEF DataOf, Record, Info, Msg
<1>3. toClient' = toClient \o << r >>
  BY DEF Sends
<1> HIDE DEF r
<1>4. /\ toClient \o << r >> \in Seq(Records)
      /\ DataIn(toClient \o << r >>) = DataIn(toClient) \o << n >>
  BY <1>0, <1>1, <1>2, DataOne, DataConcat DEF InputInv
<1>5. InputInv'
  BY <1>0, <1>3, <1>4 DEF InputInv
<1>6. ASSUME api # "failed" PROVE delivered' \o Left' = UpTo(sent')
  <2>1. delivered \o Left = UpTo(sent)
    BY <1>0, <1>6, InOrderIs
  <2> DEFINE d == delivered
             x == Kept
             y == DataIn(toClient)
  <2>2. d \in Seq(Infos) /\ x \in Seq(Infos) /\ y \in Seq(Infos) /\ << n >> \in Seq(Infos)
    <3>1. << >> \in Seq(Infos)
      OBVIOUS
    <3> QED BY <1>0, <1>n, <3>1, DataType, DataInType DEF InputInv, Kept
  <2>3. Left' = x \o (y \o << n >>)
    BY <1>3, <1>4 DEF Left, Kept
  <2>4. d \o (x \o y) = UpTo(sent)
    BY <2>1 DEF Left
  <2>5. UpTo(sent') = UpTo(sent) \o << n >>
    BY <1>0 DEF UpTo
  <2> HIDE DEF d, x, y, n
  <2>6. /\ x \o (y \o << n >>) = (x \o y) \o << n >>
        /\ x \o y \in Seq(Infos)
    BY <2>2, Associates
  <2>7. d \o ((x \o y) \o << n >>) = (d \o (x \o y)) \o << n >>
    BY <2>2, <2>6, Associates
  <2> QED BY <2>3, <2>4, <2>5, <2>6, <2>7 DEF d
<1> QED BY <1>5, <1>6, InOrderNext

\* One record of no data.
LEMMA SentOne ==
    ASSUME ReadInv, NEW ct \in ContentTypes, ct # "data", NEW key \in Nat,
           NEW m \in MessageNames, NEW info \in Infos,
           Sends(<< Record(ct, key, << Msg(m, info) >>) >>),
           UNCHANGED << cur, keep, offt, delivered, api, sent >>
    PROVE  InputInv' /\ ReadInOrder'
<1> DEFINE r == Record(ct, key, << Msg(m, info) >>)
<1>1. r \in Records
  BY SingleRecord
<1>2. r.ct # "data"
  BY DEF Record
<1>3. Sends(<< r >>)
  OBVIOUS
<1> HIDE DEF r
<1>4. << r >> \in Seq(Records) /\ \A i \in 1..Len(<< r >>) : << r >>[i].ct # "data"
  BY <1>1, <1>2
<1> DEFINE rs == << r >>
<1>5. rs \in Seq(Records) /\ (\A i \in 1..Len(rs) : rs[i].ct # "data") /\ Sends(rs)
  BY <1>3, <1>4
<1> HIDE DEF rs
<1> QED BY <1>5, SentNoData

\* An alert, in clear or not.
LEMMA SentAlert ==
    ASSUME ReadInv, NEW m \in MessageNames, Sends(Alert(m)),
           UNCHANGED << cur, keep, offt, delivered, api, sent >>
    PROVE  InputInv' /\ ReadInOrder'
<1>1. << >> \in Infos /\ "alert" \in ContentTypes /\ srvOut \in Nat
  BY DEF Infos, ContentTypes, ReadInv, ServerInv
<1>2. Sends(<< Record("alert", srvOut, << Msg(m, << >>) >>) >>)
  BY DEF Alert
<1> QED BY <1>1, <1>2, SentOne

\* The hello flight is messages, whatever the suite.
LEMMA FlightType ==
    ASSUME NEW s \in Suites
    PROVE  Flight(s) \in Seq(Messages)
<1> DEFINE e == << >>
           one(m) == << Msg(m, e) >>
           a == << Msg("ServerHello", s), Msg("Certificate", e) >>
           b == IF s.ske THEN one("ServerKeyExchange") ELSE << >>
           c == IF s.auth THEN one("CertificateRequest") ELSE << >>
           d == one("ServerHelloDone")
<1>1. e \in Infos /\ s \in Infos
  BY DEF Infos
<1>2. \A m \in MessageNames : \A i \in Infos : Msg(m, i) \in Messages
  BY DEF Msg, Messages
<1>3. /\ a \in Seq(Messages) /\ b \in Seq(Messages)
      /\ c \in Seq(Messages) /\ d \in Seq(Messages)
  <2>1. {"ServerHello", "Certificate", "ServerKeyExchange", "CertificateRequest",
         "ServerHelloDone"} \subseteq MessageNames
    BY DEF MessageNames
  <2>2. \A m \in MessageNames : one(m) \in Seq(Messages)
    BY <1>1, <1>2
  <2>3. Msg("ServerHello", s) \in Messages /\ Msg("Certificate", e) \in Messages
    BY <1>1, <1>2, <2>1
  <2>4. a \in Seq(Messages)
    BY <2>3
  <2>5. << >> \in Seq(Messages)
    OBVIOUS
  <2> HIDE DEF one
  <2> QED BY <2>1, <2>2, <2>4, <2>5
<1>4. Flight(s) = a \o b \o c \o d
  BY DEF Flight
<1> HIDE DEF a, b, c, d
<1> QED BY <1>3, <1>4, ConcatProperties

\* The names of messages.
LEMMA NamesType ==
    ASSUME NEW msgs \in Seq(Messages)
    PROVE  Names(msgs) \in Seq(MessageNames)
<1>1. Len(msgs) \in Nat /\ DOMAIN msgs = 1..Len(msgs)
  BY LenProperties
<1>2. \A i \in 1..Len(msgs) : msgs[i].m \in MessageNames
  <2>1. \A i \in 1..Len(msgs) : msgs[i] \in Messages
    BY ElementOfSeq
  <2> QED BY <2>1 DEF Messages
<1>3. Names(msgs) = [i \in 1..Len(msgs) |-> msgs[i].m]
  BY <1>1 DEF Names
<1> QED BY <1>1, <1>2, <1>3

\* In one record or in several, they are records of no data.
LEMMA PackingsType ==
    ASSUME NEW key \in Nat, NEW msgs \in Seq(Messages), NEW rs \in Packings(key, msgs)
    PROVE  rs \in Seq(Records) /\ \A i \in 1..Len(rs) : rs[i].ct # "data"
<1>1. \A ms \in Seq(Messages) :
         Record("handshake", key, ms) \in Records
         /\ Record("handshake", key, ms).ct # "data"
  BY DEF Records, Record, ContentTypes
<1>2. CASE rs = << Record("handshake", key, msgs) >>
  BY <1>1, <1>2
<1>3. CASE rs = [i \in DOMAIN msgs |-> Record("handshake", key, << msgs[i] >>)]
  <2>1. Len(msgs) \in Nat /\ DOMAIN msgs = 1..Len(msgs)
    BY LenProperties
  <2>2. \A i \in 1..Len(msgs) : << msgs[i] >> \in Seq(Messages)
    BY ElementOfSeq
  <2>3. /\ rs = [i \in 1..Len(msgs) |-> Record("handshake", key, << msgs[i] >>)]
        /\ \A i \in 1..Len(msgs) : /\ Record("handshake", key, << msgs[i] >>) \in Records
                                   /\ Record("handshake", key, << msgs[i] >>).ct # "data"
    BY <1>1, <1>3, <2>1, <2>2
  <2>4. \A i \in 1..Len(msgs) : rs[i] \in Records /\ rs[i].ct # "data"
    BY <2>3
  <2>5. rs \in Seq(Records) /\ Len(rs) = Len(msgs)
    BY <2>1, <2>3
  <2> QED BY <2>4, <2>5
<1> QED BY <1>2, <1>3 DEF Packings

\* What the server does on a ClientHello.
LEMMA HelloAnswered ==
    ASSUME ReadInv, OnClientHello, UNCHANGED << srvIn, srvOut, sent, clientVars >>
    PROVE  ServerInv' /\ InputInv' /\ ReadInOrder'
<1>0. UNCHANGED << cur, keep, offt, delivered, api, sent >>
  BY DEF clientVars, call, input
<1>1. CASE Accept
  <2>1. PICK s \in Suites :
          /\ srvSuite' = s
          /\ srvHash' = << "ClientHello" >> \o Names(Flight(s))
          /\ \E rs \in Packings(srvOut, Flight(s)) : Sends(rs)
    BY <1>1, Zenon DEF Accept, Suites
  <2>2. PICK rs \in Packings(srvOut, Flight(s)) : Sends(rs)
    BY <2>1
  <2>3. Flight(s) \in Seq(Messages) /\ srvOut \in Nat
    BY FlightType DEF ReadInv, ServerInv
  <2>4. rs \in Seq(Records) /\ \A i \in 1..Len(rs) : rs[i].ct # "data"
    BY <2>3, PackingsType
  <2>5. InputInv' /\ ReadInOrder'
    BY <1>0, <2>2, <2>4, SentNoData
  <2>6. /\ << "ClientHello" >> \in Seq(MessageNames)
        /\ Names(Flight(s)) \in Seq(MessageNames)
    BY <2>3, NamesType DEF MessageNames
  <2>7. srvHash' \in Seq(MessageNames)
    BY <2>1, <2>6, ConcatProperties
  <2> QED BY <2>1, <2>5, <2>7 DEF ReadInv, ServerInv
<1>2. CASE ~Accept
  <2>1. ServerInv'
    BY <1>2 DEF OnClientHello, ReadInv, ServerInv
  <2>2. CASE UNCHANGED toClient
    BY <1>0, <2>1, <2>2 DEF ReadInv, InputInv, ReadInOrder
  <2>3. ASSUME NEW m \in {"fatal", "no_renegotiation"}, Sends(Alert(m))
        PROVE  InputInv' /\ ReadInOrder'
    <3>1. m \in MessageNames
      BY DEF MessageNames
    <3> QED BY <1>0, <2>3, <3>1, SentAlert
  <2>4. UNCHANGED toClient \/ Sends(Alert("fatal")) \/ Sends(Alert("no_renegotiation"))
    BY <1>2 DEF OnClientHello
  <2> QED BY <2>1, <2>2, <2>3, <2>4
<1> QED BY <1>1, <1>2

\* What it does on a Finished.
LEMMA FinishedAnswered ==
    ASSUME ReadInv, OnFinished, UNCHANGED << srvHash, srvSuite, srvIn, sent, clientVars >>
    PROVE  ServerInv' /\ InputInv' /\ ReadInOrder'
<1>0. UNCHANGED << cur, keep, offt, delivered, api, sent >>
  BY DEF clientVars, call, input
<1> DEFINE ticket == IF srvSuite.ticket THEN << Msg("NewSessionTicket", << >>) >>
                                        ELSE << >>
           h == srvHash \o << "Finished" >> \o Names(ticket)
           a == [i \in DOMAIN ticket |-> Record("handshake", srvOut, << ticket[i] >>)]
           b == << Record("ccs", srvOut, << Msg("ccs", << >>) >>),
                   Record("handshake", srvIn, << Msg("Finished", h) >>) >>
<1>1. srvOut' = srvIn /\ Sends(a \o b)
  BY DEF OnFinished
<1>2. /\ srvHash \in Seq(MessageNames) /\ srvIn \in Nat /\ srvOut \in Nat
      /\ << "Finished" >> \in Seq(MessageNames)
  BY DEF ReadInv, ServerInv, MessageNames
<1>3. << >> \in Infos /\ \A s \in Seq(MessageNames) : s \in Infos
  BY DEF Infos
<1>4. ticket \in Seq(Messages)
  <2>1. Msg("NewSessionTicket", << >>) \in Messages
    BY <1>3 DEF Msg, Messages, MessageNames
  <2>2. << >> \in Seq(Messages)
    OBVIOUS
  <2> QED BY <2>1, <2>2
<1>5. a \in Seq(Records) /\ \A i \in 1..Len(a) : a[i].ct # "data"
  <2>1. a \in Packings(srvOut, ticket)
    BY DEF Packings
  <2> HIDE DEF ticket, a
  <2> QED BY <1>2, <1>4, <2>1, PackingsType
<1>6. b \in Seq(Records) /\ Len(b) = 2 /\ b[1].ct # "data" /\ b[2].ct # "data"
  <2>1. h \in Seq(MessageNames)
    <3> HIDE DEF ticket
    <3> DEFINE n == Names(ticket)
    <3>1. n \in Seq(MessageNames)
      BY <1>4, NamesType
    <3> HIDE DEF n
    <3>2. srvHash \o << "Finished" >> \o n \in Seq(MessageNames)
      BY <1>2, <3>1, ConcatProperties
    <3> QED BY <3>2 DEF n
  <2> HIDE DEF h
  <2>2. h \in Infos
    BY <1>3, <2>1
  <2>3. Record("ccs", srvOut, << Msg("ccs", << >>) >>) \in Records
    <3>1. "ccs" \in ContentTypes /\ "ccs" \in MessageNames
      BY DEF ContentTypes, MessageNames
    <3> QED BY <1>2, <1>3, <3>1, SingleRecord
  <2>4. Record("handshake", srvIn, << Msg("Finished", h) >>) \in Records
    <3>1. "handshake" \in ContentTypes /\ "Finished" \in MessageNames
      BY DEF ContentTypes, MessageNames
    <3> QED BY <1>2, <2>2, <3>1, SingleRecord
  <2>5. /\ Record("ccs", srvOut, << Msg("ccs", << >>) >>).ct = "ccs"
        /\ Record("handshake", srvIn, << Msg("Finished", h) >>).ct = "handshake"
    BY DEF Record
  <2> QED BY <2>3, <2>4, <2>5
<1> HIDE DEF a, b
<1> DEFINE rs == a \o b
<1>7. rs \in Seq(Records) /\ (\A i \in 1..Len(rs) : rs[i].ct # "data") /\ Sends(rs)
  <2>1. /\ rs \in Seq(Records) /\ Len(rs) = Len(a) + 2 /\ Len(a) \in Nat
        /\ \A i \in 1 .. Len(a) + 2 : rs[i] = IF i <= Len(a) THEN a[i] ELSE b[i - Len(a)]
    <3>1. /\ rs \in Seq(Records) /\ Len(rs) = Len(a) + Len(b)
          /\ \A i \in 1 .. Len(a) + Len(b) :
               rs[i] = IF i <= Len(a) THEN a[i] ELSE b[i - Len(a)]
      BY <1>5, <1>6, ConcatProperties
    <3>2. Len(a) \in Nat
      BY <1>5, LenProperties
    <3> HIDE DEF rs
    <3> QED BY <1>6, <3>1, <3>2
  <2>2. \A i \in 1 .. Len(a) + 2 : i <= Len(a) \/ i - Len(a) = 1 \/ i - Len(a) = 2
    BY <2>1
  <2>3. Sends(rs)
    BY <1>1
  <2> HIDE DEF rs
  <2> QED BY <1>5, <1>6, <2>1, <2>2, <2>3
<1> HIDE DEF rs
<1>8. InputInv' /\ ReadInOrder'
  BY <1>0, <1>7, SentNoData
<1> QED BY <1>1, <1>8 DEF ReadInv, ServerInv

LEMMA ServerReadsInOrder ==
    ASSUME ReadInv, ServerReads, UNCHANGED clientVars
    PROVE  ServerInv' /\ InputInv' /\ ReadInOrder'
<1>0. UNCHANGED << cur, keep, offt, delivered, api, sent >>
  BY DEF ServerReads, clientVars, call, input
<1>1. \/ UNCHANGED << srvHash, srvSuite, srvIn, srvOut, toClient >>
      \/ OnClientHello /\ UNCHANGED << srvIn, srvOut >>
      \/ OnFinished /\ UNCHANGED << srvHash, srvSuite, srvIn >>
      \/ srvIn' = srvIn + 1 /\ UNCHANGED << srvHash, srvSuite, srvOut, toClient >>
      \/ /\ \E m \in MessageNames : srvHash' = Append(srvHash, m)
         /\ UNCHANGED << srvSuite, srvIn, srvOut, toClient >>
  BY DEF ServerReads, MessageNames
<1>2. ASSUME UNCHANGED toClient PROVE InputInv' /\ ReadInOrder'
  BY <1>0, <1>2 DEF ReadInv, InputInv, ReadInOrder
<1>3. CASE UNCHANGED << srvHash, srvSuite, srvIn, srvOut, toClient >>
  BY <1>0, <1>2, <1>3 DEF ReadInv, ServerInv
<1>4. CASE OnClientHello /\ UNCHANGED << srvIn, srvOut >>
  BY <1>0, <1>4, HelloAnswered
<1>5. CASE OnFinished /\ UNCHANGED << srvHash, srvSuite, srvIn >>
  BY <1>0, <1>5, FinishedAnswered
<1>6. CASE srvIn' = srvIn + 1 /\ UNCHANGED << srvHash, srvSuite, srvOut, toClient >>
  BY <1>0, <1>2, <1>6 DEF ReadInv, ServerInv
<1>7. CASE /\ \E m \in MessageNames : srvHash' = Append(srvHash, m)
           /\ UNCHANGED << srvSuite, srvIn, srvOut, toClient >>
  <2>1. srvHash' \in Seq(MessageNames)
    BY <1>7, AppendProperties DEF ReadInv, ServerInv
  <2> QED BY <1>0, <1>2, <1>7, <2>1 DEF ReadInv, ServerInv
<1> QED BY <1>1, <1>3, <1>4, <1>5, <1>6, <1>7

LEMMA ServerSendsInOrder ==
    ASSUME ReadInv, ServerSends, UNCHANGED clientVars
    PROVE  ServerInv' /\ InputInv' /\ ReadInOrder'
<1>0. /\ UNCHANGED << cur, keep, offt, delivered, api >>
      /\ UNCHANGED << srvHash, srvSuite, srvIn, srvOut >>
  BY DEF ServerSends, clientVars, call, input
<1>1. CASE /\ sent' = sent + 1
           /\ Sends(<< Record("data", srvOut, << Msg("data", sent + 1) >>) >>)
  BY <1>0, <1>1, SentData DEF ReadInv, ServerInv
<1>2. CASE Sends(Alert("warning")) /\ sent' = sent
  <2>1. "warning" \in MessageNames
    BY DEF MessageNames
  <2> QED BY <1>0, <1>2, <2>1, SentAlert DEF ReadInv, ServerInv
<1>3. CASE /\ Sends(<< Record("handshake", srvOut, << Msg("HelloRequest", << >>) >>) >>)
           /\ sent' = sent
  <2>1. /\ "handshake" \in ContentTypes /\ "HelloRequest" \in MessageNames
        /\ << >> \in Infos /\ srvOut \in Nat
    BY DEF ContentTypes, MessageNames, Infos, ReadInv, ServerInv
  <2> QED BY <1>0, <1>3, <2>1, SentOne DEF ReadInv, ServerInv
<1> QED BY <1>1, <1>2, <1>3 DEF ServerSends

-----------------------------------------------------------------------------
LEMMA InitRead == Init => ReadInv
<1> SUFFICES ASSUME Init PROVE ReadInv
  OBVIOUS
<1>1. ServerInv /\ seen \in Nat
  BY DEF Init, ServerInv, NoSuite, Suites
<1>2. cur \in Records
  BY DEF Init, Record, Records, ContentTypes
<1>3. InputInv
  <2>1. << >> \in Seq(Records) /\ << >> \in Seq(Infos)
    OBVIOUS
  <2> QED BY <1>2, <2>1 DEF Init, InputInv
<1>4. ReadInOrder
  <2>1. UpTo(0) = << >> /\ << >> \o << >> \o << >> = << >>
    BY DEF UpTo
  <2> QED BY <2>1, DataNone DEF Init, ReadInOrder
<1> QED BY <1>1, <1>3, <1>4 DEF ReadInv

LEMMA NextRead == ReadInv /\ [Next]_vars => ReadInv'
<1> SUFFICES ASSUME ReadInv, [Next]_vars PROVE ReadInv'
  OBVIOUS
<1>1. CASE Client /\ UNCHANGED serverVars
  <2>1. UNCHANGED << srvHash, srvSuite, srvIn, srvOut, sent >>
    BY <1>1 DEF serverVars
  <2>2. InputInv' /\ ReadInOrder'
    BY <1>1, <2>1, ClientReads
  <2>3. seen' \in Nat
    BY <1>1, ClientCounts DEF ReadInv
  <2> QED BY <2>1, <2>2, <2>3 DEF ReadInv, ServerInv
<1>2. CASE ServerReads /\ UNCHANGED clientVars
  <2>1. UNCHANGED seen
    BY <1>2 DEF clientVars, handshake
  <2> QED BY <1>2, <2>1, ServerReadsInOrder DEF ReadInv
<1>3. CASE ServerSends /\ UNCHANGED clientVars
  <2>1. UNCHANGED seen
    BY <1>3 DEF clientVars, handshake
  <2> QED BY <1>3, <2>1, ServerSendsInOrder DEF ReadInv
<1>4. CASE UNCHANGED vars
  BY <1>4 DEF vars, clientVars, serverVars, call, handshake, input, ReadInv,
              ServerInv, InputInv, ReadInOrder
<1> QED BY <1>1, <1>2, <1>3, <1>4 DEF Next

\* Whatever the server sends, before, during and after the renegotiation, in
\* whatever records and halves it is read, mbedtls_ssl_read hands it over once
\* and in order (ssl_tls.c, mbedtls_ssl_read_record and mbedtls_ssl_read).
THEOREM ReadsInOrder == Spec => []ReadInOrder
<1>1. Spec => []ReadInv
  BY InitRead, NextRead, PTL DEF Spec
<1>2. ReadInv => ReadInOrder
  BY DEF ReadInv
<1> QED BY <1>1, <1>2, PTL

-----------------------------------------------------------------------------
(* Runs of records.                                                        *)

\* A run of no record stays where it is.
LEMMA LeadsNone ==
    ASSUME NEW T, NEW p, NEW q
    PROVE  Leads(T, p, q, << >>) <=> p = q
<1>1. Len(<< >>) = 0
  OBVIOUS
<1>2. ASSUME Leads(T, p, q, << >>) PROVE p = q
  BY <1>1, <1>2 DEF Leads
<1>3. ASSUME p = q PROVE Leads(T, p, q, << >>)
  <2> DEFINE f == [i \in 0..0 |-> p]
  <2>1. f[0] = p
    OBVIOUS
  <2> HIDE DEF f
  <2>2. \A i \in 1..Len(<< >>) : << f[i - 1], << >>[i], f[i] >> \in T
    BY <1>1
  <2> QED BY <1>1, <1>3, <2>1, <2>2 DEF Leads
<1> QED BY <1>2, <1>3

\* A run of one record is one step.
LEMMA LeadsOne ==
    ASSUME NEW T, NEW p, NEW q, NEW r, << p, r, q >> \in T
    PROVE  Leads(T, p, q, << r >>)
<1> DEFINE w == << r >>
           f == [i \in 0..1 |-> IF i = 0 THEN p ELSE q]
<1>1. Len(w) = 1 /\ w[1] = r
  OBVIOUS
<1>2. f[0] = p /\ f[1] = q
  OBVIOUS
<1> HIDE DEF w, f
<1>3. ASSUME NEW i \in 1..Len(w) PROVE << f[i - 1], w[i], f[i] >> \in T
  <2>1. i = 1 /\ i - 1 = 0
    BY <1>1
  <2> QED BY <1>1, <1>2, <2>1
<1>4. Leads(T, p, q, w)
  BY <1>1, <1>2, <1>3 DEF Leads
<1> QED BY <1>4 DEF w

\* The first step of a run, and the rest of it.
LEMMA LeadsFirst ==
    ASSUME NEW T, NEW p, NEW q, NEW w \in Seq(Records), w # << >>, Leads(T, p, q, w)
    PROVE  \E x : << p, Head(w), x >> \in T /\ Leads(T, x, q, Tail(w))
<1>1. PICK f : /\ f[0] = p /\ f[Len(w)] = q
               /\ \A i \in 1..Len(w) : << f[i - 1], w[i], f[i] >> \in T
  BY DEF Leads
<1> DEFINE u == Tail(w)
           n == Len(u)
           g == [i \in 0..n |-> f[i + 1]]
<1>2. /\ Len(w) = n + 1 /\ n \in Nat
      /\ Head(w) = w[1]
      /\ \A i \in 1..n : u[i] = w[i + 1]
  OBVIOUS
<1>3. << p, Head(w), f[1] >> \in T
  <2>1. 1 \in 1..Len(w) /\ 1 - 1 = 0
    BY <1>2
  <2> QED BY <1>1, <1>2, <2>1
<1>4. \A i \in 0..n : g[i] = f[i + 1]
  OBVIOUS
<1> HIDE DEF g
<1>5. g[0] = f[1] /\ g[n] = q
  <2>1. 0 \in 0..n /\ n \in 0..n /\ 0 + 1 = 1
    BY <1>2
  <2>2. g[0] = f[1] /\ g[n] = f[n + 1]
    BY <1>4, <2>1
  <2> QED BY <1>1, <1>2, <2>2
<1>6. ASSUME NEW i \in 1..n PROVE << g[i - 1], u[i], g[i] >> \in T
  <2>1. /\ i - 1 \in 0..n /\ i \in 0..n /\ i + 1 \in 1..Len(w)
        /\ (i - 1) + 1 = i /\ (i + 1) - 1 = i
    BY <1>2
  <2>2. g[i - 1] = f[i] /\ g[i] = f[i + 1]
    BY <1>4, <2>1
  <2>3. << f[(i + 1) - 1], w[i + 1], f[i + 1] >> \in T
    BY <1>1, <2>1
  <2> QED BY <1>2, <2>1, <2>2, <2>3
<1>7. Leads(T, f[1], q, u)
  <2> HIDE DEF u
  <2> QED BY <1>5, <1>6 DEF Leads
<1> QED BY <1>3, <1>7

\* One run after another.
LEMMA LeadsConcat ==
    ASSUME NEW T, NEW p, NEW x, NEW q, NEW v \in Seq(Records), NEW w \in Seq(Records),
           Leads(T, p, x, v), Leads(T, x, q, w)
    PROVE  Leads(T, p, q, v \o w)
<1>1. PICK f : /\ f[0] = p /\ f[Len(v)] = x
               /\ \A i \in 1..Len(v) : << f[i - 1], v[i], f[i] >> \in T
  BY DEF Leads
<1>2. PICK g : /\ g[0] = x /\ g[Len(w)] = q
               /\ \A i \in 1..Len(w) : << g[i - 1], w[i], g[i] >> \in T
  BY DEF Leads
<1> DEFINE u == v \o w
           m == Len(v)
           n == Len(w)
           h == [i \in 0 .. m + n |-> IF i <= m THEN f[i] ELSE g[i - m]]
<1>3. /\ Len(u) = m + n /\ m \in Nat /\ n \in Nat
      /\ \A i \in 1..m : u[i] = v[i]
      /\ \A i \in 1..n : u[m + i] = w[i]
  BY ConcatProperties, LenProperties
<1>4. \A i \in 0 .. m + n : h[i] = IF i <= m THEN f[i] ELSE g[i - m]
  OBVIOUS
<1> HIDE DEF u, m, n, h
<1>5. \A i \in 0..m : h[i] = f[i]
  BY <1>3, <1>4
<1>6. \A i \in 0..n : h[m + i] = g[i]
  <2> TAKE i \in 0..n
  <2>1. CASE i = 0
    <3>1. m + i = m /\ m \in 0..m
      BY <1>3, <2>1
    <3>2. f[m] = x
      BY <1>1 DEF m
    <3> QED BY <1>2, <1>5, <2>1, <3>1, <3>2
  <2>2. CASE i # 0
    <3>1. /\ m + i \in 0 .. m + n /\ ~(m + i <= m) /\ (m + i) - m = i
      BY <1>3, <2>2
    <3> QED BY <1>4, <3>1
  <2> QED BY <2>1, <2>2
<1>7. h[0] = p /\ h[Len(u)] = q
  <2>1. 0 \in 0..m /\ n \in 0..n
    BY <1>3
  <2>2. h[0] = f[0] /\ h[m + n] = g[n]
    BY <1>5, <1>6, <2>1
  <2> QED BY <1>1, <1>2, <1>3, <2>2 DEF n
<1>8. ASSUME NEW i \in 1..Len(u) PROVE << h[i - 1], u[i], h[i] >> \in T
  <2>1. CASE i <= m
    <3>1. i \in 1..m /\ i - 1 \in 0..m /\ i \in 0..m
      BY <1>3, <2>1
    <3>2. << f[i - 1], v[i], f[i] >> \in T
      BY <1>1, <3>1 DEF m
    <3> QED BY <1>3, <1>5, <3>1, <3>2
  <2>2. CASE ~(i <= m)
    <3> DEFINE j == i - m
    <3>1. /\ j \in 1..n /\ j - 1 \in 0..n /\ j \in 0..n
          /\ m + j = i /\ m + (j - 1) = i - 1
      BY <1>3, <2>2
    <3> HIDE DEF j
    <3>2. << g[j - 1], w[j], g[j] >> \in T
      BY <1>2, <3>1 DEF n
    <3>3. h[i] = g[j] /\ h[i - 1] = g[j - 1] /\ u[i] = w[j]
      <4>1. h[m + j] = g[j] /\ h[m + (j - 1)] = g[j - 1] /\ u[m + j] = w[j]
        BY <1>3, <1>6, <3>1
      <4> QED BY <3>1, <4>1
    <3> QED BY <3>2, <3>3
  <2> QED BY <2>1, <2>2
<1>9. Leads(T, p, q, u)
  BY <1>7, <1>8 DEF Leads
<1> QED BY <1>9 DEF u

\* One more step.
LEMMA LeadsMore ==
    ASSUME NEW T, NEW p, NEW x, NEW q, NEW w \in Seq(Records), NEW r \in Records,
           Leads(T, p, x, w), << x, r, q >> \in T
    PROVE  Leads(T, p, q, Append(w, r))
<1>1. << r >> \in Seq(Records) /\ Append(w, r) = w \o << r >>
  BY AppendIsConcat
<1> QED BY <1>1, LeadsOne, LeadsConcat

\* A place that no step leaves is the last one.
LEMMA LeadsEnds ==
    ASSUME NEW T, NEW p, NEW q, NEW w \in Seq(Records), Leads(T, p, q, w),
           \A r, x : << p, r, x >> \in T => x = p
    PROVE  q = p /\ \A i \in 1..Len(w) : << p, w[i], p >> \in T
<1>1. PICK f : /\ f[0] = p /\ f[Len(w)] = q
               /\ \A i \in 1..Len(w) : << f[i - 1], w[i], f[i] >> \in T
  BY DEF Leads
<1> DEFINE n == Len(w)
           S == {i \in Nat : i <= n => f[i] = p}
<1>2. n \in Nat
  BY LenProperties
<1>3. 0 \in S
  BY <1>1
<1>4. ASSUME NEW i \in Nat, i \in S PROVE i + 1 \in S
  <2> SUFFICES ASSUME i + 1 <= n PROVE f[i + 1] = p
    OBVIOUS
  <2>1. i + 1 \in 1..n /\ (i + 1) - 1 = i /\ i <= n
    BY <1>2
  <2>2. f[i] = p
    BY <1>4, <2>1
  <2>3. << f[(i + 1) - 1], w[i + 1], f[i + 1] >> \in T
    BY <1>1, <2>1
  <2> QED BY <2>1, <2>2, <2>3
<1> HIDE DEF S
<1>5. \A i \in Nat : i \in S
  BY <1>3, <1>4, SetInduction
<1>6. \A i \in 0..n : f[i] = p
  BY <1>2, <1>5 DEF S
<1>7. ASSUME NEW i \in 1..n PROVE << p, w[i], p >> \in T
  <2>1. i \in 0..n /\ i - 1 \in 0..n
    BY <1>2
  <2> QED BY <1>1, <1>6, <2>1
<1>8. q = p
  <2>1. n \in 0..n
    BY <1>2
  <2> QED BY <1>1, <1>6, <2>1
<1> QED BY <1>7, <1>8

\* A place that no step enters is the first one.
LEMMA LeadsBegins ==
    ASSUME NEW T, NEW p, NEW q, NEW w \in Seq(Records), Leads(T, p, q, w),
           \A r, x : << x, r, q >> \in T => x = q
    PROVE  p = q /\ \A i \in 1..Len(w) : << q, w[i], q >> \in T
<1>1. PICK f : /\ f[0] = p /\ f[Len(w)] = q
               /\ \A i \in 1..Len(w) : << f[i - 1], w[i], f[i] >> \in T
  BY DEF Leads
<1> DEFINE n == Len(w)
           S == {i \in Nat : i <= n => f[n - i] = q}
<1>2. n \in Nat
  BY LenProperties
<1>3. 0 \in S
  <2>1. n - 0 = n
    BY <1>2
  <2> QED BY <1>1, <2>1
<1>4. ASSUME NEW i \in Nat, i \in S PROVE i + 1 \in S
  <2> SUFFICES ASSUME i + 1 <= n PROVE f[n - (i + 1)] = q
    OBVIOUS
  <2>1. n - i \in 1..n /\ (n - i) - 1 = n - (i + 1) /\ i <= n
    BY <1>2
  <2>2. f[n - i] = q
    BY <1>4, <2>1
  <2>3. << f[(n - i) - 1], w[n - i], f[n - i] >> \in T
    BY <1>1, <2>1
  <2> QED BY <2>1, <2>2, <2>3
<1> HIDE DEF S
<1>5. \A i \in Nat : i \in S
  BY <1>3, <1>4, SetInduction
<1>6. \A i \in 0..n : f[i] = q
  <2> TAKE i \in 0..n
  <2>1. n - i \in Nat /\ n - i <= n /\ n - (n - i) = i
    BY <1>2
  <2>2. n - i \in S
    BY <1>5, <2>1
  <2> QED BY <2>1, <2>2 DEF S
<1>7. ASSUME NEW i \in 1..n PROVE << q, w[i], q >> \in T
  <2>1. i \in 0..n /\ i - 1 \in 0..n
    BY <1>2
  <2> QED BY <1>1, <1>6, <2>1
<1>8. p = q
  <2>1. 0 \in 0..n
    BY <1>2
  <2> QED BY <1>1, <1>6, <2>1
<1> QED BY <1>7, <1>8

\* Records that all stay at a place.
LEMMA LeadsAround ==
    ASSUME NEW T, NEW p, NEW w \in Seq(Records),
           \A i \in 1..Len(w) : << p, w[i], p >> \in T
    PROVE  Leads(T, p, p, w)
<1> DEFINE n == Len(w)
           f == [i \in 0..n |-> p]
<1>1. n \in Nat
  BY LenProperties
<1>2. \A i \in 0..n : f[i] = p
  OBVIOUS
<1> HIDE DEF f
<1>3. f[0] = p /\ f[n] = p
  BY <1>1, <1>2
<1>4. ASSUME NEW i \in 1..n PROVE << f[i - 1], w[i], f[i] >> \in T
  <2>1. i \in 0..n /\ i - 1 \in 0..n
    BY <1>1
  <2> QED BY <1>2, <2>1
<1> QED BY <1>3, <1>4 DEF Leads

-----------------------------------------------------------------------------
(* The rows of messages.                                                   *)

\* ssl->state++, state by state.
LEMMA AfterIs ==
    /\ After("HELLO_REQUEST") = "CLIENT_HELLO"
    /\ After("CLIENT_HELLO") = "SERVER_HELLO"
    /\ After("SERVER_HELLO") = "SERVER_CERTIFICATE"
    /\ After("SERVER_CERTIFICATE") = "SERVER_KEY_EXCHANGE"
    /\ After("SERVER_KEY_EXCHANGE") = "CERTIFICATE_REQUEST"
    /\ After("CERTIFICATE_REQUEST") = "SERVER_HELLO_DONE"
    /\ After("SERVER_HELLO_DONE") = "CLIENT_CERTIFICATE"
    /\ After("CLIENT_CERTIFICATE") = "CLIENT_KEY_EXCHANGE"
    /\ After("CLIENT_KEY_EXCHANGE") = "CERTIFICATE_VERIFY"
    /\ After("CERTIFICATE_VERIFY") = "CLIENT_CHANGE_CIPHER_SPEC"
    /\ After("CLIENT_CHANGE_CIPHER_SPEC") = "CLIENT_FINISHED"
    /\ After("CLIENT_FINISHED") = "SERVER_CHANGE_CIPHER_SPEC"
    /\ After("SERVER_CHANGE_CIPHER_SPEC") = "SERVER_FINISHED"
    /\ After("SERVER_FINISHED") = "FLUSH_BUFFERS"
    /\ After("FLUSH_BUFFERS") = "HANDSHAKE_WRAPUP"
    /\ After("HANDSHAKE_WRAPUP") = "HANDSHAKE_OVER"
<1>1. DOMAIN States = 1..17
  BY DEF States
<1>2. /\ States[1] = "HELLO_REQUEST" /\ States[2] = "CLIENT_HELLO"
      /\ States[3] = "SERVER_HELLO" /\ States[4] = "SERVER_CERTIFICATE"
      /\ States[5] = "SERVER_KEY_EXCHANGE" /\ States[6] = "CERTIFICATE_REQUEST"
      /\ States[7] = "SERVER_HELLO_DONE" /\ States[8] = "CLIENT_CERTIFICATE"
      /\ States[9] = "CLIENT_KEY_EXCHANGE" /\ States[10] = "CERTIFICATE_VERIFY"
      /\ States[11] = "CLIENT_CHANGE_CIPHER_SPEC" /\ States[12] = "CLIENT_FINISHED"
      /\ States[13] = "SERVER_CHANGE_CIPHER_SPEC" /\ States[14] = "SERVER_FINISHED"
      /\ States[15] = "FLUSH_BUFFERS" /\ States[16] = "HANDSHAKE_WRAPUP"
      /\ States[17] = "HANDSHAKE_OVER"
  BY DEF States
<1>3. \A i, j \in 1..17 : States[i] = States[j] => i = j
  BY <1>2
<1>4. ASSUME NEW i \in 1..16 PROVE After(States[i]) = States[i + 1]
  <2> DEFINE c == CHOOSE j \in DOMAIN States : States[j] = States[i]
  <2>1. c \in 1..17 /\ States[c] = States[i]
    BY <1>1
  <2>2. c = i
    BY <1>3, <2>1
  <2>3. After(States[i]) = States[1 + c]
    BY DEF After
  <2> HIDE DEF c
  <2>4. 1 + c = i + 1
    BY <2>2
  <2> QED BY <2>3, <2>4
<1>5. /\ After(States[1]) = States[2] /\ After(States[2]) = States[3]
      /\ After(States[3]) = States[4] /\ After(States[4]) = States[5]
      /\ After(States[5]) = States[6] /\ After(States[6]) = States[7]
      /\ After(States[7]) = States[8] /\ After(States[8]) = States[9]
  BY <1>4
<1>6. /\ After(States[9]) = States[10] /\ After(States[10]) = States[11]
      /\ After(States[11]) = States[12] /\ After(States[12]) = States[13]
      /\ After(States[13]) = States[14] /\ After(States[14]) = States[15]
      /\ After(States[15]) = States[16] /\ After(States[16]) = States[17]
  BY <1>4
<1> QED BY <1>2, <1>5, <1>6

\* What a step of the row from the server is.
LEMMA DownStep ==
    ASSUME NEW k, NEW s, NEW p, NEW r, NEW x
    PROVE  << p, r, x >> \in DownSteps(k, s)
             <=> /\ p \in DownPlaces /\ r \in Records /\ x \in DownPlaces
                 /\ DownMoves(k, s, p, r, x) \/ (DownBeside(k, p, r) /\ x = p)
BY DEF DownSteps

\* What follows a message of the row is of the row, and no second ServerHello.
LEMMA DownThenType ==
    ASSUME NEW s, NEW p
    PROVE  /\ DownThen(s, p) \in DownPlaces /\ DownThen(s, p) # "ServerHello"
           /\ AfterFlight(s) \in {"NewSessionTicket", "ccs"}
           /\ AfterFlight(s) \in DownPlaces
BY DEF DownThen, DownPlaces, Exchange, Request, AfterFlight

\* Past the last message of the row there is nothing but what comes in
\* between.
LEMMA DownEnd ==
    ASSUME NEW k, NEW s, NEW q, NEW w \in Seq(Records),
           Leads(DownSteps(k, s), "end", q, w)
    PROVE  q = "end" /\ \A i \in 1..Len(w) : DownBeside(k, "end", w[i])
<1> DEFINE T == DownSteps(k, s)
<1>1. \A r, x : << "end", r, x >> \in T => x = "end" /\ DownBeside(k, "end", r)
  BY DownStep DEF DownMoves
<1> HIDE DEF T
<1>2. q = "end" /\ \A i \in 1..Len(w) : << "end", w[i], "end" >> \in T
  <2>1. \A r, x : << "end", r, x >> \in T => x = "end"
    BY <1>1
  <2> QED BY <2>1, LeadsEnds DEF T
<1> QED BY <1>1, <1>2

\* Nothing but that comes before the first one either.
LEMMA DownBegin ==
    ASSUME NEW k, NEW s, NEW p, NEW w \in Seq(Records),
           Leads(DownSteps(k, s), p, "ServerHello", w)
    PROVE  p = "ServerHello" /\ \A i \in 1..Len(w) : DownBeside(k, "ServerHello", w[i])
<1> DEFINE T == DownSteps(k, s)
           h == "ServerHello"
<1>1. \A r, x : << x, r, h >> \in T => x = h /\ DownBeside(k, h, r)
  <2> TAKE r, x
  <2> HAVE << x, r, h >> \in T
  <2>1. ~DownMoves(k, s, x, r, h)
    BY DownThenType DEF DownMoves
  <2> QED BY <2>1, DownStep
<1> HIDE DEF T, h
<1>2. p = h /\ \A i \in 1..Len(w) : << h, w[i], h >> \in T
  <2>1. \A r, x : << x, r, h >> \in T => x = h
    BY <1>1
  <2>2. Leads(T, p, h, w)
    BY DEF T, h
  <2> QED BY <2>1, <2>2, LeadsBegins
<1> QED BY <1>1, <1>2 DEF h

\* What comes in between is so for every suite.
LEMMA DownAround ==
    ASSUME NEW k, NEW s, NEW p \in DownPlaces, NEW w \in Seq(Records),
           \A i \in 1..Len(w) : DownBeside(k, p, w[i])
    PROVE  Leads(DownSteps(k, s), p, p, w)
<1>1. \A i \in 1..Len(w) : w[i] \in Records
  BY ElementOfSeq
<1>2. \A i \in 1..Len(w) : << p, w[i], p >> \in DownSteps(k, s)
  BY <1>1, DownStep
<1> QED BY <1>2, LeadsAround

\* What a step of the row to the server is.
LEMMA UpStep ==
    ASSUME NEW k, NEW s, NEW p, NEW r, NEW x
    PROVE  << p, r, x >> \in UpSteps(k, s)
             <=> /\ p \in Hearing /\ r \in Records /\ x \in UpPlaces
                 /\ r = UpRecord(k, s, p) /\ x = UpThen(s, p)
BY DEF UpSteps

\* Its last place is "up".
LEMMA UpEnd ==
    ASSUME NEW k, NEW s, NEW q, NEW w \in Seq(Records),
           Leads(UpSteps(k, s), "up", q, w)
    PROVE  q = "up" /\ w = << >>
<1> DEFINE T == UpSteps(k, s)
<1>1. \A r, x : << "up", r, x >> \notin T
  BY UpStep DEF Hearing
<1> HIDE DEF T
<1>2. q = "up" /\ \A i \in 1..Len(w) : << "up", w[i], "up" >> \in T
  <2>1. \A r, x : << "up", r, x >> \in T => x = "up"
    BY <1>1
  <2> QED BY <2>1, LeadsEnds DEF T
<1>3. w = << >>
  <2>1. ~(1 \in 1..Len(w))
    BY <1>1, <1>2
  <2> QED BY <2>1
<1> QED BY <1>2, <1>3

\* The hello flight is the ServerHello and the rest.
LEMMA FlightIs ==
    ASSUME NEW s \in Suites
    PROVE  /\ Len(Flight(s)) > 1 /\ Head(Flight(s)) = Msg("ServerHello", s)
           /\ Tail(Flight(s)) = Flight2(s)
<1>1. CASE s.ske /\ s.auth
  BY <1>1 DEF Flight, Flight2, Flight3, Flight4, Flight5
<1>2. CASE s.ske /\ ~s.auth
  BY <1>2 DEF Flight, Flight2, Flight3, Flight4, Flight5
<1>3. CASE ~s.ske /\ s.auth
  BY <1>3 DEF Flight, Flight2, Flight3, Flight4, Flight5
<1>4. CASE ~s.ske /\ ~s.auth
  BY <1>4 DEF Flight, Flight2, Flight3, Flight4, Flight5
<1> QED BY <1>1, <1>2, <1>3, <1>4

\* A message before others.
LEMMA Before ==
    ASSUME NEW S, NEW m \in S, NEW b \in Seq(S)
    PROVE  /\ << m >> \o b \in Seq(S) /\ Len(<< m >> \o b) = Len(b) + 1
           /\ Len(b) \in Nat
           /\ Head(<< m >> \o b) = m /\ Tail(<< m >> \o b) = b
OBVIOUS

\* What is left of the flight is messages.
LEMMA FlightTypes ==
    ASSUME NEW s \in Suites
    PROVE  /\ Flight5 \in Seq(Messages) /\ Len(Flight5) = 1 /\ Len(Flight5) >= 1
           /\ Flight4(s) \in Seq(Messages) /\ Len(Flight4(s)) >= 1
           /\ Flight3(s) \in Seq(Messages) /\ Len(Flight3(s)) >= 1
           /\ Flight2(s) \in Seq(Messages) /\ Len(Flight2(s)) > 1
<1>1. << >> \in Infos
  BY DEF Infos
<1>2. /\ Msg("ServerHelloDone", << >>) \in Messages
      /\ Msg("CertificateRequest", << >>) \in Messages
      /\ Msg("ServerKeyExchange", << >>) \in Messages
      /\ Msg("Certificate", << >>) \in Messages
  BY <1>1 DEF Msg, Messages, MessageNames
<1>3. Flight5 \in Seq(Messages) /\ Len(Flight5) = 1 /\ Len(Flight5) >= 1
  BY <1>2 DEF Flight5
<1>4. Flight4(s) \in Seq(Messages) /\ Len(Flight4(s)) >= 1
  <2>1. /\ << Msg("CertificateRequest", << >>) >> \o Flight5 \in Seq(Messages)
        /\ Len(<< Msg("CertificateRequest", << >>) >> \o Flight5) = Len(Flight5) + 1
    BY <1>2, <1>3, Before
  <2> QED BY <1>3, <2>1 DEF Flight4
<1>5. Flight3(s) \in Seq(Messages) /\ Len(Flight3(s)) >= 1
  <2> DEFINE b == Flight4(s)
  <2>1. /\ << Msg("ServerKeyExchange", << >>) >> \o b \in Seq(Messages)
        /\ Len(<< Msg("ServerKeyExchange", << >>) >> \o b) = Len(b) + 1
    BY <1>2, <1>4, Before
  <2> QED BY <1>4, <2>1 DEF Flight3
<1>6. Flight2(s) \in Seq(Messages) /\ Len(Flight2(s)) > 1
  BY <1>2, <1>5, Before DEF Flight2
<1> QED BY <1>3, <1>4, <1>5, <1>6

\* Is there a message p in this row?
OnRow(s, p) ==
    /\ p = "ServerKeyExchange" => s.ske
    /\ p = "CertificateRequest" => s.auth

\* The rest begins with the next message.
LEMMA FlightStep ==
    ASSUME NEW s \in Suites, NEW p \in FlightPlaces, OnRow(s, p)
    PROVE  /\ Len(FlightFrom(s, p)) >= 1 /\ Head(FlightFrom(s, p)) = Msg(p, << >>)
           /\ p = "ServerHelloDone" => Len(FlightFrom(s, p)) <= 1
           /\ p # "ServerHelloDone" =>
                /\ Len(FlightFrom(s, p)) > 1
                /\ DownThen(s, p) \in FlightPlaces
                /\ Tail(FlightFrom(s, p)) = FlightFrom(s, DownThen(s, p))
           /\ DownThen(s, "ServerHelloDone") = AfterFlight(s)
<1>0. DownThen(s, "ServerHelloDone") = AfterFlight(s)
  BY DEF DownThen
<1>m. Msg(p, << >>) \in Messages
  <2>1. p \in MessageNames /\ << >> \in Infos
    BY DEF FlightPlaces, MessageNames, Infos
  <2> QED BY <2>1 DEF Msg, Messages
<1>1. CASE p = "ServerHelloDone"
  BY <1>0, <1>1 DEF FlightFrom, Flight5
<1>2. CASE p = "CertificateRequest"
  <2>1. s.auth /\ DownThen(s, p) = "ServerHelloDone"
    BY <1>2 DEF OnRow, DownThen
  <2>2. FlightFrom(s, p) = << Msg("CertificateRequest", << >>) >> \o Flight5
    BY <1>2, <2>1 DEF FlightFrom, Flight4
  <2>3. FlightFrom(s, DownThen(s, p)) = Flight5 /\ DownThen(s, p) \in FlightPlaces
    BY <2>1 DEF FlightFrom, FlightPlaces
  <2> DEFINE b == Flight5
             m == Msg(p, << >>)
  <2>4. b \in Seq(Messages) /\ Len(b) >= 1
    BY FlightTypes
  <2>5. m \in Messages /\ FlightFrom(s, p) = << m >> \o b
    BY <1>m, <1>2, <2>2
  <2>6. FlightFrom(s, DownThen(s, p)) = b
    BY <2>3
  <2> HIDE DEF b, m
  <2>7. /\ Len(<< m >> \o b) = Len(b) + 1 /\ Len(b) \in Nat
        /\ Head(<< m >> \o b) = m /\ Tail(<< m >> \o b) = b
    BY <2>4, <2>5, Before
  <2> QED BY <1>0, <1>2, <2>3, <2>4, <2>5, <2>6, <2>7 DEF m
<1>3. CASE p = "ServerKeyExchange"
  <2>1. s.ske /\ DownThen(s, p) = Request(s)
    BY <1>3 DEF OnRow, DownThen
  <2>2. FlightFrom(s, p) = << Msg("ServerKeyExchange", << >>) >> \o Flight4(s)
    BY <1>3, <2>1 DEF FlightFrom, Flight3
  <2>3. FlightFrom(s, DownThen(s, p)) = Flight4(s) /\ DownThen(s, p) \in FlightPlaces
    BY <2>1 DEF FlightFrom, FlightPlaces, Request, Flight4
  <2> DEFINE b == Flight4(s)
             m == Msg(p, << >>)
  <2>4. b \in Seq(Messages) /\ Len(b) >= 1
    BY FlightTypes
  <2>5. m \in Messages /\ FlightFrom(s, p) = << m >> \o b
    BY <1>m, <1>3, <2>2
  <2>6. FlightFrom(s, DownThen(s, p)) = b
    BY <2>3
  <2> HIDE DEF b, m
  <2>7. /\ Len(<< m >> \o b) = Len(b) + 1 /\ Len(b) \in Nat
        /\ Head(<< m >> \o b) = m /\ Tail(<< m >> \o b) = b
    BY <2>4, <2>5, Before
  <2> QED BY <1>0, <1>3, <2>3, <2>4, <2>5, <2>6, <2>7 DEF m
<1>4. CASE p = "Certificate"
  <2>1. DownThen(s, p) = Exchange(s)
    BY <1>4 DEF DownThen
  <2>2. FlightFrom(s, p) = << Msg("Certificate", << >>) >> \o Flight3(s)
    BY <1>4 DEF FlightFrom, Flight2
  <2>3. FlightFrom(s, DownThen(s, p)) = Flight3(s) /\ DownThen(s, p) \in FlightPlaces
    BY <2>1 DEF FlightFrom, FlightPlaces, Exchange, Request, Flight3, Flight4
  <2> DEFINE b == Flight3(s)
             m == Msg(p, << >>)
  <2>4. b \in Seq(Messages) /\ Len(b) >= 1
    BY FlightTypes
  <2>5. m \in Messages /\ FlightFrom(s, p) = << m >> \o b
    BY <1>m, <1>4, <2>2
  <2>6. FlightFrom(s, DownThen(s, p)) = b
    BY <2>3
  <2> HIDE DEF b, m
  <2>7. /\ Len(<< m >> \o b) = Len(b) + 1 /\ Len(b) \in Nat
        /\ Head(<< m >> \o b) = m /\ Tail(<< m >> \o b) = b
    BY <2>4, <2>5, Before
  <2> QED BY <1>0, <1>4, <2>3, <2>4, <2>5, <2>6, <2>7 DEF m
<1> QED BY <1>1, <1>2, <1>3, <1>4 DEF FlightPlaces

\* The server has hashed the hello and its flight.
LEMMA HelloHash ==
    ASSUME NEW s \in Suites
    PROVE  << "ClientHello" >> \o Names(Flight(s)) = Hello5(s)
<1>1. CASE s.ske /\ s.auth
  BY <1>1 DEF Flight, Names, Msg, Hello5, Hello4, Hello3, Hello2, Hello1, Hello0
<1>2. CASE s.ske /\ ~s.auth
  BY <1>2 DEF Flight, Names, Msg, Hello5, Hello4, Hello3, Hello2, Hello1, Hello0
<1>3. CASE ~s.ske /\ s.auth
  BY <1>3 DEF Flight, Names, Msg, Hello5, Hello4, Hello3, Hello2, Hello1, Hello0
<1>4. CASE ~s.ske /\ ~s.auth
  BY <1>4 DEF Flight, Names, Msg, Hello5, Hello4, Hello3, Hello2, Hello1, Hello0
<1> QED BY <1>1, <1>2, <1>3, <1>4

\* What is hashed is names.
LEMMA HashType ==
    ASSUME NEW s \in Suites
    PROVE  /\ Hello5(s) \in Seq(MessageNames) /\ Reply3(s) \in Seq(MessageNames)
           /\ Reply4(s) \in Seq(MessageNames) /\ Final(s) \in Seq(MessageNames)
<1>1. Hello5(s) \in Seq(MessageNames)
  <2>1. Hello2 \in Seq(MessageNames)
    BY DEF MessageNames, Hello2, Hello1, Hello0
  <2>2. Hello4(s) \in Seq(MessageNames)
    BY <2>1 DEF MessageNames, Hello4, Hello3
  <2> QED BY <2>2 DEF MessageNames, Hello5
<1>2. Reply1(s) \in Seq(MessageNames)
  BY <1>1 DEF MessageNames, Reply1
<1>3. Reply3(s) \in Seq(MessageNames)
  BY <1>2 DEF MessageNames, Reply3, Reply2
<1>4. Final(s) \in Seq(MessageNames) /\ Reply4(s) \in Seq(MessageNames)
  BY <1>3 DEF MessageNames, Final, Reply4
<1> QED BY <1>1, <1>3, <1>4

\* The server hashes what it reads.
LEMMA UpHashStep ==
    ASSUME NEW s \in Suites, NEW p \in {"Certificate", "ClientKeyExchange", "CertificateVerify"},
           p \in {"Certificate", "CertificateVerify"} => s.auth
    PROVE  /\ Append(UpHash(s, p), p) = UpHash(s, UpThen(s, p))
           /\ UpThen(s, p) \in {"Certificate", "CertificateVerify"} => s.auth
           /\ UpThen(s, p) = IF p = "Certificate" THEN "ClientKeyExchange"
                             ELSE IF p = "ClientKeyExchange"
                                  THEN IF s.auth THEN "CertificateVerify" ELSE "ccs"
                                  ELSE "ccs"
           /\ UpThen(s, p) \in Hearing
BY DEF UpHash, UpThen, Verify, Reply1, Reply2, Reply3, Hearing

-----------------------------------------------------------------------------
(* The flight of the server leads past it, however it is packed.           *)

\* Messages in a record each.
Singly(key, msgs) == [i \in DOMAIN msgs |-> Record("handshake", key, << msgs[i] >>)]

\* They are records.
LEMMA SinglyType ==
    ASSUME NEW key \in Nat, NEW msgs \in Seq(Messages)
    PROVE  Singly(key, msgs) \in Seq(Records)
<1>1. Singly(key, msgs) \in Packings(key, msgs)
  BY DEF Singly, Packings
<1> QED BY <1>1, PackingsType

\* The first of them, and the others.
LEMMA SinglyBefore ==
    ASSUME NEW key \in Nat, NEW m \in Messages, NEW b \in Seq(Messages)
    PROVE  Singly(key, << m >> \o b) = << Record("handshake", key, << m >>) >> \o Singly(key, b)
<1> DEFINE a == << m >> \o b
           n == Len(b)
           u == Singly(key, a)
           v == Singly(key, b)
           r == Record("handshake", key, << m >>)
           c == << r >> \o v
<1>1. /\ a \in Seq(Messages) /\ Len(a) = n + 1 /\ n \in Nat
      /\ a[1] = m /\ \A i \in 1..n : a[i + 1] = b[i]
  OBVIOUS
<1>2. DOMAIN a = 1 .. n + 1 /\ DOMAIN b = 1..n
  BY <1>1, LenProperties
<1> HIDE DEF a
<1>3. u = [i \in 1 .. n + 1 |-> Record("handshake", key, << a[i] >>)]
  BY <1>2 DEF Singly
<1>4. v = [i \in 1..n |-> Record("handshake", key, << b[i] >>)]
  BY <1>2 DEF Singly
<1>5. v \in Seq(Records) /\ r \in Records /\ u \in Seq(Records)
  <2>1. << m >> \in Seq(Messages)
    OBVIOUS
  <2>2. r \in Records
    BY <2>1 DEF Record, Records, ContentTypes
  <2> QED BY <1>1, <2>2, SinglyType
<1>6. Len(v) = n /\ Len(u) = n + 1
  BY <1>1, <1>3, <1>4, <1>5
<1>7. u[1] = r /\ \A i \in 1..n : u[i + 1] = v[i]
  <2>1. 1 \in 1 .. n + 1 /\ \A i \in 1..n : i + 1 \in 1 .. n + 1
    BY <1>1
  <2> HIDE DEF u, v
  <2> QED BY <1>1, <1>3, <1>4, <2>1
<1> HIDE DEF u, v, r, n
<1>8. /\ c \in Seq(Records) /\ Len(c) = n + 1
      /\ c[1] = r /\ \A i \in 1..n : c[i + 1] = v[i]
  BY <1>1, <1>5, <1>6
<1> HIDE DEF c
<1>9. \A i \in 1 .. n + 1 : u[i] = c[i]
  <2> TAKE i \in 1 .. n + 1
  <2>1. CASE i = 1
    BY <1>7, <1>8, <2>1
  <2>2. CASE i # 1
    <3>1. i - 1 \in 1..n /\ (i - 1) + 1 = i
      BY <1>1, <2>2
    <3> QED BY <1>7, <1>8, <3>1
  <2> QED BY <2>1, <2>2
<1>10. u = c
  BY <1>1, <1>5, <1>6, <1>8, <1>9, SeqEqual
<1> QED BY <1>10 DEF u, v, c, r, a

\* One message of the flight, and the others.
LEMMA SinglyStep ==
    ASSUME NEW k \in Nat, k - 1 \in Nat, NEW s \in Suites, NEW p \in FlightPlaces \cup {"ServerHello"},
           NEW q, NEW b \in Seq(Messages),
           Leads(DownSteps(k, s), DownThen(s, p), q, Singly(k - 1, b))
    PROVE  Leads(DownSteps(k, s), p, q, Singly(k - 1, << Msg(p, DownInfo(s, p)) >> \o b))
<1> DEFINE m == Msg(p, DownInfo(s, p))
           r == Record("handshake", k - 1, << m >>)
           x == DownThen(s, p)
           T == DownSteps(k, s)
<1>1. m \in Messages
  <2>1. p \in MessageNames
    BY DEF FlightPlaces, MessageNames
  <2>2. DownInfo(s, p) \in Infos
    BY DEF DownInfo, Infos, FlightPlaces
  <2> QED BY <2>1, <2>2 DEF Msg, Messages
<1>2. r \in Records /\ << r >> \in Seq(Records)
  <2>1. << m >> \in Seq(Messages)
    BY <1>1
  <2> QED BY <2>1 DEF Record, Records, ContentTypes
<1>3. << p, r, x >> \in T
  <2>1. p # "end" /\ p # "ccs" /\ p \in DownPlaces /\ DownKey(k, p) = k - 1
    BY DEF FlightPlaces, DownPlaces, DownKey
  <2>2. r.key = k - 1 /\ r.ct = "handshake" /\ r.msgs = << m >>
    BY DEF Record
  <2>3. DownMoves(k, s, p, r, x)
    BY <2>1, <2>2 DEF DownMoves
  <2> HIDE DEF r
  <2> QED BY <1>2, <2>1, <2>3, DownStep, DownThenType
<1>4. Leads(T, p, x, << r >>)
  BY <1>3, LeadsOne
<1>5. Singly(k - 1, b) \in Seq(Records)
  BY SinglyType
<1> HIDE DEF T, x
<1>6. Leads(T, p, q, << r >> \o Singly(k - 1, b))
  <2>1. Leads(T, x, q, Singly(k - 1, b))
    BY DEF T, x
  <2> HIDE DEF r
  <2> QED BY <1>2, <1>4, <1>5, <2>1, LeadsConcat
<1>7. Singly(k - 1, << m >> \o b) = << r >> \o Singly(k - 1, b)
  <2> HIDE DEF m
  <2> QED BY <1>1, SinglyBefore
<1> QED BY <1>6, <1>7 DEF T

\* The flight of the server (ssl_srv.c writes it in one go) leads from the
\* ServerHello past the ServerHelloDone, in whatever records it is packed.
LEMMA FlightLeads ==
    ASSUME NEW k \in {1, 2}, NEW s \in Suites, NEW rs \in Packings(k - 1, Flight(s))
    PROVE  /\ rs \in Seq(Records)
           /\ Leads(DownSteps(k, s), "ServerHello", AfterFlight(s), rs)
<1>0. k \in Nat /\ k - 1 \in Nat
  OBVIOUS
<1> DEFINE q == AfterFlight(s)
           T == DownSteps(k, s)
           Rest(b) == Singly(k - 1, b)
<1>f. Flight(s) \in Seq(Messages)
  BY FlightType
<1>1. rs \in Seq(Records)
  BY <1>0, <1>f, PackingsType
<1>2. CASE rs = << Record("handshake", k - 1, Flight(s)) >>
  <2> DEFINE r == Record("handshake", k - 1, Flight(s))
  <2>1. r \in Records
    BY <1>0, <1>f DEF Record, Records, ContentTypes
  <2>2. DownMoves(k, s, "ServerHello", r, q)
    BY DEF DownMoves, DownKey, Record
  <2>3. << "ServerHello", r, q >> \in T
    <3>1. "ServerHello" \in DownPlaces
      BY DEF DownPlaces
    <3> HIDE DEF r
    <3> QED BY <2>1, <2>2, <3>1, DownStep, DownThenType
  <2>4. rs = << r >>
    BY <1>2
  <2> HIDE DEF r
  <2>5. Leads(T, "ServerHello", q, << r >>)
    BY <2>3, LeadsOne
  <2> QED BY <1>1, <2>4, <2>5
<1>3. CASE rs = Singly(k - 1, Flight(s))
  <2>0. /\ Flight5 \in Seq(Messages) /\ Flight4(s) \in Seq(Messages)
        /\ Flight3(s) \in Seq(Messages) /\ Flight2(s) \in Seq(Messages)
        /\ << >> \in Seq(Messages)
    BY FlightTypes
  <2>1. Leads(T, q, q, Rest(<< >>))
    <3>1. Singly(k - 1, << >>) = << >>
      BY DEF Singly
    <3> QED BY <3>1, LeadsNone
  <2> HIDE DEF q
  <2>2. Leads(T, "ServerHelloDone", q, Rest(Flight5))
    <3>1. /\ "ServerHelloDone" \in FlightPlaces /\ DownThen(s, "ServerHelloDone") = q
          /\ DownInfo(s, "ServerHelloDone") = << >>
      BY DEF FlightPlaces, DownThen, DownInfo, q
    <3>2. Flight5 = << Msg("ServerHelloDone", << >>) >> \o << >>
      BY DEF Flight5
    <3> QED BY <1>0, <2>0, <2>1, <3>1, <3>2, SinglyStep
  <2>3. Leads(T, Request(s), q, Rest(Flight4(s)))
    <3>1. CASE s.auth
      <4>1. /\ "CertificateRequest" \in FlightPlaces
            /\ DownThen(s, "CertificateRequest") = "ServerHelloDone"
            /\ DownInfo(s, "CertificateRequest") = << >>
        BY DEF FlightPlaces, DownThen, DownInfo
      <4>2. /\ Request(s) = "CertificateRequest"
            /\ Flight4(s) = << Msg("CertificateRequest", << >>) >> \o Flight5
        BY <3>1 DEF Request, Flight4
      <4> QED BY <1>0, <2>0, <2>2, <4>1, <4>2, SinglyStep
    <3>2. CASE ~s.auth
      BY <2>2, <3>2 DEF Request, Flight4
    <3> QED BY <3>1, <3>2
  <2>4. Leads(T, Exchange(s), q, Rest(Flight3(s)))
    <3>1. CASE s.ske
      <4>1. /\ "ServerKeyExchange" \in FlightPlaces
            /\ DownThen(s, "ServerKeyExchange") = Request(s)
            /\ DownInfo(s, "ServerKeyExchange") = << >>
        BY DEF FlightPlaces, DownThen, DownInfo
      <4>2. /\ Exchange(s) = "ServerKeyExchange"
            /\ Flight3(s) = << Msg("ServerKeyExchange", << >>) >> \o Flight4(s)
        BY <3>1 DEF Exchange, Flight3
      <4> QED BY <1>0, <2>0, <2>3, <4>1, <4>2, SinglyStep
    <3>2. CASE ~s.ske
      BY <2>3, <3>2 DEF Exchange, Flight3
    <3> QED BY <3>1, <3>2
  <2>5. Leads(T, "Certificate", q, Rest(Flight2(s)))
    <3>1. /\ "Certificate" \in FlightPlaces /\ DownThen(s, "Certificate") = Exchange(s)
          /\ DownInfo(s, "Certificate") = << >>
      BY DEF FlightPlaces, DownThen, DownInfo
    <3>2. Flight2(s) = << Msg("Certificate", << >>) >> \o Flight3(s)
      BY DEF Flight2
    <3> QED BY <1>0, <2>0, <2>4, <3>1, <3>2, SinglyStep
  <2>6. Leads(T, "ServerHello", q, Rest(Flight(s)))
    <3>1. /\ DownThen(s, "ServerHello") = "Certificate" /\ DownInfo(s, "ServerHello") = s
      BY DEF DownThen, DownInfo
    <3>2. Flight(s) = << Msg("ServerHello", s) >> \o Flight2(s)
      <4>1. Flight(s) = << Head(Flight(s)) >> \o Tail(Flight(s))
        <5>1. Flight(s) # << >>
          BY FlightIs
        <5> DEFINE a == Flight(s)
        <5> HIDE DEF a
        <5>2. a \in Seq(Messages) /\ a # << >>
          BY <1>f, <5>1 DEF a
        <5>3. a = << Head(a) >> \o Tail(a)
          BY <5>2
        <5> QED BY <5>3 DEF a
      <4> QED BY <4>1, FlightIs
    <3> QED BY <1>0, <2>0, <2>5, <3>1, <3>2, SinglyStep
  <2> QED BY <1>1, <1>3, <2>6 DEF q
<1> QED BY <1>1, <1>2, <1>3 DEF Packings, Singly

\* ChangeCipherSpec and Finished, with a ticket before them or not.
LEMMA FinishLeads ==
    ASSUME NEW k \in {1, 2}, NEW s \in Suites, NEW a \in Seq(Records), NEW h,
           a = (IF s.ticket
                THEN << Record("handshake", k - 1, << Msg("NewSessionTicket", << >>) >>) >>
                ELSE << >>),
           h = Final(s)
    PROVE  LET b == << Record("ccs", k - 1, << Msg("ccs", << >>) >>),
                       Record("handshake", k, << Msg("Finished", h) >>) >>
           IN  a \o b \in Seq(Records) /\ Leads(DownSteps(k, s), AfterFlight(s), "end", a \o b)
<1> DEFINE T == DownSteps(k, s)
           c == Record("ccs", k - 1, << Msg("ccs", << >>) >>)
           f == Record("handshake", k, << Msg("Finished", h) >>)
           n == Record("handshake", k - 1, << Msg("NewSessionTicket", << >>) >>)
<1>1. c \in Records /\ f \in Records /\ n \in Records
  <2>1. /\ << >> \in Infos /\ h \in Infos
        /\ {"ccs", "Finished", "NewSessionTicket"} \subseteq MessageNames
        /\ {"ccs", "handshake"} \subseteq ContentTypes
    BY HashType DEF Infos, MessageNames, ContentTypes
  <2>2. k \in Nat /\ k - 1 \in Nat
    OBVIOUS
  <2> QED BY <2>1, <2>2, SingleRecord
<1>2. << "ccs", c, "Finished" >> \in T
  <2>1. DownMoves(k, s, "ccs", c, "Finished")
    BY DEF DownMoves, DownKey, Record, DownInfo, DownThen
  <2> HIDE DEF c
  <2> QED BY <1>1, <2>1, DownStep DEF DownPlaces
<1>3. << "Finished", f, "end" >> \in T
  <2>1. DownMoves(k, s, "Finished", f, "end")
    BY DEF DownMoves, DownKey, Record, DownInfo, DownThen
  <2> HIDE DEF f
  <2> QED BY <1>1, <2>1, DownStep DEF DownPlaces
<1>4. << "NewSessionTicket", n, "ccs" >> \in T
  <2>1. DownMoves(k, s, "NewSessionTicket", n, "ccs")
    BY DEF DownMoves, DownKey, Record, DownInfo, DownThen
  <2> HIDE DEF n
  <2> QED BY <1>1, <2>1, DownStep DEF DownPlaces
<1> HIDE DEF T, c, f, n
<1>5. Leads(T, "ccs", "end", << c, f >>) /\ << c, f >> \in Seq(Records)
  <2>1. Leads(T, "ccs", "Finished", << c >>) /\ << c >> \in Seq(Records)
    BY <1>1, <1>2, LeadsOne
  <2>2. << c, f >> = Append(<< c >>, f)
    OBVIOUS
  <2>3. << c, f >> \in Seq(Records)
    BY <1>1
  <2>4. Leads(T, "ccs", "end", Append(<< c >>, f))
    BY <1>1, <1>3, <2>1, LeadsMore
  <2> QED BY <2>2, <2>3, <2>4
<1>6. Leads(T, AfterFlight(s), "ccs", a)
  <2>1. CASE s.ticket
    BY <1>4, <2>1, LeadsOne DEF AfterFlight, n
  <2>2. CASE ~s.ticket
    BY <2>2, LeadsNone DEF AfterFlight
  <2> QED BY <2>1, <2>2
<1>7. Leads(T, AfterFlight(s), "end", a \o << c, f >>) /\ a \o << c, f >> \in Seq(Records)
  BY <1>5, <1>6, LeadsConcat, ConcatProperties
<1> QED BY <1>7 DEF T, c, f

-----------------------------------------------------------------------------
(* What the client reads.                                                  *)

\* The message it waits for.
Expected(o) ==
    /\ Awaited # "end"
    /\ o.rec.ct = IF Awaited = "ccs" THEN "ccs" ELSE "handshake"
    /\ Len(o.rec.msgs) >= 1
    /\ Head(o.rec.msgs) = Msg(Awaited, DownInfo(srvSuite, Awaited))
    /\ o.hash = IF Awaited = "ccs" THEN hash ELSE Append(hash, Awaited)
    /\ Comes(Negotiated, srvSuite, DownThen(srvSuite, Awaited), Offered, o.rec, o.rest)

\* Something that comes in between.
Aside(o) ==
    /\ Len(o.rec.msgs) = 1
    /\ \/ o.rec.ct = "data" /\ Between(Negotiated, Awaited)
       \/ /\ o.rec.ct = "alert" /\ Name(o.rec) = "no_renegotiation"
          /\ state = "SERVER_HELLO" /\ Negotiated = 2
       \/ /\ o.rec.ct = "handshake" /\ Name(o.rec) = "HelloRequest"
          /\ Between(Negotiated, Awaited) /\ ~keep /\ ~offt
    /\ o.rec.ct # "handshake" => o.hash = hash
    /\ Leads(DownSteps(Negotiated, srvSuite), Awaited, Offered, o.rest)

\* It waits for a message that comes.
LEMMA AwaitedType ==
    /\ Awaited \in DownPlaces /\ OnRow(srvSuite, Awaited)
    /\ state \in EndStates => Awaited = "end"
    /\ Negotiated \in {1, 2}
<1>1. Awaited \in DownPlaces /\ OnRow(srvSuite, Awaited)
  BY DEF Awaited, OnRow, Exchange, Request, AfterFlight, DownPlaces
<1>2. state \in EndStates => Awaited = "end"
  BY DEF Awaited, EndStates, HelloStates, ReplyStates
<1> QED BY <1>1, <1>2 DEF Negotiated

\* It waits for nothing when the handshake is at its end.
LEMMA AwaitedEnd ==
    ASSUME Types
    PROVE  /\ Awaited = "end" <=> state \in EndStates
           /\ Awaited = "ServerHello" <=> state \in HelloStates \cup {"SERVER_HELLO"}
BY DEF Types, ClientStates, Awaited, EndStates, HelloStates, ReplyStates, FlightStates,
       ClosingStates, Exchange, Request, AfterFlight

\* What mbedtls_ssl_read_record gives is the next of the row or comes beside it.
LEMMA ReadsNext ==
    ASSUME Types, KnownInv, DownInv, InputInv, srvSuite \in Suites, NEW o \in Obtained,
           state \notin HelloStates
    PROVE  \/ ~keep /\ ~offt /\ (Expected(o) \/ Aside(o))
           \/ /\ KeptDone /\ o.rec = cur /\ o.hash = hash /\ o.rest = toClient
              /\ Leads(DownSteps(Negotiated, srvSuite), AfterFlight(srvSuite), Offered, toClient)
           \/ PutAside /\ o.rec = cur /\ o.hash = hash /\ o.rest = toClient /\ Aside(o)
<1> DEFINE k == Negotiated
           s == srvSuite
           p == Awaited
           q == Offered
           T == DownSteps(k, s)
<1>0. keep \in BOOLEAN /\ offt \in BOOLEAN /\ cur \in Records /\ toClient \in Seq(Records)
  BY DEF InputInv
<1>1. CASE keep \/ offt
  <2>1. o.rec = cur /\ o.hash = hash /\ o.rest = toClient
    BY <1>1 DEF Obtained, Exhausted
  <2>2. CASE KeptDone /\ Leads(T, AfterFlight(s), q, toClient)
    BY <2>1, <2>2
  <2>3. CASE PutAside /\ Leads(T, p, q, toClient)
    <3>1. Between(k, p)
      <4>1. state = "SERVER_HELLO" => p = "ServerHello" /\ k = 2
        <5>1. Negotiated = 2
          BY <2>3 DEF PutAside
        <5>2. state = "SERVER_HELLO" => Awaited = "ServerHello"
          BY AwaitedEnd
        <5> QED BY <5>1, <5>2
      <4>2. Over => p = "end"
        BY AwaitedType DEF Over, EndStates
      <4> QED BY <2>3, <4>1, <4>2 DEF PutAside, Between
    <3> HIDE DEF p, q, T, k
    <3>2. Aside(o)
      <4> USE DEF p, q, T, k
      <4> QED BY <2>1, <2>3, <3>1 DEF Aside, PutAside
    <3> QED BY <2>1, <2>3, <3>2
  <2> QED BY <1>1, <2>2, <2>3 DEF DownInv
<1>2. CASE ~keep /\ ~offt /\ Len(cur.msgs) <= 1
  <2>1. Leads(T, p, q, toClient)
    BY <1>2 DEF DownInv, Comes, KeptDone, PutAside
  <2>2. o \in Fetched
    BY <1>2 DEF Obtained, Exhausted
  <2> DEFINE r == Head(toClient)
             w == Tail(toClient)
  <2>3. /\ toClient # << >> /\ r.key = keyIn /\ Name(r) \notin {"warning", "fatal"}
        /\ o.rec = r /\ o.rest = w /\ o.hash = Hashed(r)
    BY <2>2 DEF Fetched, Obtains
  <2>4. r \in Records /\ w \in Seq(Records)
    BY <1>0, <2>3, HeadTailProperties
  <2> HIDE DEF r, w
  <2>5. PICK x : << p, r, x >> \in T /\ Leads(T, x, q, w)
    <3>1. \E x : << p, Head(toClient), x >> \in T /\ Leads(T, x, q, Tail(toClient))
      <4> HIDE DEF T, p, q
      <4> QED BY <1>0, <2>1, <2>3, LeadsFirst
    <3> QED BY <3>1 DEF r, w
  <2>6. \/ DownMoves(k, s, p, r, x)
        \/ DownBeside(k, p, r) /\ x = p
    BY <2>5, DownStep
  <2>7. CASE DownBeside(k, p, r) /\ x = p
    <3>1. Aside(o)
      <4>1. Leads(DownSteps(Negotiated, srvSuite), Awaited, Offered, o.rest)
        BY <2>3, <2>5, <2>7
      <4>2. /\ Len(r.msgs) = 1
            /\ \/ r.ct = "data" /\ Between(k, p)
               \/ r.ct = "alert" /\ Name(r) = "no_renegotiation" /\ p = "ServerHello" /\ k = 2
               \/ r.ct = "handshake" /\ Name(r) = "HelloRequest" /\ Between(k, p)
        BY <2>3, <2>7 DEF DownBeside
      <4>3. p = "ServerHello" => state = "SERVER_HELLO"
        BY AwaitedEnd
      <4>4. r.ct # "handshake" => o.hash = hash
        BY <2>3 DEF Hashed
      <4> QED BY <1>2, <2>3, <4>1, <4>2, <4>3, <4>4 DEF Aside
    <3> QED BY <1>2, <3>1
  <2>8. CASE DownMoves(k, s, p, r, x)
    <3>1. p # "end" /\ r.ct = IF p = "ccs" THEN "ccs" ELSE "handshake"
      BY <2>8 DEF DownMoves
    <3>2. ~Over
      BY <3>1, AwaitedType DEF Over, EndStates
    <3>3. CASE r.msgs = << Msg(p, DownInfo(s, p)) >> /\ x = DownThen(s, p)
      <4>1. Len(r.msgs) = 1 /\ Head(r.msgs) = Msg(p, DownInfo(s, p))
        BY <3>3
      <4>2. o.hash = IF p = "ccs" THEN hash ELSE Append(hash, p)
        BY <2>3, <3>1, <3>2, <4>1 DEF Hashed, Name, Msg
      <4>3. Comes(k, s, DownThen(s, p), q, o.rec, o.rest)
        BY <2>3, <2>5, <3>3, <4>1 DEF Comes
      <4>4. Expected(o)
        BY <2>3, <3>1, <4>1, <4>2, <4>3 DEF Expected
      <4> QED BY <1>2, <4>4
    <3>4. CASE p = "ServerHello" /\ r.msgs = Flight(s) /\ x = AfterFlight(s)
      <4>1. /\ Len(r.msgs) > 1 /\ Head(r.msgs) = Msg("ServerHello", s)
            /\ Tail(r.msgs) = Flight2(s)
        BY <3>4, FlightIs
      <4>2. DownInfo(s, p) = s /\ DownThen(s, p) = "Certificate"
        BY <3>4 DEF DownInfo, DownThen
      <4>3. o.hash = Append(hash, p)
        BY <2>3, <3>1, <3>2, <3>4, <4>1 DEF Hashed, Name, Msg
      <4>4. Comes(k, s, DownThen(s, p), q, o.rec, o.rest)
        <5>1. "Certificate" \in FlightPlaces /\ FlightFrom(s, "Certificate") = Flight2(s)
          BY DEF FlightPlaces, FlightFrom
        <5> QED BY <2>3, <2>5, <3>1, <3>4, <4>1, <4>2, <5>1 DEF Comes
      <4>5. Len(r.msgs) >= 1
        <5>1. Len(Flight(s)) \in Nat
          BY FlightType, LenProperties
        <5> QED BY <3>4, <4>1, <5>1
      <4>6. Expected(o)
        BY <2>3, <3>1, <3>4, <4>1, <4>2, <4>3, <4>4, <4>5 DEF Expected
      <4> QED BY <1>2, <4>6
    <3> QED BY <2>8, <3>3, <3>4 DEF DownMoves
  <2> QED BY <2>6, <2>7, <2>8
<1>3. CASE ~keep /\ ~offt /\ ~(Len(cur.msgs) <= 1)
  <2>1. /\ cur.ct = "handshake" /\ p \in FlightPlaces
        /\ Tail(cur.msgs) = FlightFrom(s, p)
        /\ Leads(T, AfterFlight(s), q, toClient)
    BY <1>3 DEF DownInv, Comes, KeptDone, PutAside
  <2> DEFINE r == [cur EXCEPT !.msgs = Tail(@)]
  <2>2. o.rec = r /\ o.rest = toClient /\ o.hash = Hashed(r)
    BY <1>3 DEF Obtained, Obtains, Exhausted
  <2>3. r.ct = "handshake" /\ r.msgs = FlightFrom(s, p)
    BY <1>0, <2>1 DEF Records
  <2> HIDE DEF r
  <2>4. /\ Len(r.msgs) >= 1 /\ Head(r.msgs) = Msg(p, << >>)
        /\ p = "ServerHelloDone" => Len(r.msgs) <= 1
        /\ p # "ServerHelloDone" =>
             /\ Len(r.msgs) > 1
             /\ DownThen(s, p) \in FlightPlaces
             /\ Tail(r.msgs) = FlightFrom(s, DownThen(s, p))
        /\ DownThen(s, "ServerHelloDone") = AfterFlight(s)
    BY <2>1, <2>3, AwaitedType, FlightStep
  <2>5. p # "end" /\ p # "ccs" /\ DownInfo(s, p) = << >>
    BY <2>1 DEF FlightPlaces, DownInfo
  <2>6. ~Over
    BY <2>5, AwaitedType DEF Over, EndStates
  <2>7. o.hash = Append(hash, p)
    BY <2>2, <2>3, <2>4, <2>6 DEF Hashed, Name, Msg
  <2>8. Comes(k, s, DownThen(s, p), q, o.rec, o.rest)
    <3>1. CASE p = "ServerHelloDone"
      BY <2>1, <2>2, <2>4, <3>1 DEF Comes
    <3>2. CASE p # "ServerHelloDone"
      BY <2>1, <2>2, <2>3, <2>4, <3>2 DEF Comes
    <3> QED BY <3>1, <3>2
  <2>9. Expected(o)
    BY <2>2, <2>3, <2>4, <2>5, <2>7, <2>8 DEF Expected
  <2> QED BY <1>3, <2>9
<1> QED BY <1>0, <1>1, <1>2, <1>3

-----------------------------------------------------------------------------
(* What the client sends.                                                  *)

\* What is under way to the server is records, and so is what waits for room.
LEMMA SentType ==
    ASSUME Types
    PROVE  Sent \in Seq(Records) /\ out \in Seq(Records)
<1>1. out \in Seq(Records)
  <2>1. << >> \in Seq(Records) /\ \A r \in Records : << r >> \in Seq(Records)
    OBVIOUS
  <2> QED BY <2>1 DEF Types
<1> QED BY <1>1, ConcatProperties DEF Types, Sent

\* A record is sent, or waits to be.
LEMMA SentMore ==
    ASSUME Types, out = << >>, NEW r \in Records, NEW done, Write(r, done)
    PROVE  /\ Sent' = Append(Sent, r) /\ toServer' \in Seq(Records)
           /\ out' = << >> \/ out' = << r >>
           /\ api' = done \/ api' = Wanting
<1>1. toServer \in Seq(Records)
  BY DEF Types
<1>2. Sent = toServer
  BY <1>1, ConcatEmptySeq DEF Sent
<1>3. CASE toServer' = Append(toServer, r) /\ api' = done /\ UNCHANGED out
  <2>1. Append(toServer, r) \in Seq(Records)
    BY <1>1, AppendProperties
  <2>2. Append(toServer, r) \o << >> = Append(toServer, r)
    BY <2>1, ConcatEmptySeq
  <2> QED BY <1>2, <1>3, <2>1, <2>2 DEF Sent
<1>4. CASE out' = << r >> /\ api' = Wanting /\ UNCHANGED toServer
  <2>1. toServer \o << r >> = Append(toServer, r)
    BY <1>1, AppendIsConcat
  <2> QED BY <1>1, <1>2, <1>4, <2>1 DEF Sent
<1> QED BY <1>3, <1>4 DEF Write

\* A record that waited is sent.
LEMMA SentFlushed ==
    ASSUME Types, toServer' = toServer \o out, out' = << >>
    PROVE  Sent' = Sent /\ toServer' \in Seq(Records)
<1>1. Sent \in Seq(Records) /\ toServer' = Sent
  BY SentType DEF Sent
<1>2. Sent \o << >> = Sent
  BY <1>1, ConcatEmptySeq
<1>3. Sent' = toServer' \o out'
  BY DEF Sent
<1> QED BY <1>1, <1>2, <1>3

\* The server reads the first record.
LEMMA SentRead ==
    ASSUME Types, toServer # << >>, toServer' = Tail(toServer), UNCHANGED out
    PROVE  /\ Sent # << >> /\ Head(Sent) = Head(toServer) /\ Sent' = Tail(Sent)
           /\ Sent' \in Seq(Records) /\ toServer' \in Seq(Records)
           /\ Head(toServer) \in Records
<1>1. toServer \in Seq(Records) /\ out \in Seq(Records)
  BY SentType DEF Types
<1>2. /\ toServer \o out # << >> /\ Head(toServer \o out) = Head(toServer)
      /\ Tail(toServer \o out) = Tail(toServer) \o out
  BY <1>1
<1>3. Tail(toServer) \in Seq(Records) /\ Head(toServer) \in Records
  BY <1>1, HeadTailProperties
<1>4. Tail(toServer) \o out \in Seq(Records)
  BY <1>1, <1>3, ConcatProperties
<1> QED BY <1>2, <1>3, <1>4 DEF Sent

\* It has to do with where the client is only.
LEMMA UpSame ==
    ASSUME UpInv, UNCHANGED serverVars, Sent' = Sent, UNCHANGED << state, renego >>
    PROVE  UpInv'
<1>1. UNCHANGED << srv, srvHash, srvSuite, srvIn, srvOut >>
  BY DEF serverVars
<1>2. Negotiated' = Negotiated /\ Start' = Start /\ Promised' = Promised
  BY <1>1 DEF Negotiated, Start, Promised
<1>3. HelloComing => HelloComing'
  BY <1>1, <1>2 DEF HelloComing
<1>4. Unanswered => Unanswered'
  BY <1>1, <1>2 DEF Unanswered
<1>5. Listening => Listening'
  BY <1>1, <1>2 DEF Listening
<1>6. Through => Through'
  BY <1>1, <1>2 DEF Through
<1> QED BY <1>1, <1>3, <1>4, <1>5, <1>6 DEF UpInv

\* A step without I/O that promises the same.
LEMMA UpStays ==
    ASSUME UpInv, Listening \/ Through, UNCHANGED serverVars, Sent' = Sent,
           UNCHANGED renego \/ (renego = "in_progress" /\ renego' = "done"),
           Promised' = Promised,
           state' \notin HelloStates, state \in ClosingStates => state' \in ClosingStates
    PROVE  UpInv' /\ (Listening' \/ Through')
<1>1. UNCHANGED << srv, srvHash, srvSuite, srvIn, srvOut >>
  BY DEF serverVars
<1>2. Negotiated' = Negotiated
  BY DEF Negotiated
<1>5. Listening => Listening'
  BY <1>1, <1>2 DEF Listening
<1>6. Through => Through'
  BY <1>1, <1>2 DEF Through
<1> QED BY <1>1, <1>5, <1>6 DEF UpInv

\* The next message is written.
LEMMA UpWrites ==
    ASSUME Types, UpInv, Listening, UNCHANGED << serverVars, renego >>,
           NEW r \in Records, Sent' = Append(Sent, r),
           << Promised, r, Promised' >> \in UpSteps(Negotiated, srvSuite),
           state' \notin HelloStates
    PROVE  UpInv' /\ Listening'
<1>1. UNCHANGED << srv, srvHash, srvSuite, srvIn, srvOut >>
  BY DEF serverVars
<1>2. Negotiated' = Negotiated
  BY DEF Negotiated
<1>3. Leads(UpSteps(Negotiated, srvSuite), srv, Promised', Append(Sent, r))
  <2> DEFINE T == UpSteps(Negotiated, srvSuite)
             p == Promised
             x == Promised'
  <2>1. Leads(T, srv, p, Sent) /\ << p, r, x >> \in T /\ Sent \in Seq(Records)
    BY SentType DEF Listening
  <2> HIDE DEF T, p, x
  <2>2. Leads(T, srv, x, Append(Sent, r))
    BY <2>1, LeadsMore
  <2> QED BY <2>2 DEF T, x
<1>4. Listening'
  BY <1>1, <1>2, <1>3 DEF Listening
<1> QED BY <1>1, <1>4 DEF UpInv

\* Past the handshakes, alerts and packets are written.
LEMMA UpAfter ==
    ASSUME Types, UpInv, Through, renego = "done", UNCHANGED << serverVars, state, renego >>,
           NEW r \in Records, Sent' = Append(Sent, r), Beyond(r)
    PROVE  UpInv'
<1>1. UNCHANGED << srv, srvHash, srvSuite, srvIn, srvOut >>
  BY DEF serverVars
<1>2. Negotiated' = Negotiated
  BY DEF Negotiated
<1>3. \A i \in 1..Len(Append(Sent, r)) : Beyond(Append(Sent, r)[i])
  <2> DEFINE w == Sent
  <2>1. w \in Seq(Records) /\ \A i \in 1..Len(w) : Beyond(w[i])
    BY SentType DEF Through
  <2> HIDE DEF w
  <2>2. /\ Len(Append(w, r)) = Len(w) + 1 /\ Len(w) \in Nat
        /\ \A i \in 1 .. Len(w) + 1 : Append(w, r)[i] = IF i <= Len(w) THEN w[i] ELSE r
    BY <2>1
  <2>3. \A i \in 1..Len(Append(w, r)) : Beyond(Append(w, r)[i])
    BY <2>1, <2>2
  <2> QED BY <2>3 DEF w
<1>4. Through'
  BY <1>1, <1>2, <1>3 DEF Through
<1> QED BY <1>1, <1>4 DEF UpInv
-----------------------------------------------------------------------------
(* The client's side of a step.                                            *)

\* Nothing is read, and the client waits for the same.
LEMMA DownStays ==
    ASSUME DownInv, UNCHANGED serverVars, UNCHANGED << cur, keep, offt, toClient >>,
           Negotiated' = Negotiated, Awaited' = Awaited, ~keep, ~offt
    PROVE  DownInv'
<1>1. UNCHANGED << srv, srvSuite, srvOut >>
  BY DEF serverVars
<1>2. Offered' = Offered
  BY <1>1 DEF Offered
<1>3. Comes(Negotiated, srvSuite, Awaited, Offered, cur, toClient)
  BY DEF DownInv, KeptDone, PutAside
<1>4. Comes(Negotiated, srvSuite, Awaited, Offered, cur, toClient)'
  <2>1. Comes(Negotiated', srvSuite', Awaited', Offered', cur', toClient')
    BY <1>1, <1>2, <1>3
  <2> QED BY <2>1 DEF Comes
<1> QED BY <1>4 DEF DownInv

\* Nothing is read, and the client is where it was.
LEMMA DownSame ==
    ASSUME DownInv, UNCHANGED serverVars, UNCHANGED << cur, keep, offt, toClient >>,
           UNCHANGED << state, renego, suite >>
    PROVE  DownInv' /\ Awaited' = Awaited /\ Negotiated' = Negotiated
<1>1. UNCHANGED << srv, srvSuite, srvOut >>
  BY DEF serverVars
<1>2. Negotiated' = Negotiated
  BY DEF Negotiated
<1>3. Offered' = Offered /\ Awaited' = Awaited
  BY <1>1, <1>2 DEF Offered, Awaited
<1>4. KeptDone => KeptDone'
  BY DEF KeptDone
<1>5. PutAside => PutAside'
  BY <1>2 DEF PutAside, Over
<1>6. ASSUME ~keep, ~offt PROVE DownInv'
  BY <1>2, <1>3, <1>6, DownStays
<1>7. CASE /\ KeptDone
           /\ Leads(DownSteps(Negotiated, srvSuite), AfterFlight(srvSuite), Offered, toClient)
  BY <1>1, <1>2, <1>3, <1>4, <1>7 DEF DownInv
<1>8. CASE /\ PutAside
           /\ Leads(DownSteps(Negotiated, srvSuite), Awaited, Offered, toClient)
  BY <1>1, <1>2, <1>3, <1>5, <1>8 DEF DownInv
<1>9. DownInv'
  BY <1>6, <1>7, <1>8 DEF DownInv
<1> QED BY <1>2, <1>3, <1>9

\* The message that is expected is taken.
LEMMA DownTakes ==
    ASSUME UNCHANGED serverVars, NEW o, Expected(o), cur' = o.rec, toClient' = o.rest,
           ~keep', ~offt', Negotiated' = Negotiated,
           Awaited' = DownThen(srvSuite, Awaited)
    PROVE  DownInv'
<1>1. UNCHANGED << srv, srvSuite, srvOut >>
  BY DEF serverVars
<1>2. Offered' = Offered
  BY <1>1 DEF Offered
<1>3. Comes(Negotiated, srvSuite, DownThen(srvSuite, Awaited), Offered, o.rec, o.rest)
  BY DEF Expected
<1>4. Comes(Negotiated', srvSuite', Awaited', Offered', cur', toClient')
  BY <1>1, <1>2, <1>3
<1> QED BY <1>4 DEF DownInv, Comes

\* The next state waits for the next message.
LEMMA AwaitedNext ==
    ASSUME UNCHANGED srvSuite
    PROVE  /\ state = "SERVER_HELLO" /\ state' = "SERVER_CERTIFICATE"
                => Awaited' = DownThen(srvSuite, Awaited)
           /\ state = "SERVER_CERTIFICATE" /\ state' = "SERVER_KEY_EXCHANGE"
                => Awaited' = DownThen(srvSuite, Awaited)
           /\ state = "SERVER_KEY_EXCHANGE" /\ state' = "CERTIFICATE_REQUEST"
                => Awaited' = IF srvSuite.ske THEN DownThen(srvSuite, Awaited) ELSE Awaited
           /\ state = "CERTIFICATE_REQUEST" /\ state' = "SERVER_HELLO_DONE"
                => Awaited' = IF srvSuite.auth THEN DownThen(srvSuite, Awaited) ELSE Awaited
           /\ state = "SERVER_HELLO_DONE" /\ state' \in ReplyStates
                => Awaited' = DownThen(srvSuite, Awaited)
           /\ state \in ReplyStates /\ state' \in ReplyStates
                => Awaited' = Awaited
           /\ state \in EndStates /\ state' \in EndStates
                => Awaited' = Awaited
           /\ state \in HelloStates /\ state' \in HelloStates \cup {"SERVER_HELLO"}
                => Awaited' = Awaited
BY DEF Awaited, DownThen, Exchange, Request, HelloStates, ReplyStates, EndStates

-----------------------------------------------------------------------------
(* The steps of the handshake without input.                               *)

\* The next state promises the next message.
LEMMA PromisedNext ==
    ASSUME UNCHANGED srvSuite
    PROVE  /\ (/\ state \in {"SERVER_HELLO", "CLIENT_CERTIFICATE"} \cup FlightStates
               /\ state' \in {"CLIENT_CERTIFICATE"} \cup FlightStates)
                => Promised' = Promised
           /\ state = "CLIENT_CERTIFICATE" /\ state' = "CLIENT_KEY_EXCHANGE"
                => IF srvSuite.auth
                   THEN Promised = "Certificate" /\ Promised' = "ClientKeyExchange"
                   ELSE Promised' = Promised
           /\ state = "CLIENT_KEY_EXCHANGE" /\ state' = "CERTIFICATE_VERIFY"
                => Promised = "ClientKeyExchange" /\ Promised' = Verify(srvSuite)
           /\ state = "CERTIFICATE_VERIFY" /\ state' = "CLIENT_CHANGE_CIPHER_SPEC"
                => IF srvSuite.auth
                   THEN Promised = "CertificateVerify" /\ Promised' = "ccs"
                   ELSE Promised' = Promised
           /\ state = "CLIENT_CHANGE_CIPHER_SPEC" /\ state' = "CLIENT_FINISHED"
                => Promised = "ccs" /\ Promised' = "Finished"
           /\ state = "CLIENT_FINISHED" /\ state' = "SERVER_CHANGE_CIPHER_SPEC"
                => Promised = "Finished" /\ Promised' = "up"
           /\ state \in ClosingStates /\ state' \in ClosingStates
                => Promised' = Promised
<1>1. /\ state \in {"SERVER_HELLO", "CLIENT_CERTIFICATE"} \cup FlightStates
           => Promised = First(srvSuite)
      /\ state' \in {"CLIENT_CERTIFICATE"} \cup FlightStates
           => Promised' = First(srvSuite)
  BY DEF Promised, FlightStates, ClosingStates, EndStates
<1>2. /\ state = "CLIENT_KEY_EXCHANGE" => Promised = "ClientKeyExchange"
      /\ state' = "CLIENT_KEY_EXCHANGE" => Promised' = "ClientKeyExchange"
  BY DEF Promised, ClosingStates, EndStates
<1>3. /\ state = "CERTIFICATE_VERIFY" => Promised = Verify(srvSuite)
      /\ state' = "CERTIFICATE_VERIFY" => Promised' = Verify(srvSuite)
  BY DEF Promised, ClosingStates, EndStates
<1>4. /\ state = "CLIENT_CHANGE_CIPHER_SPEC" => Promised = "ccs"
      /\ state' = "CLIENT_CHANGE_CIPHER_SPEC" => Promised' = "ccs"
  BY DEF Promised, ClosingStates, EndStates
<1>5. /\ state = "CLIENT_FINISHED" => Promised = "Finished"
      /\ state' = "CLIENT_FINISHED" => Promised' = "Finished"
  BY DEF Promised, ClosingStates, EndStates
<1>6. /\ state \in ClosingStates => Promised = "up"
      /\ state' \in ClosingStates => Promised' = "up"
  BY DEF Promised, ClosingStates, EndStates
<1>7. "SERVER_CHANGE_CIPHER_SPEC" \in ClosingStates
  BY DEF ClosingStates
<1>8. state = "CLIENT_CERTIFICATE" /\ state' = "CLIENT_KEY_EXCHANGE"
        => IF srvSuite.auth
           THEN Promised = "Certificate" /\ Promised' = "ClientKeyExchange"
           ELSE Promised' = Promised
  BY <1>1, <1>2 DEF First
<1>9. state = "CERTIFICATE_VERIFY" /\ state' = "CLIENT_CHANGE_CIPHER_SPEC"
        => IF srvSuite.auth
           THEN Promised = "CertificateVerify" /\ Promised' = "ccs"
           ELSE Promised' = Promised
  BY <1>3, <1>4 DEF Verify
<1> QED BY <1>1, <1>2, <1>3, <1>4, <1>5, <1>6, <1>7, <1>8, <1>9

\* Only the handshake keeps a message, only what comes beside it is kept longer.
LEMMA NothingKept ==
    ASSUME DownInv, state \notin {"SERVER_HELLO", "SERVER_HELLO_DONE", "HANDSHAKE_OVER"}
    PROVE  ~keep /\ ~offt
BY DEF DownInv, KeptDone, PutAside, Over

\* A step inside the handshake.
LEMMA CallNext ==
    ASSUME CallInv, InCall, ~Over, state' # "HANDSHAKE_OVER", UNCHANGED << renego, cause >>,
           api' = api \/ api' = Wanting
    PROVE  CallInv'
BY DEF CallInv, InCall, Over, Wanting

\* Nor has the server gone before the client's last message.
LEMMA HeardInTurn ==
    ASSUME UpInv
    PROVE  /\ state \in FlightStates \cup ReplyStates => Listening
           /\ state \in ClosingStates => Listening \/ Through
           /\ state \in HelloStates => HelloComing /\ Sent = << >>
BY DEF UpInv, HelloComing, Unanswered, Through, Listening, FlightStates, ReplyStates, ClosingStates,
       EndStates, HelloStates

\* The invariant with what the other theorems of this module give.
Lock ==
    /\ LockInv /\ InputInv
    /\ srvSuite \in Suites /\ seen \in Nat /\ written \in Nat

\* A step of mbedtls_ssl_handshake_client_step that only moves on keeps them in
\* step: HELLO_REQUEST, the flush, and the messages this suite does not have.
LEMMA SkipNext ==
    ASSUME Lock, UNCHANGED serverVars, NEW s, NEW c, Skip(s, c), c,
           \/ s = "HELLO_REQUEST" \/ s = "FLUSH_BUFFERS"
           \/ s = "SERVER_KEY_EXCHANGE" /\ ~suite.ske
           \/ s \in {"CLIENT_CERTIFICATE", "CERTIFICATE_VERIFY"} /\ ~auth
    PROVE  LockInv'
<1>1. /\ Types /\ Causes /\ UpInv /\ CallInv /\ KnownInv /\ DownInv
      /\ state = s /\ state' = After(s) /\ InCall /\ ~Over
      /\ UNCHANGED << api, cause, renego, suite, auth, cur, keep, offt, hash, keyIn,
                      keyOut, out, toServer, toClient >>
  BY DEF Lock, LockInv, Skip, Stepping, InCall, call, input, output, Over
<1>2. UNCHANGED << srv, srvHash, srvSuite, srvIn, srvOut >>
  BY DEF serverVars
<1>3. Negotiated' = Negotiated /\ Sent' = Sent
  BY <1>1 DEF Negotiated, Sent
<1>4. /\ s = "HELLO_REQUEST" => state' = "CLIENT_HELLO"
      /\ s = "SERVER_KEY_EXCHANGE" => state' = "CERTIFICATE_REQUEST"
      /\ s = "CLIENT_CERTIFICATE" => state' = "CLIENT_KEY_EXCHANGE"
      /\ s = "CERTIFICATE_VERIFY" => state' = "CLIENT_CHANGE_CIPHER_SPEC"
      /\ s = "FLUSH_BUFFERS" => state' = "HANDSHAKE_WRAPUP"
  BY <1>1, AfterIs
<1>5. /\ s = "SERVER_KEY_EXCHANGE" => ~srvSuite.ske
      /\ s \in {"CLIENT_CERTIFICATE", "CERTIFICATE_VERIFY"} => ~srvSuite.auth
  BY <1>1 DEF KnownInv, FlightStates, ReplyStates
<1>6. Awaited' = Awaited
  BY <1>1, <1>2, <1>4, <1>5, AwaitedNext DEF HelloStates, ReplyStates, EndStates
<1>7. ~keep /\ ~offt /\ DownInv'
  BY <1>1, <1>3, <1>6, NothingKept, DownStays
<1>8. state' \in ClientStates
  BY <1>4 DEF ClientStates, HelloStates, FlightStates, ReplyStates, ClosingStates, EndStates
<1>9. Types' /\ Causes'
  BY <1>1, <1>2, <1>8 DEF Types, Causes
<1>10. CallInv'
  BY <1>1, <1>4, CallNext
<1>11. UpInv'
  <2>1. CASE s = "HELLO_REQUEST"
    <3>1. HelloComing /\ Sent = << >> /\ state' \in HelloStates
      BY <1>1, <1>4, <2>1, HeardInTurn DEF HelloStates
    <3> QED BY <1>1, <1>2, <1>3, <3>1 DEF UpInv, HelloComing, Start
  <2>2. CASE s # "HELLO_REQUEST"
    <3>1. Promised' = Promised
      BY <1>1, <1>2, <1>4, <1>5, <2>2, PromisedNext DEF FlightStates, ClosingStates, EndStates
    <3>2. Listening \/ Through
      BY <1>1, <2>2, HeardInTurn DEF FlightStates, ReplyStates, ClosingStates, EndStates
    <3>3. state' \notin HelloStates /\ (state \in ClosingStates => state' \in ClosingStates)
      BY <1>1, <1>4, <2>2 DEF HelloStates, ClosingStates, EndStates
    <3> QED BY <1>1, <1>3, <3>1, <3>2, <3>3, UpStays
  <2> QED BY <2>1, <2>2
<1>12. KnownInv'
  <2>1. state' \in ClosingStates <=> state \in ClosingStates
    BY <1>1, <1>4 DEF ClosingStates, EndStates
  <2>2. keyOut' = IF state' \in ClosingStates THEN Negotiated' ELSE Negotiated' - 1
    BY <1>1, <1>3, <2>1 DEF KnownInv
  <2>3. keyIn' = DownKey(Negotiated', Awaited')
    BY <1>1, <1>3, <1>6 DEF KnownInv
  <2>4. state' \notin EndStates => hash' = Covered'
    BY <1>1, <1>2, <1>4, <1>5 DEF KnownInv, Covered, EndStates, HelloStates, Hello3, Reply1, Reply3
  <2>5. state' \in FlightStates \cup ReplyStates => suite' = srvSuite'
    BY <1>1, <1>2, <1>4 DEF KnownInv, FlightStates, ReplyStates
  <2>6. state' \in {"SERVER_HELLO_DONE"} \cup ReplyStates => auth' = srvSuite'.auth
    BY <1>1, <1>2, <1>4 DEF KnownInv, ReplyStates
  <2>7. state' # "SERVER_CHANGE_CIPHER_SPEC" /\ suite' \in Suites
    BY <1>1, <1>4 DEF KnownInv
  <2>8. (DownKey(Negotiated, Awaited))' = DownKey(Negotiated', Awaited')
    BY DEF DownKey
  <2> QED BY <2>2, <2>3, <2>4, <2>5, <2>6, <2>7, <2>8 DEF KnownInv
<1> QED BY <1>7, <1>9, <1>10, <1>11, <1>12 DEF LockInv

\* mbedtls_ssl_handshake_wrapup keeps them in step.
LEMMA WrapupNext ==
    ASSUME Lock, UNCHANGED serverVars, Wrapup
    PROVE  LockInv'
<1>1. /\ Types /\ Causes /\ UpInv /\ CallInv /\ KnownInv /\ DownInv
      /\ state = "HANDSHAKE_WRAPUP" /\ state' = "HANDSHAKE_OVER" /\ InCall
      /\ UNCHANGED << api, cause, suite, auth, cur, keep, offt, hash, keyIn,
                      keyOut, out, toServer, toClient >>
      /\ IF renego = "in_progress" THEN renego' = "done" ELSE UNCHANGED renego
  BY AfterIs DEF Lock, LockInv, Wrapup, Stepping, InCall, call, input, output
<1>2. UNCHANGED << srv, srvHash, srvSuite, srvIn, srvOut >>
  BY DEF serverVars
<1>3. Negotiated' = Negotiated /\ Sent' = Sent
  BY <1>1 DEF Negotiated, Sent
<1>6. Awaited' = Awaited
  BY <1>1, <1>2, AwaitedNext DEF EndStates
<1>7. DownInv'
  BY <1>1, <1>3, <1>6, NothingKept, DownStays
<1>9. Types' /\ Causes'
  BY <1>1, <1>2 DEF Types, Causes, ClientStates, ClosingStates, EndStates
<1>10. CallInv'
  BY <1>1 DEF CallInv, InCall
<1>11. UpInv'
  <2>1. Promised' = Promised
    BY <1>1, <1>2, PromisedNext DEF ClosingStates, EndStates
  <2>2. Listening \/ Through
    BY <1>1, HeardInTurn DEF ClosingStates, EndStates
  <2>3. state' \notin HelloStates /\ (state \in ClosingStates => state' \in ClosingStates)
    BY <1>1 DEF HelloStates, ClosingStates, EndStates
  <2> QED BY <1>1, <1>3, <2>1, <2>2, <2>3, UpStays
<1>12. KnownInv'
  <2>1. state' \in ClosingStates /\ state \in ClosingStates /\ state' \in EndStates
    BY <1>1 DEF ClosingStates, EndStates
  <2>2. keyOut' = Negotiated' /\ keyIn' = DownKey(Negotiated', Awaited')
    BY <1>1, <1>3, <1>6, <2>1 DEF KnownInv
  <2>3. /\ state' \notin FlightStates \cup ReplyStates
        /\ state' \notin {"SERVER_HELLO_DONE"} \cup ReplyStates
        /\ state' # "SERVER_CHANGE_CIPHER_SPEC" /\ suite' \in Suites
    BY <1>1 DEF KnownInv, FlightStates, ReplyStates
  <2>4. (DownKey(Negotiated, Awaited))' = DownKey(Negotiated', Awaited')
    BY DEF DownKey
  <2> QED BY <2>1, <2>2, <2>3, <2>4 DEF KnownInv
<1> QED BY <1>7, <1>9, <1>10, <1>11, <1>12 DEF LockInv

-----------------------------------------------------------------------------
(* The steps of the handshake that write.                                  *)

\* What the client sends is records.
LEMMA UpRecordType ==
    ASSUME NEW k \in {1, 2}, NEW s \in Suites, NEW p \in Hearing
    PROVE  UpRecord(k, s, p) \in Records
<1>1. p \in MessageNames
  BY DEF Hearing, MessageNames
<1>2. << >> \in Infos /\ Reply3(s) \in Infos
  BY HashType DEF Infos
<1>3. {"ccs", "handshake"} \subseteq ContentTypes /\ k \in Nat /\ k - 1 \in Nat
  BY DEF ContentTypes
<1> QED BY <1>1, <1>2, <1>3, SingleRecord DEF UpRecord

\* The flush before a step.
LEMMA FlushNext ==
    ASSUME Lock, UNCHANGED serverVars, FlushOutput
    PROVE  LockInv'
<1>1. /\ Types /\ Causes /\ UpInv /\ CallInv /\ KnownInv /\ DownInv /\ InCall
      /\ UNCHANGED << cause, state, renego, suite, auth, cur, keep, offt, hash, keyIn,
                      keyOut, toClient >>
      /\ api' = api \/ api' = Wanting
      /\ \/ toServer' = toServer \o out /\ out' = << >>
         \/ UNCHANGED << toServer, out >>
  BY DEF Lock, LockInv, FlushOutput, InCall, input, handshake
<1>2. UNCHANGED << srv, srvHash, srvSuite, srvIn, srvOut >>
  BY DEF serverVars
<1>3. Sent' = Sent /\ toServer' \in Seq(Records)
  <2>1. CASE toServer' = toServer \o out /\ out' = << >>
    BY <1>1, <2>1, SentFlushed
  <2>2. CASE UNCHANGED << toServer, out >>
    BY <1>1, <2>2 DEF Sent, Types
  <2> QED BY <1>1, <2>1, <2>2
<1>4. api' \in {"handshake", "renegotiate", "read", "read_on", "write", "idle", "failed"}
  BY <1>1 DEF Types, Wanting
<1>5. Types' /\ Causes'
  BY <1>1, <1>2, <1>3, <1>4 DEF Types, Causes
<1>6. CallInv'
  BY <1>1 DEF CallInv, Wanting, InCall
<1>7. UpInv'
  BY <1>1, <1>3, UpSame
<1>8. DownInv' /\ Awaited' = Awaited /\ Negotiated' = Negotiated
  BY <1>1, DownSame
<1>9. KnownInv'
  BY <1>1, <1>2, <1>8 DEF KnownInv, Covered, DownKey
<1> QED BY <1>5, <1>6, <1>7, <1>8, <1>9 DEF LockInv

\* The next message of the row is written.
LEMMA WriteNext ==
    ASSUME Lock, UNCHANGED serverVars, NEW s, Stepping(s),
           s \in ReplyStates, s \in {"CLIENT_CERTIFICATE", "CERTIFICATE_VERIFY"} => auth,
           state' = After(s),
           hash' = IF s = "CLIENT_CHANGE_CIPHER_SPEC" THEN hash ELSE Append(hash, Promised),
           keyOut' = IF s = "CLIENT_FINISHED" THEN Negotiated ELSE keyOut,
           Write(UpRecord(Negotiated, srvSuite, Promised), api),
           UNCHANGED << cause, renego, suite, auth, cur, keep, offt, keyIn, toClient >>
    PROVE  LockInv'
<1>1. /\ Types /\ Causes /\ UpInv /\ CallInv /\ KnownInv /\ DownInv /\ srvSuite \in Suites
      /\ state = s /\ InCall /\ ~Over /\ out = << >>
  BY DEF Lock, LockInv, Stepping, InCall, Over, ReplyStates
<1>2. UNCHANGED << srv, srvHash, srvSuite, srvIn, srvOut >>
  BY DEF serverVars
<1>3. Negotiated' = Negotiated
  BY DEF Negotiated
<1>4. /\ s = "CLIENT_CERTIFICATE" => state' = "CLIENT_KEY_EXCHANGE"
      /\ s = "CLIENT_KEY_EXCHANGE" => state' = "CERTIFICATE_VERIFY"
      /\ s = "CERTIFICATE_VERIFY" => state' = "CLIENT_CHANGE_CIPHER_SPEC"
      /\ s = "CLIENT_CHANGE_CIPHER_SPEC" => state' = "CLIENT_FINISHED"
      /\ s = "CLIENT_FINISHED" => state' = "SERVER_CHANGE_CIPHER_SPEC"
  BY AfterIs
<1>5. s \in {"CLIENT_CERTIFICATE", "CERTIFICATE_VERIFY"} => srvSuite.auth
  BY <1>1 DEF KnownInv, ReplyStates
<1>6. /\ s = "CLIENT_CERTIFICATE" =>
           Promised = "Certificate" /\ Promised' = "ClientKeyExchange"
      /\ s = "CLIENT_KEY_EXCHANGE" =>
           Promised = "ClientKeyExchange" /\ Promised' = Verify(srvSuite)
      /\ s = "CERTIFICATE_VERIFY" => Promised = "CertificateVerify" /\ Promised' = "ccs"
      /\ s = "CLIENT_CHANGE_CIPHER_SPEC" => Promised = "ccs" /\ Promised' = "Finished"
      /\ s = "CLIENT_FINISHED" => Promised = "Finished" /\ Promised' = "up"
  BY <1>1, <1>2, <1>4, <1>5, PromisedNext
<1>7. /\ Promised \in Hearing /\ Promised' \in UpPlaces
      /\ Promised' = UpThen(srvSuite, Promised)
  BY <1>6 DEF UpThen, Hearing, UpPlaces, Verify, ReplyStates
<1> DEFINE r == UpRecord(Negotiated, srvSuite, Promised)
<1>8. r \in Records
  <2>1. Negotiated \in {1, 2}
    BY DEF Negotiated
  <2> QED BY <1>1, <1>7, <2>1, UpRecordType
<1>9. << Promised, r, Promised' >> \in UpSteps(Negotiated, srvSuite)
  BY <1>7, <1>8, UpStep
<1> HIDE DEF r
<1>10. /\ Sent' = Append(Sent, r) /\ toServer' \in Seq(Records)
       /\ out' = << >> \/ out' = << r >>
       /\ api' = api \/ api' = Wanting
  <2>1. Write(r, api)
    BY DEF r
  <2> QED BY <1>1, <1>8, <2>1, SentMore
<1>11. state' \notin HelloStates /\ state' # "HANDSHAKE_OVER" /\ state' \in ClientStates
  BY <1>4 DEF ReplyStates, HelloStates, ClientStates, ClosingStates
<1>12. Types' /\ Causes'
  <2>1. api' \in {"handshake", "renegotiate", "read", "read_on", "write", "idle", "failed"}
    BY <1>1, <1>10 DEF Types, Wanting
  <2> QED BY <1>1, <1>2, <1>8, <1>10, <1>11, <2>1 DEF Types, Causes
<1>13. UpInv'
  <2>1. Listening
    BY <1>1, HeardInTurn
  <2> QED BY <1>1, <1>8, <1>9, <1>10, <1>11, <2>1, UpWrites
<1>14. CallInv'
  BY <1>1, <1>10, <1>11, CallNext
<1>15. ~keep /\ ~offt
  BY <1>1, NothingKept DEF ReplyStates
<1>16. Awaited' = Awaited
  <2>1. CASE s = "CLIENT_FINISHED"
    <3>1. suite = srvSuite
      BY <1>1 DEF KnownInv
    <3>2. Awaited = AfterFlight(srvSuite)
      BY <1>1, <2>1 DEF Awaited, ReplyStates, HelloStates
    <3>3. Awaited' = IF suite'.ticket THEN "NewSessionTicket" ELSE "ccs"
      BY <1>4, <2>1 DEF Awaited, ReplyStates, HelloStates
    <3> QED BY <3>1, <3>2, <3>3 DEF AfterFlight
  <2>2. CASE s # "CLIENT_FINISHED"
    <3>1. state' \in ReplyStates
      BY <1>4, <2>2 DEF ReplyStates
    <3> QED BY <1>1, <1>2, <3>1, AwaitedNext
  <2> QED BY <2>1, <2>2
<1>17. DownInv'
  BY <1>1, <1>3, <1>15, <1>16, DownStays
<1>18. KnownInv'
  <2>1. keyOut' = IF state' \in ClosingStates THEN Negotiated' ELSE Negotiated' - 1
    <3>1. state \notin ClosingStates /\ (state' \in ClosingStates <=> s = "CLIENT_FINISHED")
      BY <1>1, <1>4 DEF ClosingStates, EndStates, ReplyStates
    <3> QED BY <1>1, <1>3, <3>1 DEF KnownInv
  <2>2. keyIn' = DownKey(Negotiated', Awaited')
    BY <1>1, <1>3, <1>16 DEF KnownInv
  <2>3. hash' = Covered'
    <3>1. hash = Covered
      BY <1>1 DEF KnownInv, EndStates, ReplyStates
    <3>2. suite = srvSuite
      BY <1>1 DEF KnownInv
    <3>3. CASE s = "CLIENT_CERTIFICATE"
      BY <1>1, <1>2, <1>4, <1>5, <1>6, <3>1, <3>3 DEF Covered, HelloStates, Reply1
    <3>4. CASE s = "CLIENT_KEY_EXCHANGE"
      BY <1>1, <1>2, <1>4, <1>6, <3>1, <3>4 DEF Covered, HelloStates, Reply2
    <3>5. CASE s = "CERTIFICATE_VERIFY"
      BY <1>1, <1>2, <1>4, <1>5, <1>6, <3>1, <3>5 DEF Covered, HelloStates, Reply3
    <3>6. CASE s = "CLIENT_CHANGE_CIPHER_SPEC"
      BY <1>1, <1>2, <1>4, <1>6, <3>1, <3>6 DEF Covered, HelloStates
    <3>7. CASE s = "CLIENT_FINISHED"
      BY <1>1, <1>2, <1>4, <1>6, <3>1, <3>2, <3>7 DEF Covered, HelloStates, Reply4, Final
    <3> QED BY <3>3, <3>4, <3>5, <3>6, <3>7 DEF ReplyStates
  <2>4. suite' = srvSuite' /\ suite' \in Suites /\ auth' = srvSuite'.auth
    BY <1>1, <1>2 DEF KnownInv
  <2>5. (DownKey(Negotiated, Awaited))' = DownKey(Negotiated', Awaited')
    BY DEF DownKey
  <2> QED BY <2>1, <2>2, <2>3, <2>4, <2>5 DEF KnownInv
<1> QED BY <1>12, <1>13, <1>14, <1>17, <1>18 DEF LockInv

\* The hello is written.
LEMMA HelloNext ==
    ASSUME Lock, UNCHANGED serverVars, WriteClientHello
    PROVE  LockInv'
<1>1. /\ Types /\ Causes /\ UpInv /\ CallInv /\ KnownInv /\ DownInv
      /\ state = "CLIENT_HELLO" /\ state' = "SERVER_HELLO" /\ InCall /\ ~Over /\ out = << >>
      /\ hash' = Append(hash, "ClientHello") /\ keyOut' = keyOut
      /\ Write(Record("handshake", keyOut, << Msg("ClientHello", << >>) >>), api)
      /\ UNCHANGED << cause, renego, suite, auth, cur, keep, offt, keyIn, toClient >>
  BY AfterIs DEF Lock, LockInv, Stepping, InCall, Over, WriteClientHello, WriteMessage
<1>2. UNCHANGED << srv, srvHash, srvSuite, srvIn, srvOut >>
  BY DEF serverVars
<1>3. Negotiated' = Negotiated /\ Negotiated \in {1, 2}
  BY <1>1 DEF Negotiated
<1>4. keyOut = Negotiated - 1
  BY <1>1 DEF KnownInv, ClosingStates, EndStates
<1> DEFINE r == Record("handshake", Negotiated - 1, << Msg("ClientHello", << >>) >>)
<1>5. r \in Records
  <2>1. /\ "handshake" \in ContentTypes /\ "ClientHello" \in MessageNames
        /\ Negotiated - 1 \in Nat /\ << >> \in Infos
    BY <1>3 DEF ContentTypes, MessageNames, Infos
  <2> QED BY <2>1, SingleRecord
<1>6. HelloComing /\ Sent = << >>
  BY <1>1, HeardInTurn DEF HelloStates
<1>7. /\ Sent' = << r >> /\ toServer' \in Seq(Records)
      /\ out' = << >> \/ out' = << r >>
      /\ api' = api \/ api' = Wanting
  <2>1. Write(r, api)
    BY <1>1, <1>4
  <2> HIDE DEF r
  <2>2. Append(<< >>, r) = << r >>
    OBVIOUS
  <2> QED BY <1>1, <1>5, <1>6, <2>1, <2>2, SentMore
<1>8. Types' /\ Causes'
  <2>1. api' \in {"handshake", "renegotiate", "read", "read_on", "write", "idle", "failed"}
    BY <1>1, <1>7 DEF Types, Wanting
  <2> HIDE DEF r
  <2> QED BY <1>1, <1>2, <1>5, <1>7, <2>1 DEF Types, Causes, ClientStates
<1>9. UpInv'
  <2>1. HelloComing'
    BY <1>1, <1>2, <1>3, <1>6, <1>7 DEF HelloComing, Start
  <2> QED BY <1>1, <1>2, <2>1 DEF UpInv
<1>10. CallInv'
  BY <1>1, <1>7, CallNext
<1>11. Awaited' = Awaited
  BY <1>1, <1>2, AwaitedNext DEF HelloStates
<1>12. DownInv'
  BY <1>1, <1>3, <1>11, NothingKept, DownStays
<1>13. KnownInv'
  <2>1. keyOut' = IF state' \in ClosingStates THEN Negotiated' ELSE Negotiated' - 1
    BY <1>1, <1>3, <1>4 DEF ClosingStates, EndStates
  <2>2. keyIn' = DownKey(Negotiated', Awaited')
    BY <1>1, <1>3, <1>11 DEF KnownInv
  <2>3. hash' = Covered'
    BY <1>1 DEF KnownInv, Covered, HelloStates, EndStates, Hello0
  <2>4. /\ state' \notin FlightStates \cup ReplyStates
        /\ state' \notin {"SERVER_HELLO_DONE"} \cup ReplyStates
        /\ state' # "SERVER_CHANGE_CIPHER_SPEC" /\ suite' \in Suites
    BY <1>1 DEF KnownInv, FlightStates, ReplyStates
  <2>5. (DownKey(Negotiated, Awaited))' = DownKey(Negotiated', Awaited')
    BY DEF DownKey
  <2> QED BY <2>1, <2>2, <2>3, <2>4, <2>5 DEF KnownInv
<1> QED BY <1>8, <1>9, <1>10, <1>12, <1>13 DEF LockInv

\* Each message of the client's reply keeps them in step.
LEMMA ReplyNext ==
    ASSUME Lock, UNCHANGED serverVars,
           \/ WriteCertificate \/ WriteClientKeyExchange \/ WriteCertificateVerify
           \/ WriteChangeCipherSpec \/ WriteFinished
    PROVE  LockInv'
<1>1. KnownInv /\ api # "failed"
  BY DEF Lock, LockInv, WriteCertificate, WriteClientKeyExchange, WriteCertificateVerify,
         WriteChangeCipherSpec, WriteFinished, WriteMessage, Skip, Stepping, InCall
<1>2. ASSUME state \in ReplyStates
      PROVE  keyOut = Negotiated - 1 /\ suite = srvSuite /\ auth = srvSuite.auth
  BY <1>1, <1>2 DEF KnownInv, ClosingStates, EndStates, ReplyStates
<1>3. CASE Skip("CLIENT_CERTIFICATE", ~auth) \/ Skip("CERTIFICATE_VERIFY", ~auth)
  <2>1. ~auth
    BY <1>3 DEF Skip
  <2> QED BY <1>3, <2>1, SkipNext
<1>4. CASE auth /\ WriteMessage("CLIENT_CERTIFICATE", "Certificate", << >>, keyOut)
  <2>1. Stepping("CLIENT_CERTIFICATE") /\ state = "CLIENT_CERTIFICATE"
    BY <1>4 DEF WriteMessage, Stepping
  <2>2. Promised = "Certificate"
    BY <1>2, <1>4, <2>1 DEF Promised, First, ClosingStates, EndStates, ReplyStates
  <2>3. Record("handshake", keyOut, << Msg("Certificate", << >>) >>)
          = UpRecord(Negotiated, srvSuite, Promised)
    BY <1>2, <2>1, <2>2 DEF UpRecord, ReplyStates
  <2>4. /\ state' = After("CLIENT_CERTIFICATE") /\ hash' = Append(hash, Promised)
        /\ keyOut' = keyOut /\ Write(UpRecord(Negotiated, srvSuite, Promised), api)
        /\ UNCHANGED << cause, renego, suite, auth, cur, keep, offt, keyIn, toClient >>
    BY <1>4, <2>2, <2>3 DEF WriteMessage
  <2> QED BY <1>4, <2>1, <2>4, WriteNext DEF ReplyStates
<1>5. CASE WriteClientKeyExchange
  <2>1. Stepping("CLIENT_KEY_EXCHANGE") /\ state = "CLIENT_KEY_EXCHANGE"
    BY <1>5 DEF WriteClientKeyExchange, WriteMessage, Stepping
  <2>2. Promised = "ClientKeyExchange"
    BY <2>1 DEF Promised, ClosingStates, EndStates
  <2>3. Record("handshake", keyOut, << Msg("ClientKeyExchange", << >>) >>)
          = UpRecord(Negotiated, srvSuite, Promised)
    BY <1>2, <2>1, <2>2 DEF UpRecord, ReplyStates
  <2>4. /\ state' = After("CLIENT_KEY_EXCHANGE") /\ hash' = Append(hash, Promised)
        /\ keyOut' = keyOut /\ Write(UpRecord(Negotiated, srvSuite, Promised), api)
        /\ UNCHANGED << cause, renego, suite, auth, cur, keep, offt, keyIn, toClient >>
    BY <1>5, <2>2, <2>3 DEF WriteClientKeyExchange, WriteMessage
  <2> QED BY <2>1, <2>4, WriteNext DEF ReplyStates
<1>6. CASE auth /\ WriteMessage("CERTIFICATE_VERIFY", "CertificateVerify", << >>, keyOut)
  <2>1. Stepping("CERTIFICATE_VERIFY") /\ state = "CERTIFICATE_VERIFY"
    BY <1>6 DEF WriteMessage, Stepping
  <2>2. Promised = "CertificateVerify"
    BY <1>2, <1>6, <2>1 DEF Promised, Verify, ClosingStates, EndStates, ReplyStates
  <2>3. Record("handshake", keyOut, << Msg("CertificateVerify", << >>) >>)
          = UpRecord(Negotiated, srvSuite, Promised)
    BY <1>2, <2>1, <2>2 DEF UpRecord, ReplyStates
  <2>4. /\ state' = After("CERTIFICATE_VERIFY") /\ hash' = Append(hash, Promised)
        /\ keyOut' = keyOut /\ Write(UpRecord(Negotiated, srvSuite, Promised), api)
        /\ UNCHANGED << cause, renego, suite, auth, cur, keep, offt, keyIn, toClient >>
    BY <1>6, <2>2, <2>3 DEF WriteMessage
  <2> QED BY <1>6, <2>1, <2>4, WriteNext DEF ReplyStates
<1>7. CASE WriteChangeCipherSpec
  <2>1. Stepping("CLIENT_CHANGE_CIPHER_SPEC") /\ state = "CLIENT_CHANGE_CIPHER_SPEC"
    BY <1>7 DEF WriteChangeCipherSpec, Stepping
  <2>2. Promised = "ccs"
    BY <2>1 DEF Promised, ClosingStates, EndStates
  <2>3. Record("ccs", keyOut, << Msg("ccs", << >>) >>)
          = UpRecord(Negotiated, srvSuite, Promised)
    BY <1>2, <2>1, <2>2 DEF UpRecord, ReplyStates
  <2>4. /\ state' = After("CLIENT_CHANGE_CIPHER_SPEC") /\ hash' = hash
        /\ keyOut' = keyOut /\ Write(UpRecord(Negotiated, srvSuite, Promised), api)
        /\ UNCHANGED << cause, renego, suite, auth, cur, keep, offt, keyIn, toClient >>
    BY <1>7, <2>1, <2>3 DEF WriteChangeCipherSpec, input
  <2> QED BY <2>1, <2>4, WriteNext DEF ReplyStates
<1>8. CASE WriteFinished
  <2>1. Stepping("CLIENT_FINISHED") /\ state = "CLIENT_FINISHED"
    BY <1>8 DEF WriteFinished, WriteMessage, Stepping
  <2>2. Promised = "Finished"
    BY <2>1 DEF Promised, ClosingStates, EndStates
  <2>3. hash = Reply3(srvSuite)
    BY <1>1, <2>1 DEF KnownInv, Covered, HelloStates, EndStates
  <2>4. Record("handshake", Negotiated, << Msg("Finished", hash) >>)
          = UpRecord(Negotiated, srvSuite, Promised)
    BY <2>2, <2>3 DEF UpRecord
  <2>5. /\ state' = After("CLIENT_FINISHED") /\ hash' = Append(hash, Promised)
        /\ keyOut' = Negotiated /\ Write(UpRecord(Negotiated, srvSuite, Promised), api)
        /\ UNCHANGED << cause, renego, suite, auth, cur, keep, offt, keyIn, toClient >>
    BY <1>8, <2>2, <2>4 DEF WriteFinished, WriteMessage
  <2> QED BY <2>1, <2>5, WriteNext DEF ReplyStates
<1> QED BY <1>3, <1>4, <1>5, <1>6, <1>7, <1>8 DEF WriteCertificate, WriteCertificateVerify

-----------------------------------------------------------------------------
(* The steps of the handshake that read.                                   *)

\* A step that fails.
LEMMA FailNext ==
    ASSUME Types, UpInv', UNCHANGED serverVars, UNCHANGED << renego, toServer, out >>,
           state' \in ClientStates, api' = "failed",
           cause' \notin {"bad_record", "unexpected", "finished"}
    PROVE  LockInv'
<1>1. UNCHANGED srv
  BY DEF serverVars
<1>2. Types' /\ Causes'
  BY <1>1 DEF Types, Causes
<1> QED BY <1>2 DEF LockInv

\* In the midst of a handshake nothing else comes.
LEMMA ReadsExpected ==
    ASSUME Lock, api # "failed", NEW o \in Obtained,
           state \in FlightStates \cup {"SERVER_CHANGE_CIPHER_SPEC", "SERVER_FINISHED"}
    PROVE  \/ ~keep /\ ~offt /\ Expected(o)
           \/ /\ KeptDone /\ o.rec = cur /\ o.hash = hash /\ o.rest = toClient
              /\ Leads(DownSteps(Negotiated, srvSuite), AfterFlight(srvSuite), Offered, toClient)
<1>1. Types /\ KnownInv /\ DownInv /\ InputInv /\ srvSuite \in Suites
  BY DEF Lock, LockInv
<1>2. state \notin HelloStates
  BY DEF HelloStates, FlightStates
<1>3. Awaited # "end" /\ Awaited # "ServerHello"
  BY <1>1, AwaitedEnd DEF FlightStates, EndStates, HelloStates
<1>4. ~Aside(o)
  BY <1>3 DEF Aside, Between, FlightStates
<1> QED BY <1>1, <1>2, <1>4, ReadsNext

\* The expected message is taken.
LEMMA TakesNext ==
    ASSUME Lock, UNCHANGED serverVars, InCall, ~Over, NEW o, Expected(o), Takes(o),
           ~keep', ~offt', UNCHANGED << api, cause, renego, toServer, out >>,
           Awaited' = DownThen(srvSuite, Awaited), Promised' = Promised,
           Listening \/ Through, state' \notin HelloStates, state' # "HANDSHAKE_OVER",
           state' \in ClientStates, state \in ClosingStates => state' \in ClosingStates
    PROVE  Types' /\ Causes' /\ UpInv' /\ CallInv' /\ DownInv'
<1>1. Types /\ Causes /\ UpInv /\ CallInv /\ DownInv
  BY DEF Lock, LockInv, InCall
<1>2. UNCHANGED << srv, srvHash, srvSuite, srvIn, srvOut >>
  BY DEF serverVars
<1>3. Negotiated' = Negotiated /\ Sent' = Sent
  BY DEF Negotiated, Sent
<1>4. Types' /\ Causes'
  BY <1>1, <1>2 DEF Types, Causes
<1>5. CallInv'
  BY <1>1, CallNext
<1>6. DownInv'
  BY <1>3, DownTakes DEF Takes
<1>7. UpInv'
  BY <1>1, <1>3, UpStays
<1> QED BY <1>4, <1>5, <1>6, <1>7

\* mbedtls_ssl_parse_certificate keeps them in step.
LEMMA CertificateNext ==
    ASSUME Lock, UNCHANGED serverVars, ParseCertificate
    PROVE  LockInv'
<1>1. /\ Types /\ Causes /\ UpInv /\ CallInv /\ KnownInv /\ DownInv
      /\ state = "SERVER_CERTIFICATE" /\ InCall /\ ~Over /\ keep' = FALSE
      /\ UNCHANGED << renego, auth, offt, keyOut, out, toServer >>
  BY DEF Lock, LockInv, Stepping, InCall, Over, ParseCertificate, Parse, output
<1>2. UNCHANGED << srv, srvHash, srvSuite, srvIn, srvOut >>
  BY DEF serverVars
<1>3. PICK o \in Obtained :
        /\ Takes(o)
        /\ IF o.rec.ct = "handshake" /\ Name(o.rec) = "Certificate"
           THEN /\ state' = After(state)
                /\ UNCHANGED << api, cause >> \/ (api' = "failed" /\ cause' = "certificate")
                /\ UNCHANGED << suite, keyIn >>
           ELSE api' = "failed" /\ cause' = "unexpected" /\ UNCHANGED << state, suite, keyIn >>
  BY DEF ParseCertificate, Parse, Fail, call
<1>4. ~keep /\ ~offt /\ Expected(o)
  BY <1>1, ReadsExpected DEF InCall, FlightStates, KeptDone
<1>5. Awaited = "Certificate"
  BY <1>1 DEF Awaited, HelloStates, ReplyStates
<1>6. /\ o.rec.ct = "handshake" /\ Name(o.rec) = "Certificate"
      /\ o.hash = Append(hash, "Certificate")
  BY <1>4, <1>5 DEF Expected, Name, Msg
<1>7. state' = "SERVER_KEY_EXCHANGE" /\ UNCHANGED << suite, keyIn >>
  BY <1>1, <1>3, <1>6, AfterIs
<1>8. /\ state' \in ClientStates /\ state' \notin HelloStates /\ state' # "HANDSHAKE_OVER"
      /\ state \notin ClosingStates
  BY <1>1, <1>7 DEF ClientStates, HelloStates, FlightStates, ClosingStates, EndStates
<1>9. Promised' = Promised /\ Listening
  BY <1>1, <1>2, <1>7, PromisedNext, HeardInTurn DEF FlightStates
<1>10. Awaited' = DownThen(srvSuite, Awaited)
  BY <1>1, <1>2, <1>7, AwaitedNext
<1>11. CASE api' = "failed" /\ cause' = "certificate"
  <2>1. Sent' = Sent
    BY <1>1 DEF Sent
  <2>2. UpInv'
    BY <1>1, <1>8, <1>9, <2>1, UpStays
  <2> QED BY <1>1, <1>8, <1>11, <2>2, FailNext
<1>12. CASE UNCHANGED << api, cause >>
  <2>1. Types' /\ Causes' /\ UpInv' /\ CallInv' /\ DownInv'
    BY <1>1, <1>3, <1>4, <1>8, <1>9, <1>10, <1>12, TakesNext
  <2>2. KnownInv'
    <3>1. Negotiated' = Negotiated /\ state' \notin ClosingStates
      BY <1>1, <1>7 DEF Negotiated, ClosingStates, EndStates
    <3>2. Awaited' = Exchange(srvSuite)
      BY <1>5, <1>10 DEF DownThen
    <3>3. keyIn' = DownKey(Negotiated', Awaited')
      BY <1>1, <1>5, <1>7, <3>1, <3>2 DEF KnownInv, DownKey, Exchange, Request
    <3>4. hash' = Covered'
      BY <1>1, <1>2, <1>3, <1>6, <1>7 DEF KnownInv, Takes, Covered, EndStates, HelloStates, Hello2
    <3>5. keyOut' = Negotiated' - 1 /\ suite' = srvSuite' /\ suite' \in Suites
      BY <1>1, <1>2, <1>7, <1>8, <3>1 DEF KnownInv, FlightStates
    <3>6. (DownKey(Negotiated, Awaited))' = DownKey(Negotiated', Awaited')
      BY DEF DownKey
    <3>7. state' \notin {"SERVER_HELLO_DONE"} \cup ReplyStates
      BY <1>7 DEF ReplyStates
    <3> QED BY <1>7, <3>1, <3>3, <3>4, <3>5, <3>6, <3>7 DEF KnownInv
  <2> QED BY <2>1, <2>2 DEF LockInv
<1> QED BY <1>3, <1>6, <1>11, <1>12

\* ssl_parse_server_key_exchange keeps them in step: it keeps the message when
\* it is not its own.
LEMMA KeyExchangeNext ==
    ASSUME Lock, UNCHANGED serverVars, ParseServerKeyExchange
    PROVE  LockInv'
<1>0. CASE Skip("SERVER_KEY_EXCHANGE", ~suite.ske)
  <2>1. ~suite.ske
    BY <1>0 DEF Skip
  <2> QED BY <1>0, <2>1, SkipNext
<1> SUFFICES ASSUME ~Skip("SERVER_KEY_EXCHANGE", ~suite.ske) PROVE LockInv'
  BY <1>0
<1>1. /\ Types /\ Causes /\ UpInv /\ CallInv /\ KnownInv /\ DownInv /\ suite.ske
      /\ state = "SERVER_KEY_EXCHANGE" /\ InCall /\ ~Over /\ keep' = FALSE
      /\ UNCHANGED << renego, auth, offt, keyOut, out, toServer >>
  BY DEF Lock, LockInv, Stepping, InCall, Over, ParseServerKeyExchange, Parse, output
<1>2. UNCHANGED << srv, srvHash, srvSuite, srvIn, srvOut >>
  BY DEF serverVars
<1>3. PICK o \in Obtained :
        /\ Takes(o)
        /\ o.rec.ct = "handshake" /\ Name(o.rec) = "ServerKeyExchange" =>
             state' = After(state) /\ UNCHANGED << api, cause, suite, keyIn >>
  BY DEF ParseServerKeyExchange, Parse, call
<1>4. ~keep /\ ~offt /\ Expected(o)
  BY <1>1, ReadsExpected DEF InCall, FlightStates, KeptDone
<1>s. suite = srvSuite
  BY <1>1 DEF KnownInv, FlightStates
<1>5. Awaited = "ServerKeyExchange"
  BY <1>1, <1>s DEF Awaited, HelloStates, ReplyStates, Exchange
<1>6. /\ o.rec.ct = "handshake" /\ Name(o.rec) = "ServerKeyExchange"
      /\ o.hash = Append(hash, "ServerKeyExchange")
  BY <1>4, <1>5 DEF Expected, Name, Msg
<1>7. state' = "CERTIFICATE_REQUEST" /\ UNCHANGED << api, cause, suite, keyIn >>
  BY <1>1, <1>3, <1>6, AfterIs
<1>8. /\ state' \in ClientStates /\ state' \notin HelloStates /\ state' # "HANDSHAKE_OVER"
      /\ state \notin ClosingStates
  BY <1>1, <1>7 DEF ClientStates, HelloStates, FlightStates, ClosingStates, EndStates
<1>9. Promised' = Promised /\ Listening
  BY <1>1, <1>2, <1>7, PromisedNext, HeardInTurn DEF FlightStates
<1>10. Awaited' = DownThen(srvSuite, Awaited)
  BY <1>1, <1>2, <1>s, <1>7, AwaitedNext
<1>11. Types' /\ Causes' /\ UpInv' /\ CallInv' /\ DownInv'
  BY <1>1, <1>3, <1>4, <1>7, <1>8, <1>9, <1>10, TakesNext
<1>12. KnownInv'
  <2>1. Negotiated' = Negotiated /\ state' \notin ClosingStates
    BY <1>1, <1>7 DEF Negotiated, ClosingStates, EndStates
  <2>2. Awaited' = Request(srvSuite)
    BY <1>5, <1>10 DEF DownThen
  <2>3. keyIn' = DownKey(Negotiated', Awaited')
    BY <1>1, <1>5, <1>7, <2>1, <2>2 DEF KnownInv, DownKey, Request
  <2>4. hash' = Covered'
    BY <1>1, <1>2, <1>3, <1>s, <1>6, <1>7
       DEF KnownInv, Takes, Covered, EndStates, HelloStates, Hello3
  <2>5. keyOut' = Negotiated' - 1 /\ suite' = srvSuite' /\ suite' \in Suites
    BY <1>1, <1>2, <1>7, <1>8, <2>1 DEF KnownInv, FlightStates
  <2>6. (DownKey(Negotiated, Awaited))' = DownKey(Negotiated', Awaited')
    BY DEF DownKey
  <2>7. state' \notin {"SERVER_HELLO_DONE"} \cup ReplyStates
    BY <1>7 DEF ReplyStates
  <2> QED BY <1>7, <2>1, <2>3, <2>4, <2>5, <2>6, <2>7 DEF KnownInv
<1> QED BY <1>11, <1>12 DEF LockInv

\* ssl_parse_certificate_request keeps them in step: it keeps a ServerHelloDone.
LEMMA RequestNext ==
    ASSUME Lock, UNCHANGED serverVars, ParseCertificateRequest
    PROVE  LockInv'
<1>1. /\ Types /\ Causes /\ UpInv /\ CallInv /\ KnownInv /\ DownInv
      /\ state = "CERTIFICATE_REQUEST" /\ InCall /\ ~Over
      /\ UNCHANGED << renego, suite, keyIn, offt, keyOut, out, toServer >>
  BY DEF Lock, LockInv, Stepping, InCall, Over, ParseCertificateRequest, output
<1>2. UNCHANGED << srv, srvHash, srvSuite, srvIn, srvOut >>
  BY DEF serverVars
<1>3. PICK o \in Obtained :
        /\ Takes(o)
        /\ o.rec.ct = "handshake" =>
             /\ state' = After(state) /\ auth' = (Name(o.rec) = "CertificateRequest")
             /\ keep' = ~auth' /\ UNCHANGED << api, cause >>
  BY DEF ParseCertificateRequest, call
<1>4. ~keep /\ ~offt /\ Expected(o)
  BY <1>1, ReadsExpected DEF InCall, FlightStates, KeptDone
<1>5. Awaited = Request(srvSuite)
  BY <1>1 DEF Awaited, HelloStates, ReplyStates
<1>6. /\ o.rec.ct = "handshake" /\ Name(o.rec) = Request(srvSuite)
      /\ o.hash = Append(hash, Request(srvSuite))
      /\ Head(o.rec.msgs) = Msg(Request(srvSuite), << >>) /\ Len(o.rec.msgs) >= 1
      /\ Comes(Negotiated, srvSuite, DownThen(srvSuite, Awaited), Offered, o.rec, o.rest)
  BY <1>4, <1>5 DEF Expected, Name, Msg, Request, DownInfo
<1>7. /\ state' = "SERVER_HELLO_DONE" /\ UNCHANGED << api, cause, suite, keyIn >>
      /\ auth' = srvSuite.auth /\ keep' = ~srvSuite.auth
  <2>1. (Name(o.rec) = "CertificateRequest") = srvSuite.auth
    <3>1. srvSuite.auth \in BOOLEAN
      BY DEF Lock, Suites
    <3> QED BY <1>6, <3>1 DEF Request
  <2> QED BY <1>1, <1>3, <1>6, <2>1, AfterIs
<1>8. /\ state' \in ClientStates /\ state' \notin HelloStates /\ state' # "HANDSHAKE_OVER"
      /\ state \notin ClosingStates /\ state' \notin ClosingStates
  BY <1>1, <1>7 DEF ClientStates, HelloStates, FlightStates, ClosingStates, EndStates
<1>9. Promised' = Promised /\ Listening
  BY <1>1, <1>2, <1>7, PromisedNext, HeardInTurn DEF FlightStates
<1>10. Negotiated' = Negotiated /\ Offered' = Offered /\ Sent' = Sent
  BY <1>1, <1>2 DEF Negotiated, Offered, Sent
<1>11. Awaited' = "ServerHelloDone"
  BY <1>7 DEF Awaited, HelloStates, ReplyStates
<1>12. Types' /\ Causes' /\ UpInv' /\ CallInv'
  <2>1. Types' /\ Causes'
    BY <1>1, <1>2, <1>7, <1>8 DEF Types, Causes
  <2>2. CallInv'
    BY <1>1, <1>7, <1>8, CallNext
  <2>3. UpInv'
    BY <1>1, <1>8, <1>9, <1>10, UpStays
  <2> QED BY <2>1, <2>2, <2>3
<1>13. DownInv'
  <2>1. CASE srvSuite.auth
    <3>1. Awaited' = DownThen(srvSuite, Awaited)
      BY <1>1, <1>2, <1>7, <2>1, AwaitedNext
    <3> QED BY <1>1, <1>3, <1>4, <1>7, <1>10, <2>1, <3>1, DownTakes DEF Takes
  <2>2. CASE ~srvSuite.auth
    <3>1. Request(srvSuite) = "ServerHelloDone"
      BY <2>2 DEF Request
    <3>2. DownThen(srvSuite, Awaited) = AfterFlight(srvSuite)
      BY <1>5, <3>1 DEF DownThen
    <3>3. AfterFlight(srvSuite) \notin FlightPlaces
      BY DEF AfterFlight, FlightPlaces
    <3>4. /\ Len(o.rec.msgs) <= 1
          /\ Leads(DownSteps(Negotiated, srvSuite), AfterFlight(srvSuite), Offered, o.rest)
      BY <1>6, <3>2, <3>3 DEF Comes
    <3>5. o.rec.msgs = Flight5
      <4>1. o.rec.msgs \in Seq(Messages)
        <5>1. o.rec \in Records
          BY ObtainedData DEF Lock
        <5> QED BY <5>1 DEF Records
      <4> DEFINE ms == o.rec.msgs
      <4>2. /\ ms \in Seq(Messages) /\ Len(ms) <= 1 /\ Len(ms) >= 1
            /\ Head(ms) = Msg("ServerHelloDone", << >>)
        BY <1>6, <3>1, <3>4, <4>1
      <4> HIDE DEF ms
      <4>3. ms = << Head(ms) >>
        <5>1. Len(ms) = 1
          BY <4>2, LenProperties
        <5> QED BY <4>2, <5>1
      <4> QED BY <4>2, <4>3 DEF ms, Flight5
    <3>6. KeptDone'
      BY <1>1, <1>3, <1>4, <1>6, <1>7, <2>2, <3>5 DEF KeptDone, Takes
    <3>7. Leads(DownSteps(Negotiated', srvSuite'), AfterFlight(srvSuite'), Offered', toClient')
      BY <1>2, <1>3, <1>10, <3>4 DEF Takes
    <3> QED BY <3>6, <3>7 DEF DownInv
  <2> QED BY <2>1, <2>2
<1>14. KnownInv'
  <2>1. keyIn' = DownKey(Negotiated', Awaited')
    BY <1>1, <1>5, <1>7, <1>10, <1>11 DEF KnownInv, DownKey, Request
  <2>2. hash' = Covered'
    <3>1. hash = Hello3(srvSuite)
      BY <1>1 DEF KnownInv, Covered, EndStates, HelloStates
    <3>2. Covered' = IF keep' THEN Hello5(srvSuite) ELSE Hello4(srvSuite)
      BY <1>2, <1>7 DEF Covered, HelloStates
    <3>3. hash' = Append(hash, Request(srvSuite))
      BY <1>3, <1>6 DEF Takes
    <3> QED BY <1>7, <3>1, <3>2, <3>3 DEF Request, Hello4, Hello5
  <2>3. keyOut' = Negotiated' - 1 /\ suite' = srvSuite' /\ suite' \in Suites
    BY <1>1, <1>2, <1>7, <1>8, <1>10 DEF KnownInv, FlightStates
  <2>4. (DownKey(Negotiated, Awaited))' = DownKey(Negotiated', Awaited')
    BY DEF DownKey
  <2> QED BY <1>2, <1>7, <1>8, <2>1, <2>2, <2>3, <2>4 DEF KnownInv
<1> QED BY <1>12, <1>13, <1>14 DEF LockInv

\* ssl_parse_server_hello_done keeps them in step.
LEMMA HelloDoneNext ==
    ASSUME Lock, UNCHANGED serverVars, ParseServerHelloDone
    PROVE  LockInv'
<1>1. /\ Types /\ Causes /\ UpInv /\ CallInv /\ KnownInv /\ DownInv
      /\ state = "SERVER_HELLO_DONE" /\ InCall /\ ~Over /\ keep' = FALSE
      /\ UNCHANGED << renego, auth, offt, keyOut, out, toServer >>
  BY DEF Lock, LockInv, Stepping, InCall, Over, ParseServerHelloDone, Parse, output
<1>2. UNCHANGED << srv, srvHash, srvSuite, srvIn, srvOut >>
  BY DEF serverVars
<1>3. PICK o \in Obtained :
        /\ Takes(o)
        /\ o.rec.ct = "handshake" /\ Name(o.rec) = "ServerHelloDone" =>
             state' = After(state) /\ UNCHANGED << api, cause, suite, keyIn >>
  BY DEF ParseServerHelloDone, Parse, call
<1>4. \/ ~keep /\ ~offt /\ Expected(o)
      \/ /\ KeptDone /\ o.rec = cur /\ o.hash = hash /\ o.rest = toClient
         /\ Leads(DownSteps(Negotiated, srvSuite), AfterFlight(srvSuite), Offered, toClient)
  BY <1>1, ReadsExpected DEF InCall, FlightStates
<1>5. Awaited = "ServerHelloDone"
  BY <1>1 DEF Awaited, HelloStates, ReplyStates
<1>6. /\ o.rec.ct = "handshake" /\ Name(o.rec) = "ServerHelloDone"
      /\ o.hash = Hello5(srvSuite) /\ ~offt
  <2>1. CASE ~keep /\ ~offt /\ Expected(o)
    <3>1. hash = Hello4(srvSuite)
      BY <1>1, <2>1 DEF KnownInv, Covered, HelloStates, EndStates
    <3> QED BY <1>5, <2>1, <3>1 DEF Expected, Name, Msg, Hello5
  <2>2. CASE KeptDone /\ o.rec = cur /\ o.hash = hash /\ o.rest = toClient
    <3>1. hash = Hello5(srvSuite)
      BY <1>1, <2>2 DEF KnownInv, Covered, HelloStates, EndStates, KeptDone
    <3> QED BY <2>2, <3>1 DEF KeptDone, Name, Flight5, Msg
  <2> QED BY <1>4, <2>1, <2>2
<1>7. state' = "CLIENT_CERTIFICATE" /\ UNCHANGED << api, cause, suite, keyIn >>
  BY <1>1, <1>3, <1>6, AfterIs
<1>8. /\ state' \in ClientStates /\ state' \notin HelloStates /\ state' # "HANDSHAKE_OVER"
      /\ state \notin ClosingStates /\ state' \notin ClosingStates
  BY <1>1, <1>7 DEF ClientStates, HelloStates, ReplyStates, ClosingStates, EndStates
<1>9. Promised' = Promised /\ Listening
  BY <1>1, <1>2, <1>7, PromisedNext, HeardInTurn DEF FlightStates
<1>10. Negotiated' = Negotiated /\ Offered' = Offered /\ Sent' = Sent
  BY <1>1, <1>2 DEF Negotiated, Offered, Sent
<1>11. Awaited' = DownThen(srvSuite, Awaited) /\ Awaited' = AfterFlight(srvSuite)
  <2>1. Awaited' = DownThen(srvSuite, Awaited)
    BY <1>1, <1>2, <1>7, AwaitedNext DEF ReplyStates
  <2> QED BY <1>5, <2>1 DEF DownThen
<1>12. Types' /\ Causes' /\ UpInv' /\ CallInv'
  <2>1. Types' /\ Causes'
    BY <1>1, <1>2, <1>7, <1>8 DEF Types, Causes
  <2>2. CallInv'
    BY <1>1, <1>7, <1>8, CallNext
  <2>3. UpInv'
    BY <1>1, <1>8, <1>9, <1>10, UpStays
  <2> QED BY <2>1, <2>2, <2>3
<1>13. DownInv'
  <2>1. CASE ~keep /\ ~offt /\ Expected(o)
    BY <1>1, <1>3, <1>10, <1>11, <2>1, DownTakes DEF Takes
  <2>2. CASE /\ KeptDone /\ o.rec = cur /\ o.hash = hash /\ o.rest = toClient
             /\ Leads(DownSteps(Negotiated, srvSuite), AfterFlight(srvSuite), Offered, toClient)
    <3>1. cur' = cur /\ toClient' = toClient /\ Len(cur.msgs) <= 1
      <4>1. Len(Flight5) <= 1
        BY DEF Flight5
      <4> QED BY <1>3, <2>2, <4>1 DEF Takes, KeptDone
    <3>2. Leads(DownSteps(Negotiated, srvSuite), Awaited', Offered', toClient')
      BY <1>10, <1>11, <2>2, <3>1
    <3>3. Comes(Negotiated', srvSuite', Awaited', Offered', cur', toClient')
      BY <1>2, <1>10, <3>1, <3>2 DEF Comes
    <3> QED BY <1>1, <1>6, <3>3 DEF DownInv, Comes
  <2> QED BY <1>4, <2>1, <2>2
<1>14. KnownInv'
  <2>1. keyIn' = DownKey(Negotiated', Awaited')
    BY <1>1, <1>5, <1>7, <1>10, <1>11 DEF KnownInv, DownKey, AfterFlight
  <2>2. hash' = Covered'
    BY <1>2, <1>3, <1>6, <1>7 DEF Takes, Covered, HelloStates
  <2>3. /\ keyOut' = Negotiated' - 1 /\ suite' = srvSuite' /\ suite' \in Suites
        /\ auth' = srvSuite'.auth
    BY <1>1, <1>2, <1>7, <1>8, <1>10 DEF KnownInv, FlightStates
  <2>4. (DownKey(Negotiated, Awaited))' = DownKey(Negotiated', Awaited')
    BY DEF DownKey
  <2> QED BY <1>7, <1>8, <2>1, <2>2, <2>3, <2>4 DEF KnownInv
<1> QED BY <1>12, <1>13, <1>14 DEF LockInv

\* ssl_parse_new_session_ticket keeps them in step.
LEMMA TicketNext ==
    ASSUME Lock, UNCHANGED serverVars, ParseNewSessionTicket
    PROVE  LockInv'
<1>1. /\ Types /\ Causes /\ UpInv /\ CallInv /\ KnownInv /\ DownInv /\ suite.ticket
      /\ state = "SERVER_CHANGE_CIPHER_SPEC" /\ InCall /\ ~Over /\ keep' = FALSE
      /\ UNCHANGED << renego, auth, offt, keyOut, out, toServer >>
  BY DEF Lock, LockInv, Stepping, InCall, Over, ParseNewSessionTicket, Parse, output
<1>2. UNCHANGED << srv, srvHash, srvSuite, srvIn, srvOut >>
  BY DEF serverVars
<1>3. PICK o \in Obtained :
        /\ Takes(o)
        /\ o.rec.ct = "handshake" /\ Name(o.rec) = "NewSessionTicket" =>
             /\ suite' = [suite EXCEPT !.ticket = FALSE]
             /\ UNCHANGED << api, cause, state, keyIn >>
  BY DEF ParseNewSessionTicket, Parse, call
<1>4. ~keep /\ ~offt /\ Expected(o)
  BY <1>1, ReadsExpected DEF InCall, KeptDone
<1>5. Awaited = "NewSessionTicket"
  BY <1>1 DEF Awaited, HelloStates, ReplyStates
<1>6. /\ o.rec.ct = "handshake" /\ Name(o.rec) = "NewSessionTicket"
      /\ o.hash = Append(hash, "NewSessionTicket")
  BY <1>4, <1>5 DEF Expected, Name, Msg
<1>7. /\ suite' = [suite EXCEPT !.ticket = FALSE] /\ UNCHANGED << api, cause, state, keyIn >>
      /\ suite' \in Suites /\ ~suite'.ticket
  BY <1>1, <1>3, <1>6 DEF KnownInv, Suites
<1>8. /\ state' \in ClientStates /\ state' \notin HelloStates /\ state' # "HANDSHAKE_OVER"
      /\ state \in ClosingStates /\ state' \in ClosingStates /\ state' \notin EndStates
  BY <1>1, <1>7 DEF ClientStates, HelloStates, ClosingStates, EndStates
<1>9. Promised' = Promised /\ (Listening \/ Through)
  BY <1>1, <1>2, <1>8, PromisedNext, HeardInTurn
<1>10. Awaited' = DownThen(srvSuite, Awaited) /\ Awaited' = "ccs"
  <2>1. Awaited' = "ccs"
    BY <1>1, <1>7 DEF Awaited, HelloStates, ReplyStates
  <2> QED BY <1>5, <2>1 DEF DownThen
<1>11. Types' /\ Causes' /\ UpInv' /\ CallInv' /\ DownInv'
  BY <1>1, <1>3, <1>4, <1>7, <1>8, <1>9, <1>10, TakesNext
<1>12. KnownInv'
  <2>1. Negotiated' = Negotiated
    BY <1>1 DEF Negotiated
  <2>2. keyIn' = DownKey(Negotiated', Awaited') /\ keyOut' = Negotiated'
    BY <1>1, <1>5, <1>7, <1>8, <1>10, <2>1 DEF KnownInv, DownKey
  <2>3. hash' = Covered'
    <3>1. hash = Reply4(srvSuite) /\ srvSuite.ticket
      BY <1>1, <1>8 DEF KnownInv, Covered, HelloStates, EndStates
    <3>2. Covered' = Final(srvSuite)
      BY <1>1, <1>2, <1>7 DEF Covered, HelloStates
    <3> QED BY <1>3, <1>6, <3>1, <3>2 DEF Takes, Final
  <2>4. (DownKey(Negotiated, Awaited))' = DownKey(Negotiated', Awaited')
    BY DEF DownKey
  <2>5. state' \notin {"SERVER_HELLO_DONE"} \cup ReplyStates /\ state' \notin FlightStates
    BY <1>1, <1>7 DEF ReplyStates, FlightStates
  <2> QED BY <1>7, <1>8, <2>2, <2>3, <2>4, <2>5 DEF KnownInv
<1> QED BY <1>11, <1>12 DEF LockInv

\* mbedtls_ssl_parse_change_cipher_spec keeps them in step.
LEMMA CipherNext ==
    ASSUME Lock, UNCHANGED serverVars, ParseChangeCipherSpec
    PROVE  LockInv'
<1>1. /\ Types /\ Causes /\ UpInv /\ CallInv /\ KnownInv /\ DownInv /\ ~suite.ticket
      /\ state = "SERVER_CHANGE_CIPHER_SPEC" /\ InCall /\ ~Over /\ keep' = FALSE
      /\ UNCHANGED << renego, auth, offt, keyOut, out, toServer >>
  BY DEF Lock, LockInv, Stepping, InCall, Over, ParseChangeCipherSpec, Parse, output
<1>2. UNCHANGED << srv, srvHash, srvSuite, srvIn, srvOut >>
  BY DEF serverVars
<1>3. PICK o \in Obtained :
        /\ Takes(o)
        /\ o.rec.ct = "ccs" /\ Name(o.rec) = "ccs" =>
             /\ state' = After(state) /\ keyIn' = Negotiated
             /\ UNCHANGED << api, cause, suite >>
  BY DEF ParseChangeCipherSpec, Parse, call
<1>4. ~keep /\ ~offt /\ Expected(o)
  BY <1>1, ReadsExpected DEF InCall, KeptDone
<1>5. Awaited = "ccs"
  BY <1>1 DEF Awaited, HelloStates, ReplyStates
<1>6. o.rec.ct = "ccs" /\ Name(o.rec) = "ccs" /\ o.hash = hash
  BY <1>4, <1>5 DEF Expected, Name, Msg
<1>7. state' = "SERVER_FINISHED" /\ keyIn' = Negotiated /\ UNCHANGED << api, cause, suite >>
  BY <1>1, <1>3, <1>6, AfterIs
<1>8. /\ state' \in ClientStates /\ state' \notin HelloStates /\ state' # "HANDSHAKE_OVER"
      /\ state \in ClosingStates /\ state' \in ClosingStates /\ state \notin EndStates
  BY <1>1, <1>7 DEF ClientStates, HelloStates, ClosingStates, EndStates
<1>9. Promised' = Promised /\ (Listening \/ Through)
  BY <1>1, <1>2, <1>8, PromisedNext, HeardInTurn
<1>10. Awaited' = DownThen(srvSuite, Awaited) /\ Awaited' = "Finished"
  <2>1. Awaited' = "Finished"
    BY <1>7 DEF Awaited, HelloStates, ReplyStates
  <2> QED BY <1>5, <2>1 DEF DownThen
<1>11. Types' /\ Causes' /\ UpInv' /\ CallInv' /\ DownInv'
  BY <1>1, <1>3, <1>4, <1>7, <1>8, <1>9, <1>10, TakesNext
<1>12. KnownInv'
  <2>1. Negotiated' = Negotiated
    BY <1>1 DEF Negotiated
  <2>2. keyIn' = DownKey(Negotiated', Awaited') /\ keyOut' = Negotiated'
    BY <1>1, <1>7, <1>8, <1>10, <2>1 DEF KnownInv, DownKey
  <2>3. hash' = Covered'
    <3>1. hash = Final(srvSuite)
      BY <1>1, <1>8 DEF KnownInv, Covered, HelloStates
    <3>2. Covered' = Final(srvSuite)
      BY <1>2, <1>7 DEF Covered, HelloStates
    <3> QED BY <1>3, <1>6, <3>1, <3>2 DEF Takes
  <2>4. (DownKey(Negotiated, Awaited))' = DownKey(Negotiated', Awaited')
    BY DEF DownKey
  <2>5. /\ state' \notin {"SERVER_HELLO_DONE"} \cup ReplyStates /\ state' \notin FlightStates
        /\ suite' \in Suites
    BY <1>1, <1>7 DEF ReplyStates, FlightStates, KnownInv
  <2> QED BY <1>7, <1>8, <2>2, <2>3, <2>4, <2>5 DEF KnownInv
<1> QED BY <1>11, <1>12 DEF LockInv

\* mbedtls_ssl_parse_finished keeps them in step.
LEMMA FinishedNext ==
    ASSUME Lock, UNCHANGED serverVars, ParseFinished
    PROVE  LockInv'
<1>1. /\ Types /\ Causes /\ UpInv /\ CallInv /\ KnownInv /\ DownInv
      /\ state = "SERVER_FINISHED" /\ InCall /\ ~Over /\ keep' = FALSE
      /\ UNCHANGED << renego, auth, offt, keyOut, out, toServer >>
  BY DEF Lock, LockInv, Stepping, InCall, Over, ParseFinished, Parse, output
<1>2. UNCHANGED << srv, srvHash, srvSuite, srvIn, srvOut >>
  BY DEF serverVars
<1>3. PICK o \in Obtained :
        /\ Takes(o)
        /\ /\ o.rec.ct = "handshake" /\ Name(o.rec) = "Finished"
           /\ Info(cur') = hash
           => state' = After(state) /\ UNCHANGED << api, cause, suite, keyIn >>
  BY DEF ParseFinished, Parse, call
<1>4. ~keep /\ ~offt /\ Expected(o)
  BY <1>1, ReadsExpected DEF InCall, KeptDone
<1>5. Awaited = "Finished"
  BY <1>1 DEF Awaited, HelloStates, ReplyStates
<1>6. /\ o.rec.ct = "handshake" /\ Name(o.rec) = "Finished"
      /\ Info(cur') = Final(srvSuite)
  BY <1>3, <1>4, <1>5 DEF Expected, Name, Msg, Info, DownInfo, Takes
<1>h. hash = Final(srvSuite)
  BY <1>1 DEF KnownInv, Covered, HelloStates, EndStates
<1>7. state' = "FLUSH_BUFFERS" /\ UNCHANGED << api, cause, suite, keyIn >>
  BY <1>1, <1>3, <1>6, <1>h, AfterIs
<1>8. /\ state' \in ClientStates /\ state' \notin HelloStates /\ state' # "HANDSHAKE_OVER"
      /\ state \in ClosingStates /\ state' \in ClosingStates /\ state' \in EndStates
  BY <1>1, <1>7 DEF ClientStates, HelloStates, ClosingStates, EndStates
<1>9. Promised' = Promised /\ (Listening \/ Through)
  BY <1>1, <1>2, <1>8, PromisedNext, HeardInTurn
<1>10. Awaited' = DownThen(srvSuite, Awaited) /\ Awaited' = "end"
  <2>1. Awaited' = "end"
    BY <1>7 DEF Awaited, HelloStates, ReplyStates
  <2> QED BY <1>5, <2>1 DEF DownThen
<1>11. Types' /\ Causes' /\ UpInv' /\ CallInv' /\ DownInv'
  BY <1>1, <1>3, <1>4, <1>7, <1>8, <1>9, <1>10, TakesNext
<1>12. KnownInv'
  <2>1. Negotiated' = Negotiated
    BY <1>1 DEF Negotiated
  <2>2. keyIn' = DownKey(Negotiated', Awaited') /\ keyOut' = Negotiated'
    BY <1>1, <1>5, <1>7, <1>8, <1>10, <2>1 DEF KnownInv, DownKey
  <2>4. (DownKey(Negotiated, Awaited))' = DownKey(Negotiated', Awaited')
    BY DEF DownKey
  <2>5. /\ state' \notin {"SERVER_HELLO_DONE"} \cup ReplyStates /\ state' \notin FlightStates
        /\ suite' \in Suites
    BY <1>1, <1>7 DEF ReplyStates, FlightStates, KnownInv
  <2> QED BY <1>7, <1>8, <2>2, <2>4, <2>5 DEF KnownInv
<1> QED BY <1>11, <1>12 DEF LockInv

\* A ServerHello comes from a server that has heard the hello.
LEMMA HelloAfterHello ==
    ASSUME Types, UpInv, InputInv, state = "SERVER_HELLO", NEW o \in Obtained, Expected(o)
    PROVE  Listening
<1>1. Awaited = "ServerHello" /\ DownThen(srvSuite, Awaited) = "Certificate"
  BY AwaitedEnd DEF DownThen
<1>2. o.rest \in Seq(Records)
  BY ObtainedData
<1>3. Offered # "ServerHello"
  <2> DEFINE T == DownSteps(Negotiated, srvSuite)
  <2>1. \/ Leads(T, "Certificate", Offered, o.rest)
        \/ Leads(T, AfterFlight(srvSuite), Offered, o.rest)
    BY <1>1 DEF Expected, Comes
  <2>2. AfterFlight(srvSuite) # "ServerHello"
    BY DEF AfterFlight
  <2> QED BY <1>2, <2>1, <2>2, DownBegin
<1>4. ~Through
  BY DEF Through, ClosingStates, EndStates
<1>5. ~HelloComing /\ ~Unanswered
  <2>1. Negotiated - 1 # Negotiated
    BY AwaitedType
  <2>2. srv \in {"ClientHello", "up", "over"} /\ srvOut = Negotiated - 1
          => Offered = "ServerHello"
    BY <2>1 DEF Offered, Hearing
  <2> QED BY <1>3, <2>2 DEF HelloComing, Unanswered, Start
<1> QED BY <1>4, <1>5 DEF UpInv

\* While the client waits for the ServerHello, its own side goes on unchanged.
LEMMA ServerHelloNext ==
    ASSUME Lock, UNCHANGED serverVars, ParseServerHello
    PROVE  LockInv'
<1>1. /\ Types /\ Causes /\ UpInv /\ CallInv /\ KnownInv /\ DownInv /\ srvSuite \in Suites
      /\ InputInv
      /\ state = "SERVER_HELLO" /\ InCall /\ ~Over /\ cause = "none"
      /\ UNCHANGED << renego, auth, offt, keyIn, keyOut, out, toServer >>
  BY DEF Lock, LockInv, Stepping, InCall, Over, ParseServerHello, output, CallInv
<1>2. UNCHANGED << srv, srvHash, srvSuite, srvIn, srvOut >>
  BY DEF serverVars
<1> DEFINE between(o) == o.rec.ct # "handshake" /\ renego = "in_progress"
<1>3. PICK o \in Obtained :
        /\ Takes(o)
        /\ keep' = (between(o) /\ seen' <= RenegoMaxRecords)
        /\ \/ /\ api' = "failed" /\ cause' \in {"unanswered", "asked"}
              /\ UNCHANGED << state, suite >>
           \/ /\ between(o) /\ seen' <= RenegoMaxRecords
              /\ api' = Waiting /\ UNCHANGED << cause, state, suite >>
           \/ /\ ~between(o) /\ Name(o.rec) # "ServerHello" /\ Name(o.rec) # "HelloRequest"
              /\ api' = "failed" /\ cause' = "unexpected" /\ UNCHANGED << state, suite >>
           \/ /\ ~between(o) /\ Name(o.rec) = "ServerHello"
              /\ suite' = Info(o.rec)
              /\ IF renego = "in_progress" /\ ~suite'.secure
                 THEN api' = "failed" /\ cause' = "legacy" /\ UNCHANGED state
                 ELSE state' = After(state) /\ UNCHANGED << api, cause >>
  <2>1. PICK o \in Obtained :
          /\ Takes(o)
          /\ seen' = IF between(o) THEN seen + 1 ELSE seen
          /\ keep' = (between(o) /\ seen' <= RenegoMaxRecords)
          /\ CASE between(o) /\ seen' > RenegoMaxRecords ->
                    Fail("unanswered") /\ UNCHANGED << state, suite >>
               [] between(o) /\ seen' <= RenegoMaxRecords ->
                    api' = Waiting /\ UNCHANGED << cause, state, suite >>
               [] ~between(o) /\ Name(o.rec) # "ServerHello" ->
                    /\ Fail(IF Name(o.rec) = "HelloRequest" THEN "asked" ELSE "unexpected")
                    /\ UNCHANGED << state, suite >>
               [] OTHER ->
                    /\ suite' = Info(o.rec)
                    /\ IF renego = "in_progress" /\ ~suite'.secure
                       THEN Fail("legacy") /\ UNCHANGED state
                       ELSE state' = After(state) /\ UNCHANGED call
    BY DEF ParseServerHello
  <2>2. between(o) => seen' > RenegoMaxRecords \/ seen' <= RenegoMaxRecords
    BY <2>1, TlsAssumption DEF Lock, TlsAssumption
  <2> HIDE DEF between
  <2> QED BY <2>1, <2>2 DEF Fail, call
<1> HIDE DEF between
<1>4. /\ Awaited = "ServerHello" /\ Sent' = Sent
      /\ Negotiated' = Negotiated /\ Negotiated \in {1, 2} /\ Offered' = Offered
      /\ renego = "in_progress" <=> Negotiated = 2
  <2>1. Negotiated' = Negotiated /\ Offered' = Offered /\ Sent' = Sent
    BY <1>1, <1>2 DEF Negotiated, Offered, Sent
  <2>2. renego = "in_progress" <=> Negotiated = 2
    BY <1>1 DEF Types, CallInv, Negotiated
  <2> QED BY <1>1, <2>1, <2>2, AwaitedEnd, AwaitedType
<1>5. Aside(o) \/ (~keep /\ ~offt /\ Expected(o))
  <2>1. state \notin HelloStates /\ ~KeptDone
    BY <1>1 DEF HelloStates, KeptDone
  <2> QED BY <1>1, <2>1, ReadsNext
<1>6. ASSUME api' = "failed", cause' \notin {"bad_record", "unexpected", "finished"},
             UNCHANGED state
      PROVE  LockInv'
  <2>1. UpInv'
    BY <1>1, <1>4, <1>6, UpSame
  <2> QED BY <1>1, <1>6, <2>1, FailNext DEF Types
<1>7. CASE Aside(o)
  <2>1. CASE o.rec.ct = "handshake"
    <3>1. ~between(o) /\ Name(o.rec) = "HelloRequest"
      BY <1>7, <2>1 DEF Aside, between
    <3> QED BY <1>3, <1>6, <3>1
  <2>2. CASE o.rec.ct # "handshake"
    <3>1. between(o) /\ Negotiated = 2
      BY <1>4, <1>7, <2>2 DEF Aside, Between, between
    <3>2. CASE api' = Waiting /\ keep' /\ UNCHANGED << cause, state, suite >>
      <4>1. Awaited' = Awaited
        BY <1>2, <3>2 DEF Awaited
      <4>2. /\ o.hash = hash /\ Len(o.rec.msgs) = 1
            /\ \/ o.rec.ct = "data"
               \/ o.rec.ct = "alert" /\ Name(o.rec) = "no_renegotiation"
            /\ Leads(DownSteps(Negotiated, srvSuite), Awaited, Offered, o.rest)
        BY <1>7, <2>2 DEF Aside
      <4>3. PutAside'
        <5>1. (Name(cur))' = Name(o.rec)
          BY <1>3 DEF Takes, Name
        <5> QED BY <1>1, <1>3, <1>4, <3>1, <3>2, <4>2, <5>1 DEF PutAside, Takes
      <4>4. DownInv'
        <5>1. Leads(DownSteps(Negotiated', srvSuite'), Awaited', Offered', toClient')
          BY <1>2, <1>3, <1>4, <4>1, <4>2 DEF Takes
        <5> QED BY <4>3, <5>1 DEF DownInv
      <4>5. CallInv'
        BY <1>1, <1>4, <3>1, <3>2 DEF CallInv, Waiting, InCall
      <4>6. KnownInv'
        <5>1. (DownKey(Negotiated, Awaited))' = DownKey(Negotiated', Awaited')
          BY DEF DownKey
        <5>2. hash' = hash
          BY <1>3, <4>2 DEF Takes
        <5>3. Covered' = Covered
          BY <1>1, <1>2, <3>2 DEF Covered, HelloStates
        <5> QED BY <1>1, <1>2, <1>4, <3>2, <4>1, <5>1, <5>2, <5>3 DEF KnownInv
      <4>7. Types' /\ Causes'
        BY <1>1, <1>2, <3>2 DEF Types, Causes, Waiting
      <4>8. UpInv'
        BY <1>1, <1>4, <3>2, UpSame
      <4> QED BY <4>4, <4>5, <4>6, <4>7, <4>8 DEF LockInv
    <3> QED BY <1>3, <1>6, <3>1, <3>2
  <2> QED BY <2>1, <2>2
<1>8. CASE ~keep /\ ~offt /\ Expected(o)
  <2>1. /\ o.rec.ct = "handshake" /\ Name(o.rec) = "ServerHello" /\ Info(o.rec) = srvSuite
        /\ o.hash = Append(hash, "ServerHello") /\ ~between(o)
    BY <1>4, <1>8 DEF Expected, Name, Info, Msg, DownInfo, between
  <2>2. CASE /\ suite' = srvSuite /\ state' = After(state) /\ UNCHANGED << api, cause >>
             /\ ~keep'
    <3>1. state' = "SERVER_CERTIFICATE"
      BY <1>1, <2>2, AfterIs
    <3>2. /\ state' \in ClientStates /\ state' \notin HelloStates /\ state' # "HANDSHAKE_OVER"
          /\ state \notin ClosingStates
      BY <1>1, <3>1 DEF ClientStates, HelloStates, FlightStates, ClosingStates, EndStates
    <3>3. Listening
      BY <1>1, <1>8, HelloAfterHello
    <3>4. Promised' = Promised
      BY <1>1, <1>2, <3>1, PromisedNext DEF FlightStates
    <3>5. Awaited' = DownThen(srvSuite, Awaited)
      BY <1>1, <1>2, <3>1, AwaitedNext
    <3>6. Types' /\ Causes' /\ UpInv' /\ CallInv' /\ DownInv'
      BY <1>1, <1>3, <1>8, <2>2, <3>2, <3>3, <3>4, <3>5, TakesNext
    <3>7. KnownInv'
      <4>1. state' \notin ClosingStates
        BY <3>1 DEF ClosingStates, EndStates
      <4>2. Awaited' = "Certificate"
        BY <1>4, <3>5 DEF DownThen
      <4>3. keyIn' = DownKey(Negotiated', Awaited')
        BY <1>1, <1>4, <4>2 DEF KnownInv, DownKey
      <4>4. hash' = Covered'
        BY <1>1, <1>2, <1>3, <2>1, <3>1 DEF KnownInv, Takes, Covered, EndStates, HelloStates, Hello1
      <4>5. keyOut' = Negotiated' - 1
        BY <1>1, <1>4, <3>2 DEF KnownInv
      <4>6. (DownKey(Negotiated, Awaited))' = DownKey(Negotiated', Awaited')
        BY DEF DownKey
      <4>7. state' \notin {"SERVER_HELLO_DONE"} \cup ReplyStates
        BY <3>1 DEF ReplyStates
      <4>8. suite' = srvSuite' /\ suite' \in Suites
        BY <1>1, <1>2, <2>2
      <4> QED BY <3>1, <4>1, <4>3, <4>4, <4>5, <4>6, <4>7, <4>8 DEF KnownInv
    <3> QED BY <3>6, <3>7 DEF LockInv
  <2> QED BY <1>3, <1>6, <2>1, <2>2
<1> QED BY <1>5, <1>7, <1>8

-----------------------------------------------------------------------------
(* The steps of the client beside the handshake.                           *)

\* What the client knows stays, where the handshake stands.
LEMMA KnownSame ==
    ASSUME KnownInv, UNCHANGED serverVars,
           UNCHANGED << state, renego, suite, auth, keyIn, keyOut >>,
           keep' = keep \/ state # "SERVER_HELLO_DONE",
           hash' = hash \/ state \in EndStates
    PROVE  KnownInv' /\ Awaited' = Awaited /\ Negotiated' = Negotiated /\ Offered' = Offered
<1>1. UNCHANGED << srv, srvHash, srvSuite, srvIn, srvOut >>
  BY DEF serverVars
<1>2. Negotiated' = Negotiated /\ Awaited' = Awaited
  BY <1>1 DEF Negotiated, Awaited
<1>3. Offered' = Offered
  BY <1>1, <1>2 DEF Offered
<1>4. Covered' = Covered
  BY <1>1 DEF Covered
<1>5. (DownKey(Negotiated, Awaited))' = DownKey(Negotiated', Awaited')
  BY DEF DownKey
<1>6. KnownInv'
  BY <1>1, <1>2, <1>4, <1>5 DEF KnownInv
<1> QED BY <1>2, <1>3, <1>6

\* When the client's handshake is over, so is the server's.
LEMMA OverIsThrough ==
    ASSUME Types, UpInv, DownInv, InputInv, Over
    PROVE  /\ Offered = "end" /\ Through
           /\ \A i \in 1..Len(toClient) : DownBeside(Negotiated, "end", toClient[i])
<1>1. Awaited = "end" /\ ~KeptDone
  BY AwaitedType DEF Over, EndStates, KeptDone
<1>2. Leads(DownSteps(Negotiated, srvSuite), "end", Offered, toClient)
  BY <1>1 DEF DownInv, Comes, FlightPlaces
<1>3. /\ Offered = "end"
      /\ \A i \in 1..Len(toClient) : DownBeside(Negotiated, "end", toClient[i])
  BY <1>2, DownEnd DEF InputInv
<1>4. srvOut = Negotiated
  BY <1>3 DEF Offered, AfterFlight
<1>5. Negotiated - 1 # Negotiated
  BY AwaitedType
<1> QED BY <1>3, <1>4, <1>5 DEF UpInv, HelloComing, Unanswered, Listening

\* mbedtls_ssl_read_record meets an alert.
LEMMA AlertNext ==
    ASSUME Lock, UNCHANGED serverVars, AlertOrBad
    PROVE  LockInv'
<1>1. /\ Types /\ Causes /\ UpInv /\ CallInv /\ KnownInv /\ DownInv /\ InputInv
      /\ ~keep /\ ~offt /\ Len(cur.msgs) <= 1 /\ toClient # << >>
      /\ UNCHANGED << state, renego, suite, auth, keep, offt, hash, keyIn, keyOut,
                      out, toServer >>
      /\ cur' = Head(toClient) /\ toClient' = Tail(toClient)
  BY DEF Lock, LockInv, AlertOrBad, Fetching, Exhausted, Stepping, InCall, handshake, output
<1> DEFINE r == Head(toClient)
           T == DownSteps(Negotiated, srvSuite)
<1>2. IF r.key = keyIn /\ Name(r) \in {"warning", "fatal"}
      THEN UNCHANGED << api, cause >> \/ (api' = "failed" /\ cause' = "refused")
      ELSE r.key # keyIn
  BY DEF AlertOrBad, Fail, call
<1>3. PICK x : << Awaited, r, x >> \in T /\ Leads(T, x, Offered, Tail(toClient))
  <2>1. Leads(T, Awaited, Offered, toClient)
    BY <1>1 DEF DownInv, Comes, KeptDone, PutAside
  <2> DEFINE p == Awaited
             q == Offered
  <2> HIDE DEF T, p, q
  <2>2. \E x : << p, Head(toClient), x >> \in T /\ Leads(T, x, q, Tail(toClient))
    BY <1>1, <2>1, LeadsFirst DEF InputInv, p, q
  <2> QED BY <2>2 DEF p, q
<1>4. DownMoves(Negotiated, srvSuite, Awaited, r, x)
      \/ (DownBeside(Negotiated, Awaited, r) /\ x = Awaited)
  BY <1>3, DownStep
<1>5. r.key = keyIn
  BY <1>1, <1>4 DEF DownMoves, DownBeside, KnownInv
<1>6. ~DownMoves(Negotiated, srvSuite, Awaited, r, x)
  <2> SUFFICES ASSUME DownMoves(Negotiated, srvSuite, Awaited, r, x) PROVE FALSE
    OBVIOUS
  <2>1. CASE r.msgs = << Msg(Awaited, DownInfo(srvSuite, Awaited)) >>
    <3>1. Name(r) = Awaited
      BY <2>1 DEF Name, Msg
    <3> QED BY <1>2, <1>5, <3>1, AwaitedType DEF DownPlaces
  <2>2. CASE r.msgs = Flight(srvSuite)
    <3>1. Name(r) = "ServerHello"
      BY <2>2, FlightIs DEF Name, Msg, Lock
    <3> QED BY <1>2, <1>5, <3>1
  <2> QED BY <2>1, <2>2 DEF DownMoves
<1>7. Sent' = Sent
  BY <1>1 DEF Sent
<1>8. UpInv'
  BY <1>1, <1>7, UpSame
<1>9. CASE api' = "failed" /\ cause' = "refused"
  BY <1>1, <1>8, <1>9, FailNext DEF Types
<1>10. CASE UNCHANGED << api, cause >>
  <2>1. KnownInv' /\ Awaited' = Awaited /\ Negotiated' = Negotiated /\ Offered' = Offered
    BY <1>1, KnownSame
  <2>2. DownInv'
    <3>1. srvSuite' = srvSuite
      BY DEF serverVars
    <3>2. Leads(DownSteps(Negotiated', srvSuite'), Awaited', Offered', toClient')
      BY <1>1, <1>3, <1>4, <1>6, <2>1, <3>1
    <3>3. Len(cur'.msgs) <= 1
      <4>1. Len(r.msgs) = 1
        BY <1>4, <1>6 DEF DownBeside
      <4>2. cur' = r
        BY <1>1
      <4> HIDE DEF r
      <4>3. Len(cur'.msgs) = 1
        BY <4>1, <4>2, Zenon
      <4> QED BY <4>3
    <3>4. Comes(Negotiated', srvSuite', Awaited', Offered', cur', toClient')
      BY <3>2, <3>3 DEF Comes
    <3> QED BY <1>1, <3>4 DEF DownInv, Comes
  <2>3. Types' /\ Causes' /\ CallInv'
    BY <1>1, <1>10 DEF Types, Causes, CallInv, serverVars
  <2> QED BY <1>8, <2>1, <2>2, <2>3 DEF LockInv
<1> QED BY <1>2, <1>5, <1>9, <1>10

\* What was left over from the first handshake comes between the two.
LEMMA RenegotiationNext ==
    ASSUME Lock, UNCHANGED serverVars, StartRenegotiation
    PROVE  LockInv'
<1>1. /\ Types /\ Causes /\ UpInv /\ CallInv /\ KnownInv /\ DownInv /\ InputInv /\ Over
      /\ srvSuite \in Suites /\ api = "handshake" /\ api' = "renegotiate"
      /\ state' = "HELLO_REQUEST" /\ renego' = "in_progress"
      /\ hash' = << >> /\ suite' = NoSuite
      /\ UNCHANGED << cause, auth, cur, keep, offt, keyIn, keyOut, out, toServer, toClient >>
  BY DEF Lock, LockInv, StartRenegotiation, output
<1>2. UNCHANGED << srv, srvHash, srvSuite, srvIn, srvOut >>
  BY DEF serverVars
<1>3. renego = "initial" /\ Negotiated = 1 /\ Negotiated' = 2
  BY <1>1 DEF CallInv, Negotiated
<1>4. /\ Through /\ \A i \in 1..Len(toClient) : DownBeside(1, "end", toClient[i])
  BY <1>1, <1>3, OverIsThrough
<1>5. srv = "up" /\ srvOut = 1 /\ Sent' = << >>
  BY <1>1, <1>3, <1>4 DEF Through, Sent
<1>6. Awaited' = "ServerHello" /\ Offered' = "ServerHello"
  <2>1. Awaited' = "ServerHello"
    BY <1>1 DEF Awaited, HelloStates, ReplyStates
  <2>2. "up" \notin Hearing /\ srvOut' = 1 /\ srv' = "up"
    BY <1>2, <1>5 DEF Hearing
  <2>3. Offered' = IF srvOut' = Negotiated' THEN "end"
                   ELSE IF srv' \in Hearing THEN AfterFlight(srvSuite') ELSE "ServerHello"
    BY DEF Offered, AfterFlight
  <2> QED BY <1>3, <2>1, <2>2, <2>3
<1>7. DownInv'
  <2>1. ~keep /\ ~offt /\ Len(cur.msgs) <= 1
    <3>1. Awaited \notin FlightPlaces
      BY <1>1, AwaitedType DEF Over, EndStates, FlightPlaces
    <3> QED BY <1>1, <1>3, <3>1 DEF DownInv, KeptDone, PutAside, Comes, Over
  <2>2. \A i \in 1..Len(toClient) : DownBeside(2, "ServerHello", toClient[i])
    BY <1>4 DEF DownBeside, DownKey, Between
  <2>3. Leads(DownSteps(2, srvSuite), "ServerHello", "ServerHello", toClient)
    BY <1>1, <2>2, DownAround DEF InputInv, DownPlaces
  <2>4. Leads(DownSteps(Negotiated', srvSuite'), Awaited', Offered', toClient')
    BY <1>1, <1>2, <1>3, <1>6, <2>3
  <2>5. Comes(Negotiated', srvSuite', Awaited', Offered', cur', toClient')
    BY <1>1, <2>1, <2>4 DEF Comes
  <2> QED BY <1>1, <2>1, <2>5 DEF DownInv, Comes
<1>8. UpInv'
  <2>1. HelloComing'
    BY <1>1, <1>2, <1>3, <1>5 DEF HelloComing, Start, HelloStates
  <2> QED BY <1>1, <1>2, <2>1 DEF UpInv
<1>9. KnownInv'
  <2>1. keyOut = 1 /\ keyIn = 1
    <3>1. state \in ClosingStates /\ Awaited = "end"
      BY <1>1, AwaitedType DEF Over, ClosingStates, EndStates
    <3> QED BY <1>1, <1>3, <3>1 DEF KnownInv, DownKey
  <2>2. /\ state' \notin ClosingStates /\ state' \notin FlightStates \cup ReplyStates
        /\ state' \notin {"SERVER_HELLO_DONE"} \cup ReplyStates
    BY <1>1 DEF ClosingStates, EndStates, FlightStates, ReplyStates
  <2>3. Covered' = << >> /\ suite' \in Suites
    BY <1>1 DEF Covered, HelloStates, NoSuite, Suites
  <2>4. (DownKey(Negotiated, Awaited))' = DownKey(Negotiated', Awaited')
    BY DEF DownKey
  <2>5. DownKey(Negotiated', Awaited') = 1
    BY <1>3, <1>6 DEF DownKey
  <2> QED BY <1>1, <1>3, <2>1, <2>2, <2>3, <2>4, <2>5 DEF KnownInv
<1>10. Types' /\ Causes' /\ CallInv'
  BY <1>1, <1>2 DEF Types, Causes, CallInv, ClientStates, HelloStates
<1> QED BY <1>7, <1>8, <1>9, <1>10 DEF LockInv

\* A call begins or ends.
LEMMA CallsNext ==
    ASSUME Lock, UNCHANGED serverVars, Calls
    PROVE  LockInv'
<1>1. /\ Types /\ Causes /\ UpInv /\ CallInv /\ KnownInv /\ DownInv
      /\ api \in {"renegotiate", "idle"} /\ api' \in {"idle", "read", "write"}
      /\ UNCHANGED << cause, state, renego, suite, auth, cur, keep, offt, hash, keyIn,
                      keyOut, out, toServer, toClient >>
  BY DEF Lock, LockInv, Calls, handshake, input, output
<1>2. Sent' = Sent
  BY <1>1 DEF Sent
<1>3. UpInv' /\ KnownInv' /\ DownInv'
  BY <1>1, <1>2, UpSame, KnownSame, DownSame
<1>4. Types' /\ Causes' /\ CallInv'
  BY <1>1 DEF Types, Causes, CallInv, serverVars
<1> QED BY <1>3, <1>4 DEF LockInv

\* The second half of the data is handed over.
LEMMA RestNext ==
    ASSUME Lock, UNCHANGED serverVars, ReadRest
    PROVE  LockInv'
<1>1. /\ Types /\ Causes /\ UpInv /\ CallInv /\ KnownInv /\ DownInv /\ InputInv
      /\ offt /\ ~keep' /\ ~offt' /\ api' = "idle"
      /\ api \in {"read", "read_on"}
      /\ UNCHANGED << cause, state, renego, suite, auth, cur, hash, keyIn,
                      keyOut, out, toServer, toClient >>
  BY DEF Lock, LockInv, ReadRest, HandOver, handshake, output, InputInv
<1>2. Sent' = Sent
  BY <1>1 DEF Sent
<1>3. /\ PutAside
      /\ Leads(DownSteps(Negotiated, srvSuite), Awaited, Offered, toClient)
  BY <1>1 DEF DownInv, KeptDone
<1>4. state # "SERVER_HELLO_DONE"
  BY <1>3 DEF PutAside, Over
<1>5. UpInv'
  BY <1>1, <1>2, UpSame
<1>6. KnownInv' /\ Awaited' = Awaited /\ Negotiated' = Negotiated /\ Offered' = Offered
  BY <1>1, <1>4, KnownSame
<1>7. DownInv'
  <2>1. Leads(DownSteps(Negotiated', srvSuite'), Awaited', Offered', toClient')
    BY <1>1, <1>3, <1>6 DEF serverVars
  <2>2. Len(cur'.msgs) <= 1
    BY <1>1, <1>3 DEF PutAside
  <2>3. Comes(Negotiated', srvSuite', Awaited', Offered', cur', toClient')
    BY <2>1, <2>2 DEF Comes
  <2> QED BY <1>1, <2>3 DEF DownInv, Comes
<1>8. Types' /\ Causes' /\ CallInv'
  BY <1>1 DEF Types, Causes, CallInv, serverVars
<1> QED BY <1>5, <1>6, <1>7, <1>8 DEF LockInv

\* What mbedtls_ssl_read meets comes beside the row.
LEMMA ReadsAside ==
    ASSUME Lock, UNCHANGED serverVars, ReadRecord
    PROVE  \E o \in Obtained :
              /\ Takes(o) /\ keep' = FALSE
              /\ CASE o.rec.ct = "data" ->
                        HandOver(o.rec) /\ UNCHANGED << cause, out, toServer >>
                   [] o.rec.ct = "handshake" /\ Name(o.rec) = "HelloRequest" ->
                        RefuseRenegotiation
                   [] o.rec.ct = "alert" ->
                        api' = "idle" /\ UNCHANGED << cause, out, toServer, offt, delivered >>
                   [] OTHER ->
                        Fail("unexpected") /\ UNCHANGED << out, toServer, offt, delivered >>
              /\ Aside(o)
<1>1. /\ Types /\ CallInv /\ KnownInv /\ DownInv /\ InputInv /\ srvSuite \in Suites
      /\ (api = "read" /\ Over) \/ (api = "read_on" /\ keep /\ state = "SERVER_HELLO")
  BY DEF Lock, LockInv, ReadRecord, CallInv
<1>2. PICK o \in Obtained :
        /\ Takes(o) /\ keep' = FALSE
        /\ CASE o.rec.ct = "data" ->
                  HandOver(o.rec) /\ UNCHANGED << cause, out, toServer >>
             [] o.rec.ct = "handshake" /\ Name(o.rec) = "HelloRequest" ->
                  RefuseRenegotiation
             [] o.rec.ct = "alert" ->
                  api' = "idle" /\ UNCHANGED << cause, out, toServer, offt, delivered >>
             [] OTHER ->
                  Fail("unexpected") /\ UNCHANGED << out, toServer, offt, delivered >>
  BY DEF ReadRecord
<1>3. state \notin HelloStates /\ ~KeptDone
  BY <1>1 DEF Over, HelloStates, KeptDone
<1>4. ~(~keep /\ Expected(o))
  BY <1>1, AwaitedType DEF Expected, Over, EndStates
<1>5. Aside(o)
  BY <1>1, <1>3, <1>4, ReadsNext
<1> QED BY <1>2, <1>5

\* mbedtls_ssl_read, when it reads a record, keeps them in step.
LEMMA ReadNext ==
    ASSUME Lock, UNCHANGED serverVars, ReadRecord
    PROVE  LockInv'
<1>1. /\ Types /\ Causes /\ UpInv /\ CallInv /\ KnownInv /\ DownInv /\ InputInv
      /\ srvSuite \in Suites /\ cause = "none"
      /\ ~offt
      /\ \/ api = "read" /\ Over /\ renego = "done"
         \/ api = "read_on" /\ keep /\ state = "SERVER_HELLO" /\ renego = "in_progress"
      /\ UNCHANGED << state, renego, suite, auth, keyIn, keyOut >>
  BY DEF Lock, LockInv, ReadRecord, CallInv, handshake, Over, Types, InputInv
<1>2. UNCHANGED << srv, srvHash, srvSuite, srvIn, srvOut >>
  BY DEF serverVars
<1>3. PICK o \in Obtained :
        /\ Takes(o) /\ keep' = FALSE
        /\ CASE o.rec.ct = "data" ->
                  HandOver(o.rec) /\ UNCHANGED << cause, out, toServer >>
             [] o.rec.ct = "handshake" /\ Name(o.rec) = "HelloRequest" ->
                  RefuseRenegotiation
             [] o.rec.ct = "alert" ->
                  api' = "idle" /\ UNCHANGED << cause, out, toServer, offt, delivered >>
             [] OTHER ->
                  Fail("unexpected") /\ UNCHANGED << out, toServer, offt, delivered >>
        /\ Aside(o)
  BY ReadsAside
<1>4. /\ Negotiated = 2 /\ state # "SERVER_HELLO_DONE"
      /\ state = "SERVER_HELLO" \/ Over
  BY <1>1 DEF Negotiated, Over
<1>5. hash' = hash \/ state \in EndStates
  <2>1. o.rec.ct # "handshake" => o.hash = hash
    BY <1>3 DEF Aside
  <2>2. o.rec.ct = "handshake" => ~keep
    BY <1>3 DEF Aside
  <2>3. ~keep => state \in EndStates
    BY <1>1 DEF Over, EndStates
  <2> QED BY <1>3, <2>1, <2>2, <2>3 DEF Takes
<1>6. KnownInv' /\ Awaited' = Awaited /\ Negotiated' = Negotiated /\ Offered' = Offered
  BY <1>1, <1>4, <1>5, KnownSame
<1>7. /\ Len(o.rec.msgs) = 1 /\ cur' = o.rec
      /\ Leads(DownSteps(Negotiated', srvSuite'), Awaited', Offered', toClient')
  BY <1>2, <1>3, <1>6 DEF Aside, Takes
<1>8. ASSUME ~offt' PROVE DownInv'
  <2>1. Len(cur'.msgs) = 1
    BY <1>7, Zenon
  <2>2. Len(cur'.msgs) <= 1
    BY <2>1
  <2>3. Leads(DownSteps(Negotiated', srvSuite'), Awaited', Offered', toClient')
    BY <1>7
  <2>4. Comes(Negotiated', srvSuite', Awaited', Offered', cur', toClient')
    BY <2>2, <2>3, Zenon DEF Comes
  <2> QED BY <1>3, <1>8, <2>4 DEF DownInv, Comes
<1>9. CASE o.rec.ct = "data"
  <2>1. /\ api' = "idle" /\ UNCHANGED << cause, out, toServer >>
        /\ offt' \in BOOLEAN
    BY <1>3, <1>9 DEF HandOver
  <2>2. DownInv'
    <3>1. CASE offt'
      <4>1. Len(cur'.msgs) = 1 /\ cur'.ct = "data"
        BY <1>7, <1>9, Zenon
      <4>2. PutAside'
        BY <1>1, <1>3, <1>4, <1>6, <3>1, <4>1 DEF PutAside, Over
      <4> QED BY <1>7, <4>2 DEF DownInv
    <3> QED BY <1>8, <2>1, <3>1
  <2>3. Types' /\ Causes' /\ CallInv'
    BY <1>1, <1>2, <2>1 DEF Types, Causes, CallInv
  <2>4. Sent' = Sent
    BY <2>1 DEF Sent
  <2>5. UpInv'
    BY <1>1, <2>4, UpSame
  <2> QED BY <1>6, <2>2, <2>3, <2>5 DEF LockInv
<1>10. CASE o.rec.ct = "alert"
  <2>1. /\ api' = "idle" /\ UNCHANGED << cause, out, toServer, offt >>
    BY <1>3, <1>10
  <2>2. DownInv'
    BY <1>1, <1>8, <2>1
  <2>3. Types' /\ Causes' /\ CallInv'
    BY <1>1, <1>2, <2>1 DEF Types, Causes, CallInv
  <2>4. Sent' = Sent
    BY <2>1 DEF Sent
  <2>5. UpInv'
    BY <1>1, <2>4, UpSame
  <2> QED BY <1>6, <2>2, <2>3, <2>5 DEF LockInv
<1>11. CASE o.rec.ct = "handshake" /\ Name(o.rec) = "HelloRequest"
  <2>1. RefuseRenegotiation
    BY <1>3, <1>11
  <2>2. api = "read" /\ Over /\ renego = "done"
    BY <1>1, <1>3, <1>11 DEF Aside
  <2> DEFINE r == Record("alert", keyOut, << Msg("no_renegotiation", << >>) >>)
  <2>3. CASE out = << >>
    <3>1. Write(r, "idle") /\ UNCHANGED << cause, offt >>
      BY <2>1, <2>3 DEF RefuseRenegotiation
    <3>2. keyOut = 2
      <4>1. state \in ClosingStates
        BY <2>2 DEF Over, ClosingStates, EndStates
      <4> QED BY <1>1, <1>4, <4>1 DEF KnownInv
    <3>3. r \in Records /\ Beyond(r)
      <4>1. << >> \in Infos /\ "alert" \in ContentTypes /\ "no_renegotiation" \in MessageNames
        BY DEF Infos, ContentTypes, MessageNames
      <4>2. r \in Records
        BY <3>2, <4>1, SingleRecord
      <4> QED BY <3>2, <4>2 DEF Beyond, Record, Name, Msg
    <3> HIDE DEF r
    <3>4. /\ Sent' = Append(Sent, r) /\ toServer' \in Seq(Records)
          /\ out' = << >> \/ out' = << r >>
          /\ api' = "idle" \/ api' = Wanting
      BY <1>1, <2>3, <3>1, <3>3, SentMore
    <3>5. api' = "idle"
      BY <2>2, <3>4 DEF Wanting
    <3>6. Through
      BY <1>1, <2>2, OverIsThrough
    <3>7. UpInv'
      BY <1>1, <2>2, <3>3, <3>4, <3>6, UpAfter
    <3>8. Types' /\ Causes' /\ CallInv'
      BY <1>1, <1>2, <3>1, <3>3, <3>4, <3>5 DEF Types, Causes, CallInv
    <3>9. DownInv'
      BY <1>1, <1>8, <3>1
    <3> QED BY <1>6, <3>7, <3>8, <3>9 DEF LockInv
  <2>4. CASE out # << >>
    <3>1. api' = "failed" /\ cause' = "overwritten" /\ UNCHANGED << out, toServer >>
      BY <2>1, <2>4 DEF RefuseRenegotiation, Fail
    <3>2. Sent' = Sent
      BY <3>1 DEF Sent
    <3>3. UpInv'
      BY <1>1, <3>2, UpSame
    <3> QED BY <1>1, <3>1, <3>3, FailNext DEF Types
  <2> QED BY <2>3, <2>4
<1> QED BY <1>3, <1>9, <1>10, <1>11 DEF Aside

\* A packet is written, or the rest of one.
LEMMA WriteDataNext ==
    ASSUME Lock, UNCHANGED serverVars, WriteData
    PROVE  LockInv'
<1>1. /\ Types /\ Causes /\ UpInv /\ CallInv /\ KnownInv /\ DownInv /\ InputInv
      /\ api = "write" /\ Over /\ renego = "done" /\ cause = "none" /\ written \in Nat
      /\ UNCHANGED << state, renego, suite, auth, cur, keep, offt, hash, keyIn, keyOut, toClient >>
  BY DEF Lock, LockInv, WriteData, CallInv, handshake, input, Over, Types
<1>2. UNCHANGED << srv, srvHash, srvSuite, srvIn, srvOut >>
  BY DEF serverVars
<1>3. KnownInv' /\ DownInv'
  BY <1>1, KnownSame, DownSame
<1>4. Through
  BY <1>1, OverIsThrough
<1> DEFINE r == Record("data", keyOut, << Msg("data", written + 1) >>)
<1>5. \/ out = << >> /\ Write(r, "idle") /\ UNCHANGED cause
      \/ /\ api' = "idle" /\ UNCHANGED cause
         /\ \/ toServer' = toServer \o out /\ out' = << >>
            \/ UNCHANGED << toServer, out >>
      \/ api' = "failed" /\ cause' = "swallowed" /\ UNCHANGED << toServer, out >>
  BY DEF WriteData, Fail
<1>6. CASE out = << >> /\ Write(r, "idle") /\ UNCHANGED cause
  <2>1. keyOut = 2
    <3>1. state \in ClosingStates /\ Negotiated = 2
      BY <1>1 DEF Over, ClosingStates, EndStates, Negotiated
    <3> QED BY <1>1, <3>1 DEF KnownInv
  <2>2. r \in Records /\ Beyond(r)
    <3>1. written + 1 \in Infos /\ "data" \in ContentTypes /\ "data" \in MessageNames
      BY <1>1 DEF Infos, ContentTypes, MessageNames
    <3>2. r \in Records
      BY <2>1, <3>1, SingleRecord
    <3> QED BY <2>1, <3>2 DEF Beyond, Record
  <2> HIDE DEF r
  <2>3. /\ Sent' = Append(Sent, r) /\ toServer' \in Seq(Records)
        /\ out' = << >> \/ out' = << r >>
        /\ api' = "idle" \/ api' = Wanting
    BY <1>1, <1>6, <2>2, SentMore
  <2>4. api' = "idle"
    BY <1>1, <2>3 DEF Wanting
  <2>5. UpInv'
    BY <1>1, <1>4, <2>2, <2>3, UpAfter
  <2>6. Types' /\ Causes' /\ CallInv'
    BY <1>1, <1>2, <1>6, <2>2, <2>3, <2>4 DEF Types, Causes, CallInv
  <2> QED BY <1>3, <2>5, <2>6 DEF LockInv
<1> HIDE DEF r
<1>7. CASE /\ api' = "idle" /\ UNCHANGED cause
           /\ \/ toServer' = toServer \o out /\ out' = << >>
              \/ UNCHANGED << toServer, out >>
  <2>1. Sent' = Sent /\ toServer' \in Seq(Records)
    <3>1. CASE toServer' = toServer \o out /\ out' = << >>
      BY <1>1, <3>1, SentFlushed
    <3>2. CASE UNCHANGED << toServer, out >>
      BY <1>1, <3>2 DEF Sent, Types
    <3> QED BY <1>7, <3>1, <3>2
  <2>2. UpInv'
    BY <1>1, <2>1, UpSame
  <2>3. Types' /\ Causes' /\ CallInv'
    BY <1>1, <1>2, <1>7, <2>1 DEF Types, Causes, CallInv
  <2> QED BY <1>3, <2>2, <2>3 DEF LockInv
<1>8. CASE api' = "failed" /\ cause' = "swallowed" /\ UNCHANGED << toServer, out >>
  <2>1. Sent' = Sent
    BY <1>8 DEF Sent
  <2>2. UpInv'
    BY <1>1, <2>1, UpSame
  <2> QED BY <1>1, <1>8, <2>2, FailNext DEF Types
<1> QED BY <1>5, <1>6, <1>7, <1>8

\* Every step of the client.
LEMMA ClientNext ==
    ASSUME Lock, UNCHANGED serverVars, Client
    PROVE  LockInv'
<1>1. CASE FlushOutput \/ AlertOrBad \/ ParseServerHello \/ ParseCertificate
           \/ ParseServerKeyExchange \/ ParseCertificateRequest \/ ParseServerHelloDone
  BY <1>1, FlushNext, AlertNext, ServerHelloNext, CertificateNext, KeyExchangeNext,
     RequestNext, HelloDoneNext
<1>2. CASE ParseNewSessionTicket \/ ParseChangeCipherSpec \/ ParseFinished \/ Wrapup
           \/ StartRenegotiation \/ Calls \/ ReadRest \/ ReadRecord \/ WriteData
  BY <1>2, TicketNext, CipherNext, FinishedNext, WrapupNext, RenegotiationNext,
     CallsNext, RestNext, ReadNext, WriteDataNext
<1>3. CASE HelloRequest \/ FlushBuffers
  <2>1. CASE HelloRequest
    BY <2>1, SkipNext DEF HelloRequest
  <2>2. CASE FlushBuffers
    BY <2>2, SkipNext DEF FlushBuffers
  <2> QED BY <1>3, <2>1, <2>2
<1>4. CASE WriteClientHello \/ WriteCertificate \/ WriteClientKeyExchange
           \/ WriteCertificateVerify \/ WriteChangeCipherSpec \/ WriteFinished
  BY <1>4, HelloNext, ReplyNext
<1> QED BY <1>1, <1>2, <1>3, <1>4 DEF Client

-----------------------------------------------------------------------------
(* The steps of the server.                                                *)

\* Where the server stands in the row it sends.
LEMMA OfferedIs ==
    ASSUME UpInv
    PROVE  /\ HelloComing \/ Unanswered => Offered = "ServerHello"
           /\ Listening => Offered = AfterFlight(srvSuite)
           /\ Through => Offered = "end"
           /\ srvOut = DownKey(Negotiated, Offered) /\ Offered \in DownPlaces
           /\ srv = "up" => Between(Negotiated, Offered)
<1>1. Negotiated \in {1, 2} /\ (renego = "initial" <=> Negotiated = 1)
  BY DEF Negotiated
<1>2. HelloComing \/ Unanswered
        => /\ Offered = "ServerHello" /\ srvOut = Negotiated - 1
           /\ srv = "up" => Negotiated = 2
  <2>1. HelloComing \/ Unanswered => srv \notin Hearing /\ srvOut = Negotiated - 1
    BY DEF HelloComing, Unanswered, Start, Hearing
  <2>2. HelloComing \/ Unanswered => Offered = "ServerHello"
    BY <1>1, <2>1 DEF Offered
  <2>3. HelloComing \/ Unanswered => (srv = "up" => Negotiated = 2)
    BY <1>1 DEF HelloComing, Unanswered, Start
  <2> QED BY <2>1, <2>2, <2>3
<1>3. Listening => /\ Offered = AfterFlight(srvSuite) /\ srvOut = Negotiated - 1
                   /\ srv # "up"
  BY <1>1 DEF Listening, Offered, Hearing
<1>4. Through => Offered = "end" /\ srvOut = Negotiated
  BY DEF Through, Offered
<1>5. HelloComing \/ Unanswered \/ Listening \/ Through
  BY DEF UpInv
<1>6. AfterFlight(srvSuite) \in {"NewSessionTicket", "ccs"}
  BY DEF AfterFlight
<1>7. srvOut = DownKey(Negotiated, Offered) /\ Offered \in DownPlaces
  BY <1>2, <1>3, <1>4, <1>5, <1>6 DEF DownKey, DownPlaces
<1>8. srv = "up" => Between(Negotiated, Offered)
  BY <1>2, <1>3, <1>4, <1>5 DEF Between
<1> QED BY <1>2, <1>3, <1>4, <1>7, <1>8

\* What the server sends comes behind what is under way.
LEMMA DownServes ==
    ASSUME InputInv, DownInv, UNCHANGED << clientVars, srvSuite >>,
           NEW w \in Seq(Records), toClient' = toClient \o w,
           Leads(DownSteps(Negotiated, srvSuite), Offered, Offered', w)
    PROVE  DownInv'
<1>1. UNCHANGED << state, renego, suite, cur, keep, offt >>
  BY DEF clientVars, handshake, input
<1>2. Negotiated' = Negotiated
  BY <1>1 DEF Negotiated
<1>3. Awaited' = Awaited
  BY <1>1 DEF Awaited
<1>4. ASSUME NEW p, Leads(DownSteps(Negotiated, srvSuite), p, Offered, toClient)
      PROVE  Leads(DownSteps(Negotiated', srvSuite'), p, Offered', toClient')
  <2> DEFINE T == DownSteps(Negotiated, srvSuite)
             q == Offered
             x == Offered'
             v == toClient
  <2>1. v \in Seq(Records) /\ Leads(T, p, q, v) /\ Leads(T, q, x, w)
    BY <1>4 DEF InputInv
  <2> HIDE DEF T, q, x, v
  <2>2. Leads(T, p, x, v \o w)
    BY <2>1, LeadsConcat
  <2>3. T = DownSteps(Negotiated', srvSuite') /\ x = Offered' /\ v \o w = toClient'
    BY <1>2 DEF T, x, v
  <2> QED BY <2>2, <2>3
<1>5. CASE /\ ~keep /\ ~offt
           /\ Comes(Negotiated, srvSuite, Awaited, Offered, cur, toClient)
  <2>1. Comes(Negotiated', srvSuite', Awaited', Offered', cur', toClient')
    <3>1. CASE Len(cur.msgs) <= 1 /\ Leads(DownSteps(Negotiated, srvSuite), Awaited, Offered, toClient)
      <4>1. Leads(DownSteps(Negotiated', srvSuite'), Awaited', Offered', toClient')
        BY <1>3, <1>4, <3>1
      <4>2. Len(cur'.msgs) <= 1
        BY <1>1, <3>1
      <4> QED BY <4>1, <4>2 DEF Comes
    <3>2. CASE /\ Len(cur.msgs) > 1 /\ cur.ct = "handshake" /\ Awaited \in FlightPlaces
               /\ Tail(cur.msgs) = FlightFrom(srvSuite, Awaited)
               /\ Leads(DownSteps(Negotiated, srvSuite), AfterFlight(srvSuite), Offered, toClient)
      <4>1. Leads(DownSteps(Negotiated', srvSuite'), AfterFlight(srvSuite), Offered', toClient')
        BY <1>4, <3>2
      <4>2. Leads(DownSteps(Negotiated', srvSuite'), AfterFlight(srvSuite'), Offered', toClient')
        BY <4>1
      <4>3. /\ Len(cur'.msgs) > 1 /\ cur'.ct = "handshake" /\ Awaited' \in FlightPlaces
            /\ Tail(cur'.msgs) = FlightFrom(srvSuite', Awaited')
        BY <1>1, <1>3, <3>2
      <4> QED BY <4>2, <4>3 DEF Comes
    <3> QED BY <1>5, <3>1, <3>2 DEF Comes
  <2> QED BY <1>1, <1>5, <2>1 DEF DownInv, Comes
<1>6. CASE /\ KeptDone
           /\ Leads(DownSteps(Negotiated, srvSuite), AfterFlight(srvSuite), Offered, toClient)
  <2>1. Leads(DownSteps(Negotiated', srvSuite'), AfterFlight(srvSuite), Offered', toClient')
    BY <1>4, <1>6
  <2>2. Leads(DownSteps(Negotiated', srvSuite'), AfterFlight(srvSuite'), Offered', toClient')
    BY <2>1
  <2>3. KeptDone'
    BY <1>1, <1>6 DEF KeptDone
  <2> QED BY <2>2, <2>3 DEF DownInv
<1>7. CASE /\ PutAside
           /\ Leads(DownSteps(Negotiated, srvSuite), Awaited, Offered, toClient)
  <2>1. Leads(DownSteps(Negotiated', srvSuite'), Awaited', Offered', toClient')
    BY <1>3, <1>4, <1>7
  <2>2. PutAside'
    BY <1>1, <1>2, <1>7 DEF PutAside, Over, Name
  <2> QED BY <2>1, <2>2 DEF DownInv
<1> QED BY <1>5, <1>6, <1>7 DEF DownInv

\* What the client knows does not change with what it has not read.
LEMMA ServesSame ==
    ASSUME UNCHANGED << clientVars, srvSuite >>
    PROVE  /\ (KnownInv => KnownInv') /\ (CallInv => CallInv') /\ (Causes => Causes')
           /\ Negotiated' = Negotiated /\ Awaited' = Awaited /\ Promised' = Promised
           /\ Start' = Start
           /\ UNCHANGED << api, cause, state, renego, suite, auth, cur, keep, offt, hash, keyIn,
                           keyOut, out >>
<1>1. UNCHANGED << api, cause, state, renego, suite, auth, cur, keep, offt, hash, keyIn,
                   keyOut, out >>
  BY DEF clientVars, call, handshake, input, output
<1>2. Negotiated' = Negotiated /\ Start' = Start
  BY <1>1 DEF Negotiated, Start
<1>3. Awaited' = Awaited
  BY <1>1 DEF Awaited
<1>4. Promised' = Promised
  BY <1>1 DEF Promised
<1>5. Covered' = Covered
  BY <1>1 DEF Covered
<1>6. (DownKey(Negotiated, Awaited))' = DownKey(Negotiated', Awaited')
  BY DEF DownKey
<1>7. KnownInv => KnownInv'
  BY <1>1, <1>2, <1>3, <1>5, <1>6 DEF KnownInv
<1>8. (CallInv => CallInv') /\ (Causes => Causes')
  BY <1>1 DEF CallInv, Causes
<1> QED BY <1>1, <1>2, <1>3, <1>4, <1>7, <1>8

\* The server sends something beside the row, and is where it was.
LEMMA BesideNext ==
    ASSUME Lock, UNCHANGED << clientVars, srv, srvHash, srvSuite, srvIn, srvOut, toServer >>,
           NEW r \in Records, toClient' = toClient \o << r >>,
           DownBeside(Negotiated, Offered, r)
    PROVE  LockInv'
<1>1. Types /\ Causes /\ UpInv /\ InputInv
  BY DEF Lock, LockInv
<1>2. /\ (KnownInv => KnownInv') /\ (CallInv => CallInv') /\ Causes'
      /\ Negotiated' = Negotiated /\ Promised' = Promised /\ Start' = Start
      /\ UNCHANGED << api, state, renego, out >>
  BY <1>1, ServesSame
<1>3. Offered' = Offered /\ Sent' = Sent
  BY <1>2 DEF Offered, Sent
<1>4. Types'
  BY <1>1, <1>2 DEF Types
<1>5. UpInv'
  <2>1. (HelloComing => HelloComing') /\ (Unanswered => Unanswered')
    BY <1>2, <1>3 DEF HelloComing, Unanswered
  <2>2. Listening => Listening'
    BY <1>2, <1>3 DEF Listening
  <2>3. Through => Through'
    BY <1>2, <1>3 DEF Through
  <2> QED BY <1>1, <2>1, <2>2, <2>3 DEF UpInv
<1>6. DownInv => DownInv'
  <2> DEFINE T == DownSteps(Negotiated, srvSuite)
             q == Offered
  <2>1. << q, r, q >> \in T
    BY <1>1, OfferedIs, DownStep
  <2> HIDE DEF T, q
  <2>2. Leads(T, q, q, << r >>) /\ << r >> \in Seq(Records)
    BY <2>1, LeadsOne
  <2>3. Leads(DownSteps(Negotiated, srvSuite), Offered, Offered', << r >>)
    BY <1>3, <2>2 DEF T, q
  <2> QED BY <1>1, <2>2, <2>3, DownServes
<1>7. api # "failed" => KnownInv /\ CallInv /\ DownInv
  BY DEF Lock, LockInv
<1> QED BY <1>2, <1>4, <1>5, <1>6, <1>7 DEF LockInv

\* Whatever the server sends beside the handshake, they stay in step.
LEMMA ServerSendsNext ==
    ASSUME Lock, ServerInv, UNCHANGED clientVars, ServerSends
    PROVE  LockInv'
<1>1. UpInv /\ sent \in Nat /\ srvOut \in Nat
  BY DEF Lock, LockInv, ServerInv
<1>2. UNCHANGED << clientVars, srv, srvHash, srvSuite, srvIn, srvOut, toServer >>
  BY DEF ServerSends
<1>3. << >> \in Infos /\ sent + 1 \in Infos
  BY <1>1 DEF Infos
<1>4. CASE srv = "up" /\ Sends(<< Record("data", srvOut, << Msg("data", sent + 1) >>) >>)
  <2> DEFINE r == Record("data", srvOut, << Msg("data", sent + 1) >>)
  <2>1. "data" \in ContentTypes /\ "data" \in MessageNames
    BY DEF ContentTypes, MessageNames
  <2>2. r \in Records
    BY <1>1, <1>3, <2>1, SingleRecord
  <2>3. Len(r.msgs) = 1 /\ r.key = srvOut /\ r.ct = "data"
    BY DEF Record
  <2> HIDE DEF r
  <2>4. DownBeside(Negotiated, Offered, r)
    BY <1>1, <1>4, <2>3, OfferedIs DEF DownBeside
  <2>5. toClient' = toClient \o << r >>
    BY <1>4 DEF Sends, r
  <2> QED BY <1>2, <2>2, <2>4, <2>5, BesideNext
<1>5. CASE Sends(Alert("warning"))
  <2> DEFINE r == Record("alert", srvOut, << Msg("warning", << >>) >>)
  <2>1. "alert" \in ContentTypes /\ "warning" \in MessageNames
    BY DEF ContentTypes, MessageNames
  <2>2. r \in Records
    BY <1>1, <1>3, <2>1, SingleRecord
  <2>3. Len(r.msgs) = 1 /\ r.key = srvOut /\ r.ct = "alert" /\ Name(r) = "warning"
    BY DEF Record, Name, Msg
  <2> HIDE DEF r
  <2>4. DownBeside(Negotiated, Offered, r)
    BY <1>1, <2>3, OfferedIs DEF DownBeside
  <2>5. toClient' = toClient \o << r >>
    BY <1>5 DEF Sends, Alert, r
  <2> QED BY <1>2, <2>2, <2>4, <2>5, BesideNext
<1>6. CASE srv = "up" /\ Sends(<< Record("handshake", srvOut, << Msg("HelloRequest", << >>) >>) >>)
  <2> DEFINE r == Record("handshake", srvOut, << Msg("HelloRequest", << >>) >>)
  <2>1. "handshake" \in ContentTypes /\ "HelloRequest" \in MessageNames
    BY DEF ContentTypes, MessageNames
  <2>2. r \in Records
    BY <1>1, <1>3, <2>1, SingleRecord
  <2>3. Len(r.msgs) = 1 /\ r.key = srvOut /\ r.ct = "handshake" /\ Name(r) = "HelloRequest"
    BY DEF Record, Name, Msg
  <2> HIDE DEF r
  <2>4. DownBeside(Negotiated, Offered, r)
    BY <1>1, <1>6, <2>3, OfferedIs DEF DownBeside
  <2>5. toClient' = toClient \o << r >>
    BY <1>6 DEF Sends, r
  <2> QED BY <1>2, <2>2, <2>4, <2>5, BesideNext
<1> QED BY <1>4, <1>5, <1>6 DEF ServerSends

\* The server hears something and sends nothing.
LEMMA HearsNext ==
    ASSUME Lock, UNCHANGED << clientVars, srvSuite, toClient >>, Offered' = Offered,
           UpInv', toServer' \in Seq(Records), srv' \in UpPlaces \cup {"ClientHello", "over"}
    PROVE  LockInv'
<1>1. Types /\ Causes /\ UpInv /\ InputInv
  BY DEF Lock, LockInv
<1>2. /\ (KnownInv => KnownInv') /\ (CallInv => CallInv') /\ Causes'
      /\ Negotiated' = Negotiated /\ UNCHANGED << api, state, renego, out >>
  BY <1>1, ServesSame
<1>3. Types'
  BY <1>1, <1>2 DEF Types
<1>4. DownInv => DownInv'
  <2> DEFINE e == << >>
             T == DownSteps(Negotiated, srvSuite)
             v == toClient
             x == Offered'
             q == Offered
  <2>1. e \in Seq(Records) /\ v \in Seq(Records)
    BY <1>1 DEF InputInv
  <2> HIDE DEF v, T, x, q
  <2>2. v \o e = v
    BY <2>1, ConcatEmptySeq
  <2>3. Leads(T, q, x, e)
    BY LeadsNone DEF q, x
  <2> HIDE DEF e
  <2>4. toClient' = toClient \o e /\ Leads(DownSteps(Negotiated, srvSuite), Offered, Offered', e)
    BY <2>2, <2>3 DEF v, T, x, q
  <2> QED BY <1>1, <2>1, <2>4, DownServes
<1>5. api # "failed" => KnownInv /\ CallInv /\ DownInv
  BY DEF Lock, LockInv
<1> QED BY <1>2, <1>3, <1>4, <1>5 DEF LockInv

\* The hello is read and not accepted.
LEMMA RefusesNext ==
    ASSUME Lock, UNCHANGED << clientVars, srvSuite, srvIn, srvOut >>,
           HelloComing, state = "SERVER_HELLO",
           Sent' = << >>, toServer' \in Seq(Records),
           srv' = "over" \/ (srv' = "up" /\ srv = "up"),
           \/ UNCHANGED toClient
           \/ \E r \in Records : /\ toClient' = toClient \o << r >>
                                 /\ DownBeside(Negotiated, "ServerHello", r)
    PROVE  LockInv'
<1>1. Types /\ Causes /\ UpInv /\ InputInv
  BY DEF Lock, LockInv
<1>2. /\ (KnownInv => KnownInv') /\ (CallInv => CallInv') /\ Causes'
      /\ Negotiated' = Negotiated /\ UNCHANGED << api, state, renego, out >>
  BY <1>1, ServesSame
<1>3. Types'
  BY <1>1, <1>2 DEF Types, UpPlaces
<1>4. srvOut = Negotiated - 1 /\ (srv = "up" => Negotiated = 2)
  BY DEF HelloComing, Start, Negotiated
<1>5. UpInv'
  <2>1. Unanswered'
    BY <1>2, <1>4 DEF Unanswered
  <2>2. srvIn' = srvOut'
    BY <1>1 DEF UpInv, HelloComing, Start
  <2> QED BY <2>1, <2>2 DEF UpInv
<1>6. Offered = "ServerHello" /\ Offered' = "ServerHello"
  <2>1. srvOut' # Negotiated'
    BY <1>2, <1>4, AwaitedType
  <2>2. Offered' = IF srvOut' = Negotiated' THEN "end"
                   ELSE IF srv' \in Hearing THEN AfterFlight(srvSuite') ELSE "ServerHello"
    BY DEF Offered, AfterFlight
  <2>3. srv' \notin Hearing
    BY DEF Hearing
  <2> QED BY <1>1, <2>1, <2>2, <2>3, OfferedIs
<1>7. CASE UNCHANGED toClient
  BY <1>3, <1>5, <1>6, <1>7, HearsNext DEF UpPlaces, Types
<1>8. CASE ~UNCHANGED toClient
  <2>1. PICK r \in Records : /\ toClient' = toClient \o << r >>
                             /\ DownBeside(Negotiated, "ServerHello", r)
    BY <1>8
  <2> DEFINE T == DownSteps(Negotiated, srvSuite)
             q == Offered
  <2>2. << q, r, q >> \in T
    BY <1>6, <2>1, DownStep DEF DownPlaces
  <2> HIDE DEF T, q
  <2>3. Leads(T, q, q, << r >>) /\ << r >> \in Seq(Records)
    BY <2>2, LeadsOne
  <2>4. Leads(DownSteps(Negotiated, srvSuite), Offered, Offered', << r >>)
    BY <1>6, <2>3 DEF T, q
  <2>5. DownInv => DownInv'
    BY <1>1, <2>1, <2>3, <2>4, DownServes
  <2>6. api # "failed" => KnownInv /\ CallInv /\ DownInv
    BY DEF Lock, LockInv
  <2> QED BY <1>2, <1>3, <1>5, <2>5, <2>6 DEF LockInv
<1> QED BY <1>7, <1>8

\* The hello is accepted: its suite and its flight begin the row anew.
LEMMA AcceptNext ==
    ASSUME Lock, UNCHANGED << clientVars, srvIn, srvOut >>, HelloComing, state = "SERVER_HELLO",
           Sent' = << >>, toServer' \in Seq(Records), Accept
    PROVE  LockInv'
<1>1. /\ Types /\ Causes /\ UpInv /\ InputInv /\ srvSuite \in Suites
      /\ api # "failed" => KnownInv /\ CallInv /\ DownInv
  BY DEF Lock, LockInv
<1>2. PICK s \in Suites :
        /\ srvSuite' = s /\ srv' = First(s)
        /\ srvHash' = << "ClientHello" >> \o Names(Flight(s))
        /\ \E rs \in Packings(srvOut, Flight(s)) : Sends(rs)
  BY Zenon DEF Accept, Suites, First
<1>3. PICK rs \in Packings(srvOut, Flight(s)) : toClient' = toClient \o rs
  BY <1>2 DEF Sends
<1>4. /\ UNCHANGED << api, cause, state, renego, suite, auth, cur, keep, offt, hash, keyIn,
                      keyOut, out >>
  BY DEF clientVars, call, handshake, input, output
<1>5. Negotiated' = Negotiated /\ Negotiated \in {1, 2} /\ Negotiated - 1 # Negotiated
  <2>1. Negotiated' = Negotiated
    BY <1>4 DEF Negotiated
  <2> QED BY <2>1, AwaitedType
<1>6. srvOut = Negotiated - 1 /\ srvIn = srvOut
  BY <1>1 DEF HelloComing, UpInv, Start
<1>7. srv' \in {"Certificate", "ClientKeyExchange"} /\ (srv' = "Certificate" => s.auth)
  BY <1>2 DEF First
<1>8. Awaited = "ServerHello" /\ Awaited' = "ServerHello"
  <2>1. Awaited' = "ServerHello"
    BY <1>4 DEF Awaited, HelloStates, ReplyStates
  <2> QED BY <1>1, <2>1, AwaitedEnd
<1>9. Offered = "ServerHello" /\ Offered' = AfterFlight(s)
  <2>1. Offered' = IF srvOut' = Negotiated' THEN "end"
                   ELSE IF srv' \in Hearing THEN AfterFlight(srvSuite') ELSE "ServerHello"
    BY DEF Offered, AfterFlight
  <2>2. srv' \in Hearing
    BY <1>7 DEF Hearing
  <2> QED BY <1>1, <1>2, <1>5, <1>6, <2>1, <2>2, OfferedIs
<1>10. Types' /\ Causes'
  BY <1>1, <1>4, <1>7 DEF Types, UpPlaces, Hearing, Causes
<1>11. UpInv'
  <2>1. srvHash' = Hello5(s)
    BY <1>2, HelloHash
  <2>2. UpHash(s, First(s)) = Hello5(s)
    <3>1. s.auth \in BOOLEAN
      BY DEF Suites
    <3> QED BY <3>1 DEF UpHash, First, Reply1
  <2>3. Promised' = First(s)
    BY <1>2, <1>4 DEF Promised, ClosingStates, EndStates
  <2>4. Leads(UpSteps(Negotiated', srvSuite'), srv', Promised', Sent')
    BY <1>2, <2>3, LeadsNone
  <2>5. state' \notin HelloStates
    BY <1>4 DEF HelloStates
  <2>6. srv' \in Hearing /\ (srv' \in {"Certificate", "CertificateVerify"} => srvSuite'.auth)
    BY <1>2, <1>7 DEF Hearing
  <2>7. srvHash' = UpHash(srvSuite', srv')
    BY <1>2, <2>1, <2>2
  <2>8. Listening'
    BY <1>5, <1>6, <2>4, <2>5, <2>6, <2>7 DEF Listening
  <2>9. srv' # "Finished" /\ srvIn' = srvOut'
    BY <1>6, <1>7
  <2> QED BY <2>8, <2>9 DEF UpInv
<1>12. KnownInv => KnownInv'
  <2>1. /\ state' \notin FlightStates \cup ReplyStates
        /\ state' \notin {"SERVER_HELLO_DONE"} \cup ReplyStates
        /\ state' # "SERVER_CHANGE_CIPHER_SPEC"
    BY <1>4 DEF FlightStates, ReplyStates
  <2>2. Covered' = Covered
    BY <1>4 DEF Covered, HelloStates
  <2>3. (DownKey(Negotiated, Awaited))' = DownKey(Negotiated', Awaited')
    BY DEF DownKey
  <2> QED BY <1>4, <1>5, <1>8, <2>1, <2>2, <2>3 DEF KnownInv
<1>13. CallInv => CallInv'
  BY <1>4 DEF CallInv
<1>14. DownInv => DownInv'
  <2> SUFFICES ASSUME DownInv PROVE DownInv'
    OBVIOUS
  <2> DEFINE k == Negotiated
             h == "ServerHello"
             v == toClient
             T == DownSteps(k, s)
             q == AfterFlight(s)
  <2>1. /\ Leads(DownSteps(k, srvSuite), h, h, v)
        /\ (~keep /\ ~offt /\ Len(cur.msgs) <= 1) \/ PutAside
    BY <1>8, <1>9 DEF DownInv, KeptDone, Comes, FlightPlaces
  <2>2. v \in Seq(Records) /\ k \in {1, 2} /\ rs \in Packings(k - 1, Flight(s))
    BY <1>1, <1>3, <1>5, <1>6 DEF InputInv
  <2> HIDE DEF k, v
  <2>3. Leads(T, h, h, v)
    <3>1. \A i \in 1..Len(v) : DownBeside(k, h, v[i])
      BY <2>1, <2>2, DownBegin
    <3> QED BY <2>2, <3>1, DownAround DEF DownPlaces
  <2>4. rs \in Seq(Records) /\ Leads(T, h, q, rs)
    BY <2>2, FlightLeads
  <2> HIDE DEF T, h, q
  <2>5. Leads(T, h, q, v \o rs)
    BY <2>2, <2>3, <2>4, LeadsConcat
  <2>6. Leads(DownSteps(Negotiated', srvSuite'), Awaited', Offered', toClient')
    BY <1>2, <1>3, <1>5, <1>8, <1>9, <2>5 DEF T, h, q, v, k
  <2>7. CASE PutAside
    <3>1. PutAside'
      BY <1>4, <1>5, <2>7 DEF PutAside, Over, Name
    <3> QED BY <2>6, <3>1 DEF DownInv
  <2>8. CASE ~keep /\ ~offt /\ Len(cur.msgs) <= 1
    <3>1. Len(cur'.msgs) <= 1
      BY <1>4, <2>8
    <3>2. Comes(Negotiated', srvSuite', Awaited', Offered', cur', toClient')
      BY <2>6, <3>1 DEF Comes
    <3> QED BY <1>4, <2>8, <3>2 DEF DownInv, Comes
  <2> QED BY <2>1, <2>7, <2>8
<1> QED BY <1>1, <1>4, <1>10, <1>11, <1>12, <1>13, <1>14 DEF LockInv

\* The server reads the next message of the row.
LEMMA HearsRow ==
    ASSUME Types, UpInv, Listening, toServer # << >>, toServer' = Tail(toServer),
           UNCHANGED out, srvSuite \in Suites
    PROVE  /\ Head(toServer) = UpRecord(Negotiated, srvSuite, srv)
           /\ Head(toServer).key = srvIn /\ Name(Head(toServer)) = srv
           /\ Head(toServer).ct \notin {"alert", "data"}
           /\ UpThen(srvSuite, srv) \in UpPlaces
           /\ Leads(UpSteps(Negotiated, srvSuite), UpThen(srvSuite, srv), Promised, Sent')
           /\ Sent' \in Seq(Records) /\ toServer' \in Seq(Records)
<1> DEFINE r == Head(toServer)
           T == UpSteps(Negotiated, srvSuite)
<1>1. /\ Sent # << >> /\ Head(Sent) = r /\ Sent' = Tail(Sent)
      /\ Sent' \in Seq(Records) /\ toServer' \in Seq(Records) /\ Sent \in Seq(Records)
  BY SentRead, SentType
<1>2. PICK x : << srv, r, x >> \in T /\ Leads(T, x, Promised, Tail(Sent))
  <2> DEFINE v == Sent
             p == srv
             q == Promised
  <2>1. Leads(T, p, q, v) /\ v \in Seq(Records) /\ v # << >>
    BY <1>1 DEF Listening
  <2> HIDE DEF T, v, p, q
  <2>2. \E x : << p, Head(v), x >> \in T /\ Leads(T, x, q, Tail(v))
    BY <2>1, LeadsFirst
  <2>3. Head(v) = r
    BY <1>1 DEF v
  <2> QED BY <2>2, <2>3 DEF v, p, q
<1>3. /\ srv \in Hearing /\ r = UpRecord(Negotiated, srvSuite, srv)
      /\ x = UpThen(srvSuite, srv) /\ x \in UpPlaces
  BY <1>2, UpStep
<1>4. /\ r.key = IF srv = "Finished" THEN Negotiated ELSE Negotiated - 1
      /\ Name(r) = srv /\ r.ct \notin {"alert", "data"}
  BY <1>3 DEF UpRecord, Record, Name, Msg
<1>5. srvOut = Negotiated - 1 /\ srvIn = IF srv = "Finished" THEN srvOut + 1 ELSE srvOut
  BY DEF Listening, UpInv
<1>6. r.key = srvIn
  <2>1. Negotiated \in {1, 2}
    BY AwaitedType
  <2> QED BY <1>4, <1>5, <2>1
<1> QED BY <1>1, <1>2, <1>3, <1>4, <1>6

\* It goes on to listen.
LEMMA HearsMore ==
    ASSUME Lock, UNCHANGED << clientVars, srvSuite, srvOut, toClient >>, Listening,
           toServer # << >>, toServer' = Tail(toServer),
           srv' = UpThen(srvSuite, srv), srv' \in Hearing,
           srv' \in {"Certificate", "CertificateVerify"} => srvSuite.auth,
           srvHash' = UpHash(srvSuite, srv'),
           srvIn' = IF srv' = "Finished" THEN srvOut + 1 ELSE srvOut
    PROVE  LockInv'
<1>1. Types /\ UpInv /\ srvSuite \in Suites /\ UNCHANGED << state, renego, out >>
  BY ServesSame DEF Lock, LockInv
<1>2. Negotiated' = Negotiated /\ Promised' = Promised
  BY ServesSame
<1>3. /\ Leads(UpSteps(Negotiated, srvSuite), UpThen(srvSuite, srv), Promised, Sent')
      /\ toServer' \in Seq(Records)
  BY <1>1, HearsRow
<1>4. Listening'
  <2>1. Leads(UpSteps(Negotiated', srvSuite'), srv', Promised', Sent')
    BY <1>2, <1>3
  <2> QED BY <1>1, <1>2, <2>1 DEF Listening
<1>5. UpInv'
  BY <1>4 DEF UpInv
<1>6. Offered' = Offered
  BY <1>2 DEF Offered, Listening
<1> QED BY <1>3, <1>5, <1>6, HearsNext DEF UpPlaces

\* It has heard the client's Finished, and sends its own.
LEMMA ServerFinishedNext ==
    ASSUME Lock, ServerInv, UNCHANGED << clientVars, srvHash, srvSuite, srvIn >>, Listening,
           toServer # << >>, toServer' = Tail(toServer), srv = "Finished", OnFinished
    PROVE  LockInv'
<1>1. /\ Types /\ Causes /\ UpInv /\ InputInv /\ srvSuite \in Suites
      /\ api # "failed" => KnownInv /\ CallInv /\ DownInv
  BY DEF Lock, LockInv
<1>2. /\ (KnownInv => KnownInv') /\ (CallInv => CallInv') /\ Causes'
      /\ Negotiated' = Negotiated /\ UNCHANGED << api, state, renego, out >>
  BY <1>1, ServesSame
<1>3. /\ Leads(UpSteps(Negotiated, srvSuite), "up", Promised, Sent')
      /\ Sent' \in Seq(Records) /\ toServer' \in Seq(Records)
  <2>1. UpThen(srvSuite, srv) = "up"
    BY DEF UpThen
  <2> QED BY <1>1, <1>2, <2>1, HearsRow
<1>4. Promised = "up" /\ Sent' = << >>
  <2> DEFINE T == UpSteps(Negotiated, srvSuite)
             p == Promised
             w == Sent'
  <2>1. Leads(T, "up", p, w) /\ w \in Seq(Records)
    BY <1>3
  <2> HIDE DEF p, w
  <2>2. p = "up" /\ w = << >>
    BY <2>1, UpEnd
  <2> QED BY <2>2 DEF p, w
<1>5. state \in ClosingStates
  BY <1>4 DEF Promised, First, Verify
<1>6. /\ srvOut = Negotiated - 1 /\ srvIn = Negotiated /\ srvOut' = Negotiated /\ srv' = "up"
      /\ srvHash = Reply3(srvSuite) /\ Negotiated \in {1, 2}
  BY <1>1, AwaitedType DEF UpInv, Listening, OnFinished, UpHash
<1>7. UpInv'
  <2>1. Through'
    <3>1. Len(<< >>) = 0
      OBVIOUS
    <3>2. 1..Len(Sent') = {}
      BY <1>4, <3>1
    <3> QED BY <1>2, <1>4, <1>5, <1>6, <3>2 DEF Through
  <2> QED BY <1>2, <1>6, <2>1 DEF UpInv
<1>8. Types'
  BY <1>1, <1>2, <1>3, <1>6 DEF Types, UpPlaces
<1>9. Offered = AfterFlight(srvSuite) /\ Offered' = "end"
  BY <1>1, <1>2, <1>6, OfferedIs DEF Offered
<1>10. PICK w \in Seq(Records) :
          /\ toClient' = toClient \o w
          /\ Leads(DownSteps(Negotiated, srvSuite), AfterFlight(srvSuite), "end", w)
  <2> DEFINE s == srvSuite
             k == Negotiated
             ticket == IF s.ticket THEN << Msg("NewSessionTicket", << >>) >> ELSE << >>
             h == srvHash \o << "Finished" >> \o Names(ticket)
             a == [i \in DOMAIN ticket |-> Record("handshake", srvOut, << ticket[i] >>)]
             b(g) == << Record("ccs", k - 1, << Msg("ccs", << >>) >>),
                        Record("handshake", k, << Msg("Finished", g) >>) >>
             one == << Record("handshake", k - 1, << Msg("NewSessionTicket", << >>) >>) >>
  <2>1. toClient' = toClient \o (a \o b(h))
    BY <1>6 DEF OnFinished, Sends
  <2>2. a = IF s.ticket THEN one ELSE << >>
    <3>1. CASE s.ticket
      <4>1. DOMAIN ticket = 1..1 /\ ticket[1] = Msg("NewSessionTicket", << >>)
        BY <3>1
      <4>2. a = [i \in 1..1 |-> Record("handshake", k - 1, << Msg("NewSessionTicket", << >>) >>)]
        BY <1>6, <4>1
      <4> QED BY <3>1, <4>2
    <3>2. CASE ~s.ticket
      BY <3>2
    <3> QED BY <3>1, <3>2
  <2>3. h = Final(s)
    <3>1. Reply3(s) \in Seq(MessageNames) /\ "Finished" \in MessageNames
      BY <1>1, HashType DEF MessageNames
    <3>2. srvHash \o << "Finished" >> = Reply4(s) /\ Reply4(s) \in Seq(MessageNames)
      <4> DEFINE g == Reply3(s)
      <4>1. g \in Seq(MessageNames) /\ srvHash = g /\ Reply4(s) = Append(g, "Finished")
        BY <1>6, <3>1 DEF Reply4
      <4> HIDE DEF g
      <4>2. g \o << "Finished" >> = Append(g, "Finished")
        BY <3>1, <4>1, AppendIsConcat
      <4> QED BY <1>1, <4>1, <4>2, HashType
    <3> DEFINE g == Reply4(s)
    <3>3. CASE s.ticket
      <4>1. Names(ticket) = << "NewSessionTicket" >>
        BY <3>3 DEF Names, Msg
      <4>2. Final(s) = Append(g, "NewSessionTicket") /\ g \in Seq(MessageNames)
        BY <3>2, <3>3 DEF Final
      <4> HIDE DEF g
      <4>3. "NewSessionTicket" \in MessageNames
        BY DEF MessageNames
      <4>4. g \o << "NewSessionTicket" >> = Append(g, "NewSessionTicket")
        BY <4>2, <4>3, AppendIsConcat
      <4>5. h = g \o << "NewSessionTicket" >>
        BY <3>2, <4>1 DEF g
      <4> QED BY <4>2, <4>4, <4>5
    <3>4. CASE ~s.ticket
      <4>1. Names(ticket) = << >>
        BY <3>4 DEF Names
      <4>2. Final(s) = g /\ g \in Seq(MessageNames)
        BY <3>2, <3>4 DEF Final
      <4> HIDE DEF g
      <4>3. g \o << >> = g
        BY <4>2, ConcatEmptySeq
      <4>4. h = g \o << >>
        BY <3>2, <4>1 DEF g
      <4> QED BY <4>2, <4>3, <4>4
    <3> QED BY <3>3, <3>4
  <2>4. s \in Suites /\ k \in {1, 2}
    BY <1>1, <1>6
  <2> HIDE DEF s, k, h
  <2>5. a \in Seq(Records)
    <3>1. "handshake" \in ContentTypes /\ "NewSessionTicket" \in MessageNames /\ << >> \in Infos
          /\ k - 1 \in Nat
      BY <2>4 DEF ContentTypes, MessageNames, Infos
    <3>2. one \in Seq(Records)
      BY <3>1, SingleRecord, DataOne
    <3>3. << >> \in Seq(Records)
      OBVIOUS
    <3> QED BY <2>2, <3>2, <3>3
  <2>6. a \o b(h) \in Seq(Records) /\ Leads(DownSteps(k, s), AfterFlight(s), "end", a \o b(h))
    <3> HIDE DEF a
    <3> QED BY <2>2, <2>3, <2>4, <2>5, FinishLeads
  <2> HIDE DEF a, b
  <2> QED BY <2>1, <2>6 DEF s, k
<1>11. DownInv => DownInv'
  <2>1. Leads(DownSteps(Negotiated, srvSuite), Offered, Offered', w)
    BY <1>9, <1>10
  <2> QED BY <1>1, <1>10, <2>1, DownServes
<1> QED BY <1>1, <1>2, <1>7, <1>8, <1>11 DEF LockInv

\* Past the handshakes it reads alerts and packets.
LEMMA ThroughNext ==
    ASSUME Lock, UNCHANGED << clientVars, srv, srvHash, srvSuite, srvIn, srvOut, toClient >>,
           Through, toServer # << >>, toServer' = Tail(toServer)
    PROVE  LockInv'
<1>1. Types /\ UpInv /\ UNCHANGED << state, renego, out >> /\ Negotiated' = Negotiated
  BY ServesSame DEF Lock, LockInv
<1>2. /\ Sent # << >> /\ Sent' = Tail(Sent) /\ Sent \in Seq(Records)
      /\ toServer' \in Seq(Records)
  BY <1>1, SentRead, SentType
<1>3. \A i \in 1..Len(Sent') : Beyond(Sent'[i])
  <2> DEFINE w == Sent
             u == Sent'
  <2>1. /\ w # << >> /\ u = Tail(w) /\ w \in Seq(Records)
        /\ \A i \in 1..Len(w) : Beyond(w[i])
    BY <1>2 DEF Through
  <2> HIDE DEF w, u
  <2>2. /\ Len(w) = Len(u) + 1 /\ Len(u) \in Nat
        /\ \A i \in 1..Len(u) : u[i] = w[i + 1]
    BY <2>1
  <2>3. \A i \in 1..Len(u) : Beyond(u[i])
    BY <2>1, <2>2
  <2> QED BY <2>3 DEF u
<1>4. Through'
  BY <1>1, <1>2, <1>3 DEF Through
<1>5. UpInv'
  BY <1>1, <1>4 DEF UpInv
<1>6. Offered' = Offered
  BY <1>1 DEF Offered
<1> QED BY <1>1, <1>2, <1>5, <1>6, HearsNext DEF Types, Through, UpPlaces

\* The server reads the hello.
LEMMA HelloReadNext ==
    ASSUME Lock, ServerInv, UNCHANGED << clientVars, srvIn, srvOut >>, HelloComing,
           toServer # << >>, toServer' = Tail(toServer), OnClientHello
    PROVE  LockInv'
<1>1. Types /\ UpInv /\ UNCHANGED out /\ srvOut \in Nat
  BY DEF Lock, LockInv, clientVars, output, ServerInv
<1>2. /\ Sent # << >> /\ Sent' = Tail(Sent) /\ toServer' \in Seq(Records)
  BY <1>1, SentRead
<1>3. /\ state = "SERVER_HELLO" /\ srv \in {"ClientHello", "up"}
      /\ Sent' = << >>
  <2>1. state = "SERVER_HELLO" /\ srv \in {"ClientHello", "up"}
    BY <1>2 DEF HelloComing, Start
  <2>2. PICK z : Sent = << z >>
    BY <1>2 DEF HelloComing
  <2>3. Tail(<< z >>) = << >>
    OBVIOUS
  <2> QED BY <1>2, <2>1, <2>2, <2>3
<1>4. /\ Offered = "ServerHello" /\ srvOut = DownKey(Negotiated, "ServerHello")
      /\ srv = "up" => Negotiated = 2
  BY <1>1, OfferedIs DEF HelloComing, Start, Negotiated
<1>5. ASSUME NEW m \in MessageNames, Sends(Alert(m)),
             m = "fatal" \/ (m = "no_renegotiation" /\ Negotiated = 2)
      PROVE  \E r \in Records : /\ toClient' = toClient \o << r >>
                                /\ DownBeside(Negotiated, "ServerHello", r)
  <2> DEFINE r == Record("alert", srvOut, << Msg(m, << >>) >>)
  <2>1. "alert" \in ContentTypes /\ << >> \in Infos
    BY DEF ContentTypes, Infos
  <2>2. r \in Records
    BY <1>1, <2>1, SingleRecord
  <2>3. Len(r.msgs) = 1 /\ r.key = srvOut /\ r.ct = "alert" /\ Name(r) = m
    BY DEF Record, Name, Msg
  <2>4. toClient' = toClient \o << r >>
    BY <1>5 DEF Sends, Alert
  <2> HIDE DEF r
  <2>5. DownBeside(Negotiated, "ServerHello", r)
    BY <1>4, <1>5, <2>3 DEF DownBeside
  <2> QED BY <2>2, <2>4, <2>5
<1>6. CASE Accept
  BY <1>2, <1>3, <1>6, AcceptNext
<1>7. CASE srv' = "over" /\ Sends(Alert("fatal")) /\ UNCHANGED srvSuite
  <2>1. "fatal" \in MessageNames
    BY DEF MessageNames
  <2>2. \E r \in Records : /\ toClient' = toClient \o << r >>
                           /\ DownBeside(Negotiated, "ServerHello", r)
    BY <1>5, <1>7, <2>1
  <2> QED BY <1>2, <1>3, <1>7, <2>2, RefusesNext
<1>8. CASE srv = "up" /\ srv' = "up" /\ Sends(Alert("no_renegotiation")) /\ UNCHANGED srvSuite
  <2>1. "no_renegotiation" \in MessageNames
    BY DEF MessageNames
  <2>2. \E r \in Records : /\ toClient' = toClient \o << r >>
                           /\ DownBeside(Negotiated, "ServerHello", r)
    BY <1>4, <1>5, <1>8, <2>1
  <2> QED BY <1>2, <1>3, <1>8, <2>2, RefusesNext
<1>9. CASE srv = "up" /\ srv' = "up" /\ UNCHANGED toClient /\ UNCHANGED srvSuite
  BY <1>2, <1>3, <1>9, RefusesNext
<1> QED BY <1>6, <1>7, <1>8, <1>9 DEF OnClientHello

\* Whatever the server reads, it is what it waits for.
LEMMA ServerReadsNext ==
    ASSUME Lock, ServerInv, UNCHANGED clientVars, ServerReads
    PROVE  LockInv'
<1>1. /\ Types /\ UpInv /\ srvSuite \in Suites /\ UNCHANGED << out >>
      /\ toServer # << >> /\ toServer' = Tail(toServer)
  BY DEF Lock, LockInv, ServerReads, clientVars, output
<1> DEFINE r == Head(toServer)
<1>2. /\ Sent # << >> /\ Head(Sent) = r /\ Sent \in Seq(Records)
  BY <1>1, SentRead, SentType
<1>3. (CASE r.key = srvIn /\ r.ct = "alert" ->
             UNCHANGED << srv, srvHash, srvSuite, srvIn, srvOut, toClient >>
        [] r.key = srvIn /\ r.ct = "data" /\ srv = "up" ->
             UNCHANGED << srv, srvHash, srvSuite, srvIn, srvOut, toClient >>
        [] r.key = srvIn /\ Name(r) = "ClientHello" /\ srv \in {"up", "ClientHello"} ->
             OnClientHello /\ UNCHANGED << srvIn, srvOut >>
        [] (r.key = srvIn /\ Name(r) = srv) /\ srv = "ccs" ->
             /\ srv' = "Finished" /\ srvIn' = srvIn + 1
             /\ UNCHANGED << srvHash, srvSuite, srvOut, toClient >>
        [] (r.key = srvIn /\ Name(r) = srv) /\ srv = "Finished" /\ Info(r) = srvHash ->
             OnFinished /\ UNCHANGED << srvHash, srvSuite, srvIn >>
        [] (r.key = srvIn /\ Name(r) = srv)
             /\ srv \in {"Certificate", "ClientKeyExchange", "CertificateVerify"} ->
             /\ srv' = IF srv = "ClientKeyExchange"
                       THEN (IF srvSuite.auth THEN "CertificateVerify" ELSE "ccs")
                       ELSE Following[srv]
             /\ srvHash' = Append(srvHash, Name(r))
             /\ UNCHANGED << srvSuite, srvIn, srvOut, toClient >>
        [] OTHER -> srv' = "confused")
  BY DEF ServerReads
<1>4. CASE HelloComing
  <2>1. /\ Sent = << Record("handshake", Negotiated - 1, << Msg("ClientHello", << >>) >>) >>
        /\ srv \in {"ClientHello", "up"} /\ srvOut = Negotiated - 1
    BY <1>2, <1>4 DEF HelloComing, Start
  <2>2. r.ct = "handshake" /\ r.key = Negotiated - 1 /\ Name(r) = "ClientHello"
    BY <1>2, <2>1 DEF Record, Name, Msg
  <2>3. r.key = srvIn
    BY <1>1, <2>1, <2>2 DEF UpInv
  <2> HIDE DEF r
  <2>4. OnClientHello /\ UNCHANGED << srvIn, srvOut >>
    BY <1>3, <2>1, <2>2, <2>3
  <2> QED BY <1>1, <1>4, <2>4, HelloReadNext
<1>5. CASE Listening
  <2>1. /\ r = UpRecord(Negotiated, srvSuite, srv)
        /\ r.key = srvIn /\ Name(r) = srv /\ r.ct \notin {"alert", "data"}
    BY <1>1, <1>5, HearsRow
  <2>2. /\ srv \in Hearing /\ srvOut = Negotiated - 1 /\ srvHash = UpHash(srvSuite, srv)
        /\ srv \in {"Certificate", "CertificateVerify"} => srvSuite.auth
        /\ srvIn = IF srv = "Finished" THEN srvOut + 1 ELSE srvOut
    BY <1>1, <1>5 DEF Listening, UpInv
  <2>3. CASE srv = "ccs"
    <3> HIDE DEF r
    <3>1. /\ srv' = "Finished" /\ srvIn' = srvIn + 1
          /\ UNCHANGED << srvHash, srvSuite, srvOut, toClient >>
      BY <1>3, <2>1, <2>3
    <3>2. srv' = UpThen(srvSuite, srv) /\ srvHash' = UpHash(srvSuite, srv') /\ srv' \in Hearing
      BY <2>2, <2>3, <3>1 DEF UpThen, UpHash, Hearing
    <3>3. srvIn' = srvOut + 1
      BY <2>2, <2>3, <3>1
    <3> QED BY <1>1, <1>5, <3>1, <3>2, <3>3, HearsMore
  <2>4. CASE srv = "Finished"
    <3>1. Info(r) = srvHash
      BY <2>1, <2>2, <2>4 DEF UpRecord, Record, Info, Msg, UpHash
    <3> HIDE DEF r
    <3>2. OnFinished /\ UNCHANGED << srvHash, srvSuite, srvIn >>
      BY <1>3, <2>1, <2>4, <3>1
    <3> QED BY <1>1, <1>5, <2>4, <3>2, ServerFinishedNext
  <2>5. CASE srv \in {"Certificate", "ClientKeyExchange", "CertificateVerify"}
    <3> HIDE DEF r
    <3>1. /\ srv' = IF srv = "ClientKeyExchange"
                    THEN (IF srvSuite.auth THEN "CertificateVerify" ELSE "ccs")
                    ELSE Following[srv]
          /\ srvHash' = Append(srvHash, srv)
          /\ UNCHANGED << srvSuite, srvIn, srvOut, toClient >>
      BY <1>3, <2>1, <2>5
    <3>2. /\ Append(UpHash(srvSuite, srv), srv) = UpHash(srvSuite, UpThen(srvSuite, srv))
          /\ UpThen(srvSuite, srv) \in {"Certificate", "CertificateVerify"} => srvSuite.auth
          /\ UpThen(srvSuite, srv) =
               IF srv = "Certificate" THEN "ClientKeyExchange"
               ELSE IF srv = "ClientKeyExchange"
                    THEN IF srvSuite.auth THEN "CertificateVerify" ELSE "ccs"
                    ELSE "ccs"
          /\ UpThen(srvSuite, srv) \in Hearing
      BY <1>1, <2>2, <2>5, UpHashStep
    <3>3. Following["Certificate"] = "ClientKeyExchange" /\ Following["CertificateVerify"] = "ccs"
      BY DEF Following
    <3>4. srv' = UpThen(srvSuite, srv)
      BY <2>5, <3>1, <3>2, <3>3
    <3>5. srvHash' = UpHash(srvSuite, srv')
      BY <2>2, <3>1, <3>2, <3>4
    <3>6. srv' # "Finished" /\ srvIn' = srvOut
      BY <2>2, <2>5, <3>1, <3>2, <3>4
    <3> QED BY <1>1, <1>5, <3>1, <3>2, <3>4, <3>5, <3>6, HearsMore
  <2> QED BY <2>2, <2>3, <2>4, <2>5 DEF Hearing
<1>6. CASE Through
  <2>1. Len(Sent) \in Nat /\ Len(Sent) >= 1 /\ Head(Sent) = Sent[1]
    BY <1>2
  <2>2. Beyond(r) /\ renego = "done"
    BY <1>2, <1>6, <2>1 DEF Through
  <2>3. srv = "up" /\ r.key = srvIn
    BY <1>1, <1>6, <2>2 DEF Through, UpInv, Negotiated, Beyond
  <2>4. /\ r.ct = "data" \/ (r.ct = "alert" /\ Name(r) # "ClientHello")
        /\ r.ct = "data" => Name(r) # "ClientHello"
    <3>1. r \in Records
      BY <1>1, SentRead
    <3> QED BY <2>2, <3>1, DataType DEF Beyond
  <2> HIDE DEF r
  <2>5. UNCHANGED << srv, srvHash, srvSuite, srvIn, srvOut, toClient >>
    BY <1>3, <2>3, <2>4
  <2> QED BY <1>1, <1>6, <2>5, ThroughNext
<1>7. ~Unanswered
  BY <1>2 DEF Unanswered
<1> QED BY <1>1, <1>4, <1>5, <1>6, <1>7 DEF UpInv

-----------------------------------------------------------------------------
(* The two ends stay in step.                                              *)

\* They start in step.
LEMMA InitLock == Init => LockInv
<1> SUFFICES ASSUME Init PROVE LockInv
  OBVIOUS
<1>1. Negotiated = 1 /\ Start = "ClientHello" /\ Sent = << >>
  <2>1. << >> \o << >> = << >>
    OBVIOUS
  <2> QED BY <2>1 DEF Init, Negotiated, Start, Sent
<1>2. Awaited = "ServerHello" /\ Offered = "ServerHello"
  BY <1>1 DEF Init, Awaited, Offered, HelloStates, ReplyStates, Hearing
<1>3. Types
  <2>1. << >> \in Seq(Records)
    OBVIOUS
  <2> QED BY <2>1 DEF Init, Types, ClientStates, HelloStates
<1>4. UpInv
  <2>1. HelloComing
    BY <1>1 DEF Init, HelloComing, HelloStates
  <2> QED BY <2>1 DEF Init, UpInv
<1>5. KnownInv
  <2>1. Covered = << >>
    BY DEF Init, Covered, HelloStates
  <2>2. DownKey(Negotiated, Awaited) = 0 /\ Negotiated - 1 = 0
    BY <1>1, <1>2 DEF DownKey
  <2>3. suite \in Suites
    BY DEF Init, NoSuite, Suites
  <2>4. /\ state \notin ClosingStates /\ state \notin FlightStates \cup ReplyStates
        /\ state \notin {"SERVER_HELLO_DONE"} \cup ReplyStates
        /\ state # "SERVER_CHANGE_CIPHER_SPEC"
    BY DEF Init, ClosingStates, EndStates, FlightStates, ReplyStates
  <2> QED BY <2>1, <2>2, <2>3, <2>4 DEF Init, KnownInv
<1>6. DownInv
  <2>1. Leads(DownSteps(Negotiated, srvSuite), Awaited, Offered, toClient)
    BY <1>2, LeadsNone DEF Init
  <2>2. Len(cur.msgs) <= 1
    BY DEF Init, Record
  <2>3. Comes(Negotiated, srvSuite, Awaited, Offered, cur, toClient)
    BY <2>1, <2>2 DEF Comes
  <2> QED BY <2>3 DEF Init, DownInv
<1>7. Causes /\ CallInv
  BY DEF Init, Causes, CallInv
<1> QED BY <1>3, <1>4, <1>5, <1>6, <1>7 DEF LockInv

\* No step of either end takes them out of step.
LEMMA NextLock ==
    ASSUME ReadInv, written \in Nat, LockInv, [Next]_vars
    PROVE  LockInv'
<1>1. Lock /\ ServerInv
  BY DEF Lock, ReadInv, ServerInv
<1>2. CASE Client /\ UNCHANGED serverVars
  BY <1>1, <1>2, ClientNext
<1>3. CASE (ServerReads \/ ServerSends) /\ UNCHANGED clientVars
  BY <1>1, <1>3, ServerReadsNext, ServerSendsNext
<1>4. CASE UNCHANGED vars
  <2>1. /\ UNCHANGED << clientVars, serverVars >>
        /\ UNCHANGED << state, renego, out, srv, srvSuite, srvOut, toServer, toClient >>
    BY <1>4 DEF vars, clientVars, serverVars, handshake, output
  <2>2. Sent' = Sent /\ Offered' = Offered
    BY <2>1 DEF Sent, Offered, Negotiated
  <2>3. UpInv'
    BY <1>1, <2>1, <2>2, UpSame DEF LockInv
  <2>4. toServer' \in Seq(Records) /\ srv' \in UpPlaces \cup {"ClientHello", "over"}
    BY <2>1 DEF LockInv, Types
  <2> QED BY <1>1, <2>1, <2>2, <2>3, <2>4, HearsNext
<1> QED BY <1>2, <1>3, <1>4 DEF Next

\* The count of packets written is a number.
LEMMA WrittenType ==
    ASSUME written \in Nat, [Next]_vars
    PROVE  written' \in Nat
<1>1. CASE UNCHANGED written
  BY <1>1
<1>2. CASE WriteData
  BY <1>2 DEF WriteData
<1>3. CASE Client /\ ~WriteData
  BY <1>3 DEF Client, FlushOutput, AlertOrBad, HelloRequest, WriteClientHello,
     ParseServerHello, ParseCertificate, ParseServerKeyExchange, ParseCertificateRequest,
     ParseServerHelloDone, WriteCertificate, WriteClientKeyExchange, WriteCertificateVerify,
     WriteChangeCipherSpec, WriteFinished, ParseNewSessionTicket, ParseChangeCipherSpec,
     ParseFinished, FlushBuffers, Wrapup, StartRenegotiation, Calls, ReadRest, ReadRecord,
     Skip, WriteMessage, Parse
<1> QED BY <1>1, <1>2, <1>3 DEF Next, vars, clientVars

\* For every number of packets, warnings and requests, and whether or not
\* send() stalls, the two ends of the handshake never lose step: the server is
\* never confused, and no read of the client ends in a bad record, an
\* unexpected message or a wrong Finished.
THEOREM EndsStayInStep == Spec => []InStep
<1> DEFINE I == ReadInv /\ written \in Nat /\ LockInv
<1>1. Init => I
  BY InitRead, InitLock DEF Init
<1>2. I /\ [Next]_vars => I'
  BY NextRead, NextLock, WrittenType
<1>3. I => InStep
  BY DEF LockInv, Types, Causes, InStep, UpPlaces, Hearing
<1> HIDE DEF I
<1>4. Spec => []I
  BY <1>1, <1>2, PTL DEF Spec
<1> QED BY <1>3, <1>4, PTL

-----------------------------------------------------------------------------
(* What is written is sent once.                                           *)

\* The packets the server got, those under way and the one that waits for room
\* are those the application has written, in their order.
WrittenInv == written \in Nat /\ got \in Seq(Infos) /\ WrittenOnce

\* One packet more.
LEMMA UpToNext ==
    ASSUME NEW n \in Nat
    PROVE  UpTo(n + 1) = UpTo(n) \o << n + 1 >>
BY DEF UpTo

\* Before the second handshake is over the client sends no packet.
LEMMA SentQuiet ==
    ASSUME Types, UpInv, renego # "done" \/ ~Through
    PROVE  \A i \in 1..Len(Sent) : Sent[i].ct # "data"
<1>1. CASE Sent = << >>
  <2>1. Len(<< >>) = 0
    OBVIOUS
  <2> QED BY <1>1, <2>1
<1>2. CASE Sent = << Record("handshake", Negotiated - 1, << Msg("ClientHello", << >>) >>) >>
  <2> DEFINE r == Record("handshake", Negotiated - 1, << Msg("ClientHello", << >>) >>)
  <2>1. r.ct # "data"
    BY DEF Record
  <2>2. Sent = << r >>
    BY <1>2
  <2> HIDE DEF r
  <2>3. \A i \in 1..Len(<< r >>) : << r >>[i] = r
    OBVIOUS
  <2> QED BY <2>1, <2>2, <2>3
<1>3. CASE Listening
  <2>1. PICK f : \A i \in 1..Len(Sent) :
                    << f[i - 1], Sent[i], f[i] >> \in UpSteps(Negotiated, srvSuite)
    BY <1>3 DEF Listening, Leads
  <2>2. ASSUME NEW i \in 1..Len(Sent) PROVE Sent[i].ct # "data"
    <3> DEFINE p == f[i - 1]
               r == Sent[i]
               x == f[i]
    <3>1. << p, r, x >> \in UpSteps(Negotiated, srvSuite)
      BY <2>1
    <3> HIDE DEF p, r, x
    <3>2. r = UpRecord(Negotiated, srvSuite, p)
      BY <3>1, UpStep
    <3>3. r.ct # "data"
      BY <3>2 DEF UpRecord, Record
    <3> QED BY <3>3 DEF r
  <2> QED BY <2>2
<1> QED BY <1>1, <1>2, <1>3 DEF UpInv, HelloComing, Unanswered, Through

\* Nor does one wait to be sent, or come first.
LEMMA QuietEnds ==
    ASSUME Types, UpInv, renego # "done" \/ ~Through
    PROVE  /\ DataIn(out) = << >>
           /\ toServer # << >> => DataOf(Head(toServer)) = << >>
<1>1. /\ toServer \in Seq(Records) /\ out \in Seq(Records)
      /\ \A i \in 1 .. Len(toServer \o out) : (toServer \o out)[i].ct # "data"
  BY SentQuiet, SentType DEF Sent, Types
<1> DEFINE v == toServer
           w == out
<1> HIDE DEF v, w
<1>2. /\ Len(v \o w) = Len(v) + Len(w) /\ Len(v) \in Nat /\ Len(w) \in Nat
      /\ \A i \in 1..Len(v) : (v \o w)[i] = v[i]
      /\ \A i \in 1..Len(w) : (v \o w)[Len(v) + i] = w[i]
  BY <1>1 DEF v, w
<1>3. \A i \in 1..Len(w) : w[i].ct # "data"
  <2>1. \A i \in 1..Len(w) : Len(v) + i \in 1 .. Len(v) + Len(w)
    BY <1>2
  <2> QED BY <1>1, <1>2, <2>1 DEF v, w
<1>4. DataIn(w) = << >>
  BY <1>1, <1>3, DataFree DEF w
<1>5. v # << >> => DataOf(Head(v)) = << >>
  <2> SUFFICES ASSUME v # << >> PROVE DataOf(Head(v)) = << >>
    OBVIOUS
  <2>1. Len(v) >= 1 /\ Head(v) = v[1] /\ v[1] \in Records
    BY <1>1 DEF v
  <2>2. 1 \in 1..Len(v) /\ 1 \in 1 .. Len(v) + Len(w)
    BY <1>2, <2>1
  <2>3. v[1].ct # "data"
    BY <1>1, <1>2, <2>2 DEF v, w
  <2> QED BY <2>1, <2>3, DataType
<1> QED BY <1>4, <1>5 DEF v, w

\* A record without data is written.
LEMMA WriteQuiet ==
    ASSUME Types, WrittenInv, cause = "none", out = << >>, UNCHANGED << got, written >>,
           NEW r \in Records, r.ct # "data", NEW done, Write(r, done)
    PROVE  WrittenInv'
<1>1. /\ got \in Seq(Infos) /\ toServer \in Seq(Records)
      /\ got \o DataIn(toServer) = UpTo(written)
  BY DEF WrittenInv, WrittenOnce, Types
<1>2. DataIn(<< r >>) = << >> /\ << r >> \in Seq(Records)
  BY DataOne, DataType
<1>3. CASE toServer' = Append(toServer, r) /\ UNCHANGED out
  <2>1. toServer' = toServer \o << r >>
    BY <1>1, <1>3, AppendIsConcat
  <2>2. DataIn(toServer \o << r >>) = DataIn(toServer) \o << >>
    BY <1>1, <1>2, DataConcat
  <2>3. DataIn(toServer) \o << >> = DataIn(toServer)
    BY <1>1, DataInType, ConcatEmptySeq
  <2>4. DataIn(toServer') = DataIn(toServer)
    BY <2>1, <2>2, <2>3
  <2>5. DataIn(out') = << >>
    BY <1>3, DataNone
  <2> QED BY <1>1, <2>4, <2>5 DEF WrittenInv, WrittenOnce, UpTo
<1>4. CASE UNCHANGED toServer /\ out' = << r >>
  BY <1>1, <1>2, <1>4 DEF WrittenInv, WrittenOnce, UpTo
<1> QED BY <1>3, <1>4 DEF Write

\* Nothing is written.
LEMMA WrittenSame ==
    ASSUME WrittenInv, cause = "none", UNCHANGED << got, written, out, toServer >>
    PROVE  WrittenInv'
BY DEF WrittenInv, WrittenOnce, UpTo

\* What is sent is counted if it is a packet.
LEMMA PacketSent ==
    ASSUME Types, WrittenInv, cause = "none", UNCHANGED got,
           NEW w \in Seq(Records), toServer' = toServer \o w, out' = << >>,
           \/ DataIn(w) = << >> /\ written' = written
           \/ DataIn(w) = << written + 1 >> /\ written' = written + 1
    PROVE  WrittenInv'
<1>1. /\ got \in Seq(Infos) /\ toServer \in Seq(Records)
      /\ got \o DataIn(toServer) = UpTo(written) /\ written \in Nat
  BY DEF WrittenInv, WrittenOnce, Types
<1> DEFINE g == got
           d == DataIn(toServer)
           e == DataIn(w)
<1>2. g \in Seq(Infos) /\ d \in Seq(Infos) /\ e \in Seq(Infos) /\ g \o d = UpTo(written)
  BY <1>1, DataInType
<1>3. DataIn(toServer') = d \o e /\ DataIn(out') = << >>
  BY <1>1, DataConcat, DataNone
<1> HIDE DEF g, d, e
<1>4. g \o (d \o e) = (g \o d) \o e
  BY <1>2, Associates
<1>5. got' \o DataIn(toServer') = UpTo(written) \o e
  BY <1>2, <1>3, <1>4 DEF g
<1>6. UpTo(written) \o e = UpTo(written')
  <2>1. CASE e = << >> /\ written' = written
    <3>1. (g \o d) \in Seq(Infos)
      BY <1>2, ConcatProperties
    <3>2. (g \o d) \o << >> = g \o d
      BY <3>1, ConcatEmptySeq
    <3> QED BY <1>2, <2>1, <3>2
  <2>2. CASE e = << written + 1 >> /\ written' = written + 1
    BY <1>1, <2>2, UpToNext
  <2> QED BY <2>1, <2>2 DEF e
<1>7. written' \in Nat /\ got' \in Seq(Infos)
  BY <1>1
<1>8. (UpTo(written))' = UpTo(written')
  BY DEF UpTo
<1> QED BY <1>3, <1>5, <1>6, <1>7, <1>8 DEF WrittenInv, WrittenOnce

\* mbedtls_ssl_write.
LEMMA WriteDataWritten ==
    ASSUME Lock, WrittenInv, UNCHANGED serverVars, WriteData
    PROVE  WrittenInv'
<1>1. /\ Types /\ KnownInv /\ Over /\ cause = "none" /\ written \in Nat
      /\ UNCHANGED got
  BY DEF Lock, LockInv, WriteData, CallInv, serverVars
<1>2. DataIn(out) \in {<< >>, << written + 1 >>}
  BY <1>1 DEF WrittenInv, WrittenOnce
<1> DEFINE r == Record("data", keyOut, << Msg("data", written + 1) >>)
<1>3. \/ /\ out = << >> /\ Write(r, "idle")
         /\ written' = IF out' = << >> THEN written + 1 ELSE written
      \/ /\ out # << >> /\ Head(out).ct = "data"
         /\ toServer' = toServer \o out /\ out' = << >> /\ written' = written + 1
      \/ UNCHANGED << toServer, out, written >>
  BY DEF WriteData
<1>4. CASE /\ out = << >> /\ Write(r, "idle")
           /\ written' = IF out' = << >> THEN written + 1 ELSE written
  <2>1. r \in Records /\ DataOf(r) = << written + 1 >>
    <3>1. written + 1 \in Infos /\ "data" \in ContentTypes /\ "data" \in MessageNames
      BY <1>1 DEF Infos, ContentTypes, MessageNames
    <3>2. keyOut \in Nat
      <4>1. Negotiated \in {1, 2}
        BY AwaitedType
      <4> QED BY <1>1, <4>1 DEF KnownInv
    <3>3. r \in Records
      BY <3>1, <3>2, SingleRecord
    <3>4. r.ct = "data" /\ Info(r) = written + 1
      BY DEF Record, Info, Msg
    <3> QED BY <3>3, <3>4, DataType
  <2> HIDE DEF r
  <2>2. << r >> \in Seq(Records) /\ DataIn(<< r >>) = << written + 1 >>
    BY <2>1, DataOne
  <2>3. CASE toServer' = Append(toServer, r) /\ UNCHANGED out
    <3>1. toServer' = toServer \o << r >>
      BY <1>1, <2>1, <2>3, AppendIsConcat DEF Types
    <3> QED BY <1>1, <1>4, <2>2, <2>3, <3>1, PacketSent
  <2>4. CASE UNCHANGED toServer /\ out' = << r >>
    <3>1. written' = written
      <4>1. << r >> # << >>
        OBVIOUS
      <4> QED BY <1>4, <2>4, <4>1
    <3> QED BY <1>1, <2>2, <2>4, <3>1 DEF WrittenInv, WrittenOnce, UpTo
  <2> QED BY <1>4, <2>3, <2>4 DEF Write
<1> HIDE DEF r
<1>5. CASE /\ out # << >> /\ Head(out).ct = "data"
           /\ toServer' = toServer \o out /\ out' = << >> /\ written' = written + 1
  <2>1. PICK q \in Records : out = << q >>
    BY <1>1, <1>5 DEF Types
  <2>2. DataIn(out) = << Info(q) >>
    <3>1. q.ct = "data"
      BY <1>5, <2>1
    <3> QED BY <2>1, <3>1, DataOne, DataType
  <2>3. DataIn(out) = << written + 1 >>
    <3>1. << Info(q) >> # << >>
      OBVIOUS
    <3> QED BY <1>2, <2>2, <3>1
  <2>4. out \in Seq(Records)
    BY <1>1, SentType
  <2> QED BY <1>1, <1>5, <2>3, <2>4, PacketSent
<1>6. CASE UNCHANGED << toServer, out, written >>
  BY <1>1, <1>6, WrittenSame
<1> QED BY <1>3, <1>4, <1>5, <1>6

\* What is written is a record.
LEMMA WriteType ==
    ASSUME Types, Types', NEW r, NEW done, Write(r, done)
    PROVE  r \in Records
<1>1. CASE toServer' = Append(toServer, r)
  <2> DEFINE v == toServer
             w == toServer'
  <2>1. v \in Seq(Records) /\ w \in Seq(Records) /\ w = Append(v, r)
    BY <1>1 DEF Types
  <2> HIDE DEF v, w
  <2>2. w[Len(w)] = r /\ Len(w) \in 1..Len(w)
    BY <2>1
  <2> QED BY <2>1, <2>2, ElementOfSeq
<1>2. CASE out' = << r >>
  <2>1. << r >> # << >> /\ << r >>[1] = r
    OBVIOUS
  <2>2. PICK q \in Records : << r >> = << q >>
    BY <1>2, <2>1 DEF Types
  <2> QED BY <2>1, <2>2
<1> QED BY <1>1, <1>2 DEF Write

\* Beside mbedtls_ssl_write and the flush, what the client writes is no packet.
Mute ==
    \/ UNCHANGED << toServer, out, written >>
    \/ /\ out = << >> /\ written' = written
       /\ \E r, done : r.ct # "data" /\ Write(r, done)

\* The steps of the client beside mbedtls_ssl_write and the flush write no
\* packet.
LEMMA ClientMute ==
    ASSUME Client, ~FlushOutput, ~WriteData
    PROVE  Mute /\ api # "failed"
<1>1. ASSUME NEW s, NEW c, Skip(s, c) PROVE Mute /\ api # "failed"
  BY <1>1 DEF Skip, Stepping, InCall, output, Mute
<1>2. ASSUME NEW s, NEW m, NEW info, NEW key, WriteMessage(s, m, info, key)
      PROVE  Mute /\ api # "failed"
  <2> DEFINE r == Record("handshake", key, << Msg(m, info) >>)
  <2>1. /\ out = << >> /\ written' = written /\ Write(r, api) /\ api # "failed"
    BY <1>2 DEF WriteMessage, Stepping, InCall
  <2>2. r.ct # "data"
    BY DEF Record
  <2> HIDE DEF r
  <2> QED BY <2>1, <2>2 DEF Mute
<1>3. CASE AlertOrBad \/ ParseServerHello \/ ParseCertificateRequest \/ Wrapup
  BY <1>3 DEF AlertOrBad, Fetching, ParseServerHello, ParseCertificateRequest, Wrapup, Stepping,
     InCall, output, Mute
<1>4. CASE StartRenegotiation \/ Calls \/ ReadRest
  BY <1>4 DEF StartRenegotiation, Calls, ReadRest, output, Mute
<1>5. CASE HelloRequest \/ FlushBuffers
  BY <1>1, <1>5 DEF HelloRequest, FlushBuffers
<1>6. CASE WriteClientHello \/ WriteCertificate \/ WriteClientKeyExchange
           \/ WriteCertificateVerify \/ WriteFinished
  <2>1. CASE WriteClientHello
    BY <1>2, <2>1 DEF WriteClientHello
  <2>2. CASE WriteCertificate
    BY <1>1, <1>2, <2>2 DEF WriteCertificate
  <2>3. CASE WriteClientKeyExchange
    BY <1>2, <2>3 DEF WriteClientKeyExchange
  <2>4. CASE WriteCertificateVerify
    BY <1>1, <1>2, <2>4 DEF WriteCertificateVerify
  <2>5. CASE WriteFinished
    BY <1>2, <2>5 DEF WriteFinished
  <2> QED BY <1>6, <2>1, <2>2, <2>3, <2>4, <2>5
<1>7. CASE WriteChangeCipherSpec
  <2> DEFINE r == Record("ccs", keyOut, << Msg("ccs", << >>) >>)
  <2>1. /\ out = << >> /\ written' = written /\ Write(r, api) /\ api # "failed"
    BY <1>7 DEF WriteChangeCipherSpec, Stepping, InCall
  <2>2. r.ct # "data"
    BY DEF Record
  <2> HIDE DEF r
  <2> QED BY <2>1, <2>2 DEF Mute
<1>8. CASE ParseCertificate \/ ParseServerKeyExchange \/ ParseServerHelloDone
           \/ ParseNewSessionTicket \/ ParseChangeCipherSpec \/ ParseFinished
  <2>1. CASE ParseCertificate
    BY <2>1 DEF ParseCertificate, Parse, Stepping, InCall, output, Mute
  <2>2. CASE ParseServerKeyExchange
    BY <1>1, <2>2 DEF ParseServerKeyExchange, Parse, Stepping, InCall, output, Mute
  <2>3. CASE ParseServerHelloDone
    BY <2>3 DEF ParseServerHelloDone, Parse, Stepping, InCall, output, Mute
  <2>4. CASE ParseNewSessionTicket
    BY <2>4 DEF ParseNewSessionTicket, Parse, Stepping, InCall, output, Mute
  <2>5. CASE ParseChangeCipherSpec
    BY <2>5 DEF ParseChangeCipherSpec, Parse, Stepping, InCall, output, Mute
  <2>6. CASE ParseFinished
    BY <2>6 DEF ParseFinished, Parse, Stepping, InCall, output, Mute
  <2> QED BY <1>8, <2>1, <2>2, <2>3, <2>4, <2>5, <2>6
<1>9. CASE ReadRecord
  <2> DEFINE r == Record("alert", keyOut, << Msg("no_renegotiation", << >>) >>)
  <2>1. /\ api # "failed" /\ written' = written
        /\ UNCHANGED << out, toServer >> \/ (out = << >> /\ Write(r, "idle"))
    BY <1>9 DEF ReadRecord, RefuseRenegotiation
  <2>2. r.ct # "data"
    BY DEF Record
  <2> HIDE DEF r
  <2> QED BY <2>1, <2>2 DEF Mute
<1> QED BY <1>3, <1>4, <1>5, <1>6, <1>7, <1>8, <1>9 DEF Client

\* A step of the client keeps what is written, waits and is got one row.
LEMMA ClientWritten ==
    ASSUME Lock, WrittenInv, UNCHANGED serverVars, Client
    PROVE  WrittenInv'
<1>1. Types /\ UpInv /\ Types' /\ UNCHANGED got
  BY ClientNext DEF Lock, LockInv, serverVars
<1>2. CASE WriteData
  BY <1>2, WriteDataWritten
<1>3. CASE FlushOutput
  <2>1. cause = "none" /\ renego # "done" /\ UNCHANGED written
    BY <1>3 DEF FlushOutput, InCall, Lock, LockInv, CallInv, Over
  <2>2. DataIn(out) = << >> /\ out \in Seq(Records)
    BY <1>1, <2>1, QuietEnds, SentType
  <2>3. CASE toServer' = toServer \o out /\ out' = << >>
    BY <1>1, <2>1, <2>2, <2>3, PacketSent
  <2>4. CASE UNCHANGED << toServer, out >>
    BY <1>1, <2>1, <2>4, WrittenSame
  <2> QED BY <1>3, <2>3, <2>4 DEF FlushOutput
<1>4. CASE ~WriteData /\ ~FlushOutput
  <2>1. Mute /\ cause = "none"
    BY <1>4, ClientMute DEF Lock, LockInv, CallInv
  <2>2. CASE UNCHANGED << toServer, out, written >>
    BY <1>1, <2>1, <2>2, WrittenSame
  <2>3. CASE /\ out = << >> /\ written' = written
             /\ \E r, done : r.ct # "data" /\ Write(r, done)
    <3>1. PICK r, done : r.ct # "data" /\ Write(r, done)
      BY <2>3
    <3>2. r \in Records
      BY <1>1, <3>1, WriteType
    <3> QED BY <1>1, <2>1, <2>3, <3>1, <3>2, WriteQuiet
  <2> QED BY <2>1, <2>2, <2>3 DEF Mute
<1> QED BY <1>2, <1>3, <1>4

\* The server takes every packet that it reads, and only packets.
LEMMA ServerTakes ==
    ASSUME Lock, got \in Seq(Infos), ServerReads
    PROVE  got' \in Seq(Infos) /\ got' = got \o DataOf(Head(toServer))
<1> DEFINE r == Head(toServer)
<1>1. /\ Types /\ UpInv /\ toServer # << >> /\ r \in Records
  <2>1. toServer # << >> /\ toServer \in Seq(Records)
    BY DEF Lock, LockInv, Types, ServerReads
  <2> QED BY <2>1, HeadTailProperties DEF Lock, LockInv
<1>2. CASE r.ct = "data"
  <2>1. DataOf(r) = << Info(r) >> /\ Name(r) = "data"
    BY <1>1, <1>2, DataType
  <2>2. Through /\ renego = "done"
    <3>1. << Info(r) >> # << >>
      OBVIOUS
    <3> QED BY <1>1, <2>1, <3>1, QuietEnds
  <2>3. srv = "up" /\ srvIn = 2
    BY <1>1, <2>2 DEF Through, UpInv, Negotiated
  <2>4. r.key = 2
    <3>1. Sent # << >> /\ Sent[1] = r /\ Len(Sent) \in Nat /\ Len(Sent) >= 1
      <4>1. /\ toServer \in Seq(Records) /\ out \in Seq(Records)
        BY <1>1, SentType DEF Types
      <4> QED BY <1>1, <4>1 DEF Sent
    <3> QED BY <2>2, <3>1 DEF Through, Beyond
  <2>5. got' = Append(got, Info(r))
    <3>1. (CASE r.key = srvIn /\ r.ct = "alert" -> TRUE
             [] r.key = srvIn /\ r.ct = "data" /\ srv = "up" -> got' = Append(got, Info(r))
             [] r.key = srvIn /\ Name(r) = "ClientHello" /\ srv \in {"up", "ClientHello"} -> TRUE
             [] (r.key = srvIn /\ Name(r) = srv) /\ srv = "ccs" -> TRUE
             [] (r.key = srvIn /\ Name(r) = srv) /\ srv = "Finished" /\ Info(r) = srvHash -> TRUE
             [] (r.key = srvIn /\ Name(r) = srv)
                  /\ srv \in {"Certificate", "ClientKeyExchange", "CertificateVerify"} -> TRUE
             [] OTHER -> TRUE)
      BY DEF ServerReads
    <3> HIDE DEF r
    <3> QED BY <1>2, <2>1, <2>3, <2>4, <3>1
  <2>6. Info(r) \in Infos
    BY <1>1, <1>2, DataType
  <2>7. got \o << Info(r) >> = Append(got, Info(r)) /\ Append(got, Info(r)) \in Seq(Infos)
    <3> DEFINE z == Info(r)
    <3>1. z \in Infos
      BY <2>6
    <3> HIDE DEF z
    <3>2. got \o << z >> = Append(got, z) /\ Append(got, z) \in Seq(Infos)
      BY <3>1, AppendIsConcat, AppendProperties
    <3> QED BY <3>2 DEF z
  <2> QED BY <2>1, <2>5, <2>7
<1>3. CASE r.ct # "data"
  <2>1. got' = got
    BY <1>3 DEF ServerReads
  <2>2. DataOf(r) = << >>
    BY <1>1, <1>3, DataType
  <2>3. got \o << >> = got
    BY ConcatEmptySeq
  <2> QED BY <2>1, <2>2, <2>3
<1> QED BY <1>2, <1>3

\* What is read is received.
LEMMA ServerWritten ==
    ASSUME Lock, WrittenInv, ServerReads, UNCHANGED clientVars
    PROVE  WrittenInv'
<1>1. /\ toServer # << >> /\ toServer' = Tail(toServer) /\ toServer \in Seq(Records)
      /\ got \in Seq(Infos) /\ written \in Nat
      /\ UNCHANGED << cause, out, written >>
  BY DEF Lock, LockInv, Types, ServerReads, clientVars, call, output, WrittenInv
<1> DEFINE g == got
           x == DataOf(Head(toServer))
           y == DataIn(Tail(toServer))
<1>2. got' \in Seq(Infos) /\ got' = g \o x
  BY <1>1, ServerTakes
<1>3. /\ DataIn(toServer) = x \o y /\ DataIn(toServer') = y
      /\ g \in Seq(Infos) /\ x \in Seq(Infos) /\ y \in Seq(Infos)
  <2>1. Head(toServer) \in Records /\ Tail(toServer) \in Seq(Records)
        /\ DataIn(toServer) = x \o y
    BY <1>1, DataHead
  <2>2. x \in Seq(Infos) /\ y \in Seq(Infos)
    BY <2>1, DataType, DataInType
  <2> QED BY <1>1, <2>1, <2>2
<1> HIDE DEF g, x, y
<1>4. (g \o x) \o y = g \o (x \o y)
  BY <1>3, Associates
<1>5. got' \o DataIn(toServer') = got \o DataIn(toServer)
  BY <1>2, <1>3, <1>4 DEF g
<1> QED BY <1>1, <1>2, <1>5 DEF WrittenInv, WrittenOnce, UpTo

\* Nothing is written at first.
LEMMA InitWritten == Init => WrittenInv
<1> SUFFICES ASSUME Init PROVE WrittenInv
  OBVIOUS
<1>1. << >> \in Seq(Infos) /\ << >> \o << >> = << >> /\ UpTo(0) = << >>
  BY DEF UpTo
<1> QED BY <1>1, DataNone DEF Init, WrittenInv, WrittenOnce

\* Each step keeps it.
LEMMA NextWritten ==
    ASSUME Lock, WrittenInv, [Next]_vars
    PROVE  WrittenInv'
<1>1. CASE Client /\ UNCHANGED serverVars
  BY <1>1, ClientWritten
<1>2. CASE ServerReads /\ UNCHANGED clientVars
  BY <1>2, ServerWritten
<1>3. CASE UNCHANGED << cause, got, written, out, toServer >>
  BY <1>3 DEF WrittenInv, WrittenOnce, UpTo
<1>4. CASE ServerSends /\ UNCHANGED clientVars
  BY <1>3, <1>4 DEF ServerSends, clientVars, call, output
<1>5. CASE UNCHANGED vars
  BY <1>3, <1>5 DEF vars, clientVars, serverVars, call, output
<1> QED BY <1>1, <1>2, <1>4, <1>5 DEF Next

\* What mbedtls_ssl_write reports as written, after any number of retries, has
\* been sent once and in order, and what waits is not reported yet.
THEOREM WritesOnce == Spec => []WrittenOnce
<1> DEFINE I == ReadInv /\ WrittenInv /\ LockInv
<1>1. Init => I
  BY InitRead, InitWritten, InitLock
<1>2. I /\ [Next]_vars => I'
  <2> SUFFICES ASSUME I, [Next]_vars PROVE I'
    OBVIOUS
  <2>1. written \in Nat
    BY DEF WrittenInv
  <2>2. Lock
    BY <2>1 DEF Lock, ReadInv, ServerInv
  <2>3. WrittenInv'
    BY <2>2, NextWritten
  <2> QED BY <2>1, <2>3, NextRead, NextLock
<1>3. I => WrittenOnce
  BY DEF WrittenInv
<1> HIDE DEF I
<1>4. Spec => []I
  BY <1>1, <1>2, PTL DEF Spec
<1> QED BY <1>3, <1>4, PTL
=============================================================================
