--------------------------- MODULE MqttCodecProofs ---------------------------
(***************************************************************************)
(* mqtt_encode_len and mqtt_decode_len agree on every length below Base^4, *)
(* for every Base; every packet is as long as its encoder reports, two     *)
(* bytes of a QoS 0 PUBLISH apart, and the parser finds each packet and    *)
(* what it carries in a buffer where anything may follow it.               *)
(***************************************************************************)
EXTENDS MqttCodec, SumProofs

\* The base is an integer above 1.
LEMMA BaseType == Base \in Nat /\ Base > 1 /\ Base \in Int /\ Base > 0
BY CodecAssumption DEF CodecAssumption

\* Division with remainder, by the base.
LEMMA DivMod ==
    ASSUME NEW n \in Nat
    PROVE  /\ n \div Base \in Nat
           /\ n % Base \in 0 .. Base - 1
           /\ n = Base * (n \div Base) + (n % Base)
BY BaseType

\* A number below m times the base has a quotient below m.
LEMMA DivBound ==
    ASSUME NEW n \in Nat, NEW m \in Nat, n < Base * m
    PROVE  n \div Base < m
<1> DEFINE q == n \div Base
<1>1. q \in Nat /\ Base * q <= n
  BY DivMod, BaseType
<1>2. SUFFICES ASSUME q >= m PROVE FALSE
  BY <1>1
<1>3. Base * q >= Base * m
  <2> HIDE DEF q
  <2> QED BY <1>1, <1>2, BaseType
<1> QED BY <1>1, <1>3, BaseType

\* A byte of the field says its digit with and without the continuation bit.
LEMMA ModBase ==
    ASSUME NEW r \in 0 .. Base - 1
    PROVE  r % Base = r /\ (r + Base) % Base = r
BY BaseType

\* The length is a number the field has room for.
LEMMA RemainingType ==
    ASSUME NEW o \in Packets
    PROVE  Remaining(o) \in Nat /\ Remaining(o) < Base * Cube
<1>1. Cube \in Int
  BY BaseType DEF Cube
<1>2. Base * Cube \in Int
  BY <1>1, BaseType
<1> QED BY <1>2, CodecAssumption DEF CodecAssumption

-----------------------------------------------------------------------------
(* The length and its quotients by the powers of Base: quotient i is what  *)
(* is left to encode after i bytes, and to decode after i bytes.           *)

Quot(n, i) ==
    CASE i = 0 -> n
      [] i = 1 -> n \div Base
      [] i = 2 -> (n \div Base) \div Base
      [] i = 3 -> ((n \div Base) \div Base) \div Base
      [] i = 4 -> (((n \div Base) \div Base) \div Base) \div Base

Power(i) ==
    CASE i = 0 -> 1
      [] i = 1 -> Base
      [] i = 2 -> Base * Base
      [] i = 3 -> Cube
      [] i = 4 -> Base * Cube

\* Each quotient is a natural number, and the division of the one before.
LEMMA QuotStep ==
    ASSUME NEW n \in Nat, NEW i \in 0..3
    PROVE  /\ Quot(n, i) \in Nat
           /\ Quot(n, i + 1) = Quot(n, i) \div Base
<1>1. n \div Base \in Nat
  BY DivMod
<1>2. (n \div Base) \div Base \in Nat
  BY <1>1, DivMod
<1>3. ((n \div Base) \div Base) \div Base \in Nat
  BY <1>2, DivMod
<1>4. i = 0 \/ i = 1 \/ i = 2 \/ i = 3
  OBVIOUS
<1>5. CASE i = 0
  BY <1>5 DEF Quot
<1>6. CASE i = 1
  BY <1>1, <1>6 DEF Quot
<1>7. CASE i = 2
  BY <1>2, <1>7 DEF Quot
<1>8. CASE i = 3
  BY <1>3, <1>8 DEF Quot
<1> QED BY <1>4, <1>5, <1>6, <1>7, <1>8

\* Four bytes hold the length.
LEMMA QuotEnds ==
    ASSUME NEW n \in Nat, n < Base * Cube
    PROVE  Quot(n, 4) = 0
<1>1. Base * Base \in Nat /\ Cube \in Nat /\ Cube = Base * (Base * Base)
  BY BaseType DEF Cube
<1>2. n \div Base \in Nat /\ n \div Base < Cube
  BY <1>1, DivMod, DivBound
<1>3. (n \div Base) \div Base \in Nat /\ (n \div Base) \div Base < Base * Base
  BY <1>1, <1>2, DivMod, DivBound
<1>4. /\ ((n \div Base) \div Base) \div Base \in Nat
      /\ ((n \div Base) \div Base) \div Base < Base * 1
  BY <1>3, DivMod, DivBound, BaseType
<1>5. /\ (((n \div Base) \div Base) \div Base) \div Base \in Nat
      /\ (((n \div Base) \div Base) \div Base) \div Base < 1
  BY <1>4, DivMod, DivBound
<1> QED BY <1>5 DEF Quot

\* The multiplier of mqtt_decode_len is the next power, and within its limit.
LEMMA PowerStep ==
    ASSUME NEW i \in 0..3
    PROVE  /\ Power(i) \in Nat
           /\ Power(i + 1) = Power(i) * Base
           /\ ~TooLong(Power(i))
<1>1. Base * Base \in Nat /\ Cube \in Nat /\ Base <= Base * Base
  BY BaseType DEF Cube
<1>2. Base * Base <= Cube /\ Cube = Base * Base * Base /\ Base * Cube = Cube * Base
  BY <1>1, BaseType DEF Cube
<1>3. i = 0 \/ i = 1 \/ i = 2 \/ i = 3
  OBVIOUS
<1> HIDE DEF Cube
<1>4. CASE i = 0
  BY <1>4, <1>1, <1>2, BaseType DEF Power, TooLong
<1>5. CASE i = 1
  BY <1>5, <1>1, <1>2, BaseType DEF Power, TooLong
<1>6. CASE i = 2
  BY <1>6, <1>1, <1>2, BaseType DEF Power, TooLong
<1>7. CASE i = 3
  BY <1>7, <1>1, <1>2, BaseType DEF Power, TooLong
<1> QED BY <1>3, <1>4, <1>5, <1>6, <1>7

\* What a byte of the field says: a digit, and whether more follow.
LEMMA DigitReads ==
    ASSUME NEW n \in Nat
    PROVE  /\ Digit(n) \in Nat
           /\ Digit(n) % Base = n % Base
           /\ Digit(n) >= Base <=> n \div Base > 0
<1>1. n % Base \in 0 .. Base - 1 /\ n \div Base \in Nat
  BY DivMod
<1>2. /\ (n % Base) % Base = n % Base
      /\ ((n % Base) + Base) % Base = n % Base
  BY <1>1, ModBase
<1> QED BY <1>1, <1>2, BaseType DEF Digit

\* A round of mqtt_decode_len moves one digit to the value.
LEMMA Horner ==
    ASSUME NEW v \in Nat, NEW m \in Nat, NEW q \in Nat
    PROVE  (v + (q % Base) * m) + (m * Base) * (q \div Base) = v + m * q
<1> DEFINE r == q % Base
           d == q \div Base
<1>1. r \in Nat /\ d \in Nat /\ q = Base * d + r
  BY DivMod
<1>2. m * q = m * (Base * d) + m * r
  <2> HIDE DEF r, d
  <2> QED BY <1>1, BaseType
<1>3. (m * Base) * d = m * (Base * d) /\ r * m = m * r
  <2> HIDE DEF r, d
  <2> QED BY <1>1, BaseType
<1>4. m * (Base * d) \in Nat /\ m * r \in Nat
  <2> HIDE DEF r, d
  <2> QED BY <1>1, BaseType
<1> QED BY <1>2, <1>3, <1>4

-----------------------------------------------------------------------------
(* What an encoder writes: its length and its bytes.                       *)

\* f[i] is the first i parts in one sequence, up to the first k.
JoinsUpTo(f, k, parts) ==
    f = [i \in 1..k |-> IF i = 1 THEN parts[i] ELSE f[i - 1] \o parts[i]]

\* The lengths of the parts.
Lengths(parts) == [k \in DOMAIN parts |-> Len(parts[k])]

\* There is such a function (the recursion is well founded).
LEMMA JoinExists ==
    ASSUME NEW parts
    PROVE  \A k \in Nat : \E f : JoinsUpTo(f, k, parts)
<1> DEFINE S == {k \in Nat : \E f : JoinsUpTo(f, k, parts)}
<1>1. 0 \in S
  <2>1. JoinsUpTo([i \in 1..0 |-> << >>], 0, parts)
    BY DEF JoinsUpTo
  <2> QED BY <2>1
<1>2. ASSUME NEW k \in Nat, k \in S PROVE k + 1 \in S
  <2>1. PICK f : JoinsUpTo(f, k, parts)
    BY <1>2
  <2> DEFINE g == [i \in 1 .. k + 1 |->
                      IF i = 1 THEN parts[i] ELSE f[i - 1] \o parts[i]]
  <2>2. ASSUME NEW i \in 1..k PROVE g[i] = f[i]
    <3>1. f[i] = IF i = 1 THEN parts[i] ELSE f[i - 1] \o parts[i]
      BY <2>1 DEF JoinsUpTo
    <3>2. i \in 1 .. k + 1
      OBVIOUS
    <3>3. g[i] = IF i = 1 THEN parts[i] ELSE f[i - 1] \o parts[i]
      BY <3>2, Zenon
    <3> QED BY <3>1, <3>3, Zenon
  <2>3. \A i \in 1 .. k + 1 : i # 1 => i - 1 \in 1..k
    OBVIOUS
  <2>4. JoinsUpTo(g, k + 1, parts)
    <3>1. \A i \in 1 .. k + 1 : i # 1 => g[i - 1] = f[i - 1]
      BY <2>2, <2>3
    <3>2. g = [i \in 1 .. k + 1 |->
                  IF i = 1 THEN parts[i] ELSE g[i - 1] \o parts[i]]
      BY <3>1
    <3> HIDE DEF g
    <3> QED BY <3>2 DEF JoinsUpTo
  <2> HIDE DEF g
  <2> QED BY <2>4
<1> HIDE DEF S
<1>3. \A k \in Nat : k \in S
  BY <1>1, <1>2, SetInduction
<1> QED BY <1>3 DEF S

\* The parts in one sequence have their lengths together.
LEMMA FlattenFacts ==
    ASSUME NEW parts \in Seq(Seq(Int))
    PROVE  /\ FlattenSeq(parts) \in Seq(Int)
           /\ Lengths(parts) \in Seq(Nat)
           /\ Len(FlattenSeq(parts)) = Total(Lengths(parts))
<1> DEFINE n == Len(parts)
           lens == Lengths(parts)
           f == CHOOSE g : JoinsUpTo(g, n, parts)
<1>1. n \in Nat /\ DOMAIN parts = 1..n /\ \A i \in 1..n : parts[i] \in Seq(Int)
  BY LenProperties, ElementOfSeq
<1>2. \A i \in 1..n : Len(parts[i]) \in Nat
  BY <1>1, LenProperties
<1>3. /\ lens \in Seq(Nat) /\ lens \in Seq(Int) /\ Len(lens) = n
      /\ \A i \in 1..n : lens[i] = Len(parts[i])
  <2>1. lens = [k \in 1..n |-> Len(parts[k])]
    BY <1>1 DEF Lengths
  <2> QED BY <1>1, <1>2, <2>1
<1>4. JoinsUpTo(f, n, parts)
  BY <1>1, JoinExists
<1>5. FlattenSeq(parts) = IF n = 0 THEN parts ELSE f[n]
  BY DEF FlattenSeq, JoinsUpTo
<1> HIDE DEF n, lens, f
<1>6. n > 0 => f[1] = parts[1]
  BY <1>1, <1>4 DEF JoinsUpTo
<1>7. ASSUME NEW i \in 1..(n - 1)
      PROVE  f[i + 1] = f[i] \o parts[i + 1]
  <2>1. i + 1 \in 1..n /\ i + 1 # 1 /\ (i + 1) - 1 = i
    BY <1>1
  <2> QED BY <1>4, <2>1 DEF JoinsUpTo
<1> DEFINE S == {i \in Nat : i + 1 <= n =>
                    f[i + 1] \in Seq(Int) /\ Len(f[i + 1]) = Upto(lens, i + 1)}
<1>8. 0 \in S
  <2> SUFFICES ASSUME 1 <= n
               PROVE  f[1] \in Seq(Int) /\ Len(f[1]) = Upto(lens, 1)
    OBVIOUS
  <2>1. 1 \in 1..n /\ 0 \in 0..(n - 1) /\ 0 + 1 = 1
    BY <1>1
  <2>2. /\ lens[0 + 1] \in Int
        /\ Upto(lens, 0 + 1) = Upto(lens, 0) + lens[0 + 1]
    BY <1>3, <2>1, UptoNext
  <2>3. Upto(lens, 0) = 0
    BY <1>3, UptoEnds
  <2>4. Upto(lens, 1) = lens[1]
    BY <2>1, <2>2, <2>3
  <2> QED BY <1>1, <1>3, <1>6, <2>1, <2>4
<1>9. ASSUME NEW i \in Nat, i \in S PROVE i + 1 \in S
  <2> SUFFICES ASSUME (i + 1) + 1 <= n
               PROVE  /\ f[(i + 1) + 1] \in Seq(Int)
                      /\ Len(f[(i + 1) + 1]) = Upto(lens, (i + 1) + 1)
    OBVIOUS
  <2> DEFINE j == i + 1
  <2>1. j \in 1..(n - 1) /\ j \in 0..(n - 1) /\ j + 1 \in 1..n /\ j <= n
    BY <1>1
  <2>2. f[j] \in Seq(Int) /\ Len(f[j]) = Upto(lens, j)
    BY <1>9, <2>1
  <2> HIDE DEF j
  <2>3. f[j + 1] = f[j] \o parts[j + 1] /\ parts[j + 1] \in Seq(Int)
    BY <1>1, <1>7, <2>1
  <2>4. /\ f[j] \o parts[j + 1] \in Seq(Int)
        /\ Len(f[j] \o parts[j + 1]) = Len(f[j]) + Len(parts[j + 1])
    BY <2>2, <2>3, ConcatProperties
  <2>5. Upto(lens, j + 1) = Upto(lens, j) + lens[j + 1]
    BY <1>3, <2>1, UptoNext
  <2>6. lens[j + 1] = Len(parts[j + 1])
    BY <1>3, <2>1
  <2>7. f[j + 1] \in Seq(Int) /\ Len(f[j + 1]) = Upto(lens, j + 1)
    BY <2>2, <2>3, <2>4, <2>5, <2>6
  <2> QED BY <2>7 DEF j
<1> HIDE DEF S
<1>10. \A i \in Nat : i \in S
  BY <1>8, <1>9, SetInduction
<1>11. CASE n = 0
  <2>1. FlattenSeq(parts) = << >> /\ Len(<< >>) = 0 /\ << >> \in Seq(Int)
    <3>1. parts = << >>
      BY <1>11, EmptySeq DEF n
    <3> QED BY <1>5, <1>11, <3>1, EmptySeq
  <2>2. Total(lens) = 0
    BY <1>3, <1>11, TotalType
  <2> QED BY <1>3, <2>1, <2>2 DEF lens
<1>12. CASE n # 0
  <2>1. n - 1 \in Nat /\ n - 1 \in S /\ (n - 1) + 1 = n
    BY <1>1, <1>10, <1>12
  <2>2. f[n] \in Seq(Int) /\ Len(f[n]) = Upto(lens, n)
    BY <1>1, <2>1 DEF S
  <2>3. Upto(lens, n) = Total(lens)
    BY <1>3, UptoEnds
  <2> QED BY <1>3, <1>5, <1>12, <2>2, <2>3 DEF lens
<1> QED BY <1>11, <1>12

\* Two sequences, one after the other.
LEMMA Concat ==
    ASSUME NEW u \in Seq(Int), NEW v \in Seq(Int)
    PROVE  /\ u \o v \in Seq(Int) /\ Len(u) \in Nat /\ Len(v) \in Nat
           /\ Len(u \o v) = Len(u) + Len(v)
           /\ Len(u \o v) \in Nat /\ Len(u \o v) >= Len(u)
           /\ \A i \in 1..Len(u) : (u \o v)[i] = u[i]
           /\ \A i \in 1..Len(v) : (u \o v)[Len(u) + i] = v[i]
<1> DEFINE w == u \o v
<1>1. /\ w \in Seq(Int) /\ Len(w) = Len(u) + Len(v)
      /\ Len(u) \in Nat /\ Len(v) \in Nat
      /\ \A i \in 1..Len(u) : w[i] = u[i]
      /\ \A i \in 1..Len(v) : w[Len(u) + i] = v[i]
  BY ConcatProperties, LenProperties
<1> HIDE DEF w
<1>2. Len(w) \in Nat /\ Len(w) >= Len(u)
  BY <1>1
<1> QED BY <1>1, <1>2 DEF w

\* A number is written high byte first, and read back.
LEMMA NumFacts ==
    ASSUME NEW n \in Nat
    PROVE  /\ Num(n) \in Seq(Int) /\ Len(Num(n)) = 2
           /\ n < Byte * Byte => Num(n)[1] * Byte + Num(n)[2] = n
<1>1. Byte \in Nat /\ Byte > 0
  BY BaseType DEF Byte
<1> DEFINE d == n \div Byte
           q == n % Byte
<1>2. d \in Nat /\ q \in 0..(Byte - 1) /\ n = Byte * d + q
  BY <1>1
<1>3. d % Byte \in Int
  BY <1>1, <1>2
<1>4. Num(n) = << d % Byte, q >>
  BY DEF Num
<1>5. ASSUME n < Byte * Byte PROVE (d % Byte) * Byte + q = n
  <2>1. d < Byte
    <3> SUFFICES ASSUME d >= Byte PROVE FALSE
      BY <1>1, <1>2
    <3> HIDE DEF d, q
    <3>1. Byte * d >= Byte * Byte
      BY <1>1, <1>2
    <3>2. Byte * d \in Nat /\ Byte * Byte \in Nat
      BY <1>1, <1>2
    <3> QED BY <1>2, <1>5, <3>1, <3>2
  <2>2. d % Byte = d
    <3> HIDE DEF d
    <3> QED BY <1>1, <1>2, <2>1
  <2>3. d * Byte = Byte * d
    <3> HIDE DEF d
    <3> QED BY <1>1, <1>2
  <2> QED BY <1>2, <2>2, <2>3
<1> DEFINE h == d % Byte
<1>6. h \in Int /\ q \in Int /\ Num(n) = << h, q >>
  BY <1>1, <1>2, <1>3, <1>4
<1>7. n < Byte * Byte => h * Byte + q = n
  BY <1>5
<1> HIDE DEF d, q, h
<1>8. /\ << h, q >> \in Seq(Int) /\ Len(<< h, q >>) = 2
      /\ << h, q >>[1] = h /\ << h, q >>[2] = q
  BY <1>6
<1> QED BY <1>6, <1>7, <1>8, Zenon

\* A string is its length and its bytes.
LEMMA StrFacts ==
    ASSUME NEW s \in Seq(Int)
    PROVE  /\ Str(s) \in Seq(Int) /\ Len(Str(s)) = Len(s) + 2 /\ Len(s) \in Nat
           /\ Str(s)[1] = Num(Len(s))[1] /\ Str(s)[2] = Num(Len(s))[2]
           /\ \A i \in 1..Len(s) : Str(s)[2 + i] = s[i]
<1>1. Len(s) \in Nat
  BY LenProperties
<1>2. Num(Len(s)) \in Seq(Int) /\ Len(Num(Len(s))) = 2
  BY <1>1, NumFacts
<1> DEFINE t == Num(Len(s))
<1> HIDE DEF t
<1>3. /\ t \o s \in Seq(Int) /\ Len(t \o s) = 2 + Len(s)
      /\ (t \o s)[1] = t[1] /\ (t \o s)[2] = t[2]
      /\ \A i \in 1..Len(s) : (t \o s)[2 + i] = s[i]
  <2>1. t \in Seq(Int) /\ Len(t) = 2
    BY <1>2 DEF t
  <2>2. /\ t \o s \in Seq(Int) /\ Len(t \o s) = Len(t) + Len(s)
        /\ \A i \in 1..Len(t) : (t \o s)[i] = t[i]
        /\ \A i \in 1..Len(s) : (t \o s)[Len(t) + i] = s[i]
    BY <2>1, Concat
  <2>3. 1 \in 1..2 /\ 2 \in 1..2
    OBVIOUS
  <2> QED BY <2>1, <2>2, <2>3
<1> QED BY <1>1, <1>3 DEF Str, t

\* Parts that are each longer by c than a string.
LEMMA FlattenShift ==
    ASSUME NEW ss \in Seq(Seq(Int)), NEW parts \in Seq(Seq(Int)), NEW c \in Int,
           Len(parts) = Len(ss),
           \A i \in 1..Len(ss) : Len(parts[i]) = Len(ss[i]) + c
    PROVE  /\ FlattenSeq(parts) \in Seq(Int)
           /\ Len(FlattenSeq(parts)) = SumLen(ss) + Len(ss) * c
<1>1. Len(ss) \in Nat /\ DOMAIN ss = 1..Len(ss) /\ DOMAIN parts = 1..Len(ss)
  BY LenProperties
<1>2. /\ Lengths(ss) \in Seq(Nat) /\ Lengths(parts) \in Seq(Nat)
      /\ FlattenSeq(parts) \in Seq(Int)
      /\ Len(FlattenSeq(parts)) = Total(Lengths(parts))
  BY FlattenFacts
<1>3. SumLen(ss) = Total(Lengths(ss))
  BY DEF SumLen, Lengths
<1>4. /\ Len(Lengths(ss)) = Len(ss) /\ Len(Lengths(parts)) = Len(ss)
      /\ \A i \in 1..Len(ss) : /\ Lengths(ss)[i] = Len(ss[i])
                               /\ Lengths(parts)[i] = Len(parts[i])
  BY <1>1, <1>2 DEF Lengths
<1> DEFINE s == Lengths(ss)
           t == Lengths(parts)
<1> HIDE DEF s, t
<1>5. /\ s \in Seq(Int) /\ t \in Seq(Int) /\ Len(s) = Len(t)
      /\ \A i \in 1..Len(s) : t[i] = s[i] + c
  BY <1>2, <1>4 DEF s, t
<1>6. Total(t) = Total(s) + Len(s) * c
  BY <1>5, TotalShift
<1> QED BY <1>2, <1>3, <1>4, <1>6 DEF s, t

\* The types are told apart.
LEMMA Types ==
    /\ Connect \notin {Publish, Subscribe, Puback, Pubrec, Suback, Connack, Pingreq, Pingresp}
    /\ Publish \notin {Connect, Subscribe, Puback, Pubrec, Suback, Connack, Pingreq, Pingresp}
    /\ Subscribe \notin {Connect, Publish, Puback, Pubrec, Suback, Connack, Pingreq, Pingresp}
    /\ Puback \notin {Connect, Publish, Subscribe, Suback, Connack, Pingreq, Pingresp}
    /\ Pubrec \notin {Connect, Publish, Subscribe, Suback, Connack, Pingreq, Pingresp}
    /\ Suback \notin {Connect, Publish, Subscribe, Puback, Pubrec, Connack, Pingreq, Pingresp}
    /\ Connack \notin {Connect, Publish, Subscribe, Puback, Pubrec, Suback, Pingreq, Pingresp}
    /\ Pingreq \notin {Connect, Publish, Subscribe, Puback, Pubrec, Suback, Connack}
    /\ Pingresp \notin {Connect, Publish, Subscribe, Puback, Pubrec, Suback, Connack}
BY DEF Connect, Connack, Publish, Subscribe, Suback, Pingreq, Puback, Pubrec,
       Pingresp

\* What is written of each type behind the fixed header.
LEMMA BodyOf ==
    ASSUME NEW o
    PROVE  /\ o.type = Connect =>
                Body(o) = ConnectHead(o) \o FlattenSeq(
                    [k \in DOMAIN ConnectStrings(o) |-> Str(ConnectStrings(o)[k])])
           /\ o.type = Publish =>
                Body(o) = Str(o.topic) \o (IF o.qos > 0 THEN Num(o.id) ELSE << >>) \o o.msg
           /\ o.type = Subscribe =>
                Body(o) = Num(o.id) \o FlattenSeq(
                    [k \in DOMAIN o.topics |-> Str(o.topics[k]) \o << o.qoss[k] >>])
           /\ o.type \in {Puback, Pubrec} => Body(o) = Num(o.id)
           /\ o.type = Suback => Body(o) = Num(o.id) \o o.codes
           /\ o.type = Connack => Body(o) = << 0, 0 >>
           /\ o.type \in {Pingreq, Pingresp} => Body(o) = << >>
<1>1. ASSUME o.type = Connect
      PROVE  Body(o) = ConnectHead(o) \o FlattenSeq(
                 [k \in DOMAIN ConnectStrings(o) |-> Str(ConnectStrings(o)[k])])
  BY <1>1, Types, Zenon DEF Body
<1>2. ASSUME o.type = Publish
      PROVE  Body(o) = Str(o.topic) \o (IF o.qos > 0 THEN Num(o.id) ELSE << >>) \o o.msg
  BY <1>2, Types, Zenon DEF Body
<1>3. ASSUME o.type = Subscribe
      PROVE  Body(o) = Num(o.id) \o FlattenSeq(
                 [k \in DOMAIN o.topics |-> Str(o.topics[k]) \o << o.qoss[k] >>])
  BY <1>3, Types, Zenon DEF Body
<1>4. ASSUME o.type \in {Puback, Pubrec} PROVE Body(o) = Num(o.id)
  BY <1>4, Types, Zenon DEF Body
<1>5. ASSUME o.type = Suback PROVE Body(o) = Num(o.id) \o o.codes
  BY <1>5, Types, Zenon DEF Body
<1>6. ASSUME o.type = Connack PROVE Body(o) = << 0, 0 >>
  BY <1>6, Types, Zenon DEF Body
<1>7. ASSUME o.type \in {Pingreq, Pingresp} PROVE Body(o) = << >>
  BY <1>7, Types, Zenon DEF Body
<1> QED BY <1>1, <1>2, <1>3, <1>4, <1>5, <1>6, <1>7, Zenon

USE DEF Connect, Connack, Publish, Subscribe, Suback, Pingreq, Puback, Pubrec,
        Pingresp

\* What the options of each type are, and what is written of them.
LEMMA PerType ==
    ASSUME NEW o, OptionsOK(o)
    PROVE  /\ o.type = Connect =>
                /\ o.strings \in [DOMAIN o.strings -> Seq(Int)]
                /\ "client_id" \in DOMAIN o.strings
                /\ o.keep_alive \in Nat
           /\ o.type = Publish =>
                /\ o.topic \in Seq(Int) /\ o.msg \in Seq(Int)
                /\ o.id \in 0 .. (Byte * Byte - 1)
                /\ o.from = "broker" => Len(o.topic) < Byte * Byte
           /\ o.type = Subscribe =>
                /\ o.topics \in Seq(Seq(Int)) /\ o.qoss \in [DOMAIN o.topics -> Int]
                /\ o.id \in Nat
           /\ o.type \in {Puback, Pubrec} => o.id \in Nat
           /\ o.type = Suback =>
                /\ o.codes \in Seq(Int) /\ Len(o.codes) < Byte
                /\ o.id \in 0 .. (Byte * Byte - 1)
<1>1. CASE o.type = Connect
  BY <1>1 DEF OptionsOK
<1>2. CASE o.type = Publish
  BY <1>2 DEF OptionsOK
<1>3. CASE o.type = Subscribe
  BY <1>3 DEF OptionsOK
<1>4. CASE o.type \in {Puback, Pubrec}
  BY <1>4 DEF OptionsOK
<1>5. CASE o.type = Suback
  BY <1>5 DEF OptionsOK
<1>6. CASE o.type \notin {Connect, Publish, Subscribe, Puback, Pubrec, Suback}
  BY <1>6
<1> QED BY <1>1, <1>2, <1>3, <1>4, <1>5, <1>6

\* The strings of a CONNECT, joined.
LEMMA ConnectFacts ==
    ASSUME NEW o, o.type = Connect, OptionsOK(o)
    PROVE  /\ Body(o) \in Seq(Int)
           /\ Len(Body(o)) = 10 + SumLen(ConnectStrings(o))
                                + 2 * Len(ConnectStrings(o))
<1> DEFINE ss == ConnectStrings(o)
           parts == [k \in DOMAIN ss |-> Str(ss[k])]
           head == ConnectHead(o)
<1>1. /\ \A f \in DOMAIN o.strings : o.strings[f] \in Seq(Int)
      /\ "client_id" \in DOMAIN o.strings /\ o.keep_alive \in Nat
  BY PerType
<1>2. ss \in Seq(Seq(Int))
  <2> DEFINE will == IF WillSent(o)
                     THEN << o.strings["will_topic"], o.strings["will_msg"] >>
                     ELSE << >>
             user == IF FlagSent(o, "user_name")
                     THEN << o.strings["user_name"] >> ELSE << >>
             psd  == IF FlagSent(o, "password")
                     THEN << o.strings["password"] >> ELSE << >>
             id   == << o.strings["client_id"] >>
  <2>1. id \in Seq(Seq(Int))
    BY <1>1
  <2>2. will \in Seq(Seq(Int))
    BY <1>1 DEF WillSent
  <2>3. user \in Seq(Seq(Int)) /\ psd \in Seq(Seq(Int))
    BY <1>1 DEF FlagSent
  <2>4. ss = ((id \o will) \o user) \o psd
    BY DEF ConnectStrings
  <2> HIDE DEF id, will, user, psd
  <2>5. id \o will \in Seq(Seq(Int))
    BY <2>1, <2>2, ConcatProperties
  <2>6. (id \o will) \o user \in Seq(Seq(Int))
    BY <2>3, <2>5, ConcatProperties
  <2> HIDE DEF ss
  <2> QED BY <2>3, <2>4, <2>6, ConcatProperties
<1> HIDE DEF ss
<1>3. /\ Len(ss) \in Nat /\ DOMAIN ss = 1..Len(ss)
      /\ \A k \in 1..Len(ss) : ss[k] \in Seq(Int)
  BY <1>2, LenProperties, ElementOfSeq
<1>4. \A k \in 1..Len(ss) : Str(ss[k]) \in Seq(Int) /\ Len(Str(ss[k])) = Len(ss[k]) + 2
  BY <1>3, StrFacts
<1>5. /\ parts \in Seq(Seq(Int)) /\ Len(parts) = Len(ss)
      /\ \A k \in 1..Len(ss) : parts[k] = Str(ss[k])
  BY <1>3, <1>4
<1>6. /\ FlattenSeq(parts) \in Seq(Int)
      /\ Len(FlattenSeq(parts)) = SumLen(ss) + Len(ss) * 2
  <2> HIDE DEF parts
  <2>1. \A k \in 1..Len(ss) : Len(parts[k]) = Len(ss[k]) + 2
    BY <1>4, <1>5
  <2>2. 2 \in Int
    OBVIOUS
  <2> QED BY <1>2, <1>5, <2>1, <2>2, FlattenShift
<1>7. head \in Seq(Int) /\ Len(head) = 10
  <2> DEFINE byte == (IF "will" \in o.flags THEN 4 ELSE 0)
                     + (IF "password" \in o.flags THEN 64 ELSE 0)
                     + (IF "user_name" \in o.flags THEN 128 ELSE 0)
             lo == o.keep_alive % Byte
             hi == o.keep_alive \div Byte
  <2>1. byte \in Int
    OBVIOUS
  <2>2. Byte \in Nat /\ Byte > 0
    BY BaseType DEF Byte
  <2>3. lo \in Int /\ hi \in Int
    BY <1>1, <2>2
  <2>4. head = << 0, 4, 1, 1, 1, 1, 4, byte, lo, hi >>
    BY DEF ConnectHead
  <2> HIDE DEF byte, lo, hi, head
  <2> QED BY <2>1, <2>3, <2>4
<1>8. Body(o) = head \o FlattenSeq(parts)
  BY BodyOf DEF ss
<1> DEFINE tail == FlattenSeq(parts)
<1> HIDE DEF head, tail
<1>9. head \o tail \in Seq(Int) /\ Len(head \o tail) = Len(head) + Len(tail)
  BY <1>6, <1>7, Concat DEF tail
<1>10. Len(tail) = SumLen(ss) + Len(ss) * 2 /\ Len(tail) \in Nat
  BY <1>6, LenProperties DEF tail
<1>11. SumLen(ss) \in Int
  <2>1. Lengths(ss) \in Seq(Nat)
    BY <1>2, FlattenFacts
  <2>2. Lengths(ss) \in Seq(Int)
    BY <2>1
  <2> QED BY <2>2, TotalType DEF SumLen, Lengths
<1>12. Len(head \o tail) = 10 + SumLen(ss) + 2 * Len(ss)
  BY <1>3, <1>7, <1>9, <1>10, <1>11
<1> QED BY <1>8, <1>9, <1>12 DEF tail, ss

\* The topics of a SUBSCRIBE, each with its QoS.
LEMMA SubscribeFacts ==
    ASSUME NEW o, o.type = Subscribe, OptionsOK(o)
    PROVE  /\ Body(o) \in Seq(Int)
           /\ Len(Body(o)) = 2 + SumLen(o.topics) + 3 * Len(o.topics)
<1> DEFINE ss == o.topics
           parts == [k \in DOMAIN ss |-> Str(ss[k]) \o << o.qoss[k] >>]
           id == Num(o.id)
<1>1. ss \in Seq(Seq(Int)) /\ o.id \in Nat /\ \A k \in DOMAIN ss : o.qoss[k] \in Int
  BY PerType
<1>2. Body(o) = id \o FlattenSeq(parts)
  BY BodyOf
<1>3. id \in Seq(Int) /\ Len(id) = 2
  BY <1>1, NumFacts
<1> HIDE DEF ss, id
<1>4. /\ Len(ss) \in Nat /\ DOMAIN ss = 1..Len(ss)
      /\ \A k \in 1..Len(ss) : ss[k] \in Seq(Int)
  BY <1>1, LenProperties, ElementOfSeq
<1>5. ASSUME NEW k \in 1..Len(ss)
      PROVE  /\ Str(ss[k]) \o << o.qoss[k] >> \in Seq(Int)
             /\ Len(Str(ss[k]) \o << o.qoss[k] >>) = Len(ss[k]) + 3
  <2>1. o.qoss[k] \in Int
    BY <1>1, <1>4
  <2>2. << o.qoss[k] >> \in Seq(Int) /\ Len(<< o.qoss[k] >>) = 1
    BY <2>1
  <2>3. /\ Str(ss[k]) \in Seq(Int) /\ Len(Str(ss[k])) = Len(ss[k]) + 2
        /\ Len(ss[k]) \in Nat
    BY <1>4, StrFacts
  <2> DEFINE u == Str(ss[k])
             v == << o.qoss[k] >>
  <2> HIDE DEF u, v
  <2>4. u \o v \in Seq(Int) /\ Len(u \o v) = Len(u) + Len(v)
    BY <2>2, <2>3, Concat DEF u, v
  <2> QED BY <2>2, <2>3, <2>4 DEF u, v
<1>6. /\ parts \in Seq(Seq(Int)) /\ Len(parts) = Len(ss)
      /\ \A k \in 1..Len(ss) : Len(parts[k]) = Len(ss[k]) + 3
  BY <1>4, <1>5
<1>7. /\ FlattenSeq(parts) \in Seq(Int)
      /\ Len(FlattenSeq(parts)) = SumLen(ss) + Len(ss) * 3
  <2> HIDE DEF parts
  <2> QED BY <1>1, <1>6, FlattenShift
<1> DEFINE tail == FlattenSeq(parts)
<1>8. tail \in Seq(Int) /\ Len(tail) = SumLen(ss) + Len(ss) * 3
  BY <1>7
<1>9. Body(o) = id \o tail
  BY <1>2
<1> HIDE DEF tail, parts
<1>10. id \o tail \in Seq(Int) /\ Len(id \o tail) = Len(id) + Len(tail)
  BY <1>3, <1>8, Concat
<1>11. SumLen(ss) \in Int
  <2>1. Lengths(ss) \in Seq(Nat)
    BY <1>1, FlattenFacts
  <2>2. Lengths(ss) \in Seq(Int)
    BY <2>1
  <2> QED BY <2>2, TotalType DEF SumLen, Lengths
<1>12. Len(id \o tail) = 2 + SumLen(ss) + 3 * Len(ss)
  BY <1>3, <1>4, <1>8, <1>10, <1>11
<1> QED BY <1>9, <1>10, <1>12 DEF ss

\* The packet id of a PUBLISH, as it is written.
IdBytes(o) == IF o.qos > 0 THEN Num(o.id) ELSE << >>

\* The bytes of a PUBLISH: the topic, the packet id and the message follow
\* each other.
LEMMA PublishFacts ==
    ASSUME NEW o, o.type = Publish, OptionsOK(o), o.qos \in 0..2
    PROVE  LET n == Len(o.topic)
               k == Len(IdBytes(o))
           IN  /\ Body(o) \in Seq(Int) /\ n \in Nat /\ Len(o.msg) \in Nat
               /\ k = (IF o.qos > 0 THEN 2 ELSE 0)
               /\ Len(Body(o)) = 2 + n + k + Len(o.msg)
               /\ Body(o)[1] = Num(n)[1] /\ Body(o)[2] = Num(n)[2]
               /\ \A i \in 1..n : Body(o)[2 + i] = o.topic[i]
               /\ \A i \in 1..k : Body(o)[2 + n + i] = IdBytes(o)[i]
               /\ \A i \in 1..Len(o.msg) : Body(o)[2 + n + k + i] = o.msg[i]
<1> DEFINE t == Str(o.topic)
           id == IdBytes(o)
           m == o.msg
           n == Len(o.topic)
           k == Len(id)
<1>1. o.topic \in Seq(Int) /\ m \in Seq(Int) /\ o.id \in Nat
  <2>1. Byte * Byte \in Int
    BY BaseType DEF Byte
  <2> QED BY <2>1, PerType
<1>2. Body(o) = (t \o id) \o m
  BY BodyOf DEF IdBytes
<1>3. id \in Seq(Int) /\ k = (IF o.qos > 0 THEN 2 ELSE 0)
  <2>1. CASE o.qos > 0
    <3>1. id = Num(o.id)
      BY <2>1 DEF IdBytes
    <3>2. Num(o.id) \in Seq(Int) /\ Len(Num(o.id)) = 2
      BY <1>1, NumFacts
    <3> QED BY <2>1, <3>1, <3>2
  <2>2. CASE ~(o.qos > 0)
    <3>1. id = << >>
      BY <2>2 DEF IdBytes
    <3>2. << >> \in Seq(Int) /\ Len(<< >>) = 0
      BY EmptySeq
    <3> QED BY <2>2, <3>1, <3>2
  <2> QED BY <2>1, <2>2
<1>4. /\ t \in Seq(Int) /\ Len(t) = n + 2 /\ n \in Nat
      /\ t[1] = Num(n)[1] /\ t[2] = Num(n)[2]
      /\ \A i \in 1..n : t[2 + i] = o.topic[i]
  BY <1>1, StrFacts
<1> HIDE DEF t, id, n, k, m
<1>5. Len(m) \in Nat /\ k \in Nat
  BY <1>1, <1>3, LenProperties
<1> DEFINE u == t \o id
<1>6. /\ u \in Seq(Int) /\ Len(u) = n + 2 + k
      /\ \A i \in 1..(n + 2) : u[i] = t[i]
      /\ \A i \in 1..k : u[n + 2 + i] = id[i]
  <2>1. Len(id) = k
    BY DEF k
  <2>2. /\ u \in Seq(Int) /\ Len(u) = Len(t) + Len(id)
        /\ \A i \in 1..Len(t) : u[i] = t[i]
        /\ \A i \in 1..Len(id) : u[Len(t) + i] = id[i]
    BY <1>3, <1>4, Concat
  <2> HIDE DEF u
  <2> QED BY <1>4, <2>1, <2>2
<1> HIDE DEF u
<1> DEFINE w == u \o m
<1>7. /\ w \in Seq(Int) /\ Len(w) = n + 2 + k + Len(m)
      /\ \A i \in 1..(n + 2 + k) : w[i] = u[i]
      /\ \A i \in 1..Len(m) : w[n + 2 + k + i] = m[i]
  <2>1. /\ w \in Seq(Int) /\ Len(w) = Len(u) + Len(m)
        /\ \A i \in 1..Len(u) : w[i] = u[i]
        /\ \A i \in 1..Len(m) : w[Len(u) + i] = m[i]
    BY <1>1, <1>6, Concat
  <2> HIDE DEF w
  <2> QED BY <1>6, <2>1
<1>8. Body(o) = w
  BY <1>2 DEF u
<1> HIDE DEF w
<1>9. w[1] = Num(n)[1] /\ w[2] = Num(n)[2]
  <2>1. 1 \in 1..(n + 2) /\ 1 \in 1..(n + 2 + k) /\ 2 \in 1..(n + 2) /\ 2 \in 1..(n + 2 + k)
    BY <1>4, <1>5
  <2> QED BY <1>4, <1>6, <1>7, <2>1
<1>10. ASSUME NEW i \in 1..n PROVE w[2 + i] = o.topic[i]
  <2>1. 2 + i \in 1..(n + 2) /\ 2 + i \in 1..(n + 2 + k)
    BY <1>4, <1>5
  <2> QED BY <1>4, <1>6, <1>7, <2>1
<1>11. ASSUME NEW i \in 1..k PROVE w[2 + n + i] = id[i]
  <2>1. n + 2 + i \in 1..(n + 2 + k) /\ n + 2 + i = 2 + n + i
    BY <1>4, <1>5
  <2> QED BY <1>6, <1>7, <2>1
<1>12. ASSUME NEW i \in 1..Len(m) PROVE w[2 + n + k + i] = m[i]
  <2>1. n + 2 + k + i = 2 + n + k + i
    BY <1>4, <1>5
  <2> QED BY <1>7, <2>1
<1>13. Len(w) = 2 + n + k + Len(m)
  BY <1>4, <1>5, <1>7
<1> QED BY <1>3, <1>4, <1>5, <1>7, <1>8, <1>9, <1>10, <1>11, <1>12, <1>13
        DEF id, n, k, m

\* The bytes of a SUBACK.
LEMMA SubackFacts ==
    ASSUME NEW o, o.type = Suback, OptionsOK(o)
    PROVE  /\ Body(o) \in Seq(Int) /\ Len(o.codes) \in Nat
           /\ Len(Body(o)) = 2 + Len(o.codes)
           /\ Body(o)[1] = Num(o.id)[1] /\ Body(o)[2] = Num(o.id)[2]
           /\ \A i \in 1..Len(o.codes) : Body(o)[2 + i] = o.codes[i]
<1>1. o.codes \in Seq(Int) /\ o.id \in Nat
  <2>1. Byte * Byte \in Int
    BY BaseType DEF Byte
  <2> QED BY <2>1, PerType
<1> DEFINE id == Num(o.id)
<1>2. Body(o) = id \o o.codes
  BY BodyOf
<1>3. id \in Seq(Int) /\ Len(id) = 2
  BY <1>1, NumFacts
<1> HIDE DEF id
<1> DEFINE w == id \o o.codes
<1>4. /\ w \in Seq(Int) /\ Len(w) = Len(id) + Len(o.codes) /\ Len(o.codes) \in Nat
      /\ \A i \in 1..Len(id) : w[i] = id[i]
      /\ \A i \in 1..Len(o.codes) : w[Len(id) + i] = o.codes[i]
  BY <1>1, <1>3, Concat
<1>5. 1 \in 1..2 /\ 2 \in 1..2
  OBVIOUS
<1> HIDE DEF w
<1>6. Len(w) = 2 + Len(o.codes)
  BY <1>3, <1>4
<1>7. w[1] = id[1] /\ w[2] = id[2]
  BY <1>3, <1>4, <1>5
<1>8. \A i \in 1..Len(o.codes) : w[2 + i] = o.codes[i]
  BY <1>3, <1>4
<1>9. Body(o) = w
  BY <1>2 DEF w
<1> QED BY <1>4, <1>6, <1>7, <1>8, <1>9 DEF id

\* How much less an encoder writes than it reports.
Missing(o) == IF o.from = "client" /\ o.type = Publish /\ o.qos = 0 THEN 2 ELSE 0

LEMMA BodyFacts ==
    ASSUME NEW o \in Packets
    PROVE  /\ Body(o) \in Seq(Int) /\ Len(Body(o)) \in Nat
           /\ Remaining(o) = Len(Body(o)) + Missing(o)
<1>1. /\ o.type \in IF o.from = "client" THEN ClientTypes ELSE BrokerTypes
      /\ o.from \in {"client", "broker"} /\ OptionsOK(o) /\ o.qos \in 0..2
  BY CodecAssumption
<1>2. /\ o.type \in {1, 2, 3, 4, 5, 8, 9, 12, 13}
      /\ o.from = "client" => o.type \in {1, 3, 4, 5, 8, 12}
      /\ o.from = "broker" => o.type \in {2, 3, 9, 13}
  BY <1>1 DEF ClientTypes, BrokerTypes
<1> DEFINE body == Body(o)
<1>3. ASSUME body \in Seq(Int), o.from = "broker"
      PROVE  Len(body) \in Nat /\ Remaining(o) = Len(body) + Missing(o)
  <2>1. Len(body) \in Nat
    BY <1>3, LenProperties
  <2>2. Remaining(o) = Len(body) /\ Missing(o) = 0
    BY <1>3 DEF Remaining, Missing
  <2> HIDE DEF body
  <2> QED BY <2>1, <2>2
<1>4. CASE o.type = 1
  <2>1. body \in Seq(Int) /\ Len(body) = 10 + SumLen(ConnectStrings(o)) + 2 * Len(ConnectStrings(o))
    BY <1>1, <1>4, ConnectFacts
  <2>2. o.from = "client"
    BY <1>1, <1>2, <1>4
  <2>3. Remaining(o) = 10 + SumLen(ConnectStrings(o)) + 2 * Len(ConnectStrings(o))
    BY <1>4, <2>2 DEF Remaining
  <2>4. Missing(o) = 0
    BY <1>4 DEF Missing
  <2>5. Len(body) \in Nat
    BY <2>1, LenProperties
  <2> HIDE DEF body
  <2> QED BY <2>1, <2>3, <2>4, <2>5 DEF body
<1>5. CASE o.type = 3
  <2>1. /\ body \in Seq(Int) /\ Len(o.topic) \in Nat /\ Len(o.msg) \in Nat
        /\ Len(IdBytes(o)) = (IF o.qos > 0 THEN 2 ELSE 0)
        /\ Len(body) = 2 + Len(o.topic) + Len(IdBytes(o)) + Len(o.msg)
    BY <1>1, <1>5, PublishFacts
  <2>2. CASE o.from = "client"
    <3>1. Remaining(o) = (2 + Len(o.topic)) + 2 + Len(o.msg)
      BY <1>5, <2>2 DEF Remaining
    <3>2. Missing(o) = IF o.qos = 0 THEN 2 ELSE 0
      BY <1>5, <2>2 DEF Missing
    <3> DEFINE n == Len(o.topic)
               m == Len(o.msg)
               k == Len(IdBytes(o))
               b == Len(body)
               r == Remaining(o)
               x == Missing(o)
    <3>3. /\ o.qos \in 0..2 /\ n \in Nat /\ m \in Nat /\ k = (IF o.qos > 0 THEN 2 ELSE 0)
          /\ b = 2 + n + k + m /\ r = (2 + n) + 2 + m
          /\ x = IF o.qos = 0 THEN 2 ELSE 0
      BY <1>1, <2>1, <3>1, <3>2
    <3> HIDE DEF body, n, m, k, b, r, x
    <3>4. b \in Nat /\ r = b + x
      BY <3>3
    <3> QED BY <2>1, <3>4 DEF body, b, r, x
  <2>3. CASE o.from = "broker"
    BY <1>3, <2>1, <2>3
  <2> QED BY <1>1, <2>2, <2>3
<1>6. CASE o.type = 8
  <2>1. body \in Seq(Int) /\ Len(body) = 2 + SumLen(o.topics) + 3 * Len(o.topics)
    BY <1>1, <1>6, SubscribeFacts
  <2>2. o.from = "client"
    BY <1>1, <1>2, <1>6
  <2>3. Remaining(o) = 2 + SumLen(o.topics) + 3 * Len(o.topics) /\ Missing(o) = 0
    BY <1>6, <2>2 DEF Remaining, Missing
  <2>4. Len(body) \in Nat
    BY <2>1, LenProperties
  <2> HIDE DEF body
  <2> QED BY <2>1, <2>3, <2>4 DEF body
<1>7. CASE o.type \in {4, 5}
  <2>1. o.id \in Nat /\ body = Num(o.id)
    BY <1>1, <1>7, PerType, BodyOf
  <2>2. body \in Seq(Int) /\ Len(body) = 2
    BY <2>1, NumFacts
  <2>3. Remaining(o) = 2 /\ Missing(o) = 0
    BY <1>2, <1>1, <1>7 DEF Remaining, Missing
  <2> HIDE DEF body
  <2> QED BY <2>2, <2>3 DEF body
<1>8. CASE o.type = 9
  <2>1. body \in Seq(Int) /\ o.from = "broker"
    BY <1>1, <1>2, <1>8, SubackFacts
  <2> QED BY <1>3, <2>1
<1>9. CASE o.type = 2
  <2>1. o.type = Connack /\ o.from = "broker"
    BY <1>1, <1>2, <1>9
  <2>2. body = << 0, 0 >>
    BY <2>1, BodyOf, Zenon
  <2>3. << 0, 0 >> \in Seq(Int)
    OBVIOUS
  <2> QED BY <1>3, <2>1, <2>2, <2>3
<1>10. CASE o.type \in {12, 13}
  <2>1. body = << >>
    BY <1>10, BodyOf
  <2>2. body \in Seq(Int) /\ Len(body) = 0
    BY <2>1, EmptySeq
  <2>3. CASE o.from = "broker"
    BY <1>3, <2>2, <2>3
  <2>4. CASE o.from = "client"
    <3>1. o.type = 12
      BY <1>2, <1>10, <2>4
    <3>2. Remaining(o) = 0 /\ Missing(o) = 0
      BY <2>4, <3>1 DEF Remaining, Missing
    <3> HIDE DEF body
    <3> QED BY <2>2, <3>2 DEF body
  <2> QED BY <1>1, <2>3, <2>4
<1> QED BY <1>2, <1>4, <1>5, <1>6, <1>7, <1>8, <1>9, <1>10

-----------------------------------------------------------------------------
(* The inductive invariant.                                                *)

L == Remaining(opt)

\* What has been encoded, and what is left.
FieldInv ==
    /\ opt \in Packets
    /\ pc \in {"encode_len", "encode", "decode_len", "parse", "done"}
    /\ field \in Seq(Nat) /\ Len(field) \in 0..4
    /\ len = Quot(L, Len(field))
    /\ \A i \in 1 .. Len(field) : field[i] = Digit(Quot(L, i - 1))
    /\ \A i \in 1 .. Len(field) - 1 : Quot(L, i) > 0
    /\ pc = "encode_len" => Len(field) = 0 \/ len > 0
    /\ pc # "encode_len" => Len(field) > 0 /\ len = 0

\* The field is in the buffer behind the first byte.
BufInv ==
    pc \in {"decode_len", "parse"} =>
        \A i \in 1 .. Len(field) : At(1 + i) = field[i]

\* What has been decoded, and what is left.
DecodeInv ==
    /\ pc \in {"encode_len", "encode"} => rc = 0 /\ mul = 1 /\ rem_len = 0
    /\ pc = "decode_len" =>
         /\ rc \in 0 .. Len(field) - 1
         /\ mul = Power(rc) /\ rem_len \in Nat
         /\ rem_len + mul * Quot(L, rc) = L
    /\ pc = "parse" => rc = Len(field) /\ rem_len = L

IInv == FieldInv /\ BufInv /\ DecodeInv

\* Nothing is encoded yet.
LEMMA InitInv == Init => IInv
<1> SUFFICES ASSUME Init PROVE IInv
  OBVIOUS
<1>1. FieldInv
  BY DEF Init, FieldInv, L, Quot
<1>2. BufInv /\ DecodeInv
  BY DEF Init, BufInv, DecodeInv
<1> QED BY <1>1, <1>2 DEF IInv

\* A round of mqtt_encode_len adds the next digit.
LEMMA EncodeLenInv == IInv /\ EncodeLen => IInv'
<1> SUFFICES ASSUME IInv, EncodeLen PROVE IInv'
  OBVIOUS
<1> USE DEF IInv
<1> DEFINE k == Len(field)
<1>1. L \in Nat /\ L < Base * Cube /\ L' = L
  BY RemainingType DEF FieldInv, EncodeLen, encodeVars, L
<1>2. k \in 0..3 /\ k + 1 \in 1..4
  <2>1. Quot(L, 4) = 0
    BY <1>1, QuotEnds
  <2>2. k \in 0..4 /\ len = Quot(L, k) /\ (k = 0 \/ len > 0)
    BY DEF FieldInv, EncodeLen
  <2> HIDE DEF k
  <2>3. k # 4
    BY <2>1, <2>2
  <2> QED BY <2>2, <2>3
<1>3. len = Quot(L, k) /\ Quot(L, k) \in Nat /\ Quot(L, k + 1) = Quot(L, k) \div Base
  BY <1>1, <1>2, QuotStep DEF FieldInv
<1>4. Quot(L, k + 1) \in Nat /\ Digit(len) \in Nat
  BY <1>3, DivMod, DigitReads
<1>5. /\ field' \in Seq(Nat) /\ Len(field') = k + 1
      /\ field'[k + 1] = Digit(Quot(L, k))
      /\ \A i \in 1..k : field'[i] = field[i]
  BY <1>3, <1>4 DEF FieldInv, EncodeLen
<1>6. FieldInv'
  <2>1. opt' \in Packets /\ len' = Quot(L, k + 1)
    BY <1>3 DEF FieldInv, EncodeLen
  <2>2. \A i \in 1 .. k + 1 : field'[i] = Digit(Quot(L, i - 1))
    <3> TAKE i \in 1 .. k + 1
    <3>1. CASE i \in 1 .. k
      BY <1>5, <3>1 DEF FieldInv
    <3>2. CASE i = k + 1
      BY <1>2, <1>5, <3>2
    <3> QED BY <1>2, <3>1, <3>2
  <2>3. \A i \in 1 .. k : Quot(L, i) > 0
    BY <1>2, <1>3 DEF FieldInv, EncodeLen
  <2>4. /\ pc' \in {"encode_len", "encode"}
        /\ pc' = "encode_len" => len' > 0
        /\ pc' = "encode" => len' = 0
    BY <2>1, <1>4 DEF EncodeLen
  <2> QED BY <1>1, <1>2, <1>5, <2>1, <2>2, <2>3, <2>4 DEF FieldInv
<1>7. BufInv' /\ DecodeInv'
  BY DEF BufInv, DecodeInv, EncodeLen, decodeVars
<1> QED BY <1>6, <1>7

\* The field comes second in the packet.
LEMMA EncodeInv == IInv /\ Encode => IInv'
<1> SUFFICES ASSUME IInv, Encode PROVE IInv'
  OBVIOUS
<1> USE DEF IInv
<1>1. L \in Nat /\ L' = L
  BY RemainingType DEF FieldInv, Encode, encodeVars, L
<1>2. FieldInv'
  BY <1>1 DEF FieldInv, Encode, encodeVars
<1>3. CASE pc' = "done"
  BY <1>2, <1>3 DEF BufInv, DecodeInv
<1>4. CASE pc' = "decode_len"
  <2>1. PICK after \in After : buf' = Encoded(opt) \o after
    BY <1>4 DEF Encode
  <2> DEFINE stale == [k \in 1 .. (IF L - Len(Body(opt)) > 0 THEN L - Len(Body(opt)) ELSE 0) |-> Stale]
             tail  == (Body(opt) \o stale) \o after
  <2>2. /\ Body(opt) \in Seq(Int) /\ after \in Seq(Int) /\ First(opt) \in Int
        /\ stale \in Seq(Int)
    <3>1. Body(opt) \in Seq(Int) /\ after \in Seq(Int)
      BY BodyFacts, CodecAssumption DEF CodecAssumption, FieldInv
    <3>2. First(opt) \in Int
      <4>1. ClientTypes \subseteq Int /\ BrokerTypes \subseteq Int
        BY DEF ClientTypes, BrokerTypes, Connect, Publish, Puback, Pubrec,
               Subscribe, Pingreq, Connack, Suback, Pingresp
      <4>2. opt.type \in ClientTypes \/ opt.type \in BrokerTypes
        BY CodecAssumption DEF CodecAssumption, FieldInv
      <4>3. opt.dup \in 0..1 /\ opt.qos \in 0..2 /\ opt.retain \in 0..1
        BY CodecAssumption DEF CodecAssumption, FieldInv
      <4>4. opt.type \in Int
        BY <4>1, <4>2
      <4> QED BY <4>3, <4>4 DEF First
    <3>3. stale \in Seq(Int)
      BY <1>1, <3>1 DEF Stale
    <3> QED BY <3>1, <3>2, <3>3
  <2>3. buf' = ((((<< First(opt) >> \o field) \o Body(opt)) \o stale) \o after)
    BY <2>1 DEF Encoded, L
  <2> HIDE DEF stale
  <2>4. /\ Len(buf') >= 1 + Len(field)
        /\ \A i \in 1 .. Len(field) : buf'[1 + i] = field[i]
        /\ buf' \in Seq(Int)
    <3> DEFINE s1 == << First(opt) >> \o field
               s2 == s1 \o Body(opt)
               s3 == s2 \o stale
    <3>1. /\ s1 \in Seq(Int) /\ Len(s1) = 1 + Len(field) /\ Len(field) \in Nat
          /\ \A i \in 1..Len(field) : 1 + i \in 1..Len(s1) /\ s1[1 + i] = field[i]
      <4>1. field \in Seq(Int) /\ << First(opt) >> \in Seq(Int)
        BY <2>2 DEF FieldInv
      <4> QED BY <4>1
    <3> HIDE DEF s1
    <3>2. /\ s2 \in Seq(Int) /\ Len(s2) \in Nat /\ Len(s2) >= Len(s1)
          /\ \A i \in 1..Len(s1) : s2[i] = s1[i]
      BY <2>2, <3>1, Concat
    <3> HIDE DEF s2
    <3>3. /\ s3 \in Seq(Int) /\ Len(s3) \in Nat /\ Len(s3) >= Len(s2)
          /\ \A i \in 1..Len(s2) : s3[i] = s2[i]
      BY <2>2, <3>2, Concat
    <3> HIDE DEF s3
    <3>4. /\ buf' \in Seq(Int) /\ Len(buf') \in Nat /\ Len(buf') >= Len(s3)
          /\ \A i \in 1..Len(s3) : buf'[i] = s3[i]
      <4>1. buf' = s3 \o after
        BY <2>3 DEF s1, s2, s3
      <4> QED BY <2>2, <3>3, <4>1, Concat
    <3>5. Len(s1) \in Nat
      BY <3>1
    <3>6. \A i \in 1..Len(s1) : i \in 1..Len(s2) /\ i \in 1..Len(s3)
      BY <3>2, <3>3, <3>5
    <3>7. \A i \in 1..Len(s1) : buf'[i] = s1[i]
      BY <3>2, <3>3, <3>4, <3>6
    <3>8. Len(buf') >= 1 + Len(field)
      BY <3>1, <3>2, <3>3, <3>4
    <3>9. \A i \in 1..Len(field) : buf'[1 + i] = field[i]
      BY <3>1, <3>7
    <3> QED BY <3>4, <3>8, <3>9
  <2>5. BufInv'
    <3>1. field' = field /\ Len(field) \in Nat
      BY DEF Encode, encodeVars, FieldInv
    <3>2. DOMAIN buf' = 1..Len(buf') /\ Len(buf') \in Nat
      BY <2>4
    <3>3. \A i \in 1..Len(field) : 1 + i \in DOMAIN buf'
      BY <2>4, <3>1, <3>2
    <3> QED BY <1>4, <2>4, <3>1, <3>3 DEF BufInv, At
  <2>6. DecodeInv'
    BY <1>1, <1>2, <1>4, BaseType DEF DecodeInv, Encode, encodeVars, decodeVars, FieldInv, Power, Quot
  <2> QED BY <1>2, <2>5, <2>6
<1> QED BY <1>3, <1>4 DEF Encode

\* A round of mqtt_decode_len reads the digit mqtt_encode_len wrote.
LEMMA DecodeLenInv == IInv /\ DecodeLen => IInv'
<1> SUFFICES ASSUME IInv, DecodeLen PROVE IInv'
  OBVIOUS
<1> USE DEF IInv
<1> DEFINE q == Quot(L, rc)
           byte == At(2 + rc)
<1>1. L \in Nat /\ L' = L /\ pc = "decode_len"
  BY RemainingType DEF FieldInv, DecodeLen, encodeVars, L
<1>2. rc \in 0 .. 3 /\ rc \in 0 .. Len(field) - 1 /\ Len(field) \in 1..4
  <2> DEFINE k == Len(field)
  <2>1. k \in 0..4 /\ k > 0
    BY <1>1 DEF FieldInv
  <2>2. rc \in 0 .. k - 1
    BY <1>1 DEF DecodeInv
  <2>3. SUFFICES rc \in 0 .. 3 /\ rc \in 0 .. k - 1 /\ k \in 1..4
    OBVIOUS
  <2> HIDE DEF k
  <2> QED BY <2>1, <2>2
<1>3. q \in Nat /\ Quot(L, rc + 1) = q \div Base /\ q \div Base \in Nat
  BY <1>1, <1>2, QuotStep, DivMod
<1>4. mul = Power(rc) /\ mul \in Nat /\ ~TooLong(mul) /\ mul * Base = Power(rc + 1)
  BY <1>1, <1>2, PowerStep DEF DecodeInv
<1>5. byte = Digit(q)
  <2>1. rc + 1 \in 1 .. Len(field) /\ 1 + (rc + 1) = 2 + rc /\ (rc + 1) - 1 = rc
    BY <1>2
  <2>2. At(1 + (rc + 1)) = field[rc + 1] /\ field[rc + 1] = Digit(Quot(L, (rc + 1) - 1))
    BY <1>1, <2>1 DEF BufInv, FieldInv
  <2> QED BY <2>1, <2>2
<1>6. byte % Base = q % Base /\ (byte >= Base <=> q \div Base > 0) /\ q % Base \in Nat
  BY <1>3, <1>5, DigitReads, DivMod
<1>7. /\ rc' = rc + 1 /\ mul' = mul * Base /\ rem_len' = rem_len + (q % Base) * mul
      /\ pc' = IF q \div Base > 0 THEN "decode_len" ELSE "parse"
  BY <1>4, <1>6 DEF DecodeLen
<1>8. /\ rem_len \in Nat /\ rem_len' \in Nat
      /\ rem_len' + mul' * Quot(L, rc + 1) = L
  <2>1. rem_len \in Nat /\ rem_len + mul * q = L
    BY <1>1 DEF DecodeInv
  <2>2. (q % Base) * mul \in Nat
    <3>1. \A a, b \in Nat : a * b \in Nat
      OBVIOUS
    <3> QED BY <1>4, <1>6, <3>1
  <2>3. (rem_len + (q % Base) * mul) + (mul * Base) * (q \div Base) = rem_len + mul * q
    BY <2>1, <1>3, <1>4, Horner
  <2> QED BY <1>3, <1>7, <2>1, <2>2, <2>3
<1>9. FieldInv' /\ BufInv'
  BY <1>1, <1>7 DEF FieldInv, BufInv, At, DecodeLen, encodeVars
<1>10. rc + 1 < Len(field) <=> q \div Base > 0
  <2>1. rc + 1 < Len(field) => Quot(L, rc + 1) > 0
    BY <1>2 DEF FieldInv
  <2>2. rc + 1 = Len(field) => Quot(L, rc + 1) = 0
    BY <1>1, <1>2 DEF FieldInv
  <2> QED BY <1>2, <1>3, <2>1, <2>2
<1>11. field' = field
  BY DEF DecodeLen, encodeVars
<1>12. CASE q \div Base > 0
  BY <1>1, <1>2, <1>4, <1>7, <1>8, <1>9, <1>10, <1>11, <1>12 DEF DecodeInv
<1>13. CASE q \div Base = 0
  <2>1. mul' * Quot(L, rc + 1) = 0
    BY <1>3, <1>4, <1>7, <1>13, BaseType
  <2>2. rem_len' = L
    BY <1>8, <2>1
  <2> QED BY <1>1, <1>2, <1>7, <1>9, <1>10, <1>11, <1>13, <2>2 DEF DecodeInv
<1> QED BY <1>3, <1>12, <1>13

\* Every step keeps the invariant.
LEMMA NextInv == IInv /\ [Next]_vars => IInv'
<1> SUFFICES ASSUME IInv, [Next]_vars PROVE IInv'
  OBVIOUS
<1>1. CASE EncodeLen
  BY <1>1, EncodeLenInv
<1>2. CASE Encode
  BY <1>2, EncodeInv
<1>3. CASE DecodeLen
  BY <1>3, DecodeLenInv
<1>4. CASE Parse
  BY <1>4 DEF IInv, FieldInv, BufInv, DecodeInv, L, Parse, encodeVars, decodeVars
<1>5. CASE UNCHANGED vars
  BY <1>5 DEF IInv, FieldInv, BufInv, DecodeInv, L, At, vars, encodeVars, decodeVars
<1> QED BY <1>1, <1>2, <1>3, <1>4, <1>5 DEF Next, Done

\* Whatever mqtt_encode_len is given below Base^4, mqtt_decode_len returns, and
\* both take the same one to four bytes: for Base = 128 this is every remaining
\* length of MQTT.
THEOREM LengthCorrect == Spec => []LengthRoundTrip
<1>1. IInv => LengthRoundTrip
  BY DEF IInv, FieldInv, DecodeInv, LengthRoundTrip, L
<1> QED BY <1>1, InitInv, NextInv, PTL DEF Spec

\* An encoder writes as many bytes as it reports for every packet, apart from
\* the two that a QoS 0 PUBLISH reports and does not write.
THEOREM EncodersCountWhatTheyWrite == Spec => []WritesWhatItReports
<1>1. IInv => WritesWhatItReports
  <2> SUFFICES ASSUME IInv PROVE WritesWhatItReports
    OBVIOUS
  <2> DEFINE b == Len(Body(opt))
             r == Remaining(opt)
             x == Missing(opt)
  <2>1. b \in Nat /\ r = b + x
    BY BodyFacts DEF IInv, FieldInv
  <2>2. x \in {0, 2}
    BY DEF Missing
  <2>3. r - b = x
    <3> HIDE DEF b, r, x
    <3> QED BY <2>1, <2>2
  <2> QED BY <2>3 DEF WritesWhatItReports, Missing
<1> QED BY <1>1, InitInv, NextInv, PTL DEF Spec

-----------------------------------------------------------------------------
(* The packet in the buffer, and what the parser makes of it.              *)

\* The first byte of a packet says its type and its QoS.
LEMMA FirstFacts ==
    ASSUME NEW o \in Packets
    PROVE  /\ First(o) \in Nat /\ TypeOf(First(o)) = o.type
           /\ QosOf(First(o)) = o.qos /\ o.type \in Nat /\ o.qos \in 0..2
<1> DEFINE t == o.type
           d == o.dup
           q == o.qos
           r == o.retain
<1>1. t \in Nat
  <2>1. ClientTypes \subseteq Nat /\ BrokerTypes \subseteq Nat
    BY DEF ClientTypes, BrokerTypes
  <2>2. t \in ClientTypes \/ t \in BrokerTypes
    BY CodecAssumption
  <2> QED BY <2>1, <2>2
<1>2. d \in 0..1 /\ q \in 0..2 /\ r \in 0..1
  BY CodecAssumption
<1>3. First(o) = 16 * t + 8 * d + 2 * q + r
  BY DEF First
<1> HIDE DEF t, d, q, r
<1>4. (16 * t + 8 * d + 2 * q + r) \div 16 = t
  BY <1>1, <1>2
<1>5. (16 * t + 8 * d + 2 * q + r) \div 2 = 8 * t + 4 * d + q
  BY <1>1, <1>2
<1>6. (8 * t + 4 * d + q) % 4 = q
  <2>1. 8 * t + 4 * d + q = 4 * (2 * t + d) + q
    BY <1>1, <1>2
  <2> QED BY <1>1, <1>2, <2>1
<1>7. 16 * t + 8 * d + 2 * q + r \in Nat
  BY <1>1, <1>2
<1> QED BY <1>1, <1>2, <1>3, <1>4, <1>5, <1>6, <1>7 DEF TypeOf, QosOf, t, q

\* What is behind the first of two sequences is the second.
LEMMA Cut ==
    ASSUME NEW u \in Seq(Int), NEW v \in Seq(Int)
    PROVE  SubSeq(u \o v, Len(u) + 1, Len(u \o v)) = v
<1> DEFINE w == u \o v
           m == Len(u) + 1
           n == Len(w)
           x == SubSeq(w, m, n)
<1>1. /\ w \in Seq(Int) /\ n = Len(u) + Len(v)
      /\ Len(u) \in Nat /\ Len(v) \in Nat
      /\ \A i \in 1..Len(v) : w[Len(u) + i] = v[i]
  BY Concat
<1>2. \A i \in 1..n : w[i] \in Int
  BY <1>1, ElementOfSeq
<1> HIDE DEF w
<1>3. m \in Int /\ n \in Int /\ \A i \in m..n : w[i] \in Int
  BY <1>1, <1>2
<1>4. /\ x \in Seq(Int) /\ Len(x) = (IF m <= n THEN n - m + 1 ELSE 0)
      /\ \A i \in 1..(n - m + 1) : x[i] = w[m + i - 1]
  BY <1>3, SubSeqProperties
<1> HIDE DEF x
<1>5. Len(x) = Len(v) /\ n - m + 1 = Len(v)
  BY <1>1, <1>4
<1>6. ASSUME NEW i \in 1..Len(v) PROVE x[i] = v[i]
  <2>1. x[i] = w[m + i - 1]
    BY <1>4, <1>5
  <2>2. m + i - 1 = Len(u) + i
    BY <1>1
  <2> QED BY <1>1, <2>1, <2>2
<1>7. x = v
  BY <1>4, <1>5, <1>6, SeqEqual
<1> QED BY <1>7 DEF x, w

\* A sequence that begins with another one has it for a prefix.
LEMMA PrefixFacts ==
    ASSUME NEW s \in Seq(Int), NEW t \in Seq(Int), Len(s) <= Len(t),
           \A i \in 1..Len(s) : t[i] = s[i]
    PROVE  IsPrefix(s, t)
<1> DEFINE n == Len(s)
           x == SubSeq(t, 1, n)
<1>1. n \in Nat /\ Len(t) \in Nat /\ \A i \in 1..n : s[i] \in Int
  BY LenProperties, ElementOfSeq
<1>2. \A i \in 1..n : t[i] \in Int
  BY <1>1
<1>3. 1 \in Int /\ n \in Int
  BY <1>1
<1>4. /\ x \in Seq(Int) /\ Len(x) = (IF 1 <= n THEN n - 1 + 1 ELSE 0)
      /\ \A i \in 1..(n - 1 + 1) : x[i] = t[1 + i - 1]
  BY <1>2, <1>3, SubSeqProperties
<1> HIDE DEF x
<1>5. Len(x) = n /\ \A i \in 1..n : x[i] = t[i]
  BY <1>1, <1>4
<1>6. x = s
  BY <1>4, <1>5, SeqEqual
<1>7. SubSeq(s, 1, n) = s
  BY SubSeqFull
<1> QED BY <1>6, <1>7 DEF IsPrefix, x

\* A packet in a buffer: its first byte, the length field, what is written of
\* it, as many bytes as it reports, and what follows.
LEMMA EncodedFacts ==
    ASSUME FieldInv, NEW after \in Seq(Int)
    PROVE  LET h == 1 + Len(field)
               w == Encoded(opt) \o after
           IN  /\ w \in Seq(Int) /\ h \in Nat /\ L \in Nat
               /\ Len(Body(opt)) \in Nat /\ Len(Body(opt)) <= L
               /\ Len(w) >= h + L
               /\ w[1] = First(opt)
               /\ \A i \in 1..Len(Body(opt)) : w[h + i] = Body(opt)[i]
               /\ SubSeq(w, h + L + 1, Len(w)) = after
<1> DEFINE h == 1 + Len(field)
           b == Body(opt)
           x == L - Len(b)
           stale == [k \in 1 .. (IF x > 0 THEN x ELSE 0) |-> Stale]
           first == << First(opt) >>
<1>1. /\ b \in Seq(Int) /\ Len(b) \in Nat /\ L = Len(b) + Missing(opt)
      /\ First(opt) \in Int /\ field \in Seq(Int) /\ Len(field) \in Nat
  <2>1. field \in Seq(Nat)
    BY DEF FieldInv
  <2>2. Len(field) \in Nat /\ field \in Seq(Int)
    BY <2>1
  <2>3. opt \in Packets
    BY DEF FieldInv
  <2> QED BY <2>2, <2>3, BodyFacts, FirstFacts DEF L
<1>2. x \in Nat /\ x = Missing(opt)
  <2>1. Missing(opt) \in Nat
    BY DEF Missing
  <2> HIDE DEF b
  <2> QED BY <1>1, <2>1
<1>3. stale \in Seq(Int) /\ Len(stale) = x
  <2> HIDE DEF x
  <2> QED BY <1>2 DEF Stale
<1>4. first \in Seq(Int) /\ Len(first) = 1 /\ first[1] = First(opt)
  <2>1. First(opt) \in Int
    BY <1>1
  <2> QED BY <2>1
<1>5. Encoded(opt) = ((first \o field) \o b) \o stale
  BY DEF Encoded, L
<1> HIDE DEF h, b, x, stale, first
<1> DEFINE s1 == first \o field
<1>6. /\ s1 \in Seq(Int) /\ Len(s1) = h /\ h \in Nat /\ h >= 1
      /\ s1[1] = First(opt)
  <2>1. /\ s1 \in Seq(Int) /\ Len(s1) = Len(first) + Len(field)
        /\ \A i \in 1..Len(first) : s1[i] = first[i]
    BY <1>1, <1>4, Concat
  <2> HIDE DEF s1
  <2>2. 1 \in 1..Len(first)
    BY <1>4
  <2> QED BY <1>1, <1>4, <2>1, <2>2 DEF h
<1> HIDE DEF s1
<1> DEFINE s2 == s1 \o b
<1>7. /\ s2 \in Seq(Int) /\ Len(s2) = h + Len(b)
      /\ \A i \in 1..h : s2[i] = s1[i]
      /\ \A i \in 1..Len(b) : s2[h + i] = b[i]
  <2>1. /\ s2 \in Seq(Int) /\ Len(s2) = Len(s1) + Len(b)
        /\ \A i \in 1..Len(s1) : s2[i] = s1[i]
        /\ \A i \in 1..Len(b) : s2[Len(s1) + i] = b[i]
    BY <1>1, <1>6, Concat
  <2> HIDE DEF s2
  <2> QED BY <1>6, <2>1
<1> HIDE DEF s2
<1> DEFINE s3 == s2 \o stale
<1>8. /\ s3 \in Seq(Int) /\ Len(s3) = h + L
      /\ \A i \in 1..(h + Len(b)) : s3[i] = s2[i]
  <2>1. /\ s3 \in Seq(Int) /\ Len(s3) = Len(s2) + Len(stale)
        /\ \A i \in 1..Len(s2) : s3[i] = s2[i]
    BY <1>3, <1>7, Concat
  <2> HIDE DEF s3
  <2> QED BY <1>1, <1>2, <1>3, <1>6, <1>7, <2>1
<1> HIDE DEF s3
<1> DEFINE w == s3 \o after
<1>9. /\ w \in Seq(Int) /\ Len(w) >= h + L
      /\ \A i \in 1..(h + L) : w[i] = s3[i]
      /\ SubSeq(w, h + L + 1, Len(w)) = after
  <2>1. /\ w \in Seq(Int) /\ Len(w) >= Len(s3)
        /\ \A i \in 1..Len(s3) : w[i] = s3[i]
    BY <1>8, Concat
  <2>2. SubSeq(w, Len(s3) + 1, Len(w)) = after
    BY <1>8, Cut
  <2> HIDE DEF w
  <2> QED BY <1>8, <2>1, <2>2
<1> HIDE DEF w
<1>10. L \in Nat /\ Len(b) <= L
  BY <1>1, <1>2
<1>11. w[1] = First(opt)
  <2>1. \A m, n \in Nat : m >= 1 => 1 \in 1..m /\ 1 \in 1..(m + n)
    OBVIOUS
  <2>2. h \in Nat /\ h >= 1 /\ L \in Nat /\ Len(b) \in Nat
    BY <1>1, <1>6, <1>10
  <2>3. 1 \in 1..h /\ 1 \in 1..(h + Len(b)) /\ 1 \in 1..(h + L)
    BY <2>1, <2>2, Zenon
  <2> QED BY <1>6, <1>7, <1>8, <1>9, <2>3
<1>12. ASSUME NEW i \in 1..Len(b) PROVE w[h + i] = b[i]
  <2>1. h + i \in 1..(h + Len(b)) /\ h + i \in 1..(h + L)
    BY <1>1, <1>6, <1>10
  <2> QED BY <1>7, <1>8, <1>9, <2>1
<1>13. Encoded(opt) \o after = w
  BY <1>5 DEF w, s1, s2, s3
<1> QED BY <1>1, <1>6, <1>9, <1>10, <1>11, <1>12, <1>13 DEF b, h

\* The packet is in the buffer until it is parsed, and what the parser has made
\* of it is right.
PacketInv ==
    /\ pc \in {"decode_len", "parse"} =>
         \E after \in After : buf = Encoded(opt) \o after
    /\ pc # "done" => parsed = [type |-> 0]
    /\ Framed /\ PublishDecoded /\ SubackDecoded

\* What the parser sees of a packet with something behind it.
LEMMA InBuffer ==
    ASSUME IInv, PacketInv, pc = "parse"
    PROVE  LET h == 1 + rc
               b == Body(opt)
           IN  /\ h \in Nat /\ Len(b) \in Nat /\ b \in Seq(Int)
               /\ rem_len = Len(b) + Missing(opt) /\ rem_len \in Nat
               /\ TypeOf(At(1)) = opt.type /\ QosOf(At(1)) = opt.qos
               /\ \A i \in 1..Len(b) : At(h + i) = b[i]
               /\ \A i \in Int : At(i) \in Int
               /\ SubSeq(buf, PacketLen + 1, Len(buf)) \in After
<1> DEFINE h == 1 + rc
           b == Body(opt)
<1>1. PICK after \in After : buf = Encoded(opt) \o after
  BY DEF PacketInv
<1>2. opt \in Packets /\ after \in Seq(Int) /\ FieldInv
  BY CodecAssumption DEF IInv, FieldInv
<1>3. rc = Len(field) /\ rem_len = L
  BY DEF IInv, DecodeInv
<1>4. /\ buf \in Seq(Int) /\ h \in Nat /\ L \in Nat
      /\ Len(b) \in Nat /\ Len(b) <= L /\ Len(buf) >= h + L
      /\ buf[1] = First(opt)
      /\ \A i \in 1..Len(b) : buf[h + i] = b[i]
      /\ SubSeq(buf, h + L + 1, Len(buf)) = after
  BY <1>1, <1>2, <1>3, EncodedFacts
<1>5. h >= 1
  <2>1. rc \in Nat
    BY <1>2, <1>3 DEF FieldInv
  <2> QED BY <2>1
<1>6. b \in Seq(Int) /\ L = Len(b) + Missing(opt)
  BY <1>2, BodyFacts DEF L
<1>7. DOMAIN buf = 1..Len(buf) /\ Len(buf) \in Nat /\ \A i \in 1..Len(buf) : buf[i] \in Int
  BY <1>4, LenProperties, ElementOfSeq
<1> HIDE DEF h, b
<1>8. \A i \in Int : At(i) \in Int
  BY <1>7 DEF At, Stale
<1>9. 1 \in DOMAIN buf /\ \A i \in 1..Len(b) : h + i \in DOMAIN buf
  <2> DEFINE n == Len(buf)
             m == Len(b)
  <2>1. n \in Nat /\ m \in Nat /\ h \in Nat /\ L \in Nat /\ m <= L /\ n >= h + L /\ h >= 1
    BY <1>4, <1>5, <1>7
  <2> HIDE DEF n, m
  <2>2. 1 \in 1..n /\ \A i \in 1..m : h + i \in 1..n
    BY <2>1
  <2> QED BY <1>7, <2>2 DEF n, m
<1>10. At(1) = First(opt) /\ \A i \in 1..Len(b) : At(h + i) = b[i]
  BY <1>4, <1>9 DEF At
<1>11. PacketLen + 1 = h + L + 1
  BY <1>3 DEF PacketLen, h
<1>12. SubSeq(buf, PacketLen + 1, Len(buf)) \in After
  BY <1>4, <1>11
<1>13. TypeOf(At(1)) = opt.type /\ QosOf(At(1)) = opt.qos
  BY <1>2, <1>10, FirstFacts
<1> QED BY <1>3, <1>4, <1>6, <1>8, <1>10, <1>12, <1>13 DEF h, b

\* What mqtt_decode_publish makes of a broker's PUBLISH.
LEMMA DecodePublishRight ==
    ASSUME IInv, PacketInv, pc = "parse", opt.type = Publish, opt.from = "broker"
    PROVE  /\ DecodePublish.topic = opt.topic /\ DecodePublish.qos = opt.qos
           /\ opt.qos > 0 => DecodePublish.id = opt.id
           /\ IsPrefix(opt.msg, DecodePublish.msg)
           /\ Len(DecodePublish.msg) - Len(opt.msg) = IF opt.qos > 0 THEN 2 ELSE 0
<1> DEFINE h == 1 + rc
           b == Body(opt)
           n == Len(opt.topic)
           m == Len(opt.msg)
           k == IF opt.qos > 0 THEN 2 ELSE 0
<1>1. OptionsOK(opt) /\ opt.qos \in 0..2
  BY CodecAssumption DEF IInv, FieldInv
<1>2. /\ opt.topic \in Seq(Int) /\ opt.msg \in Seq(Int) /\ n < Byte * Byte
      /\ opt.id \in Nat /\ opt.id < Byte * Byte
  <2>1. Byte * Byte \in Nat
    BY BaseType DEF Byte
  <2>2. /\ opt.topic \in Seq(Int) /\ opt.msg \in Seq(Int) /\ n < Byte * Byte
        /\ opt.id \in 0 .. (Byte * Byte - 1)
    BY <1>1, PerType
  <2> HIDE DEF n
  <2> QED BY <2>1, <2>2
<1>3. /\ h \in Nat /\ Len(b) \in Nat /\ rem_len = Len(b) + Missing(opt)
      /\ QosOf(At(1)) = opt.qos
      /\ \A i \in 1..Len(b) : At(h + i) = b[i]
      /\ \A i \in Int : At(i) \in Int
  BY InBuffer
<1>4. Missing(opt) = 0
  BY DEF Missing
<1>5. /\ n \in Nat /\ m \in Nat /\ Len(b) = 2 + n + k + m
      /\ Len(IdBytes(opt)) = k
      /\ b[1] = Num(n)[1] /\ b[2] = Num(n)[2]
      /\ \A i \in 1..n : b[2 + i] = opt.topic[i]
      /\ \A i \in 1..k : b[2 + n + i] = IdBytes(opt)[i]
      /\ \A i \in 1..m : b[2 + n + k + i] = opt.msg[i]
  <2> DEFINE w == Len(IdBytes(opt))
  <2>1. /\ n \in Nat /\ m \in Nat /\ w = k
        /\ Len(b) = 2 + n + w + m
        /\ b[1] = Num(n)[1] /\ b[2] = Num(n)[2]
        /\ \A i \in 1..n : b[2 + i] = opt.topic[i]
        /\ \A i \in 1..w : b[2 + n + i] = IdBytes(opt)[i]
        /\ \A i \in 1..m : b[2 + n + w + i] = opt.msg[i]
    BY <1>1, PublishFacts
  <2> HIDE DEF b, n, m, k, w
  <2> QED BY <2>1 DEF w
<1>6. k \in {0, 2} /\ (opt.qos > 0 <=> k = 2)
  OBVIOUS
<1> HIDE DEF h, b, n, m, k
<1> DEFINE t == Len(b)
<1>7. t \in Nat /\ t = 2 + n + k + m /\ rem_len = t /\ \A i \in 1..t : At(h + i) = b[i]
  BY <1>3, <1>4, <1>5
<1> HIDE DEF t
<1>8. At(h + 1) = Num(n)[1] /\ At(h + 2) = Num(n)[2]
  <2>1. 1 \in 1..t /\ 2 \in 1..t
    BY <1>5, <1>6, <1>7
  <2> QED BY <1>5, <1>7, <2>1
<1>9. NumAt(h + 1) = n
  <2>1. h + 1 + 1 = h + 2
    BY <1>3
  <2>2. Num(n)[1] * Byte + Num(n)[2] = n
    BY <1>2, <1>5, NumFacts DEF n
  <2> QED BY <1>8, <2>1, <2>2 DEF NumAt
<1>10. \A i \in 1..n : At(h + 2 + i) = opt.topic[i]
  <2> TAKE i \in 1..n
  <2>1. 2 + i \in 1..t /\ h + (2 + i) = h + 2 + i
    BY <1>3, <1>5, <1>6, <1>7
  <2> QED BY <1>5, <1>7, <2>1
<1>11. opt.qos > 0 => NumAt(h + 3 + n) = opt.id
  <2> SUFFICES ASSUME opt.qos > 0 PROVE NumAt(h + 3 + n) = opt.id
    OBVIOUS
  <2>1. k = 2 /\ IdBytes(opt) = Num(opt.id)
    BY <1>6 DEF IdBytes
  <2>2. /\ 2 + n + 1 \in 1..t /\ h + (2 + n + 1) = h + 3 + n /\ 1 \in 1..k
        /\ 2 + n + 2 \in 1..t /\ h + (2 + n + 2) = h + 3 + n + 1 /\ 2 \in 1..k
    BY <1>3, <1>5, <1>7, <2>1
  <2>3. At(h + 3 + n) = Num(opt.id)[1] /\ At(h + 3 + n + 1) = Num(opt.id)[2]
    BY <1>5, <1>7, <2>1, <2>2
  <2>4. Num(opt.id)[1] * Byte + Num(opt.id)[2] = opt.id
    BY <1>2, NumFacts
  <2> QED BY <2>3, <2>4 DEF NumAt
<1>12. \A i \in 1..m : At(h + 2 + n + k + i) = opt.msg[i]
  <2> TAKE i \in 1..m
  <2>1. 2 + n + k + i \in 1..t /\ h + (2 + n + k + i) = h + 2 + n + k + i
    BY <1>3, <1>5, <1>6, <1>7
  <2> QED BY <1>5, <1>7, <2>1
<1> DEFINE topic == From(h + 3, n)
           at == h + 3 + n
           msg == From(PayloadAt(at, opt.qos), MsgLen(n))
<1>13. /\ DecodePublish.topic = topic /\ DecodePublish.qos = opt.qos
       /\ DecodePublish.id = (IF opt.qos > 0 THEN NumAt(at) ELSE 0)
       /\ DecodePublish.msg = msg
  BY <1>3, <1>9 DEF DecodePublish, h
<1>14. topic = opt.topic
  <2>1. topic = [i \in 1..n |-> At(h + 3 + i - 1)]
    BY DEF From
  <2>2. \A i \in 1..n : h + 3 + i - 1 = h + 2 + i
    BY <1>3, <1>5
  <2>3. topic = [i \in 1..n |-> opt.topic[i]]
    BY <1>10, <2>1, <2>2, Zenon
  <2>4. opt.topic = [i \in 1..n |-> opt.topic[i]]
    BY <1>2 DEF n
  <2> QED BY <2>3, <2>4
<1>15. PayloadAt(at, opt.qos) = h + 3 + n + k /\ MsgLen(n) = k + m
  <2>1. PayloadAt(at, opt.qos) = h + 3 + n + k
    <3>1. CASE opt.qos > 0
      <4>1. k = 2 /\ PayloadAt(at, opt.qos) = at + 2
        BY <1>6, <3>1 DEF PayloadAt
      <4>2. h \in Nat /\ n \in Nat
        BY <1>3, <1>5
      <4> QED BY <4>1, <4>2
    <3>2. CASE ~(opt.qos > 0)
      <4>1. k = 0 /\ PayloadAt(at, opt.qos) = at
        BY <1>6, <3>2 DEF PayloadAt
      <4>2. h \in Nat /\ n \in Nat
        BY <1>3, <1>5
      <4> QED BY <4>1, <4>2
    <3> QED BY <3>1, <3>2
  <2>2. MsgLen(n) = k + m
    BY <1>5, <1>6, <1>7 DEF MsgLen
  <2> QED BY <2>1, <2>2
<1>16. /\ msg \in Seq(Int) /\ Len(msg) = k + m
       /\ \A i \in 1..m : msg[i] = opt.msg[i]
  <2>1. msg = [i \in 1..(k + m) |-> At(h + 3 + n + k + i - 1)]
    BY <1>15 DEF From
  <2>2. /\ k + m \in Nat
        /\ \A i \in 1..(k + m) : /\ h + 3 + n + k + i - 1 \in Int
                                 /\ h + 3 + n + k + i - 1 = h + 2 + n + k + i
        /\ \A i \in 1..m : i \in 1..(k + m)
    BY <1>3, <1>5, <1>6
  <2> HIDE DEF msg
  <2>3. \A i \in 1..(k + m) : At(h + 3 + n + k + i - 1) \in Int
    BY <1>3, <2>2
  <2>4. msg \in Seq(Int) /\ Len(msg) = k + m
    BY <2>1, <2>2, <2>3
  <2>5. ASSUME NEW i \in 1..m PROVE msg[i] = opt.msg[i]
    <3>1. msg[i] = At(h + 3 + n + k + i - 1)
      BY <2>1, <2>2, Zenon
    <3> QED BY <1>12, <2>2, <3>1
  <2> QED BY <2>4, <2>5
<1> HIDE DEF topic, msg
<1>17. IsPrefix(opt.msg, msg)
  <2>1. Len(opt.msg) <= Len(msg)
    <3>1. m <= k + m
      BY <1>5, <1>6
    <3> QED BY <1>16, <3>1 DEF m
  <2> QED BY <1>2, <1>16, <2>1, PrefixFacts DEF m
<1>18. Len(msg) - m = k
  BY <1>5, <1>6, <1>16
<1> QED BY <1>11, <1>13, <1>14, <1>17, <1>18 DEF m, k

\* What mqtt_decode_suback makes of a SUBACK.
LEMMA DecodeSubackRight ==
    ASSUME IInv, PacketInv, pc = "parse", opt.type = Suback
    PROVE  DecodeSuback.codes = opt.codes /\ DecodeSuback.id = opt.id
<1> DEFINE h == 1 + rc
           b == Body(opt)
           m == Len(opt.codes)
<1>1. OptionsOK(opt)
  BY CodecAssumption DEF IInv, FieldInv
<1>2. /\ opt.codes \in Seq(Int) /\ m < Byte /\ Byte \in Nat
      /\ opt.id \in Nat /\ opt.id < Byte * Byte
  <2>1. Byte * Byte \in Nat /\ Byte \in Nat
    BY BaseType DEF Byte
  <2>2. /\ opt.codes \in Seq(Int) /\ m < Byte
        /\ opt.id \in 0 .. (Byte * Byte - 1)
    BY <1>1, PerType
  <2> HIDE DEF m
  <2> QED BY <2>1, <2>2
<1>3. /\ h \in Nat /\ Len(b) \in Nat /\ rem_len = Len(b) + Missing(opt)
      /\ \A i \in 1..Len(b) : At(h + i) = b[i]
  BY InBuffer
<1>4. Missing(opt) = 0
  BY DEF Missing
<1>5. /\ m \in Nat /\ Len(b) = 2 + m
      /\ b[1] = Num(opt.id)[1] /\ b[2] = Num(opt.id)[2]
      /\ \A i \in 1..m : b[2 + i] = opt.codes[i]
  BY <1>1, SubackFacts
<1> HIDE DEF h, b, m
<1>6. rem_len = 2 + m /\ \A i \in 1..(2 + m) : At(h + i) = b[i]
  BY <1>3, <1>4, <1>5
<1>7. At(h + 1) = Num(opt.id)[1] /\ At(h + 1 + 1) = Num(opt.id)[2]
  <2>1. 1 \in 1..(2 + m) /\ 2 \in 1..(2 + m) /\ h + 1 + 1 = h + 2
    BY <1>3, <1>5
  <2> QED BY <1>5, <1>6, <2>1
<1>8. NumAt(h + 1) = opt.id
  BY <1>2, <1>7, NumFacts DEF NumAt
<1>9. Count = m
  <2>1. rem_len - 2 = m
    BY <1>5, <1>6
  <2>2. m % Byte = m
    <3>1. m \in 0 .. Byte - 1 /\ Byte \in Nat /\ Byte > 0
      BY <1>2, <1>5
    <3> HIDE DEF m
    <3> QED BY <3>1
  <2> QED BY <2>1, <2>2 DEF Count
<1>10. From(h + 3, Count) = opt.codes
  <2>1. From(h + 3, Count) = [i \in 1..m |-> At(h + 3 + i - 1)]
    BY <1>9 DEF From
  <2>2. \A i \in 1..m : h + 3 + i - 1 = h + (2 + i) /\ 2 + i \in 1..(2 + m)
    BY <1>3, <1>5
  <2>3. \A i \in 1..m : At(h + 3 + i - 1) = opt.codes[i]
    <3> TAKE i \in 1..m
    <3>1. At(h + (2 + i)) = b[2 + i]
      BY <1>6, <2>2
    <3> QED BY <1>5, <2>2, <3>1
  <2>4. From(h + 3, Count) = [i \in 1..m |-> opt.codes[i]]
    BY <2>1, <2>3, Zenon
  <2>5. opt.codes = [i \in 1..m |-> opt.codes[i]]
    BY <1>2 DEF m
  <2> QED BY <2>4, <2>5
<1> QED BY <1>8, <1>10 DEF DecodeSuback, h

\* The parser takes the packet and nothing else, and sees it as it was sent.
LEMMA ParsePacket == IInv /\ PacketInv /\ Parse => PacketInv'
<1> SUFFICES ASSUME IInv, PacketInv, Parse PROVE PacketInv'
  OBVIOUS
<1>1. pc = "parse" /\ pc' = "done" /\ opt' = opt
  BY DEF Parse, encodeVars
<1>2. TypeOf(At(1)) = opt.type /\ buf' \in After
  BY <1>1, InBuffer DEF Parse
<1>3. parsed' = CASE opt.type = Publish -> DecodePublish
                  [] opt.type = Suback  -> DecodeSuback
                  [] OTHER -> [type |-> opt.type]
  BY <1>2, Zenon DEF Parse
<1>4. Publish # Suback
  OBVIOUS
<1>5. CASE opt.type = Publish
  <2>1. parsed' = DecodePublish
    BY <1>3, <1>4, <1>5, Zenon
  <2>2. DecodePublish.type = Publish
    BY DEF DecodePublish
  <2>3. opt.from = "broker" =>
          /\ parsed'.topic = opt.topic /\ parsed'.qos = opt.qos
          /\ opt.qos > 0 => parsed'.id = opt.id
          /\ IsPrefix(opt.msg, parsed'.msg)
          /\ Len(parsed'.msg) - Len(opt.msg) = IF opt.qos > 0 THEN 2 ELSE 0
    BY <1>1, <1>5, <2>1, DecodePublishRight
  <2>4. Framed'
    BY <1>1, <1>2, <1>5, <2>1, <2>2 DEF Framed
  <2>5. PublishDecoded'
    BY <1>1, <2>3, Zenon DEF PublishDecoded
  <2>6. SubackDecoded'
    BY <1>4, <2>1, <2>2 DEF SubackDecoded
  <2> QED BY <1>1, <2>4, <2>5, <2>6 DEF PacketInv
<1>6. CASE opt.type = Suback
  <2>1. parsed' = DecodeSuback
    BY <1>3, <1>4, <1>6, Zenon
  <2>2. DecodeSuback.type = Suback
    BY DEF DecodeSuback
  <2>3. DecodeSuback.codes = opt.codes /\ DecodeSuback.id = opt.id
    BY <1>1, <1>6, DecodeSubackRight
  <2>4. Framed'
    BY <1>1, <1>2, <1>6, <2>1, <2>2 DEF Framed
  <2>5. PublishDecoded'
    BY <1>4, <2>1, <2>2 DEF PublishDecoded
  <2>6. SubackDecoded'
    BY <1>1, <2>1, <2>3 DEF SubackDecoded
  <2> QED BY <1>1, <2>4, <2>5, <2>6 DEF PacketInv
<1>7. CASE opt.type # Publish /\ opt.type # Suback
  <2>1. parsed' = [type |-> opt.type]
    BY <1>3, <1>7, Zenon
  <2>2. parsed'.type = opt.type
    BY <2>1
  <2> QED BY <1>1, <1>2, <1>7, <2>2 DEF PacketInv, Framed, PublishDecoded, SubackDecoded
<1> QED BY <1>5, <1>6, <1>7

\* Every step keeps the packet's invariant.
LEMMA PacketNext == IInv /\ PacketInv /\ [Next]_vars => PacketInv'
<1> SUFFICES ASSUME IInv, PacketInv, [Next]_vars PROVE PacketInv'
  OBVIOUS
<1> USE DEF PacketInv, Framed, PublishDecoded, SubackDecoded
<1>1. CASE EncodeLen
  BY <1>1 DEF EncodeLen
<1>2. CASE Encode
  <2>1. /\ parsed' = [type |-> 0] /\ pc' \in {"done", "decode_len"}
        /\ opt' = opt /\ field' = field
    BY <1>2 DEF Encode, encodeVars
  <2>2. pc' = "decode_len" => \E after \in After : buf' = Encoded(opt) \o after
    BY <1>2 DEF Encode
  <2>3. Encoded(opt)' = Encoded(opt)
    BY <2>1 DEF Encoded
  <2> QED BY <2>1, <2>2, <2>3
<1>3. CASE DecodeLen
  <2>1. /\ parsed' = [type |-> 0] /\ pc' \in {"decode_len", "parse"}
        /\ pc = "decode_len" /\ opt' = opt /\ field' = field /\ buf' = buf
    BY <1>3 DEF DecodeLen, encodeVars
  <2>2. Encoded(opt)' = Encoded(opt)
    BY <2>1 DEF Encoded
  <2> QED BY <2>1, <2>2
<1>4. CASE Parse
  BY <1>4, ParsePacket
<1>5. CASE UNCHANGED vars
  <2>1. pc' = pc /\ opt' = opt /\ field' = field /\ buf' = buf /\ parsed' = parsed
    BY <1>5 DEF vars, encodeVars
  <2>2. Encoded(opt)' = Encoded(opt)
    BY <2>1 DEF Encoded
  <2> QED BY <2>1, <2>2
<1> QED BY <1>1, <1>2, <1>3, <1>4, <1>5 DEF Next, Done

LEMMA PacketAlways == Spec => []PacketInv
<1>1. Init => PacketInv
  BY DEF Init, PacketInv, Framed, PublishDecoded, SubackDecoded
<1> QED BY <1>1, InitInv, NextInv, PacketNext, PTL DEF Spec

\* The parser cuts exactly the packet off the buffer, whatever follows it, and
\* sees the type it was sent with.
THEOREM PacketsAreFramed == Spec => []Framed
<1>1. PacketInv => Framed
  BY DEF PacketInv
<1> QED BY <1>1, PacketAlways, PTL

\* mqtt_decode_publish gives the callback the topic, the QoS and the message
\* that were published, and with QoS 1 and 2 the packet id and two bytes more.
THEOREM PublishIsDecoded == Spec => []PublishDecoded
<1>1. PacketInv => PublishDecoded
  BY DEF PacketInv
<1> QED BY <1>1, PacketAlways, PTL

\* mqtt_decode_suback gives the packet id and every return code of a SUBACK
\* that answers a SUBSCRIBE.
THEOREM SubackIsDecoded == Spec => []SubackDecoded
<1>1. PacketInv => SubackDecoded
  BY DEF PacketInv
<1> QED BY <1>1, PacketAlways, PTL
=============================================================================
