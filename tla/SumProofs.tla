------------------------------ MODULE SumProofs ------------------------------
(***************************************************************************)
(* What the sum of a sequence does when the sequence is changed.           *)
(***************************************************************************)
EXTENDS Sums, SequenceTheorems, NatSets

\* f[i] is the sum of the first i numbers of s, up to the first k.
SumsUpTo(f, k, s) == f = [i \in 0..k |-> IF i = 0 THEN 0 ELSE f[i - 1] + s[i]]
IsSum(f, s) == SumsUpTo(f, Len(s), s)

\* There is such a function (the recursion is well founded).
LEMMA SumExists ==
    ASSUME NEW s \in Seq(Int)
    PROVE  \E f : IsSum(f, s)
<1> DEFINE S == {k \in Nat : \E f : SumsUpTo(f, k, s)}
<1>1. 0 \in S
  <2>1. SumsUpTo([i \in 0..0 |-> 0], 0, s)
    BY DEF SumsUpTo
  <2> QED BY <2>1
<1>2. ASSUME NEW k \in Nat, k \in S PROVE k + 1 \in S
  <2>1. PICK f : SumsUpTo(f, k, s)
    BY <1>2
  <2> DEFINE g == [i \in 0 .. k + 1 |-> IF i = 0 THEN 0 ELSE f[i - 1] + s[i]]
  <2>2. \A i \in 0..k : g[i] = f[i]
    BY <2>1 DEF SumsUpTo
  <2>3. \A i \in 0 .. k + 1 : i # 0 => i - 1 \in 0..k
    OBVIOUS
  <2>4. SumsUpTo(g, k + 1, s)
    <3>1. \A i \in 0 .. k + 1 : i # 0 => g[i - 1] = f[i - 1]
      BY <2>2, <2>3
    <3>2. g = [i \in 0 .. k + 1 |-> IF i = 0 THEN 0 ELSE g[i - 1] + s[i]]
      BY <3>1
    <3> HIDE DEF g
    <3> QED BY <3>2 DEF SumsUpTo
  <2> HIDE DEF g
  <2> QED BY <2>4
<1> HIDE DEF S
<1>3. \A k \in Nat : k \in S
  BY <1>1, <1>2, SetInduction
<1> QED BY <1>3, LenProperties DEF S, IsSum

\* The sum is the last value of that function.
LEMMA TotalIs ==
    ASSUME NEW s \in Seq(Int)
    PROVE  \E f : IsSum(f, s) /\ Total(s) = f[Len(s)]
<1> DEFINE f == CHOOSE g : IsSum(g, s)
<1>1. IsSum(f, s)
  BY SumExists
<1>2. Total(s) = f[Len(s)]
  BY DEF Total, IsSum, SumsUpTo
<1> QED BY <1>1, <1>2

\* One step of the function.
LEMMA SumSteps ==
    ASSUME NEW s \in Seq(Int), NEW f, IsSum(f, s)
    PROVE  /\ f[0] = 0
           /\ \A i \in 0 .. Len(s) - 1 : f[i + 1] = f[i] + s[i + 1]
<1>1. Len(s) \in Nat
  BY LenProperties
<1>2. f[0] = 0
  BY <1>1 DEF IsSum, SumsUpTo
<1>3. ASSUME NEW i \in 0 .. Len(s) - 1
      PROVE  f[i + 1] = f[i] + s[i + 1]
  <2>1. i + 1 \in 0..Len(s) /\ i + 1 # 0 /\ (i + 1) - 1 = i
    BY <1>1
  <2> QED BY <2>1 DEF IsSum, SumsUpTo
<1> QED BY <1>2, <1>3

\* Its values are integers, and natural numbers if the summands are.
LEMMA SumType ==
    ASSUME NEW s \in Seq(Int), NEW f, IsSum(f, s)
    PROVE  /\ \A i \in 0..Len(s) : f[i] \in Int
           /\ s \in Seq(Nat) => \A i \in 0..Len(s) : f[i] \in Nat
<1> DEFINE S == {i \in Nat : i <= Len(s) =>
                    f[i] \in Int /\ (s \in Seq(Nat) => f[i] \in Nat)}
<1>1. 0 \in S
  BY SumSteps
<1>2. ASSUME NEW i \in Nat, i \in S PROVE i + 1 \in S
  <2> SUFFICES ASSUME i + 1 <= Len(s)
               PROVE  f[i + 1] \in Int /\ (s \in Seq(Nat) => f[i + 1] \in Nat)
    OBVIOUS
  <2>1. i \in 0 .. Len(s) - 1 /\ i + 1 \in 1..Len(s)
    BY LenProperties
  <2>2. s[i + 1] \in Int /\ (s \in Seq(Nat) => s[i + 1] \in Nat)
    BY <2>1, ElementOfSeq
  <2>3. f[i + 1] = f[i] + s[i + 1]
    BY <2>1, SumSteps
  <2>4. f[i] \in Int /\ (s \in Seq(Nat) => f[i] \in Nat)
    BY <1>2, <2>1
  <2> QED BY <2>2, <2>3, <2>4
<1> HIDE DEF S
<1>3. \A i \in Nat : i \in S
  BY <1>1, <1>2, SetInduction
<1> QED BY <1>3, LenProperties DEF S

\* n numbers of s behind the first a are those of t behind the first b.
Agree(s, a, t, b, n) ==
    /\ a + n <= Len(s) /\ b + n <= Len(t)
    /\ \A i \in 1..n : s[a + i] = t[b + i]

\* By how much the sum grows over n numbers.
Growth(f, a, n) == f[a + n] - f[a]

\* Where two sequences agree, with their places shifted, their sums grow alike.
LEMMA SumsParallel ==
    ASSUME NEW s \in Seq(Int), NEW t \in Seq(Int), NEW f, NEW g,
           IsSum(f, s), IsSum(g, t),
           NEW a \in Nat, NEW b \in Nat, NEW n \in Nat,
           Agree(s, a, t, b, n)
    PROVE  Growth(f, a, n) = Growth(g, b, n)
<1> USE DEF Agree, Growth
<1> DEFINE S == {i \in Nat : i <= n => f[a + i] - f[a] = g[b + i] - g[b]}
<1>0. /\ \A i \in 0..n : a + i \in 0..Len(s) /\ b + i \in 0..Len(t)
      /\ Len(s) \in Nat /\ Len(t) \in Nat
  BY LenProperties
<1>t. \A i \in 0..n : f[a + i] \in Int /\ g[b + i] \in Int
  BY <1>0, SumType
<1>1. 0 \in S
  <2>1. a + 0 = a /\ b + 0 = b /\ f[a] \in Int /\ g[b] \in Int
    BY <1>t
  <2> QED BY <2>1
<1>2. ASSUME NEW i \in Nat, i \in S PROVE i + 1 \in S
  <2> SUFFICES ASSUME i + 1 <= n
               PROVE  f[a + (i + 1)] - f[a] = g[b + (i + 1)] - g[b]
    OBVIOUS
  <2>1. /\ a + i \in 0 .. Len(s) - 1 /\ b + i \in 0 .. Len(t) - 1
        /\ a + (i + 1) = (a + i) + 1 /\ b + (i + 1) = (b + i) + 1
        /\ i + 1 \in 1..n /\ i \in 0..n /\ 0 \in 0..n
        /\ a + (i + 1) \in 1..Len(s)
    BY <1>0
  <2>2. /\ f[a + (i + 1)] = f[a + i] + s[a + (i + 1)]
        /\ g[b + (i + 1)] = g[b + i] + t[b + (i + 1)]
    BY <2>1, SumSteps
  <2>3. s[a + (i + 1)] = t[b + (i + 1)] /\ s[a + (i + 1)] \in Int
    BY <2>1, ElementOfSeq
  <2>4. f[a + i] - f[a] = g[b + i] - g[b]
    BY <1>2, <2>1
  <2>5. f[a + i] \in Int /\ g[b + i] \in Int /\ f[a + 0] \in Int /\ g[b + 0] \in Int
    BY <1>t, <2>1
  <2> DEFINE fi == f[a + i]  fj == f[a + (i + 1)]  f0 == f[a]
             gi == g[b + i]  gj == g[b + (i + 1)]  g0 == g[b]
             x == s[a + (i + 1)]
  <2>6. f0 \in Int /\ g0 \in Int
    BY <2>5
  <2>7. fj = fi + x /\ gj = gi + x /\ fi - f0 = gi - g0
    BY <2>2, <2>3, <2>4
  <2>8. fi \in Int /\ gi \in Int /\ x \in Int
    BY <2>3, <2>5
  <2>9. SUFFICES fj - f0 = gj - g0
    OBVIOUS
  <2> HIDE DEF fi, fj, f0, gi, gj, g0, x
  <2> QED BY <2>6, <2>7, <2>8
<1> HIDE DEF S
<1>3. \A i \in Nat : i \in S
  BY <1>1, <1>2, SetInduction
<1> QED BY <1>3 DEF S

-----------------------------------------------------------------------------
\* The sum of nothing, and its type.
LEMMA TotalType ==
    ASSUME NEW s \in Seq(Int)
    PROVE  /\ Total(s) \in Int
           /\ s \in Seq(Nat) => Total(s) \in Nat
           /\ Len(s) = 0 => Total(s) = 0
<1>1. PICK f : IsSum(f, s) /\ Total(s) = f[Len(s)]
  BY TotalIs
<1>2. Len(s) \in 0..Len(s)
  BY LenProperties
<1> QED BY <1>1, <1>2, SumType, SumSteps

\* The sum of two sequences, one after the other.
LEMMA TotalConcat ==
    ASSUME NEW s \in Seq(Int), NEW t \in Seq(Int)
    PROVE  s \o t \in Seq(Int) /\ Total(s \o t) = Total(s) + Total(t)
<1> DEFINE u == s \o t
<1>1. /\ u \in Seq(Int) /\ Len(u) = Len(s) + Len(t)
      /\ Len(s) \in Nat /\ Len(t) \in Nat
      /\ \A i \in 1..Len(s) : u[i] = s[i]
      /\ \A i \in 1..Len(t) : u[Len(s) + i] = t[i]
  BY ConcatProperties, LenProperties
<1> HIDE DEF u
<1>2. PICK f : IsSum(f, s) /\ Total(s) = f[Len(s)]
  BY TotalIs
<1>3. PICK g : IsSum(g, t) /\ Total(t) = g[Len(t)]
  BY TotalIs
<1>4. PICK h : IsSum(h, u) /\ Total(u) = h[Len(u)]
  BY <1>1, TotalIs
<1>5. f[0] = 0 /\ g[0] = 0 /\ h[0] = 0
  BY <1>1, <1>2, <1>3, <1>4, SumSteps
<1>6. Growth(h, 0, Len(s)) = Growth(f, 0, Len(s))
  <2>1. Agree(u, 0, s, 0, Len(s))
    BY <1>1 DEF Agree
  <2> QED BY <1>1, <1>2, <1>4, <2>1, SumsParallel
<1>7. Growth(h, Len(s), Len(t)) = Growth(g, 0, Len(t))
  <2>1. Agree(u, Len(s), t, 0, Len(t))
    BY <1>1 DEF Agree
  <2> QED BY <1>1, <1>3, <1>4, <2>1, SumsParallel
<1>8. /\ h[Len(s)] \in Int /\ h[Len(u)] \in Int
      /\ f[Len(s)] \in Int /\ g[Len(t)] \in Int
  <2>1. /\ Len(s) \in 0..Len(u) /\ Len(u) \in 0..Len(u)
        /\ Len(s) \in 0..Len(s) /\ Len(t) \in 0..Len(t)
    BY <1>1
  <2> QED BY <1>1, <1>2, <1>3, <1>4, <2>1, SumType
<1>9. 0 + Len(s) = Len(s) /\ 0 + Len(t) = Len(t)
  BY <1>1
<1> QED BY <1>1, <1>2, <1>3, <1>4, <1>5, <1>6, <1>7, <1>8, <1>9 DEF u, Growth

\* The sum of one number.
LEMMA TotalOne ==
    ASSUME NEW n \in Int
    PROVE  << n >> \in Seq(Int) /\ Total(<< n >>) = n
<1>1. << n >> \in Seq(Int) /\ Len(<< n >>) = 1 /\ << n >>[1] = n
  OBVIOUS
<1> DEFINE s == << n >>
<1>2. PICK f : IsSum(f, s) /\ Total(s) = f[Len(s)]
  BY <1>1, TotalIs
<1>3. f[0] = 0 /\ f[0 + 1] = f[0] + s[0 + 1]
  <2>1. 0 \in 0 .. Len(s) - 1
    BY <1>1
  <2>2. s \in Seq(Int)
    BY <1>1
  <2> HIDE DEF s
  <2> QED BY <1>2, <2>1, <2>2, SumSteps
<1>4. 0 + 1 = 1
  OBVIOUS
<1> QED BY <1>1, <1>2, <1>3, <1>4

\* A number more.
LEMMA TotalAppend ==
    ASSUME NEW s \in Seq(Int), NEW n \in Int
    PROVE  Append(s, n) \in Seq(Int) /\ Total(Append(s, n)) = Total(s) + n
<1>1. Append(s, n) = s \o << n >>
  BY AppendIsConcat
<1> QED BY <1>1, TotalOne, TotalConcat

\* The first number, and the rest.
LEMMA TotalTail ==
    ASSUME NEW s \in Seq(Int), s # << >>
    PROVE  /\ Head(s) \in Int /\ Tail(s) \in Seq(Int)
           /\ Total(s) = Head(s) + Total(Tail(s))
<1>1. Head(s) \in Int /\ Tail(s) \in Seq(Int) /\ s = << Head(s) >> \o Tail(s)
  OBVIOUS
<1>2. Total(<< Head(s) >> \o Tail(s)) = Total(<< Head(s) >>) + Total(Tail(s))
  BY <1>1, TotalOne, TotalConcat, Zenon
<1>3. Total(<< Head(s) >>) = Head(s)
  BY <1>1, TotalOne
<1> QED BY <1>1, <1>2, <1>3

\* The last number grows.
LEMMA TotalLast ==
    ASSUME NEW s \in Seq(Int), s # << >>, NEW n \in Int
    PROVE  /\ [s EXCEPT ![Len(s)] = @ + n] \in Seq(Int)
           /\ Total([s EXCEPT ![Len(s)] = @ + n]) = Total(s) + n
<1> DEFINE k == Len(s)
           front == SubSeq(s, 1, k - 1)
           t == [s EXCEPT ![k] = @ + n]
<1>1. k \in Nat /\ k > 0 /\ s[k] \in Int /\ s[k] + n \in Int
  BY EmptySeq, ElementOfSeq, LenProperties
<1>2. /\ front \in Seq(Int)
      /\ s = front \o << s[k] >>
      /\ t = front \o << s[k] + n >>
  <2>1. /\ front \in Seq(Int) /\ Len(front) = k - 1
        /\ \A i \in 1 .. k - 1 : front[i] = s[i]
    <3>1. /\ 1 \in Int /\ k - 1 \in Int /\ k - 1 + 1 = k
          /\ \A i \in 1 .. k - 1 : s[i] \in Int /\ 1 + i - 1 = i
      BY <1>1, ElementOfSeq
    <3>2. /\ front \in Seq(Int)
          /\ Len(front) = IF 1 <= k - 1 THEN k - 1 - 1 + 1 ELSE 0
          /\ \A i \in 1 .. k - 1 - 1 + 1 : front[i] = s[1 + i - 1]
      BY <3>1, SubSeqProperties
    <3> HIDE DEF front, k
    <3> QED BY <1>1, <3>1, <3>2
  <2>2. s \in Seq(Int) /\ Len(s) = k
    OBVIOUS
  <2>3. /\ t \in Seq(Int) /\ Len(t) = k
        /\ \A i \in 1..k : t[i] = IF i = k THEN s[k] + n ELSE s[i]
    BY <1>1, ExceptSeq
  <2> HIDE DEF front, t, k
  <2>4. \A e \in Int :
           /\ front \o << e >> \in Seq(Int) /\ Len(front \o << e >>) = k
           /\ \A i \in 1..k : (front \o << e >>)[i] = IF i = k THEN e ELSE s[i]
    BY <1>1, <2>1
  <2>5. s = front \o << s[k] >>
    BY <1>1, <2>2, <2>4, SeqEqual
  <2>6. t = front \o << s[k] + n >>
    <3> DEFINE e == s[k] + n
    <3>1. e \in Int
      BY <1>1
    <3>2. \A i \in 1..k : t[i] = IF i = k THEN e ELSE s[i]
      BY <2>3
    <3> HIDE DEF e
    <3> DEFINE v == front \o << e >>
    <3>3. v \in Seq(Int) /\ Len(v) = k /\ \A i \in 1..k : v[i] = IF i = k THEN e ELSE s[i]
      BY <2>4, <3>1
    <3> HIDE DEF v
    <3>4. t = v
      BY <2>3, <3>2, <3>3, SeqEqual
    <3> QED BY <3>4 DEF e, v
  <2> QED BY <2>1, <2>5, <2>6
<1>3. t \in Seq(Int)
  BY <1>1, ExceptSeq, LenProperties
<1> HIDE DEF front, t
<1>4. Total(s) = Total(front) + s[k]
  BY <1>1, <1>2, TotalConcat, TotalOne
<1>5. Total(t) = Total(front) + (s[k] + n)
  BY <1>1, <1>2, TotalConcat, TotalOne
<1>6. Total(front) \in Int
  BY <1>2, TotalType
<1> QED BY <1>1, <1>3, <1>4, <1>5, <1>6 DEF t

-----------------------------------------------------------------------------
(* The sum of the first j numbers.                                         *)

Upto(s, j) == Total([i \in 1..j |-> s[i]])

\* The first numbers of a sequence are a sequence.
LEMMA FrontType ==
    ASSUME NEW T, NEW s \in Seq(T), NEW j \in 0..Len(s)
    PROVE  /\ [i \in 1..j |-> s[i]] \in Seq(T)
           /\ Len([i \in 1..j |-> s[i]]) = j
<1>1. j \in Nat /\ \A i \in 1..j : s[i] \in T
  BY ElementOfSeq, LenProperties
<1> QED BY <1>1

\* From nothing to the whole sum, over numbers.
LEMMA UptoEnds ==
    ASSUME NEW s \in Seq(Int)
    PROVE  /\ Upto(s, 0) = 0
           /\ Upto(s, Len(s)) = Total(s)
           /\ \A j \in 0..Len(s) : /\ Upto(s, j) \in Int
                                   /\ s \in Seq(Nat) => Upto(s, j) \in Nat
<1>1. Len(s) \in Nat /\ s = [i \in 1..Len(s) |-> s[i]]
  BY LenProperties
<1>2. Upto(s, Len(s)) = Total(s)
  BY <1>1, Zenon DEF Upto
<1>3. ASSUME NEW j \in 0..Len(s)
      PROVE  /\ Upto(s, j) \in Int
             /\ s \in Seq(Nat) => Upto(s, j) \in Nat
  BY FrontType, TotalType DEF Upto
<1>4. Upto(s, 0) = 0
  <2> DEFINE e == [i \in 1..0 |-> s[i]]
  <2>1. e \in Seq(Int) /\ Len(e) = 0
    BY <1>1, FrontType
  <2> QED BY <2>1, TotalType DEF Upto
<1> QED BY <1>2, <1>3, <1>4

\* A sequence that goes on.
LEMMA UptoAppend ==
    ASSUME NEW s \in Seq(Int), NEW n \in Int
    PROVE  /\ \A j \in 0..Len(s) : Upto(Append(s, n), j) = Upto(s, j)
           /\ Upto(Append(s, n), Len(s) + 1) = Total(s) + n
<1> DEFINE t == Append(s, n)
<1>1. /\ Len(s) \in Nat /\ Len(t) = Len(s) + 1
      /\ \A i \in 1..Len(s) : t[i] = s[i]
  BY LenProperties, AppendProperties
<1>2. t \in Seq(Int) /\ Total(t) = Total(s) + n
  BY TotalAppend
<1> HIDE DEF t
<1>3. ASSUME NEW j \in 0..Len(s) PROVE Upto(t, j) = Upto(s, j)
  <2>1. [i \in 1..j |-> t[i]] = [i \in 1..j |-> s[i]]
    BY <1>1
  <2> QED BY <2>1, Zenon DEF Upto
<1>4. Upto(t, Len(s) + 1) = Total(s) + n
  BY <1>1, <1>2, UptoEnds
<1> QED BY <1>3, <1>4 DEF t

\* A sequence without its first number.
LEMMA UptoTail ==
    ASSUME NEW s \in Seq(Int), s # << >>, NEW j \in 0..(Len(s) - 1)
    PROVE  Upto(s, j + 1) = Head(s) + Upto(Tail(s), j)
<1> DEFINE u == [i \in 1..(j + 1) |-> s[i]]
           v == [i \in 1..j |-> Tail(s)[i]]
<1>1. /\ Len(s) \in Nat /\ Tail(s) \in Seq(Int) /\ Len(Tail(s)) = Len(s) - 1
      /\ \A i \in 1..(Len(s) - 1) : Tail(s)[i] = s[i + 1]
      /\ Head(s) = s[1] /\ s[1] \in Int
  OBVIOUS
<1>2. /\ j + 1 \in 0..Len(s) /\ j \in 0..Len(Tail(s))
      /\ j \in Nat
  BY <1>1
<1>3. u \in Seq(Int) /\ Len(u) = j + 1 /\ v \in Seq(Int) /\ Len(v) = j
  BY <1>1, <1>2, FrontType
<1>4. u # << >> /\ Head(u) = s[1]
  BY <1>2, <1>3
<1>5. Tail(u) = v
  <2>1. /\ Tail(u) \in Seq(Int) /\ Len(Tail(u)) = j
        /\ \A i \in 1..j : Tail(u)[i] = u[i + 1]
    <3> HIDE DEF u
    <3> QED BY <1>2, <1>3, <1>4, HeadTailProperties
  <2>2. \A i \in 1..j : u[i + 1] = s[i + 1] /\ v[i] = Tail(s)[i]
    BY <1>2
  <2>3. \A i \in 1..j : Tail(s)[i] = s[i + 1]
    BY <1>1, <1>2
  <2> HIDE DEF u, v
  <2> QED BY <2>1, <2>2, <2>3, <1>3, SeqEqual
<1>6. Total(u) = Head(u) + Total(Tail(u))
  BY <1>3, <1>4, TotalTail
<1> QED BY <1>1, <1>4, <1>5, <1>6 DEF Upto

\* A sequence whose last number grows.
LEMMA UptoLast ==
    ASSUME NEW s \in Seq(Int), s # << >>, NEW n \in Int,
           NEW j \in 0..(Len(s) - 1)
    PROVE  Upto([s EXCEPT ![Len(s)] = @ + n], j) = Upto(s, j)
<1> DEFINE t == [s EXCEPT ![Len(s)] = @ + n]
<1>1. Len(s) \in Nat /\ Len(s) # 0
  BY EmptySeq, LenProperties
<1>2. \A i \in 1..j : t[i] = s[i]
  <2>1. \A i \in 1..j : i \in 1..Len(s) /\ i # Len(s)
    BY <1>1
  <2>2. Len(s) \in 1..Len(s)
    BY <1>1
  <2>3. s[Len(s)] + n \in Int
    BY <2>2, ElementOfSeq
  <2>4. \A i \in 1..Len(s) : t[i] = IF i = Len(s) THEN s[Len(s)] + n ELSE s[i]
    BY <2>2, <2>3, ExceptSeq
  <2> HIDE DEF t
  <2> QED BY <2>1, <2>4
<1> HIDE DEF t
<1>3. [i \in 1..j |-> t[i]] = [i \in 1..j |-> s[i]]
  BY <1>2
<1>4. Upto(t, j) = Upto(s, j)
  BY <1>3, Zenon DEF Upto
<1> QED BY <1>4 DEF t

\* One number more.
LEMMA UptoNext ==
    ASSUME NEW s \in Seq(Int), NEW j \in 0..(Len(s) - 1)
    PROVE  /\ s[j + 1] \in Int /\ Upto(s, j) \in Int
           /\ Upto(s, j + 1) = Upto(s, j) + s[j + 1]
<1> DEFINE u == [i \in 1..j |-> s[i]]
           v == [i \in 1..(j + 1) |-> s[i]]
           e == s[j + 1]
<1>1. /\ Len(s) \in Nat /\ j \in Nat /\ j \in 0..Len(s) /\ j + 1 \in 0..Len(s)
      /\ j + 1 \in 1..Len(s)
  BY LenProperties
<1>2. e \in Int
  BY <1>1, ElementOfSeq
<1>3. u \in Seq(Int) /\ Len(u) = j /\ v \in Seq(Int) /\ Len(v) = j + 1
  BY <1>1, FrontType
<1>4. \A i \in 1..(j + 1) : v[i] = IF i = j + 1 THEN e ELSE u[i]
  BY <1>1
<1> HIDE DEF u, v, e
<1>5. /\ Append(u, e) \in Seq(Int) /\ Len(Append(u, e)) = j + 1
      /\ \A i \in 1..j : Append(u, e)[i] = u[i]
      /\ Append(u, e)[j + 1] = e
  BY <1>2, <1>3, AppendProperties
<1>6. \A i \in 1..(j + 1) : v[i] = Append(u, e)[i]
  BY <1>1, <1>4, <1>5
<1>7. v = Append(u, e)
  BY <1>3, <1>5, <1>6, SeqEqual
<1>8. Total(v) = Total(u) + e
  BY <1>2, <1>3, <1>7, TotalAppend
<1> QED BY <1>1, <1>2, <1>8, UptoEnds DEF Upto, u, v, e

\* Numbers that are all greater by c.
LEMMA TotalShift ==
    ASSUME NEW s \in Seq(Int), NEW t \in Seq(Int), NEW c \in Int,
           Len(s) = Len(t), \A i \in 1..Len(s) : t[i] = s[i] + c
    PROVE  Total(t) = Total(s) + Len(s) * c
<1> DEFINE S == {j \in Nat : j <= Len(s) => Upto(t, j) = Upto(s, j) + j * c}
<1>1. 0 \in S
  <2>1. Upto(t, 0) = 0 /\ Upto(s, 0) = 0
    BY UptoEnds
  <2> QED BY <2>1
<1>2. ASSUME NEW j \in Nat, j \in S PROVE j + 1 \in S
  <2> SUFFICES ASSUME j + 1 <= Len(s)
               PROVE  Upto(t, j + 1) = Upto(s, j + 1) + (j + 1) * c
    OBVIOUS
  <2>1. j \in 0..(Len(s) - 1) /\ j + 1 \in 1..Len(s) /\ j <= Len(s)
    BY LenProperties
  <2>2. Upto(t, j) = Upto(s, j) + j * c
    BY <1>2, <2>1
  <2>3. /\ s[j + 1] \in Int /\ Upto(s, j) \in Int
        /\ Upto(s, j + 1) = Upto(s, j) + s[j + 1]
    BY <2>1, UptoNext
  <2>4. Upto(t, j + 1) = Upto(t, j) + t[j + 1]
    BY <2>1, UptoNext
  <2>5. t[j + 1] = s[j + 1] + c
    BY <2>1
  <2>6. (j + 1) * c = j * c + c /\ j * c \in Int
    OBVIOUS
  <2> DEFINE a == Upto(s, j)
             e == s[j + 1]
             m == j * c
  <2>7. a \in Int /\ e \in Int /\ m \in Int
    BY <2>3, <2>6
  <2>8. Upto(t, j + 1) = (a + m) + (e + c)
    BY <2>2, <2>4, <2>5
  <2>9. Upto(s, j + 1) + (j + 1) * c = (a + e) + (m + c)
    BY <2>3, <2>6
  <2> HIDE DEF a, e, m
  <2> QED BY <2>7, <2>8, <2>9
<1> HIDE DEF S
<1>3. \A j \in Nat : j \in S
  BY <1>1, <1>2, SetInduction
<1>4. Len(s) \in Nat /\ Len(s) \in S
  BY <1>3, LenProperties
<1> QED BY <1>4, UptoEnds DEF S

\* A sum lies between the bounds of its numbers.
LEMMA TotalBetween ==
    ASSUME NEW s \in Seq(Int), NEW c \in Int, \A i \in 1..Len(s) : s[i] \in 0..c
    PROVE  0 <= Total(s) /\ Total(s) <= Len(s) * c
<1> DEFINE S == {j \in Nat : j <= Len(s) => 0 <= Upto(s, j) /\ Upto(s, j) <= j * c}
<1>1. 0 \in S
  <2>1. Upto(s, 0) = 0
    BY UptoEnds
  <2> QED BY <2>1
<1>2. ASSUME NEW j \in Nat, j \in S PROVE j + 1 \in S
  <2> SUFFICES ASSUME j + 1 <= Len(s)
               PROVE  0 <= Upto(s, j + 1) /\ Upto(s, j + 1) <= (j + 1) * c
    OBVIOUS
  <2> DEFINE a == Upto(s, j)
             e == s[j + 1]
             m == j * c
  <2>1. j \in 0..(Len(s) - 1) /\ j + 1 \in 1..Len(s) /\ j <= Len(s)
    BY LenProperties
  <2>2. 0 <= a /\ a <= m
    BY <1>2, <2>1
  <2>3. e \in Int /\ a \in Int /\ Upto(s, j + 1) = a + e
    BY <2>1, UptoNext
  <2>4. 0 <= e /\ e <= c
    BY <2>1
  <2>5. (j + 1) * c = m + c /\ m \in Int
    OBVIOUS
  <2> HIDE DEF a, e, m
  <2> QED BY <2>2, <2>3, <2>4, <2>5
<1> HIDE DEF S
<1>3. \A j \in Nat : j \in S
  BY <1>1, <1>2, SetInduction
<1>4. Len(s) \in Nat /\ Len(s) \in S
  BY <1>3, LenProperties
<1> QED BY <1>4, UptoEnds DEF S

-----------------------------------------------------------------------------
(* How many of a sequence are in a set.                                    *)

Marks(s, S) == [k \in DOMAIN s |-> IF s[k] \in S THEN 1 ELSE 0]

\* A mark for each, 0 or 1.
LEMMA MarksAre ==
    ASSUME NEW T, NEW s \in Seq(T), NEW S
    PROVE  /\ Marks(s, S) \in Seq(Int) /\ Len(Marks(s, S)) = Len(s)
           /\ HowMany(s, S) = Total(Marks(s, S))
           /\ \A k \in 1..Len(s) : Marks(s, S)[k] = IF s[k] \in S THEN 1 ELSE 0
<1>1. Len(s) \in Nat /\ DOMAIN s = 1..Len(s)
  BY LenProperties
<1>2. Marks(s, S) = [k \in 1..Len(s) |-> IF s[k] \in S THEN 1 ELSE 0]
  BY <1>1 DEF Marks
<1>3. HowMany(s, S) = Total(Marks(s, S))
  BY DEF HowMany, Marks
<1> QED BY <1>1, <1>2, <1>3

\* It is at most all of them, and none if none is in the set.
LEMMA HowManyType ==
    ASSUME NEW T, NEW s \in Seq(T), NEW S
    PROVE  /\ HowMany(s, S) \in Nat /\ HowMany(s, S) <= Len(s)
           /\ (\A k \in 1..Len(s) : s[k] \notin S) => HowMany(s, S) = 0
<1> DEFINE m == Marks(s, S)
           n == HowMany(s, S)
<1>1. /\ m \in Seq(Int) /\ Len(m) = Len(s) /\ n = Total(m) /\ Len(s) \in Nat
      /\ \A k \in 1..Len(s) : m[k] = IF s[k] \in S THEN 1 ELSE 0
  BY MarksAre, LenProperties
<1> HIDE DEF m, n
<1>2. n \in Int
  BY <1>1, TotalType
<1>3. 0 <= n /\ n <= Len(s)
  <2>1. 1 \in Int /\ \A k \in 1..Len(m) : m[k] \in 0..1
    BY <1>1
  <2>2. 0 <= Total(m) /\ Total(m) <= Len(m) * 1
    BY <1>1, <2>1, TotalBetween
  <2> QED BY <1>1, <2>2
<1>4. ASSUME \A k \in 1..Len(s) : s[k] \notin S PROVE n = 0
  <2>1. 0 \in Int /\ \A k \in 1..Len(m) : m[k] \in 0..0
    BY <1>1, <1>4
  <2>2. 0 <= Total(m) /\ Total(m) <= Len(m) * 0
    BY <1>1, <2>1, TotalBetween
  <2> QED BY <1>1, <1>2, <2>2
<1> QED BY <1>2, <1>3, <1>4 DEF n

\* Two sequences together.
LEMMA HowManyConcat ==
    ASSUME NEW T, NEW s \in Seq(T), NEW r \in Seq(T), NEW S
    PROVE  HowMany(s \o r, S) = HowMany(s, S) + HowMany(r, S)
<1> DEFINE u == s \o r
<1>1. /\ u \in Seq(T) /\ Len(u) = Len(s) + Len(r) /\ Len(s) \in Nat /\ Len(r) \in Nat
      /\ \A k \in 1..Len(s) : u[k] = s[k]
      /\ \A k \in 1..Len(r) : u[Len(s) + k] = r[k]
  BY ConcatProperties, LenProperties
<1> HIDE DEF u
<1> DEFINE a == Marks(s, S)
           b == Marks(r, S)
           c == Marks(u, S)
<1>2. /\ a \in Seq(Int) /\ Len(a) = Len(s) /\ HowMany(s, S) = Total(a)
      /\ \A k \in 1..Len(s) : a[k] = IF s[k] \in S THEN 1 ELSE 0
  BY MarksAre
<1>3. /\ b \in Seq(Int) /\ Len(b) = Len(r) /\ HowMany(r, S) = Total(b)
      /\ \A k \in 1..Len(r) : b[k] = IF r[k] \in S THEN 1 ELSE 0
  BY MarksAre
<1>4. /\ c \in Seq(Int) /\ Len(c) = Len(u) /\ HowMany(u, S) = Total(c)
      /\ \A k \in 1..Len(u) : c[k] = IF u[k] \in S THEN 1 ELSE 0
  BY <1>1, MarksAre
<1> HIDE DEF a, b, c
<1>5. /\ a \o b \in Seq(Int) /\ Len(a \o b) = Len(a) + Len(b)
      /\ \A k \in 1..Len(a) : (a \o b)[k] = a[k]
      /\ \A k \in 1..Len(b) : (a \o b)[Len(a) + k] = b[k]
  <2>1. a \in Seq(Int) /\ b \in Seq(Int)
    BY <1>2, <1>3
  <2> QED BY <2>1, ConcatProperties, LenProperties
<1>6. \A k \in 1..Len(u) : c[k] = (a \o b)[k]
  <2> TAKE k \in 1..Len(u)
  <2>1. CASE k <= Len(s)
    <3>1. k \in 1..Len(s)
      BY <1>1, <2>1
    <3> QED BY <1>1, <1>2, <1>4, <1>5, <3>1
  <2>2. CASE k > Len(s)
    <3> DEFINE j == k - Len(s)
    <3>1. j \in 1..Len(r) /\ k = Len(s) + j
      BY <1>1, <2>2
    <3> HIDE DEF j
    <3>2. u[k] = r[j] /\ (a \o b)[k] = b[j]
      BY <1>1, <1>2, <1>3, <1>5, <3>1
    <3> QED BY <1>3, <1>4, <3>1, <3>2
  <2>3. k <= Len(s) \/ k > Len(s)
    BY <1>1
  <2> QED BY <2>1, <2>2, <2>3
<1>7. c = a \o b
  <2>1. Len(c) = Len(a \o b)
    BY <1>1, <1>2, <1>3, <1>4, <1>5
  <2> QED BY <1>4, <1>5, <1>6, <2>1, SeqEqual
<1>8. Total(a \o b) = Total(a) + Total(b)
  BY <1>2, <1>3, TotalConcat
<1> QED BY <1>2, <1>3, <1>4, <1>7, <1>8 DEF u

\* A sequence of one.
LEMMA HowManyOne ==
    ASSUME NEW x, NEW S
    PROVE  HowMany(<< x >>, S) = IF x \in S THEN 1 ELSE 0
<1>1. << x >> \in Seq({x}) /\ Len(<< x >>) = 1 /\ << x >>[1] = x
  OBVIOUS
<1> DEFINE s == << x >>
           m == Marks(s, S)
           e == IF x \in S THEN 1 ELSE 0
<1>2. /\ m \in Seq(Int) /\ Len(m) = 1 /\ HowMany(s, S) = Total(m)
      /\ \A k \in 1..1 : m[k] = IF s[k] \in S THEN 1 ELSE 0
  <2>1. s \in Seq({x}) /\ Len(s) = 1
    BY <1>1
  <2> HIDE DEF s, m
  <2>2. /\ Marks(s, S) \in Seq(Int) /\ Len(Marks(s, S)) = Len(s)
        /\ HowMany(s, S) = Total(Marks(s, S))
        /\ \A k \in 1..Len(s) : Marks(s, S)[k] = IF s[k] \in S THEN 1 ELSE 0
    BY <2>1, MarksAre
  <2> QED BY <2>1, <2>2 DEF m
<1>3. m[1] = e /\ e \in Int
  BY <1>1, <1>2
<1>4. << e >> \in Seq(Int) /\ Len(<< e >>) = 1 /\ << e >>[1] = e
  BY <1>3
<1> HIDE DEF s, m, e
<1>5. \A k \in 1..1 : m[k] = << e >>[k]
  BY <1>3, <1>4
<1>6. m = << e >>
  BY <1>2, <1>4, <1>5, SeqEqual
<1>7. Total(<< e >>) = e
  BY <1>3, TotalOne
<1>8. HowMany(s, S) = e
  BY <1>2, <1>6, <1>7
<1> QED BY <1>8 DEF s, e

\* One more at the end.
LEMMA HowManyAppend ==
    ASSUME NEW T, NEW s \in Seq(T), NEW x \in T, NEW S
    PROVE  HowMany(Append(s, x), S) = HowMany(s, S) + (IF x \in S THEN 1 ELSE 0)
<1>1. Append(s, x) = s \o << x >> /\ << x >> \in Seq(T)
  BY AppendIsConcat
<1>2. HowMany(s \o << x >>, S) = HowMany(s, S) + HowMany(<< x >>, S)
  BY <1>1, HowManyConcat
<1>3. HowMany(<< x >>, S) = IF x \in S THEN 1 ELSE 0
  BY HowManyOne
<1> QED BY <1>1, <1>2, <1>3, Zenon

\* The first, and the rest.
LEMMA HowManyTail ==
    ASSUME NEW T, NEW s \in Seq(T), s # << >>, NEW S
    PROVE  HowMany(s, S) = (IF Head(s) \in S THEN 1 ELSE 0) + HowMany(Tail(s), S)
<1>1. Head(s) \in T /\ Tail(s) \in Seq(T) /\ s = << Head(s) >> \o Tail(s)
  OBVIOUS
<1>2. << Head(s) >> \in Seq(T)
  BY <1>1
<1>3. HowMany(<< Head(s) >> \o Tail(s), S) = HowMany(<< Head(s) >>, S) + HowMany(Tail(s), S)
  BY <1>1, <1>2, HowManyConcat
<1> QED BY <1>1, <1>3, HowManyOne, Zenon
=============================================================================
