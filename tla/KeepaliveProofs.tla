---------------------------- MODULE KeepaliveProofs ----------------------------
(***************************************************************************)
(* Theorems about Keepalive for every interval, start of the clock and     *)
(* length of the session.                                                  *)
(***************************************************************************)
EXTENDS Keepalive, TLAPS

TypeInv ==
    /\ phase \in {"select", "poll", "read", "write"}
    /\ slept \in BOOLEAN /\ pending \in BOOLEAN
    /\ now \in 0..MaxTime /\ heard \in 0..now /\ appended \in 0..now
    /\ steps \in Nat
    /\ slept => phase = "select"

\* The clock stays above 0 and below where it would wrap within an interval.
RangeInv ==
    /\ clock \in Nat \ {0} /\ clock + (MaxTime - now) + Interval < Word
    /\ lastTime \in Nat \ {0} /\ lastTime + Interval < Word

BaseInv == TypeInv /\ RangeInv

\* now - last_time as the clock has it, negative after a step back.
Age == clock - lastTime

\* The unsigned difference is the age, or else far more than the interval.
LEMMA ElapsedIs ==
    ASSUME BaseInv
    PROVE  /\ Age \in Int
           /\ Age >= 0 => Elapsed = Age
           /\ Age < 0 => Elapsed > Interval
<1>1. /\ clock \in Nat /\ lastTime \in Nat /\ Word \in Nat /\ Interval \in Nat
      /\ MaxTime - now \in Nat
      /\ clock > 0 /\ clock + (MaxTime - now) + Interval < Word
      /\ lastTime + Interval < Word
  BY TimeAssumption DEF BaseInv, TypeInv, RangeInv
<1>2. CASE Age >= 0
  <2>1. Age \in 0..(Word - 1)
    BY <1>1, <1>2 DEF Age
  <2>2. Age % Word = Age
    BY <1>1, <2>1
  <2> QED BY <1>1, <1>2, <2>2 DEF Age, Elapsed
<1>3. CASE Age < 0
  <2>1. Age + Word \in 0..(Word - 1) /\ Age + Word > Interval
    BY <1>1, <1>3 DEF Age
  <2>2. Age % Word = Age + Word
    <3> DEFINE r == Age % Word
               q == Age \div Word
    <3>1. Age \in Int /\ Word \in Nat \ {0}
      BY <1>1, <2>1 DEF Age
    <3>2. q \in Int /\ r \in 0..(Word - 1) /\ Age = Word * q + r
      BY <3>1
    <3> HIDE DEF q, r
    <3>3. Word * q < 0 /\ Word * q > -(2 * Word)
      BY <1>3, <2>1, <3>1, <3>2
    <3>4. q = -1
      <4> DEFINE p == Word * q
      <4>1. p \in Int /\ p < 0 /\ p > -(2 * Word)
        BY <3>1, <3>2, <3>3
      <4>2. q >= 0 => p >= 0
        BY <3>1, <3>2
      <4>3. q <= -2 => p <= -(2 * Word)
        BY <3>1, <3>2
      <4> HIDE DEF p
      <4> QED BY <3>1, <3>2, <4>1, <4>2, <4>3
    <3>5. Word * q = -Word
      BY <3>1, <3>4
    <3>6. r = Age + Word
      BY <3>1, <3>2, <3>5
    <3> QED BY <3>6 DEF r
  <2> QED BY <1>1, <1>3, <2>1, <2>2 DEF Age, Elapsed
<1> QED BY <1>1, <1>2, <1>3 DEF Age

LEMMA BaseInit == Init => BaseInv
<1> SUFFICES ASSUME Init PROVE BaseInv
  OBVIOUS
<1>1. now \in 0..MaxTime /\ heard \in 0..now /\ appended \in 0..now
  BY TimeAssumption DEF Init
<1>2. phase = "read" /\ slept = FALSE /\ pending = TRUE /\ steps = 0
  BY DEF Init
<1>3. RangeInv
  BY TimeAssumption DEF Init, RangeInv
<1> QED BY <1>1, <1>2, <1>3 DEF BaseInv, TypeInv

LEMMA BaseStep ==
    ASSUME BaseInv, [Next]_vars
    PROVE  BaseInv'
<1> USE DEF BaseInv, TypeInv, RangeInv, timeVars, sendVars
<1>1. ASSUME Append, UNCHANGED << now, clock, steps, slept, heard >>,
             slept' => phase' = "select",
             phase' \in {"select", "poll", "read", "write"}
      PROVE  BaseInv'
  BY <1>1, TimeAssumption DEF Append, Refreshed
<1>2. CASE Wait
  BY <1>2, TimeAssumption DEF Wait
<1>3. CASE Select
  BY <1>3 DEF Select
<1>4. CASE Poll
  <2>1. ~slept /\ phase' = "read"
    BY <1>4 DEF Poll
  <2> QED BY <1>1, <1>4, <2>1 DEF Poll
<1>5. CASE Read
  <2>1. ~slept /\ phase' = "write"
    BY <1>5 DEF Read
  <2> QED BY <1>1, <1>5, <2>1 DEF Read, Received
<1>6. CASE Write
  <2>1. /\ phase' = "select" /\ UNCHANGED << timeVars, lastTime, appended >>
        /\ pending' \in BOOLEAN /\ heard' \in {heard, now}
    BY <1>6 DEF Write
  <2> QED BY <2>1
<1>7. CASE Window
  BY <1>7 DEF Window
<1>8. ASSUME NEW d \in Int, SetClock(d)
      PROVE  BaseInv'
  <2>1. /\ clock' = clock + d /\ clock' > 0 /\ steps' = steps + 1
        /\ clock' + MaxTime + Interval < Word
        /\ UNCHANGED << phase, now, slept, sendVars, heard >>
    BY <1>8 DEF SetClock
  <2> QED BY <2>1, TimeAssumption
<1>9. CASE UNCHANGED vars
  BY <1>9 DEF vars
<1>10. /\ \A d \in ClockBack : d \in Int /\ -d \in Int
       /\ \A d \in ClockAhead : d \in Int
  BY TimeAssumption
<1> QED
  BY <1>2, <1>3, <1>4, <1>5, <1>6, <1>7, <1>8, <1>9, <1>10 DEF Next

-----------------------------------------------------------------------------
(* When the client was last heard.                                         *)

\* What the settings of the clock may have cost.
Delay == (Interval + 1) * steps

\* How long ago the last write may be when nothing waits and the clock runs: the
\* period of this select() counts from the moment it is spent until the next
\* poll.
Spent == phase = "poll" \/ slept

Allowed == IF Spent THEN Interval + 1 ELSE Interval

Silence == now - heard

\* The last write is not longer ago than the last packet, but for what the
\* settings cost; behind a clock that is behind last_time is a setting.
HeardInv ==
    /\ Age < 0 => steps > 0
    /\ ~pending =>
          /\ Silence <= Delay + Allowed
          /\ Age >= 0 => Silence <= Delay + Age
          /\ Age < 0 => Silence <= Delay + (IF Spent THEN 0 ELSE -1)

\* The numbers, without products to reason about.
LEMMA DelayIs ==
    ASSUME BaseInv
    PROVE  /\ Delay \in Nat /\ Silence \in Nat /\ Age \in Int
           /\ Interval \in Nat /\ Interval > 0
           /\ steps > 0 => Delay >= 1
           /\ (Interval + 1) * (steps + 1) = Delay + Interval + 1
<1>1. steps \in Nat /\ Interval \in Nat /\ Interval > 0
  BY TimeAssumption DEF BaseInv, TypeInv
<1>2. Delay \in Nat /\ (Interval + 1) * (steps + 1) = Delay + Interval + 1
  BY <1>1 DEF Delay
<1>3. ASSUME steps > 0 PROVE Delay >= 1
  <2>1. steps - 1 \in Nat
    BY <1>1, <1>3
  <2>2. (Interval + 1) * (steps - 1) \in Nat
    BY <1>1, <2>1
  <2>3. Delay = (Interval + 1) * (steps - 1) + Interval + 1
    BY <1>1 DEF Delay
  <2> QED BY <1>1, <2>2, <2>3
<1>4. Silence \in Nat /\ Age \in Int
  BY DEF BaseInv, TypeInv, RangeInv, Silence, Age
<1> QED BY <1>1, <1>2, <1>3, <1>4

\* A step after which something waits.
LEMMA HeardPending ==
    ASSUME BaseInv, HeardInv, Append, UNCHANGED << clock, steps >>
    PROVE  HeardInv'
<1>1. pending' = TRUE /\ Age' = 0
  BY DEF Append, Refreshed, BaseInv, RangeInv, Age
<1> QED BY <1>1 DEF HeardInv

LEMMA HeardStep ==
    ASSUME BaseInv, BaseInv', HeardInv, [Next]_vars
    PROVE  HeardInv'
<1> USE DelayIs DEF HeardInv, Allowed, Spent, timeVars, sendVars
<1>1. ASSUME UNCHANGED << now, clock, steps, lastTime, heard >>
      PROVE  Age' = Age /\ Silence' = Silence /\ Delay' = Delay
  BY <1>1 DEF Age, Silence, Delay
<1>2. CASE Wait
  <2>1. /\ Age' = Age + 1 /\ Silence' = Silence + 1 /\ Delay' = Delay
        /\ UNCHANGED << pending, steps >>
        /\ ~Spent /\ Spent'
    <3>1. now \in Int /\ heard \in Int /\ clock \in Int /\ lastTime \in Int
      BY DEF BaseInv, TypeInv, RangeInv
    <3> QED BY <1>2, <3>1 DEF Wait, Age, Silence, Delay
  <2> QED BY <2>1
<1>3. CASE Select
  <2>1. /\ UNCHANGED << now, clock, steps, lastTime, heard, pending >>
        /\ Spent'
    BY <1>3 DEF Select
  <2> QED BY <1>1, <2>1
<1>4. CASE Poll
  <2>1. lastTime > 0
    BY DEF BaseInv, RangeInv
  <2>2. CASE Elapsed > Interval
    <3>1. Append /\ UNCHANGED << clock, steps >>
      BY <1>4, <2>1, <2>2 DEF Poll
    <3> QED BY <3>1, HeardPending
  <2>3. CASE ~(Elapsed > Interval)
    <3>1. /\ UNCHANGED << now, clock, steps, lastTime, heard, pending >>
          /\ phase' = "read" /\ ~Spent'
      <4>1. ~slept
        BY <1>4 DEF Poll, BaseInv, TypeInv
      <4> QED BY <1>4, <2>3, <4>1 DEF Poll
    <3>2. Age >= 0 /\ Age <= Interval
      BY <2>3, ElapsedIs
    <3> QED BY <1>1, <3>1, <3>2
  <2> QED BY <2>2, <2>3
<1>5. CASE Read
  <2>1. CASE Append
    BY <1>5, <2>1, HeardPending DEF Read
  <2>2. CASE UNCHANGED << lastTime, pending >>
    <3>1. /\ UNCHANGED << now, clock, steps, lastTime, heard, pending, slept >>
          /\ phase = "read" /\ phase' = "write"
      BY <1>5, <2>2 DEF Read
    <3> QED BY <1>1, <3>1
  <2> QED BY <1>5, <2>1, <2>2 DEF Read, Received
<1>6. CASE Write
  <2>1. /\ UNCHANGED << now, clock, steps, lastTime, slept >>
        /\ phase = "write" /\ phase' = "select"
    BY <1>6 DEF Write
  <2>2. CASE canWr
    <3>1. Age' = Age /\ Delay' = Delay /\ Silence' = 0
      <4>1. heard' = now /\ now \in Int
        BY <1>6, <2>2 DEF Write, BaseInv, TypeInv
      <4> QED BY <2>1, <4>1 DEF Age, Delay, Silence
    <3> QED BY <2>1, <3>1
  <2>3. CASE ~canWr
    <3>1. UNCHANGED << pending, heard >>
      BY <1>6, <2>3 DEF Write
    <3> QED BY <1>1, <2>1, <3>1
  <2> QED BY <2>2, <2>3
<1>7. CASE Window
  <2>1. UNCHANGED << phase, now, slept, clock, steps, lastTime, heard, pending >>
    BY <1>7 DEF Window
  <2> QED BY <1>1, <2>1
<1>8. ASSUME NEW d \in Int, SetClock(d)
      PROVE  HeardInv'
  <2>1. steps' = steps + 1 /\ UNCHANGED << phase, now, slept, pending, heard >>
    BY <1>8 DEF SetClock
  <2>2. Silence' = Silence /\ Delay' = Delay + Interval + 1 /\ Spent' = Spent
    BY <2>1 DEF Silence, Delay
  <2>3. steps' > 0 /\ Age' \in Int
    <3>1. clock' \in Int /\ lastTime' \in Int
      BY DEF BaseInv, RangeInv
    <3> QED BY <2>1, <3>1 DEF BaseInv, TypeInv, Age
  <2>4. ~pending => /\ Silence <= Delay + Interval + 1
                    /\ ~Spent => Silence <= Delay + Interval
    OBVIOUS
  <2> HIDE DEF Spent
  <2> QED BY <2>1, <2>2, <2>3, <2>4
<1>9. CASE UNCHANGED vars
  <2>1. UNCHANGED << phase, now, slept, clock, steps, lastTime, heard, pending >>
    BY <1>9 DEF vars
  <2> QED BY <1>1, <2>1
<1>10. /\ \A d \in ClockBack : d \in Int /\ -d \in Int
       /\ \A d \in ClockAhead : d \in Int
  BY TimeAssumption
<1> QED
  BY <1>2, <1>3, <1>4, <1>5, <1>6, <1>7, <1>8, <1>9, <1>10 DEF Next

\* The client is heard from within its interval and one poll period, whenever
\* the peer lets it write, and each setting of the clock delays that by no more
\* than the same again, by however much the clock is set.
THEOREM HeardAlways == Spec => []HeardInTime
<1>1. Init => BaseInv /\ HeardInv
  <2>1. Init => Age = 0 /\ pending = TRUE
    BY TimeAssumption DEF Init, Age
  <2> QED BY <2>1, BaseInit DEF HeardInv
<1>2. BaseInv /\ HeardInv /\ [Next]_vars => (BaseInv /\ HeardInv)'
  BY BaseStep, HeardStep
<1>3. BaseInv /\ HeardInv => HeardInTime
  BY DelayIs DEF HeardInv, Allowed, Silence, HeardInTime
<1> QED
  BY <1>1, <1>2, <1>3, PTL DEF Spec

-----------------------------------------------------------------------------
(* What is sent while nobody sets the clock.                               *)

\* Until it is set, the clock runs with the true time, and last_time is when
\* the last packet was appended.
SteadyInv ==
    steps = 0 => clock = Start + now /\ lastTime = Start + appended

LEMMA SteadyStep ==
    ASSUME BaseInv, SteadyInv, [Next]_vars
    PROVE  SteadyInv'
<1> USE DEF timeVars, sendVars
<1>1. steps \in Nat /\ now \in Nat /\ Start \in Nat
  BY TimeAssumption DEF BaseInv, TypeInv
<1>2. CASE Append /\ UNCHANGED << now, clock, steps >>
  BY <1>2 DEF Append, Refreshed, SteadyInv
<1>3. CASE UNCHANGED << now, clock, steps, lastTime, appended >>
  BY <1>3 DEF SteadyInv
<1>4. CASE Wait
  BY <1>1, <1>4 DEF Wait, SteadyInv
<1>5. ASSUME NEW d, SetClock(d) PROVE SteadyInv'
  BY <1>1, <1>5 DEF SetClock, SteadyInv
<1>6. CASE Select \/ Poll \/ Read \/ Write \/ Window \/ UNCHANGED vars
  BY <1>2, <1>3, <1>6 DEF Select, Poll, Read, Received, Write, Window, vars
<1> QED BY <1>4, <1>5, <1>6 DEF Next

\* As long as nobody has set the clock, a ping is appended only after more than
\* the interval without a packet.
THEOREM PingWhileSteady == Spec => PingOnlyIdle
<1>1. Init => BaseInv /\ SteadyInv
  BY BaseInit, TimeAssumption DEF Init, SteadyInv
<1>2. BaseInv /\ SteadyInv /\ [Next]_vars => (BaseInv /\ SteadyInv)'
  BY BaseStep, SteadyStep
<1>3. ASSUME BaseInv, SteadyInv, steps = 0, Next, pings' # pings
      PROVE  now - appended > Interval
  <2>1. Poll
    BY <1>3 DEF Next, Wait, Select, Read, Write, Window, SetClock,
                sendVars, Append
  <2>2. Elapsed > Interval
    BY <1>3, <2>1 DEF Poll, sendVars
  <2>3. Age = now - appended /\ Age >= 0
    BY <1>3, TimeAssumption DEF BaseInv, TypeInv, SteadyInv, Age
  <2> QED
    BY <1>3, <2>2, <2>3, ElapsedIs
<1>4. BaseInv /\ SteadyInv /\ [Next]_vars
      => [steps = 0 /\ pings' # pings => now - appended > Interval]_vars
  BY <1>3
<1> QED
  BY <1>1, <1>2, <1>4, PTL DEF Spec, PingOnlyIdle

-----------------------------------------------------------------------------
(* How many pings there are, also when the clock is set.                   *)

\* Room for one ping.
Slot == Interval + 1

\* Each ping has used up a slot of true time or a setting of the clock.  As long
\* as the clock is off by what it was not when the last packet was appended,
\* one setting is still unused.
CountInv ==
    /\ now \in Nat /\ steps \in Nat /\ pings \in Nat
    /\ appended \in Nat /\ appended <= now
    /\ clock \in Int /\ lastTime \in Int
    /\ pings * Slot <= appended + steps * Slot
    /\ clock - lastTime # now - appended
          => (pings + 1) * Slot <= appended + steps * Slot

\* The numbers of slots, without products to reason about.
LEMMA SlotFacts ==
    /\ Interval \in Nat /\ Slot \in Nat /\ Slot > 0 /\ Slot = Interval + 1
    /\ Start \in Nat /\ Word \in Nat /\ Word > 0
    /\ \A n \in Nat : n * Slot \in Nat /\ (n + 1) * Slot = n * Slot + Slot
<1>1. Interval \in Nat /\ Start \in Nat /\ Word \in Nat
  BY TimeAssumption
<1>2. Word > 0
  BY TimeAssumption
<1>3. Slot \in Nat /\ Slot > 0
  BY <1>1 DEF Slot
<1>4. \A n \in Nat : n * Slot \in Nat /\ (n + 1) * Slot = n * Slot + Slot
  BY <1>3
<1> QED BY <1>1, <1>2, <1>3, <1>4 DEF Slot

\* A packet is appended now.
LEMMA AppendCount ==
    ASSUME CountInv, NEW n \in Nat, now' = now, clock' = clock, steps' = steps,
           lastTime' = clock, appended' = now, pings' = n,
           n * Slot <= now + steps * Slot
    PROVE  CountInv'
BY SlotFacts DEF CountInv

LEMMA CountStep ==
    ASSUME CountInv, [Next]_vars
    PROVE  CountInv'
<1> USE DEF timeVars, sendVars
<1>0. /\ pings * Slot \in Nat /\ steps * Slot \in Nat
      /\ (pings + 1) * Slot = pings * Slot + Slot
      /\ (steps + 1) * Slot = steps * Slot + Slot
  BY SlotFacts DEF CountInv
<1>1. CASE Wait
  BY <1>1 DEF Wait, CountInv
<1>2. CASE Poll
  <2>1. CASE Elapsed > Interval /\ lastTime > 0
    <3>1. /\ Append /\ pings' = pings + 1 /\ UNCHANGED << now, clock, steps >>
      BY <1>2, <2>1 DEF Poll
    <3>2. lastTime' = clock /\ appended' = now
      BY <3>1 DEF Append, Refreshed
    <3>3. (pings + 1) * Slot <= now + steps * Slot
      <4>1. CASE clock - lastTime # now - appended
        BY <4>1, <1>0, SlotFacts DEF CountInv
      <4>2. CASE clock - lastTime = now - appended
        <5>1. now - appended \in Nat
          BY DEF CountInv
        <5>2. (now - appended) % Word <= now - appended
          BY <5>1, SlotFacts
        <5>3. now - appended > Interval
          BY <2>1, <4>2, <5>1, <5>2, SlotFacts DEF Elapsed
        <5> QED BY <1>0, <5>3, SlotFacts DEF CountInv
      <4> QED BY <4>1, <4>2
    <3>4. pings + 1 \in Nat
      BY DEF CountInv
    <3> QED BY <3>1, <3>2, <3>3, <3>4, AppendCount
  <2>2. CASE ~(Elapsed > Interval /\ lastTime > 0)
    BY <1>2, <2>2 DEF Poll, CountInv
  <2> QED BY <2>1, <2>2
<1>3. CASE Read
  <2>1. CASE Append
    <3>1. lastTime' = clock /\ appended' = now
      BY <2>1 DEF Append, Refreshed
    <3>2. /\ pings' = pings /\ pings \in Nat
          /\ UNCHANGED << now, clock, steps >>
      BY <1>3 DEF Read, CountInv
    <3>3. pings * Slot <= now + steps * Slot
      BY <1>0 DEF CountInv
    <3> QED BY <3>1, <3>2, <3>3, AppendCount
  <2>2. CASE UNCHANGED << lastTime, appended >>
    BY <1>3, <2>2 DEF Read, CountInv
  <2> QED BY <1>3, <2>1, <2>2 DEF Read, Received
<1>4. ASSUME NEW d \in Int, SetClock(d)
      PROVE  CountInv'
  <2>1. /\ clock' = clock + d /\ steps' = steps + 1
        /\ UNCHANGED << now, lastTime, appended, pings >>
    BY <1>4 DEF SetClock
  <2>2. (pings + 1) * Slot <= appended + (steps + 1) * Slot
    BY <1>0, SlotFacts DEF CountInv
  <2>3. pings * Slot <= appended + (steps + 1) * Slot
    BY <1>0, SlotFacts DEF CountInv
  <2> QED BY <2>1, <2>2, <2>3 DEF CountInv
<1>5. CASE Select \/ Write \/ Window \/ UNCHANGED vars
  BY <1>5 DEF Select, Write, Window, vars, CountInv
<1>6. /\ \A d \in ClockBack : d \in Int /\ -d \in Int
      /\ \A d \in ClockAhead : d \in Int
  BY TimeAssumption
<1> QED BY <1>1, <1>2, <1>3, <1>4, <1>5, <1>6 DEF Next

\* However often the clock is set, and by how much: each setting costs at most
\* one ping, and otherwise there is at most one in each interval.
THEOREM PingsAreBounded == Spec => []PingsBounded
<1>1. Init => CountInv
  BY SlotFacts DEF Init, CountInv
<1>2. CountInv /\ [Next]_vars => CountInv'
  BY CountStep
<1>3. CountInv => PingsBounded
  <2> SUFFICES ASSUME CountInv PROVE PingsBounded
    OBVIOUS
  <2> DEFINE q == now \div Slot
             r == now % Slot
  <2>1. now \in Nat /\ pings \in Nat /\ steps \in Nat
    BY DEF CountInv
  <2>2. q \in Nat /\ r \in 0 .. Slot - 1 /\ now = Slot * q + r
    BY <2>1, SlotFacts
  <2>3. pings * Slot <= now + steps * Slot
    BY <2>1, SlotFacts DEF CountInv
  <2>4. SUFFICES ASSUME pings >= q + steps + 1
                 PROVE  FALSE
    BY <2>1, <2>2, SlotFacts DEF PingsBounded
  <2> HIDE DEF q, r
  <2>5. pings * Slot >= (q + steps + 1) * Slot
    BY <2>1, <2>2, <2>4, SlotFacts
  <2>6. (q + steps + 1) * Slot = Slot * q + steps * Slot + Slot
    BY <2>1, <2>2, SlotFacts
  <2>7. /\ pings * Slot \in Nat /\ Slot * q \in Nat /\ steps * Slot \in Nat
    BY <2>1, <2>2, SlotFacts
  <2> QED BY <2>1, <2>2, <2>3, <2>5, <2>6, <2>7, SlotFacts
<1> QED BY <1>1, <1>2, <1>3, PTL DEF Spec
=============================================================================
