------------------------------ MODULE Keepalive ------------------------------
(***************************************************************************)
(* The keep-alive of the MQTT client in time: ATINY_EV_POLL in             *)
(* atiny_mqtt_event_handler, last_time of atiny_mqtt_proto_data_t, and the *)
(* clock of atiny_adapter.c.                                               *)
(*                                                                         *)
(* `now` is true time, in poll periods (ATINY_EVENTS_HANDLE_PERIOD_MS), and *)
(* `clock` is what atiny_gettime_ms returns: gettimeofday(), which somebody *)
(* may set.  Computation takes no time; time passes in select().  The      *)
(* session is up, from the moment CONNECT has been appended to send_buf,   *)
(* and no callback blocks (AtinySock has the reads that do).               *)
(***************************************************************************)
EXTENDS Integers

CONSTANTS
    Interval,    \* keep_alive * 1000
    Word,        \* atiny_time_t counts modulo Word
    Start,       \* the clock at the CONNECT
    ClockBack,   \* by how much the clock may be set back at once
    ClockAhead,  \* by how much it may be set ahead at once
    MaxSteps,    \* bound on how often it is set
    MaxTime      \* bound on now

ASSUME TimeAssumption ==
    /\ Interval \in Nat \ {0} /\ MaxTime \in Nat /\ MaxSteps \in Nat
    /\ Word \in Nat
    /\ Start \in Nat \ {0} /\ Start + MaxTime + Interval < Word
    /\ ClockBack \subseteq Nat /\ ClockAhead \subseteq Nat

VARIABLES
    phase,     \* the callback that runs next
    now,       \* true time
    slept,     \* has this select() waited its period?
    clock,     \* atiny_gettime_ms()
    lastTime,  \* proto_data->last_time
    pending,   \* send_buf is not empty
    window,    \* does the peer read what it is sent?
    canWr,     \* ATINY_FG_CAN_WR
    appended,  \* history: when the client last appended a packet
    heard,     \* history: when send_buf was last written
    pings,     \* history: how many PINGREQs were appended
    steps      \* history: how often the clock was set

timeVars == << now, slept, clock, steps >>
sendVars == << lastTime, pending, appended, pings >>
vars == << phase, timeVars, sendVars, window, canWr, heard >>

-----------------------------------------------------------------------------
\* Mutant: last_time is not set.
RefreshedBug == lastTime

\* last_time after a packet has been appended to send_buf.
Refreshed == clock

\* last_time after a read; atiny_nc_can_read_cb sets last_time of nc only.
Received == lastTime

\* Mutant: a signed difference.
ElapsedSigned == clock - lastTime

\* now - last_time, in unsigned arithmetic.
Elapsed == (clock - lastTime) % Word

\* A handler appends a packet.
Append ==
    /\ pending' = TRUE
    /\ lastTime' = Refreshed
    /\ appended' = now

\* Time passes in select(), up to its timeout, unless it has something to
\* report: a send_buf that can be written.
Wait ==
    /\ phase = "select"
    /\ ~slept /\ now < MaxTime
    /\ ~(pending /\ window)
    /\ now' = now + 1
    /\ clock' = clock + 1
    /\ slept' = TRUE
    /\ UNCHANGED << phase, sendVars, window, canWr, heard, steps >>

\* select() returns: timeout, input, or send_buf can be written.
Select ==
    /\ phase = "select"
    /\ canWr' = (pending /\ window)
    /\ slept' = FALSE
    /\ phase' = "poll"
    /\ UNCHANGED << now, clock, steps, sendVars, window, heard >>

\* ATINY_EV_POLL: a ping when the last packet is too long ago.
Poll ==
    /\ phase = "poll"
    /\ IF Elapsed > Interval /\ lastTime > 0
       THEN Append /\ pings' = pings + 1
       ELSE UNCHANGED sendVars
    /\ phase' = "read"
    /\ UNCHANGED << timeVars, window, canWr, heard >>

\* The read callback: nothing, or input, which may be answered.
Read ==
    /\ phase = "read"
    /\ \/ UNCHANGED << lastTime, pending, appended >>
       \/ lastTime' = Received /\ UNCHANGED << pending, appended >>
       \/ Append
    /\ phase' = "write"
    /\ UNCHANGED << timeVars, pings, window, canWr, heard >>

\* The write callback, if select() reported CAN_WR.
Write ==
    /\ phase = "write"
    /\ IF canWr THEN pending' = FALSE /\ heard' = now
                ELSE UNCHANGED << pending, heard >>
    /\ canWr' = FALSE
    /\ phase' = "select"
    /\ UNCHANGED << timeVars, lastTime, appended, pings, window >>

\* The peer stops reading, or reads again.  What select() has promised stays.
Window ==
    /\ phase = "select"
    /\ window' = ~window
    /\ UNCHANGED << phase, timeVars, sendVars, canWr, heard >>

\* Somebody sets the clock, to a time after 1970 and such that it does not wrap
\* within the bound MaxTime.
SetClock(d) ==
    /\ steps < MaxSteps
    /\ clock + d > 0 /\ clock + d + MaxTime + Interval < Word
    /\ clock' = clock + d
    /\ steps' = steps + 1
    /\ UNCHANGED << phase, now, slept, sendVars, window, canWr, heard >>

\* CONNECT has just been appended by the connect callback.
Init ==
    /\ phase = "read"
    /\ now = 0 /\ slept = FALSE /\ clock = Start /\ steps = 0
    /\ lastTime = Start /\ pending = TRUE /\ appended = 0 /\ pings = 0
    /\ window = TRUE /\ canWr = FALSE
    /\ heard = 0

Next ==
    \/ Wait \/ Select \/ Poll \/ Read \/ Write
    \/ Window
    \/ \E d \in ClockBack : SetClock(-d)
    \/ \E d \in ClockAhead : SetClock(d)

Spec == Init /\ [][Next]_vars

-----------------------------------------------------------------------------
(* Properties.                                                             *)

\* When nothing is waiting in send_buf, the last write is at most the interval
\* and one poll period ago, and as much again for each time the clock has been
\* set, by whatever amount and in either direction.  A closed window makes no
\* difference (last_time is taken when a packet is appended, not when it goes
\* out); unsigned `now - last_time` bounds what a step back costs.
HeardInTime == ~pending => now - heard <= (Interval + 1) * (steps + 1)

\* As long as nobody has set the clock, a ping is sent only after more than the
\* interval without a packet (atiny_mqtt_event_handler, ATINY_EV_POLL).
PingOnlyIdle ==
    [][steps = 0 /\ pings' # pings => now - appended > Interval]_vars

\* The clock being set, in either direction, costs at most one ping each time
\* (unsigned `now - last_time` is huge after a step back, once).
PingsBounded == pings <= now \div (Interval + 1) + steps
=============================================================================
