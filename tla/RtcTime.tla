------------------------------ MODULE RtcTime ------------------------------
(***************************************************************************)
(* Reading and setting the clock while it runs: gettimeofday (system/libc/ *)
(* syscalls.c) over rtc_get_time_ms, and the commands that set the date or *)
(* the time (system/cli/commands/rtc.c) over rtc_get_time and rtc_set_time *)
(* (system/rtc/rtc.c), beside the seconds and days of the RTC, the ticks   *)
(* of the scheduler and the wake-up interrupt.  Every access to a register *)
(* or to a variable of the interrupt is a step.                            *)
(***************************************************************************)
EXTENDS Integers

CONSTANTS
  Readers, Setters, \* the tasks that read the clock and that set it
  Nobody,
  S,            \* seconds of a day
  MaxDay,       \* bound on the days
  T,            \* ticks of a second
  MaxTick,      \* bound on the ticks, below 2^32
  W16           \* 2^16: uint16_t is modulo W16

Tasks == Readers \cup Setters
Days == 0..MaxDay
Seconds == 0..(S - 1)
NoDay == -1

RtcAssumption ==
  /\ {S, T, MaxDay, MaxTick} \subseteq Nat \ {0} /\ W16 \in Nat /\ W16 > MaxTick
  /\ Nobody \notin Tasks

VARIABLES
  day, sec,     \* the registers DR and TR
  latch,        \* what DR shows from a read of TR until DR is read, or NoDay
  tick, _tick_count_previous,
  _rtc_mutex,   \* its holder
  op, pc,
  got,          \* what a task has read, then what it is to set
  current, ms,
  ret,
  instants,     \* history: what the calendar has been since the task's call began
  late          \* history: midnight has passed between a setter's two writes

hw == <<day, sec, latch>>
clock == <<tick, _tick_count_previous>>
calls == <<_rtc_mutex, op, pc, got, current, ms, ret>>
vars == <<hw, clock, calls, instants, late>>

Moment(d, s) == [day |-> d, sec |-> s]
Now == Moment(day, sec)

\* The calendar is noted after every step that changes it or begins a call, unless
\* a task is between its two writes: then it is no moment anybody meant.
Note == instants' = [t \in Tasks |-> IF pc'[t] = "idle" THEN {}
                                     ELSE IF \E u \in Tasks : pc'[u] = "settime" THEN instants[t]
                                     ELSE instants[t] \cup {Moment(day', sec')}]

Goto(t, l) == pc' = [pc EXCEPT ![t] = l]
Lock(t) == _rtc_mutex = Nobody /\ _rtc_mutex' = t
Unlock == _rtc_mutex' = Nobody
-----------------------------------------------------------------------------
(* The hardware and the interrupt.                                         *)

Second ==
  /\ sec = S - 1 => day < MaxDay
  /\ sec' = (sec + 1) % S
  /\ day' = IF sec = S - 1 THEN day + 1 ELSE day
  /\ late' = [t \in Tasks |-> late[t] \/ (sec = S - 1 /\ pc[t] = "settime")]
  /\ UNCHANGED <<latch, clock, calls>>
  /\ Note

Tick == /\ tick < MaxTick /\ tick' = tick + 1
        /\ UNCHANGED <<hw, _tick_count_previous, calls, instants, late>>

rtc_wakeuptimer_event_callback ==
  /\ _tick_count_previous' = tick
  /\ UNCHANGED <<hw, tick, calls, instants, late>>
-----------------------------------------------------------------------------
(* Plausible mistakes in the steps below. *)

\* The mutex is given back before the date is read.
GetTimeUnlocks(t) ==
  /\ pc[t] = "gettime" /\ _rtc_mutex = Nobody
  /\ got' = [got EXCEPT ![t] = Moment(0, sec)]
  /\ latch' = IF latch = NoDay THEN day ELSE latch
  /\ Goto(t, "getdate")
  /\ UNCHANGED <<day, sec, clock, _rtc_mutex, op, current, ms, ret, instants, late>>

\* The mutex is given back between the two writes.
SetDateUnlocks(t) ==
  /\ pc[t] = "setdate"
  /\ day' = got[t].day
  /\ Goto(t, "settime") /\ Unlock
  /\ late' = [late EXCEPT ![t] = FALSE]
  /\ UNCHANGED <<sec, latch, clock, op, got, current, ms, ret>>
  /\ Note
-----------------------------------------------------------------------------
(* rtc_get_time_ms, which all three begin with.                            *)

Call(t, o) ==
  /\ pc[t] = "idle"
  /\ op' = [op EXCEPT ![t] = o] /\ ret' = [ret EXCEPT ![t] = "none"]
  /\ Goto(t, "gettime")
  /\ UNCHANGED <<hw, clock, _rtc_mutex, got, current, ms, late>>
  /\ Note

\* HAL_RTC_GetTime and HAL_RTC_GetDate; rtc_set_time calls them too.
GetTime(t) ==
  /\ pc[t] = "gettime"
  /\ Lock(t)
  /\ got' = [got EXCEPT ![t].sec = sec]
  /\ latch' = IF latch = NoDay THEN day ELSE latch
  /\ Goto(t, "getdate")
  /\ UNCHANGED <<day, sec, clock, op, current, ms, ret, instants, late>>

GetDate(t) ==
  /\ pc[t] = "getdate"
  /\ got' = [got EXCEPT ![t].day = IF latch = NoDay THEN day ELSE latch]
  /\ latch' = NoDay
  /\ Unlock
  /\ Goto(t, IF op[t] = "get" THEN "ticks" ELSE "change")
  /\ UNCHANGED <<day, sec, clock, op, current, ms, ret, instants, late>>

ReadTicks(t) ==
  /\ pc[t] = "ticks"
  /\ current' = [current EXCEPT ![t] = tick]
  /\ Goto(t, "compare")
  /\ UNCHANGED <<hw, clock, _rtc_mutex, op, got, ms, ret, instants, late>>

Compare(t) ==
  /\ pc[t] = "compare"
  /\ Goto(t, IF current[t] > _tick_count_previous THEN "behind" ELSE "ahead")
  /\ UNCHANGED <<hw, clock, _rtc_mutex, op, got, current, ms, ret, instants, late>>

\* _tick_count_previous is read again.
Subtract(t) ==
  /\ pc[t] \in {"behind", "ahead"}
  /\ LET d == current[t] - _tick_count_previous
     IN ms' = [ms EXCEPT ![t] = (IF pc[t] = "behind" THEN d ELSE -d) % W16]
  /\ Goto(t, "return")
  /\ UNCHANGED <<hw, clock, _rtc_mutex, op, got, current, ret, instants, late>>
-----------------------------------------------------------------------------
(* The commands change what they have read and call rtc_set_time.          *)

Change(t) ==
  /\ pc[t] = "change"
  /\ got' \in {[got EXCEPT ![t] = m] :
                 m \in IF op[t] = "date" THEN {Moment(d, got[t].sec) : d \in Days}
                       ELSE {Moment(got[t].day, s) : s \in Seconds}}
  /\ Goto(t, "reread")
  /\ UNCHANGED <<hw, clock, _rtc_mutex, op, current, ms, ret, instants, late>>

\* HAL_RTC_GetTime and HAL_RTC_GetDate again: their values are overwritten.
Reread(t) ==
  /\ pc[t] = "reread"
  /\ Lock(t)
  /\ latch' = NoDay
  /\ Goto(t, "setdate")
  /\ UNCHANGED <<day, sec, clock, op, got, current, ms, ret, instants, late>>

\* HAL_RTC_SetDate, which stops the calendar for the write, and may fail before it
\* or when the calendar does not start again.
SetDate(t) ==
  /\ pc[t] = "setdate"
  /\ \/ day' = got[t].day /\ Goto(t, "settime") /\ UNCHANGED <<_rtc_mutex, ret>>
     \/ /\ day' \in {day, got[t].day}
        /\ ret' = [ret EXCEPT ![t] = "error"] /\ Goto(t, "return") /\ Unlock
  /\ late' = [late EXCEPT ![t] = FALSE]
  /\ UNCHANGED <<sec, latch, clock, op, got, current, ms>>
  /\ Note

\* HAL_RTC_SetTime, in the same way.
SetTime(t) ==
  /\ pc[t] = "settime"
  /\ \/ sec' = got[t].sec /\ ret' = [ret EXCEPT ![t] = "ok"]
     \/ sec' \in {sec, got[t].sec} /\ ret' = [ret EXCEPT ![t] = "error"]
  /\ Goto(t, "return") /\ Unlock
  /\ UNCHANGED <<day, latch, clock, op, got, current, ms, late>>
  /\ Note

Return(t) ==
  /\ pc[t] = "return"
  /\ Goto(t, "idle")
  /\ instants' = [instants EXCEPT ![t] = {}]
  /\ got' = [got EXCEPT ![t] = Moment(0, 0)]
  /\ current' = [current EXCEPT ![t] = 0] /\ ms' = [ms EXCEPT ![t] = 0]
  /\ op' = [op EXCEPT ![t] = "none"] /\ ret' = [ret EXCEPT ![t] = "none"]
  /\ late' = [late EXCEPT ![t] = FALSE]
  /\ UNCHANGED <<hw, clock, _rtc_mutex>>
-----------------------------------------------------------------------------
\* gettimeofday: the seconds less those that the milliseconds hold, and all of the
\* milliseconds.  A tick is 1000/T ms here.
tv_sec(t) == got[t].day * S + got[t].sec - ms[t] \div T
tv_usec(t) == ms[t]

Init ==
  /\ day = 0 /\ sec \in Seconds /\ latch = NoDay
  /\ tick = 0 /\ _tick_count_previous = 0
  /\ _rtc_mutex = Nobody
  /\ op = [t \in Tasks |-> "none"] /\ pc = [t \in Tasks |-> "idle"]
  /\ got = [t \in Tasks |-> Moment(0, 0)]
  /\ current = [t \in Tasks |-> 0] /\ ms = [t \in Tasks |-> 0]
  /\ ret = [t \in Tasks |-> "none"]
  /\ instants = [t \in Tasks |-> {}] /\ late = [t \in Tasks |-> FALSE]

Next ==
  \/ Second \/ Tick \/ rtc_wakeuptimer_event_callback
  \/ \E t \in Tasks :
       \/ t \in Readers /\ Call(t, "get")
       \/ t \in Setters /\ \E o \in {"date", "time"} : Call(t, o)
       \/ GetTime(t) \/ GetDate(t) \/ ReadTicks(t) \/ Compare(t) \/ Subtract(t)
       \/ Change(t) \/ Reread(t) \/ SetDate(t) \/ SetTime(t) \/ Return(t)

Spec == Init /\ [][Next]_vars
-----------------------------------------------------------------------------
(* Properties.                                                             *)

\* rtc.c:264-313: date and time that a call has read belong together, and were those
\* of the calendar during the call, although midnight passes and another task sets
\* the clock.
Instant ==
  \A t \in Tasks : op[t] = "get" /\ pc[t] \in {"ticks", "compare", "behind", "ahead", "return"}
    => got[t] \in instants[t]

\* syscalls.c:505-528: gettimeofday names a second of the calendar during the call,
\* however the ticks and the wake-up interrupt come between the reads of
\* rtc_get_time_ms, which make its milliseconds anything.
SecondTrue ==
  \A t \in Tasks : op[t] = "get" /\ pc[t] = "return"
    => \E m \in instants[t] : tv_sec(t) + tv_usec(t) \div T = m.day * S + m.sec

\* rtc.c, syscalls.c: gettimeofday names the second that it is, from a date and a time
\* that belong together.
TimeRead == Instant /\ SecondTrue

\* rtc.c:203-257: a call that sets the clock leaves it at the date and the time that
\* it was given; but midnight may pass between the two writes.
Set ==
  \A t \in Tasks : ret[t] = "ok" /\ pc[t] = "return" /\ ~late[t]
    => \E m \in instants[t] : m = got[t]
=============================================================================
