------------------------------- MODULE MCParts -------------------------------
(***************************************************************************)
(* The parts that run on their own, checked side by side: a behaviour is   *)
(* one of one part, while the others stay as they begin.                   *)
(***************************************************************************)
EXTENDS Clocks, TLC

CONSTANTS
  NULL, Nodes,                                          \* ClistOps
  SecPerMin, MinPerHour, HourPerDay, EpochYear, Starts, MaxDays,   \* Calendar
  Window, Samples, MaxEdges,                            \* SdcardMonitor
  Names, Depth, MaxSize, MaxMounts,                     \* FileCommands
  Readers, Setters, S, MaxDay, T, MaxTick, W16          \* RtcTime

VARIABLES
  which,                                             \* the part that runs
  list, items,                                       \* ClistOps
  start, days, today, hw,                            \* Calendar
  pin, edges, powered, notified, nstate, monitorPc, boot, probe,   \* SdcardMonitor
  verdict, is_mounted, driver, semphrs, disk, area, listed, io, jammed, excuse,
  cmd, arg, dst, slash, dirs, size, before, open, step, ret,       \* FileCommands
  at, seg, unread, left, piece, short, lost, wd,
  day, sec, latch, tick, _tick_count_previous, _rtc_mutex,         \* RtcTime
  op, rtcPc, got, current, ms, rtcRet, instants, late

listVars == <<list, items>>
calendarVars == <<start, days, today, hw>>
monitorVars == <<pin, edges, powered, notified, nstate, monitorPc, boot, probe, verdict,
                 is_mounted, driver, semphrs, disk, area, listed, io, jammed, excuse>>
commandVars == <<cmd, arg, dst, slash, before, dirs, size, open, step, ret,
                 at, seg, unread, left, piece, short, lost, wd>>
rtcVars == <<day, sec, latch, tick, _tick_count_previous, _rtc_mutex,
             op, rtcPc, got, current, ms, rtcRet, instants, late>>
allVars == <<which, vars, listVars, calendarVars, monitorVars, commandVars, rtcVars>>

\* Around the epoch, common and leap years, a century that is a leap year and
\* one that is not.
YearMonthDay(y, m, d) == [year |-> y, mon |-> m, mday |-> d]
Corners == {YearMonthDay(1970, 0, 1), YearMonthDay(1971, 11, 30), YearMonthDay(1999, 11, 1),
            YearMonthDay(2023, 10, 30), YearMonthDay(2099, 5, 1)}

L == INSTANCE ClistOps
C == INSTANCE Calendar
M == INSTANCE SdcardMonitor WITH pc <- monitorPc
F == INSTANCE FileCommands
R == INSTANCE RtcTime WITH pc <- rtcPc, ret <- rtcRet

ASSUME PartsAssumption ==
  /\ L!NodesAssumption /\ C!CalendarAssumption /\ M!MonitorAssumption
  /\ F!CommandsAssumption /\ R!RtcAssumption
-----------------------------------------------------------------------------
(* What is clocked: the pins by their ports, as board_config and the pin   *)
(* functions of gpio.c have them.                                          *)

MyClock == [u \in {"led1", "cd"} |-> "GPIOG"]
        @@ [u \in {"led2", "led3", "cmd"} |-> "GPIOD"]
        @@ ("led4" :> "GPIOK")
        @@ ("uart" :> "USART3")
        @@ [u \in {"uart_tx", "uart_rx", "power"} |-> "GPIOB"]
        @@ ("uart_dma" :> "DMA1")
        @@ [u \in {"usb48", "sd48"} |-> "CLK48"]
        @@ [u \in {"dp", "dm", "id", "vbus"} |-> "GPIOA"]
        @@ [u \in {"clk", "d3", "d2", "d1", "d0"} |-> "GPIOC"]
        @@ [u \in {"rx", "tx"} |-> "DMA2"]
MyUsers == DOMAIN MyClock
MyStartup == <<"led1", "led2", "led3", "led4", "uart", "uart_tx", "uart_rx", "uart_dma", "cd",
               "usb48", "power", "dp", "dm", "id", "vbus">>
MySdio == <<"sd48", "cmd", "clk", "d3", "d2", "d1", "d0", "rx", "tx">>
-----------------------------------------------------------------------------
InitClocks == Init

InitList == L!Init

InitCalendar == IF which = "calendar" THEN C!Init
                ELSE /\ start = YearMonthDay(1970, 0, 1) /\ days = 0 /\ today = start
                     /\ hw = C!rtc_set_time(start)

InitMonitor == (IF which = "monitor" THEN TRUE ELSE pin = "out") /\ M!Init

InitCommands ==
  IF which = "commands" THEN F!Init
  ELSE /\ cmd = "ls" /\ arg = <<>> /\ dst = <<>> /\ slash = FALSE /\ dirs = {<<>>} /\ size = <<>>
       /\ before = <<dirs, size>> /\ open = {} /\ step = "entered" /\ ret = "none"
       /\ at = <<>> /\ seg = <<>> /\ unread = {} /\ left = 0
       /\ piece = 0 /\ short = FALSE /\ lost = FALSE /\ wd = {}

InitRtc == (IF which = "rtc" THEN TRUE ELSE sec = 0) /\ R!Init

PartsInit ==
  /\ which \in {"clocks", "list", "calendar", "monitor", "commands", "rtc"}
  /\ InitClocks /\ InitList /\ InitCalendar /\ InitMonitor /\ InitCommands /\ InitRtc

StepClocks == /\ which = "clocks" /\ Next
              /\ UNCHANGED <<which, listVars, calendarVars, monitorVars, commandVars, rtcVars>>
StepList == /\ which = "list" /\ L!Next
            /\ UNCHANGED <<which, vars, calendarVars, monitorVars, commandVars, rtcVars>>
StepCalendar == /\ which = "calendar" /\ C!Next
                /\ UNCHANGED <<which, vars, listVars, monitorVars, commandVars, rtcVars>>
StepMonitor == /\ which = "monitor" /\ M!Next
               /\ UNCHANGED <<which, vars, listVars, calendarVars, commandVars, rtcVars>>
StepCommands == /\ which = "commands" /\ F!Next
                /\ UNCHANGED <<which, vars, listVars, calendarVars, monitorVars, rtcVars>>
StepRtc == /\ which = "rtc" /\ R!Next
           /\ UNCHANGED <<which, vars, listVars, calendarVars, monitorVars, commandVars>>

PartsNext == StepClocks \/ StepList \/ StepCalendar \/ StepMonitor \/ StepCommands \/ StepRtc

\* The fairness of SdcardMonitor and that of FileCommands.
MonitorTask == /\ which = "monitor" /\ M!Task
               /\ UNCHANGED <<which, vars, listVars, calendarVars, commandVars, rtcVars>>
PartsSpec == /\ PartsInit /\ [][PartsNext]_allVars
             /\ WF_allVars(MonitorTask) /\ WF_allVars(StepCommands)
-----------------------------------------------------------------------------
(* The properties of the parts.                                            *)

\* clist.h:31-76: walking the pointers visits what was pushed and not removed, and
\* clist_find and clist_count agree with that, not fooled by stale pointers.
ListRight == which = "list" => L!ListRight

\* rtc_utils.c: seconds, days, weekdays and file times agree with the calendar.
CalendarRight == which = "calendar" => C!CalendarRight

\* sdcard_monitor.c: a lookup that finds the card's volume finds a device under it.
ListedUsable == which = "monitor" => M!TypeOK /\ M!ListedUsable
\* The mount follows the pin when it comes to rest.
Settles == which = "monitor" => M!Settles

\* cli/commands/vfs.c: every way out of a command closes what it opened.
NothingOpen == which = "commands" => F!NothingOpen
\* What a command reports as done is done, and it changes only what it names.
CommandsMeant == which = "commands" => F!CommandsMeant
\* Every command comes back.
Returns == which = "commands" => F!Returns

\* rtc.c, syscalls.c: gettimeofday names the second that it is, from a date and a
\* time that belong together.
TimeRead == which = "rtc" => R!TimeRead
\* rtc.c: the clock shows what it was set to.
Set == which = "rtc" => R!Set
=============================================================================
