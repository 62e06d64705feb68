------------------------------- MODULE Clocks -------------------------------
(***************************************************************************)
(* The use counts of clocks (core/rcc.c) and the steps that raise and      *)
(* lower them: the pins and streams that system/gpio/gpio.c and            *)
(* system/dma/dma.c set up for the startup hook (application/rtos_hooks.c) *)
(* and, each time the card monitor mounts or unmounts a card, for the      *)
(* low-level functions of system/sdcard/sdcard.c.  The 48 MHz clock and    *)
(* the DMA streams may fail to start.                                      *)
(***************************************************************************)
EXTENDS Naturals, Sequences, FiniteSets

CONSTANTS
  Users,        \* pins, DMA streams and peripherals: what needs a clock
  Clock,        \* the clock of each
  CLK48,        \* the 48 MHz clock of SDIO and USB
  Startup,      \* what the startup hook sets up, in its order
  Early,        \* how much of it comes before the monitor's task is created
  Sdio,         \* what sdio_msp_init sets up and sdio_msp_deinit takes down
  Rx, Tx,       \* the two DMA streams of the SDIO
  Daemon, Monitor, Nobody,
  W             \* 2^32: uint32_t is modulo W

Clocks == {Clock[u] : u \in Users}
Tasks == {Daemon, Monitor}
InOrder(s) == {s[i] : i \in DOMAIN s}
SdUsers == InOrder(Sdio)
Parts(t) == IF t = Daemon THEN Startup ELSE Sdio

ASSUME ClocksAssumption ==
  /\ IsFiniteSet(Users) /\ Clock \in [Users -> Clocks] /\ CLK48 \in Clocks
  /\ Startup \in Seq(Users) /\ Sdio \in Seq(Users)
  /\ InOrder(Startup) \cap SdUsers = {}
  /\ \A s \in {Startup, Sdio} : \A i, j \in DOMAIN s : s[i] = s[j] => i = j
  /\ Early \in Nat
  /\ Len(Sdio) >= 2 /\ Rx = Sdio[Len(Sdio) - 1] /\ Tx = Sdio[Len(Sdio)]
  /\ Clock[Rx] # CLK48 /\ Clock[Tx] # CLK48
  /\ Daemon # Monitor /\ Nobody \notin {Daemon, Monitor}
  /\ W \in Nat /\ Cardinality(Users) < W

VARIABLES
  count,        \* reference_count of each clock
  on,           \* its enable bit; that of CLK48: PLLSAI runs
  periph_mutex, \* its holder
  part,         \* how far a task is in what it sets up or takes down
  up,           \* whether the task sets up
  seen,         \* the count a task has read and not written yet; W for none
  pc,           \* where the monitor is
  hal,          \* h_sdio.State, "reset" or "ready"
  error,        \* sdcard.c's _error
  streams,      \* the DMA streams that are initialised
  volume,       \* "none", "mounted", or "stuck" after an unmount that failed
  inuse,        \* history: what has raised a count and not lowered it
  broken,       \* history: CLK48 has failed to start
  partial       \* history: the last low-level set-up of the SDIO has ended early

rcc == <<count, on, periph_mutex, part, seen, inuse, broken>>
sd == <<pc, hal, volume>>
vars == <<rcc, up, sd, error, streams, partial>>

Finished(t) == part[t] = Len(Parts(t)) + 1
User(t) == Parts(t)[part[t]]

\* The task goes on with the next part, or gives up the rest.
Proceed(t) == part' = [part EXCEPT ![t] = @ + 1] /\ UNCHANGED <<error, partial>>
GiveUp(t) == /\ part' = [part EXCEPT ![t] = Len(Parts(t)) + 1]
             /\ error' = (error \/ t = Monitor)
             /\ partial' = (partial \/ (t = Monitor /\ up[t]))
-----------------------------------------------------------------------------
(* Plausible mistakes in the steps below. *)

\* The counts are used without the mutex.
periph_nolock(t) == UNCHANGED periph_mutex

\* The clock is switched off by the first of its users that goes.
SwitchOffFirst(t, c) == on' = [on EXCEPT ![c] = (up[t] \/ c = CLK48) /\ @]

\* HAL_SD_Init sets up the hardware every time.
InitAlways ==
  /\ pc = "idle" /\ volume = "none" /\ part[Daemon] > Early
  /\ error' = FALSE
  /\ part' = [part EXCEPT ![Monitor] = 1]
  /\ up' = [up EXCEPT ![Monitor] = TRUE]
  /\ pc' = "card"
  /\ partial' = FALSE
  /\ UNCHANGED <<count, on, periph_mutex, seen, inuse, broken, hal, volume, streams>>

\* sdio_msp_deinit leaves the 48 MHz clock counted.
DeinitKeepsClk48 ==
  /\ pc = "idle" /\ volume = "mounted"
  /\ part' = [part EXCEPT ![Monitor] = 2]
  /\ up' = [up EXCEPT ![Monitor] = FALSE]
  /\ pc' = "down"
  /\ UNCHANGED <<count, on, periph_mutex, seen, inuse, broken, hal, error, volume, streams,
                 partial>>
-----------------------------------------------------------------------------
(* rcc_periph_clk_enable and _disable, clk48_clock_init and _deinit.       *)

periph_lock(t) == periph_mutex = Nobody /\ periph_mutex' = t

\* An unused clock is switched on.  PLLSAI may fail to lock.
ReadCount(t) ==
  LET c == Clock[User(t)]
  IN  /\ ~Finished(t) /\ seen[t] = W
      /\ up[t] \/ User(t) \notin streams
      /\ periph_lock(t)
      /\ seen' = [seen EXCEPT ![t] = count[c]]
      /\ \/ /\ on' = [on EXCEPT ![c] = @ \/ (up[t] /\ count[c] = 0)]
            /\ UNCHANGED broken
         \/ /\ c = CLK48 /\ up[t] /\ count[c] = 0
            /\ broken' = TRUE /\ UNCHANGED on
      /\ UNCHANGED <<count, part, up, inuse, sd, error, streams, partial>>

\* Nothing switches PLLSAI off.
SwitchOff(t, c) == on' = [on EXCEPT ![c] = (up[t] \/ c = CLK48 \/ count'[c] # 0) /\ @]

\* The count of CLK48 is raised although the clock is not on.  That failure ends
\* the set-up of the SDIO or USB; so does a DMA stream that is still enabled, but
\* after its clock was counted.
WriteCount(t) ==
  LET u == User(t)  c == Clock[u]
  IN  /\ ~Finished(t) /\ seen[t] # W
      /\ count' = [count EXCEPT ![c] = (IF up[t] THEN seen[t] + 1 ELSE seen[t] + W - 1) % W]
      /\ SwitchOff(t, c)
      /\ seen' = [seen EXCEPT ![t] = W]
      /\ periph_mutex' = Nobody
      /\ inuse' = IF up[t] THEN inuse \cup {u} ELSE inuse \ {u}
      /\ \/ /\ c = CLK48 /\ up[t] /\ seen[t] = 0 /\ ~on[c]
            /\ GiveUp(t) /\ UNCHANGED streams
         \/ /\ u \in {Rx, Tx} /\ up[t]
            /\ GiveUp(t) /\ UNCHANGED streams
         \/ /\ ~(c = CLK48 /\ up[t] /\ seen[t] = 0 /\ ~on[c])
            /\ streams' = IF u \in {Rx, Tx} /\ up[t] THEN streams \cup {u} ELSE streams
            /\ Proceed(t)
      /\ UNCHANGED <<up, sd, broken>>

\* HAL_DMA_DeInit comes before the count is lowered, and fails while a transfer has
\* left the stream busy: sdio_msp_deinit returns at once.
StreamDown ==
  /\ ~Finished(Monitor) /\ seen[Monitor] = W /\ ~up[Monitor]
  /\ User(Monitor) \in streams
  /\ \/ /\ streams' = streams \ {User(Monitor)} /\ UNCHANGED <<part, error, partial>>
     \/ /\ GiveUp(Monitor) /\ UNCHANGED streams
  /\ UNCHANGED <<count, on, periph_mutex, seen, inuse, broken, up, sd>>
-----------------------------------------------------------------------------
(* sdcard_init and sdcard_deinit, for the monitor.                         *)

\* HAL_SD_Init calls sdio_msp_init in the state "reset" only.
sdio_init ==
  /\ pc = "idle" /\ volume = "none" /\ part[Daemon] > Early
  /\ error' = FALSE
  /\ part' = [part EXCEPT ![Monitor] = IF hal = "reset" THEN 1 ELSE Len(Sdio) + 1]
  /\ up' = [up EXCEPT ![Monitor] = TRUE]
  /\ pc' = "card"
  /\ partial' = (partial /\ hal # "reset")
  /\ UNCHANGED <<count, on, periph_mutex, seen, inuse, broken, hal, volume, streams>>

\* HAL_SD_InitCard, which needs the clock and the pins, leaves "ready" in any case.
\* The volume is then read through the receiving stream, or something fails.
InitCard ==
  /\ pc = "card" /\ Finished(Monitor)
  /\ hal' = "ready"
  /\ \/ /\ on[CLK48] /\ SdUsers \ {Rx, Tx} \subseteq inuse
        /\ ~error /\ Rx \in streams
        /\ volume' = "mounted"
     \/ UNCHANGED volume
  /\ pc' = "idle"
  /\ UNCHANGED <<rcc, up, error, streams, partial>>

\* Its first callback cannot be unregistered while a transfer that timed out keeps
\* the HAL busy: sdio_deinit returns at once, and everything stays set up.
sdio_deinit ==
  /\ pc = "idle" /\ volume = "mounted"
  /\ \/ /\ part' = [part EXCEPT ![Monitor] = 1]
        /\ up' = [up EXCEPT ![Monitor] = FALSE]
        /\ pc' = "down" /\ UNCHANGED volume
     \/ /\ volume' = "stuck" /\ UNCHANGED <<part, up, pc>>
  /\ UNCHANGED <<count, on, periph_mutex, seen, inuse, broken, hal, error, streams, partial>>

\* The volume has left the list of mounts: a failed sdcard_deinit is not repeated.
Deinited ==
  /\ pc = "down" /\ Finished(Monitor)
  /\ hal' = "reset"
  /\ volume' = IF error THEN "stuck" ELSE "none"
  /\ pc' = "idle"
  /\ UNCHANGED <<rcc, up, error, streams, partial>>
-----------------------------------------------------------------------------
\* rcc_init, and the tasks that set something up.
Init ==
  /\ count = [c \in Clocks |-> 0] /\ on = [c \in Clocks |-> FALSE]
  /\ periph_mutex = Nobody
  /\ part = [t \in Tasks |-> IF t = Daemon THEN 1 ELSE Len(Sdio) + 1]
  /\ up = [t \in Tasks |-> TRUE] /\ seen = [t \in Tasks |-> W]
  /\ pc = "idle" /\ hal = "reset" /\ error = FALSE /\ streams = {} /\ volume = "none"
  /\ inuse = {} /\ broken = FALSE /\ partial = FALSE

Next == \/ \E t \in Tasks : ReadCount(t) \/ WriteCount(t)
        \/ StreamDown
        \/ sdio_init \/ InitCard \/ sdio_deinit \/ Deinited

Spec == Init /\ [][Next]_vars
-----------------------------------------------------------------------------
(* Properties.                                                             *)

\* The type of every variable; and a task is between reading a count and writing
\* it exactly while it holds the mutex.
TypeOK ==
  /\ \A t \in Tasks : periph_mutex = t <=> seen[t] # W
  /\ count \in [Clocks -> 0..(W - 1)] /\ on \in [Clocks -> BOOLEAN]
  /\ periph_mutex \in Tasks \cup {Nobody}
  /\ \A t \in Tasks : part[t] \in 1..(Len(Parts(t)) + 1)
  /\ part \in [Tasks -> Nat] /\ up \in [Tasks -> BOOLEAN]
  /\ seen \in [Tasks -> 0..W]
  /\ pc \in {"idle", "card", "down"} /\ hal \in {"reset", "ready"} /\ error \in BOOLEAN
  /\ streams \subseteq {Rx, Tx} /\ volume \in {"none", "mounted", "stuck"}
  /\ inuse \subseteq Users /\ broken \in BOOLEAN /\ partial \in BOOLEAN

Uses(c) == {u \in inuse : Clock[u] = c}

\* rcc.c:314-431: the count of a clock is the number of its users, so it neither
\* wraps nor drifts, whatever two tasks do at once, however often a card is mounted,
\* and whichever stream, clock or card fails on the way.
Balanced == \A c \in Clocks : count[c] = Cardinality(Uses(c))

\* rcc.h: a clock is switched on for its first user and off after its last.  Between
\* the steps of the tasks it is on exactly while it is used; but CLK48 is never
\* switched off, and stays off once it has failed to start (rcc.c:404).
Running ==
  periph_mutex = Nobody =>
    \A c \in Clocks : IF c = CLK48 THEN count[c] # 0 => on[c] \/ broken
                                   ELSE on[c] <=> count[c] # 0

\* sdcard.h:39: while a card is mounted, everything that sdio_msp_init sets up is in
\* use and clocked (sdcard.c:364-397) and the receiving stream is initialised; when
\* the card has been unmounted all of it has been given back.  The transmitting
\* stream is initialised too, except after a set-up that it ended: the HAL is left
\* "ready", the next sdio_init skips the set-up and mounts a card without it.
MountedClocked ==
  /\ volume = "mounted" /\ pc = "idle" =>
       /\ SdUsers \subseteq inuse /\ \A u \in SdUsers : on[Clock[u]]
       /\ Rx \in streams /\ (Tx \in streams \/ partial)
  /\ volume = "none" /\ hal = "reset" /\ pc = "idle" =>
       SdUsers \cap inuse = {} /\ streams = {}
=============================================================================
