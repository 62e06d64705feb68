------------------------------ MODULE StdioRx ------------------------------
(***************************************************************************)
(* The receive half of system/stdio/stdio_uart.c.  The UART has room for   *)
(* one character.  The HAL's interrupt handler takes it when a reception   *)
(* is armed, and disarms it; the read task arms the next one and passes    *)
(* the character to the queue of stdio_read if a task holds the stdin      *)
(* mutex, and else to the queue of the CLI, the one listener.              *)
(***************************************************************************)
EXTENDS Integers, Sequences

CONSTANTS
  Readers,      \* tasks that call stdio_read
  N,            \* bound on the characters that arrive; they are numbered
  MaxLen,       \* most characters of a stdio_read
  MaxReads,     \* bound on the calls of stdio_read
  RxLen,        \* STDIO_UART_RX_QUEUE_LENGTH
  CliLen,       \* CLI_RX_QUEUE_LENGTH
  Nobody, NoIsr

StdinLen == 1

ASSUME StdioRxAssumption ==
  /\ N \in Nat /\ MaxLen \in Nat \ {0} /\ MaxReads \in Nat
  /\ RxLen \in Nat \ {0} /\ CliLen \in Nat \ {0}
  /\ Nobody \notin Readers /\ "cli" \notin Readers
  /\ NoIsr \notin [rxne : BOOLEAN, ore : BOOLEAN]

VARIABLES
  next,         \* the next character to arrive
  dr, ore,      \* USART3: the received character (0: none), overrun flag
  armed,        \* is a reception armed: RxState busy, its interrupts enabled?
  isr,          \* what the running interrupt handler read from SR, or NoIsr
  rxq,          \* _rx_queue
  rpc, ch,      \* uart_read_task and the character it has
  stdinq,       \* _stdin_queue
  holder,       \* who has _stdin_mutex
  need,         \* need[r]: characters that r still waits for; 0: not reading
  reads,        \* calls of stdio_read begun
  cliq,         \* cli_rx_queue
  got,          \* history: the characters that the CLI and each reader received
  haste         \* history: "fast", a character came with the last one still in the
                \* UART; "race", one came while the interrupt handler ran

uart == <<next, dr, ore, armed, isr>>
task == <<rxq, rpc, ch>>
stdin == <<stdinq, holder, need, reads>>
cli == <<cliq, got>>
vars == <<uart, task, stdin, cli, haste>>
-----------------------------------------------------------------------------
(* Plausible mistakes in the steps below. *)

\* xQueuePeek in the place of xQueueReceive.
RecvPeeks == /\ isr = NoIsr /\ rpc = "recv" /\ rxq # <<>>
             /\ ch' = Head(rxq)
             /\ rpc' = "arm"
             /\ UNCHANGED <<uart, rxq, stdin, cli, haste>>

\* The next reception is armed only for a reader of stdin.
ArmForReader == /\ isr = NoIsr /\ rpc \in {"start", "arm"}
                /\ armed' = (rpc = "start" \/ holder # Nobody)
                /\ rpc' = IF rpc = "start" THEN "recv" ELSE "route"
                /\ UNCHANGED <<next, dr, ore, isr, rxq, ch, stdin, cli, haste>>

\* A full queue of the CLI takes the character's place.
SendCliNoWait == /\ isr = NoIsr /\ rpc = "listeners"
                 /\ cliq' = IF Len(cliq) < CliLen THEN Append(cliq, ch) ELSE cliq
                 /\ rpc' = "recv"
                 /\ UNCHANGED <<uart, rxq, ch, stdin, got, haste>>
-----------------------------------------------------------------------------
(* The UART and the HAL.                                                   *)

\* A character that finds the register full is lost and sets the overrun flag.
Arrive ==
  /\ next <= N
  /\ next' = next + 1
  /\ haste' = haste \cup (IF dr # 0 THEN {"fast"} ELSE {})
                    \cup (IF isr # NoIsr THEN {"race"} ELSE {})
  /\ IF dr = 0 THEN dr' = next /\ UNCHANGED ore
     ELSE ore' = TRUE /\ UNCHANGED dr
  /\ UNCHANGED <<armed, isr, task, stdin, cli>>

\* HAL_UART_IRQHandler reads SR.
IrqEnter == /\ isr = NoIsr /\ armed
            /\ dr # 0 \/ ore
            /\ isr' = [rxne |-> dr # 0, ore |-> ore]
            /\ UNCHANGED <<next, dr, ore, armed, task, stdin, cli, haste>>

\* uart_rx_cplt_callback: a character that finds the queue full is dropped.
rx_cplt_callback(c) == rxq' = IF Len(rxq) < RxLen THEN Append(rxq, c) ELSE rxq

\* A received character is read from DR and ends the reception.  So does an
\* overrun, without a character if there was none when SR was read; the error
\* callback then reads SR and DR, which clears the flag.
Irq == /\ isr # NoIsr
       /\ \/ /\ isr.rxne
             /\ rx_cplt_callback(dr)
          \/ /\ ~isr.rxne
             /\ UNCHANGED rxq
       /\ dr' = 0
       /\ ore' = (ore /\ ~isr.ore)
       /\ armed' = FALSE
       /\ isr' = NoIsr
       /\ UNCHANGED <<next, rpc, ch, stdin, cli, haste>>
-----------------------------------------------------------------------------
(* uart_read_task.                                                         *)

Recv == /\ isr = NoIsr /\ rpc = "recv" /\ rxq # <<>>
        /\ ch' = Head(rxq) /\ rxq' = Tail(rxq)
        /\ rpc' = "arm"
        /\ UNCHANGED <<uart, stdin, cli, haste>>

\* HAL_UART_Receive_IT, before the loop and in it.  It refuses a second
\* reception, and the task then hangs in error_handler.
Arm == /\ isr = NoIsr /\ rpc \in {"start", "arm"}
       /\ armed' = TRUE
       /\ rpc' = IF armed THEN "halt" ELSE IF rpc = "start" THEN "recv" ELSE "route"
       /\ UNCHANGED <<next, dr, ore, isr, rxq, ch, stdin, cli, haste>>

Route == /\ isr = NoIsr /\ rpc = "route"
         /\ rpc' = IF holder # Nobody THEN "stdin" ELSE "listeners"
         /\ UNCHANGED <<uart, rxq, ch, stdin, cli, haste>>

\* Both sends wait for room for ever.
SendStdin == /\ isr = NoIsr /\ rpc = "stdin" /\ Len(stdinq) < StdinLen
             /\ stdinq' = Append(stdinq, ch)
             /\ rpc' = "recv"
             /\ UNCHANGED <<uart, rxq, ch, holder, need, reads, cli, haste>>

SendCli == /\ isr = NoIsr /\ rpc = "listeners" /\ Len(cliq) < CliLen
           /\ cliq' = Append(cliq, ch)
           /\ rpc' = "recv"
           /\ UNCHANGED <<uart, rxq, ch, stdin, got, haste>>
-----------------------------------------------------------------------------
(* The readers.                                                            *)

\* stdio_read(n): stdin_lock.
Lock(r, n) == /\ isr = NoIsr /\ need[r] = 0 /\ holder = Nobody /\ reads < MaxReads
              /\ holder' = r
              /\ need' = [need EXCEPT ![r] = n]
              /\ reads' = reads + 1
              /\ UNCHANGED <<uart, task, stdinq, cli, haste>>

Get(r) == /\ isr = NoIsr /\ need[r] > 0 /\ stdinq # <<>>
          /\ got' = [got EXCEPT ![r] = Append(@, Head(stdinq))]
          /\ stdinq' = Tail(stdinq)
          /\ need' = [need EXCEPT ![r] = @ - 1]
          /\ UNCHANGED <<uart, task, holder, reads, cliq, haste>>

\* stdin_unlock.
Unlock(r) == /\ isr = NoIsr /\ holder = r /\ need[r] = 0
             /\ holder' = Nobody
             /\ UNCHANGED <<uart, task, stdinq, need, reads, cli, haste>>

\* cli_io_read_task.
CliRecv == /\ isr = NoIsr /\ cliq # <<>>
           /\ got' = [got EXCEPT !["cli"] = Append(@, Head(cliq))]
           /\ cliq' = Tail(cliq)
           /\ UNCHANGED <<uart, task, stdin, haste>>
-----------------------------------------------------------------------------
Init ==
  /\ next = 1 /\ dr = 0 /\ ore = FALSE /\ armed = FALSE /\ isr = NoIsr
  /\ rxq = <<>> /\ rpc = "start" /\ ch = 0
  /\ stdinq = <<>> /\ holder = Nobody /\ need = [r \in Readers |-> 0] /\ reads = 0
  /\ cliq = <<>> /\ got = [c \in Readers \cup {"cli"} |-> <<>>]
  /\ haste = {}

uart_read_task == Recv \/ Arm \/ Route \/ SendStdin \/ SendCli

Reader(r) == Get(r) \/ Unlock(r)

Next == \/ Arrive \/ IrqEnter \/ Irq
        \/ uart_read_task
        \/ CliRecv
        \/ \E r \in Readers : Reader(r) \/ \E n \in 1..MaxLen : Lock(r, n)

Spec == Init /\ [][Next]_vars

\* Interrupts are served and the tasks are scheduled; nobody need type.
FairSpec == /\ Spec
            /\ WF_vars(IrqEnter \/ Irq) /\ WF_vars(uart_read_task) /\ WF_vars(CliRecv)
            /\ \A r \in Readers : WF_vars(Reader(r))
-----------------------------------------------------------------------------
(* Properties.                                                             *)

\* The types; the read task has not hung; and the queue between the interrupt
\* and the read task never holds more than one character, so never drops one.
TypeOK ==
  /\ next \in 1..(N + 1) /\ dr \in 0..N /\ ore \in BOOLEAN /\ armed \in BOOLEAN
  /\ isr = NoIsr \/ isr \in [rxne : BOOLEAN, ore : BOOLEAN]
  /\ rpc \in {"start", "recv", "arm", "route", "stdin", "listeners"} /\ ch \in 0..N
  /\ Len(rxq) <= 1 /\ (armed => rxq = <<>>)
  /\ Len(stdinq) <= StdinLen /\ Len(cliq) <= CliLen
  /\ holder \in Readers \cup {Nobody}
  /\ need \in [Readers -> 0..MaxLen] /\ reads \in 0..MaxReads
  /\ haste \subseteq {"fast", "race"}

\* Each receiver gets its characters in the order they were typed, and no
\* character is received twice; nor does the read task hang, or its queue fill up.
Ordered ==
  /\ TypeOK
  /\ \A c \in DOMAIN got : \A i, j \in 1..Len(got[c]) : i < j => got[c][i] < got[c][j]
  /\ \A c, d \in DOMAIN got : c # d =>
       \A i \in 1..Len(got[c]), j \in 1..Len(got[d]) : got[c][i] # got[d][j]

\* The comment of error_handler: after an overrun the peripheral continues to
\* operate.  A read task that waits for a character has a reception armed, as long
\* as no character came while the interrupt handler ran.
Operating == "race" \notin haste /\ rpc = "recv" /\ rxq = <<>> /\ isr = NoIsr => armed

\* A character typed at leisure, with nobody reading stdin, reaches the CLI.
Heard == \A c \in 1..N :
           next > c ~> \/ \E i \in DOMAIN got["cli"] : got["cli"][i] = c
                      \/ haste # {} \/ reads > 0
=============================================================================
