------------------------------ MODULE StdioTx ------------------------------
(***************************************************************************)
(* The transmit half of system/stdio/stdio_uart.c.  Tasks that write take  *)
(* a buffer from a pool (a queue of free buffers), copy a piece of their   *)
(* text into it and queue it for the gate-keeper task, which has the DMA   *)
(* send it and then returns it to the pool.  The pool is one array, so a   *)
(* piece longer than a buffer runs into the next one.                      *)
(***************************************************************************)
EXTENDS Integers, SequencesExt

CONSTANTS
  Writers,      \* tasks that call stdio_write
  Texts,        \* what they write: sequences of "x" (any character) and "n" (newline)
  NBufs,        \* STDIO_UART_TX_AVAIL_QUEUE_LENGTH
  Depth,        \* STDIO_UART_TX_BUFFER_DEPTH
  MaxCalls,     \* bound on the calls of a writer
  NoTx

Bufs == 0..(NBufs - 1)

ASSUME StdioTxAssumption ==
  /\ NBufs \in Nat \ {0} /\ Depth \in Nat \ {0, 1} /\ MaxCalls \in Nat
  /\ Texts \subseteq Seq({"x", "n"}) \ {<<>>}
  /\ NoTx \notin [at : Nat, left : Nat, size : Nat]

VARIABLES
  avail,        \* _tx_avail_queue: free buffers
  ready,        \* _tx_ready_queue: [buf, size] to be sent
  mem,          \* _tx_buffer, byte by byte, and what lies behind it
  semphr,       \* _tx_cplt_semphr
  tx,           \* the DMA transfer, or NoTx (the HAL is then ready)
  wpc, pending, \* uart_write_task and the buffer it has taken
  call,         \* call[w]: where writer w is, its text, what is left of it,
                \* whether "\r\n" comes next, its buffer, its result
  given,        \* history: given[w] are the bytes that w has queued
  wire,         \* history: the bytes on the line
  calls,        \* calls[w]: calls of w begun
  odd           \* history: a piece was "long", longer than a buffer, or "empty"

queues == <<avail, ready>>
gate == <<semphr, wpc, pending>>
vars == <<queues, mem, tx, gate, call, given, wire, calls, odd>>

\* The i-th byte that writer w ever queued.
Byte(w, i, c) == [by |-> w, i |-> i, c |-> c]
NoByte == [by |-> "none", i |-> 0, c |-> "x"]

IsNewline(c) == c = "n"

\* The piece that w writes next: up to the newline, but a newline that is all
\* there is left goes as it is.
Chunk(w) ==
  LET rest == call[w].rest
      pos == SelectInSeq(rest, IsNewline)
  IN IF call[w].crlf THEN <<"r", "n">>
     ELSE IF pos # 0 /\ Len(rest) # 1 THEN SubSeq(rest, 1, pos - 1)
     ELSE rest

\* What is left of the text behind that piece.
Left(w) ==
  LET rest == call[w].rest
  IN IF call[w].crlf THEN Tail(rest) ELSE SubSeq(rest, Len(Chunk(w)) + 1, Len(rest))

ChunkBytes(w) == [i \in 1..Len(Chunk(w)) |-> Byte(w, Len(given[w]) + i, Chunk(w)[i])]

Fresh == [pc |-> "idle", text |-> <<>>, rest |-> <<>>, crlf |-> FALSE,
          buf |-> 0, from |-> 0, ret |-> "none"]

Return(w, r) == call' = [call EXCEPT ![w].pc = "done", ![w].ret = r]
-----------------------------------------------------------------------------
(* Plausible mistakes in the steps below. *)

\* The buffer goes back to the pool when its transfer has been started.
TakeNoWait ==
  /\ wpc = "wait"
  /\ avail' = Append(avail, pending)
  /\ wpc' = "recv"
  /\ UNCHANGED <<ready, mem, tx, semphr, pending, call, given, wire, calls, odd>>

\* The gate-keeper does not return the buffer.
TakeForgets ==
  /\ wpc = "wait" /\ semphr
  /\ semphr' = FALSE /\ wpc' = "recv"
  /\ UNCHANGED <<queues, mem, tx, pending, call, given, wire, calls, odd>>

\* The piece before a newline is not followed by "\r\n", nor is the newline taken
\* off the text.
SendNoNewline(w) ==
  /\ call[w].pc = "send" /\ Len(ready) < NBufs
  /\ ready' = Append(ready, [buf |-> call[w].buf, size |-> Len(Chunk(w))])
  /\ given' = [given EXCEPT ![w] = @ \o ChunkBytes(w)]
  /\ call' = [call EXCEPT ![w].rest = Left(w),
                          ![w].pc = IF Left(w) = <<>> THEN "done" ELSE "get",
                          ![w].ret = IF Left(w) = <<>> THEN "ok" ELSE @]
  /\ UNCHANGED <<avail, mem, tx, gate, wire, calls, odd>>
-----------------------------------------------------------------------------
(* stdio_write and uart_write.                                             *)

stdio_write(w, t) ==
  /\ call[w].pc = "idle" /\ calls[w] < MaxCalls
  /\ calls' = [calls EXCEPT ![w] = @ + 1]
  /\ call' = [call EXCEPT ![w] = [Fresh EXCEPT !.pc = "get", !.text = t, !.rest = t,
                                               !.from = Len(given[w])]]
  /\ UNCHANGED <<queues, mem, tx, gate, given, wire, odd>>

\* A free buffer, if there is one before the timeout.
Get(w) ==
  /\ call[w].pc = "get" /\ avail # <<>>
  /\ avail' = Tail(avail)
  /\ call' = [call EXCEPT ![w].pc = "copy", ![w].buf = Head(avail)]
  /\ UNCHANGED <<ready, mem, tx, gate, given, wire, calls, odd>>

GetTimeout(w) ==
  /\ call[w].pc = "get" /\ avail = <<>>
  /\ Return(w, "timeout")
  /\ UNCHANGED <<queues, mem, tx, gate, given, wire, calls, odd>>

\* memcpy: the length is not compared with the size of the buffer.
Copy(w) ==
  /\ call[w].pc = "copy"
  /\ LET at == call[w].buf * Depth
         bytes == ChunkBytes(w)
     IN mem' = [p \in DOMAIN mem |-> IF p \in (at + 1)..(at + Len(bytes))
                                       THEN bytes[p - at] ELSE mem[p]]
  /\ odd' = odd \cup (IF Len(Chunk(w)) > Depth THEN {"long"} ELSE {})
                \cup (IF Chunk(w) = <<>> THEN {"empty"} ELSE {})
  /\ call' = [call EXCEPT ![w].pc = "send"]
  /\ UNCHANGED <<queues, tx, gate, given, wire, calls>>

\* If the queue were full until the timeout, the buffer would be lost.
Send(w) ==
  /\ call[w].pc = "send"
  /\ IF Len(ready) = NBufs
     THEN Return(w, "timeout") /\ UNCHANGED <<ready, given>>
     ELSE LET left == Left(w)
          IN /\ ready' = Append(ready, [buf |-> call[w].buf, size |-> Len(Chunk(w))])
             /\ given' = [given EXCEPT ![w] = @ \o ChunkBytes(w)]
             /\ call' = [call EXCEPT ![w].rest = left,
                                     ![w].crlf = ~@ /\ left # <<>>,
                                     ![w].pc = IF left = <<>> THEN "done" ELSE "get",
                                     ![w].ret = IF left = <<>> THEN "ok" ELSE @]
  /\ UNCHANGED <<avail, mem, tx, gate, wire, calls, odd>>

Finish(w) ==
  /\ call[w].pc = "done"
  /\ call' = [call EXCEPT ![w] = Fresh]
  /\ UNCHANGED <<queues, mem, tx, gate, given, wire, calls, odd>>
-----------------------------------------------------------------------------
(* uart_write_task, the DMA and its completion interrupt.                  *)

\* error_handler, called when the HAL refused: unless the UART's last error was
\* an overrun, the transfer in progress is aborted and the task hangs.
error_handler ==
  \/ /\ wpc' = "wait"
     /\ UNCHANGED tx
  \/ /\ wpc' = "halt"
     /\ tx' = NoTx

\* HAL_UART_Transmit_DMA refuses while it is busy, and a length of 0.
Transmit ==
  /\ wpc = "recv" /\ ready # <<>>
  /\ ready' = Tail(ready)
  /\ pending' = Head(ready).buf
  /\ LET size == Head(ready).size
     IN \/ /\ tx = NoTx /\ size > 0
           /\ tx' = [at |-> Head(ready).buf * Depth + 1, left |-> size, size |-> size]
           /\ wpc' = "wait"
        \/ /\ tx # NoTx \/ size = 0
           /\ error_handler
  /\ UNCHANGED <<avail, mem, semphr, call, given, wire, calls, odd>>

\* Whatever xSemaphoreTake returns, the buffer goes back to the pool.
Recycle == /\ avail' = Append(avail, pending)
           /\ wpc' = "recv"
           /\ UNCHANGED <<ready, mem, tx, pending, call, given, wire, calls, odd>>

Take == /\ wpc = "wait" /\ semphr
        /\ semphr' = FALSE
        /\ Recycle

\* The timeout is twice the time of a full buffer: only longer pieces exceed it.
TakeTimeout == /\ wpc = "wait" /\ ~semphr
               /\ \/ tx = NoTx
                  \/ tx # NoTx /\ tx.size > Depth
               /\ Recycle /\ UNCHANGED semphr

DmaByte ==
  /\ tx # NoTx /\ tx.left > 0
  /\ wire' = Append(wire, mem[tx.at])
  /\ tx' = [tx EXCEPT !.at = @ + 1, !.left = @ - 1]
  /\ UNCHANGED <<queues, mem, gate, call, given, calls, odd>>

Complete == /\ tx # NoTx /\ tx.left = 0
            /\ tx' = NoTx
            /\ semphr' = TRUE
            /\ UNCHANGED <<queues, mem, wpc, pending, call, given, wire, calls, odd>>
-----------------------------------------------------------------------------
Init ==
  /\ avail = [i \in 1..NBufs |-> i - 1] /\ ready = <<>>
  /\ mem = [p \in 1..(2 * NBufs * Depth) |-> NoByte]
  /\ semphr = FALSE /\ tx = NoTx /\ wpc = "recv" /\ pending = 0
  /\ call = [w \in Writers |-> Fresh]
  /\ given = [w \in Writers |-> <<>>] /\ wire = <<>>
  /\ calls = [w \in Writers |-> 0] /\ odd = {}

Step(w) == Get(w) \/ GetTimeout(w) \/ Copy(w) \/ Send(w) \/ Finish(w)

uart_write_task == Transmit \/ Take \/ TakeTimeout

Hardware == DmaByte \/ Complete

Next == \/ \E w \in Writers : Step(w) \/ \E t \in Texts : stdio_write(w, t)
        \/ uart_write_task
        \/ Hardware

Spec == Init /\ [][Next]_vars

\* A writer has a lower priority than the gate-keeper (STDIO_UART_WRITE_TASK_PRIORITY):
\* it is sure to be scheduled as long as the gate-keeper comes back to its waits, and
\* no more when that one spins in error_handler.
Scheduled(w) == wpc # "halt" /\ Step(w)

\* The gate-keeper has the highest priority of the tasks that use the console,
\* the DMA goes on by itself, and the waits of the writers run out.
FairSpec == /\ Spec
            /\ WF_vars(uart_write_task) /\ WF_vars(Hardware)
            /\ \A w \in Writers : WF_vars(Scheduled(w))
-----------------------------------------------------------------------------
(* Properties.                                                             *)

\* Where buffer b is: in the pool, filled by a writer, queued or with the
\* gate-keeper.
Filling(w) == call[w].pc \in {"copy", "send"}
Places(b) ==
       {<<"avail", i>> : i \in {j \in 1..Len(avail) : avail[j] = b}}
  \cup {<<"ready", i>> : i \in {j \in 1..Len(ready) : ready[j].buf = b}}
  \cup {<<"writer", w>> : w \in {v \in Writers : Filling(v) /\ call[v].buf = b}}
  \cup {<<"task", p>> : p \in {q \in {wpc} \cap {"wait", "halt"} : pending = b}}

\* The types, and the pool: no buffer is lost or in two places, whichever
\* timeouts run out.  (So the queue of ready buffers is never full.)
TypeOK ==
  /\ avail \in Seq(Bufs)
  /\ \A i \in 1..Len(ready) : ready[i] \in [buf : Bufs, size : Nat]
  /\ semphr \in BOOLEAN /\ wpc \in {"recv", "wait", "halt"} /\ pending \in Bufs
  /\ tx = NoTx \/ tx \in [at : Nat, left : Nat, size : Nat]
  /\ \A w \in Writers : call[w].pc \in {"idle", "get", "copy", "send", "done"}
  /\ \A b \in Bufs : Cardinality(Places(b)) = 1
  /\ odd \subseteq {"long", "empty"}

\* Every newline goes out behind a carriage return, except one that is a text
\* or follows another at the end of it.
Doubled(t, i) == t[i] = "n" /\ ~(i = Len(t) /\ (i = 1 \/ t[i - 1] = "n"))

\* Where the i-th character of a text is among the bytes that are sent for it.
Place(t, i) == i + Cardinality({j \in 1..i : Doubled(t, j)})

\* A call that reports success has queued all of its text.
Written ==
  \A w \in Writers : call[w].pc = "done" /\ call[w].ret = "ok" =>
    LET t == call[w].text
        Code(i) == given[w][call[w].from + i].c
    IN /\ Len(given[w]) = call[w].from + Place(t, Len(t))
       /\ \A i \in 1..Len(t) : /\ Code(Place(t, i)) = t[i]
                               /\ Doubled(t, i) => Code(Place(t, i) - 1) = "r"

\* How many of the first n bytes on the line are w's.
OnWire(w, n) == Cardinality({p \in 1..n : wire[p].by = w})

\* What is on the line of a writer's text is what it queued, in its order,
\* untouched by the writers that use the same pool, and there is nothing else on it,
\* unless a piece was longer than a buffer; and a call that reports success has
\* queued all of its text.
Line ==
  /\ Written
  /\ "long" \notin odd =>
       \A p \in 1..Len(wire) : \E w \in Writers :
         LET k == OnWire(w, p)
         IN wire[p].by = w /\ k <= Len(given[w]) /\ wire[p] = given[w][k]

\* Every call returns, however the writers share the pool and however late the
\* gate-keeper gives a buffer back, unless the gate-keeper has hung itself up in
\* error_handler: with it the writers stand still.
CallReturns ==
  \A w \in Writers : call[w].pc # "idle" ~> call[w].pc = "idle" \/ wpc = "halt"

Sent == /\ Len(avail) = NBufs
        /\ \A w \in Writers : OnWire(w, Len(wire)) = Len(given[w])

\* stdio_base.h: stdio_write writes len bytes into the uart.  When the writers are
\* done, all they queued gets onto the line and its buffers into the pool, unless a
\* piece was empty or longer than a buffer.
Drained == []<>(odd = {} => Sent)
=============================================================================
