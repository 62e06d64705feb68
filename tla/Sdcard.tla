------------------------------- MODULE Sdcard -------------------------------
(***************************************************************************)
(* The block driver system/sdcard/sdcard.c.  One caller at a time (FatFs   *)
(* holds its volume mutex) reads, writes or erases blocks.  The HAL starts *)
(* a DMA transfer, which moves the blocks on its own; its completion       *)
(* interrupt gives a binary semaphore that the caller waits for with a     *)
(* timeout.  A buffer that is not word aligned goes through a work area    *)
(* from the heap, block by block.  The HAL, the DMA and the card are       *)
(* external: a transfer may fail, and may take longer than the timeout.    *)
(***************************************************************************)
EXTENDS Naturals

CONSTANTS
  N,            \* blocks of the card
  MaxNum,       \* most blocks of a call
  Data,         \* what a block may hold
  Junk,         \* what a buffer holds that nothing was read into
  Heap,         \* work areas that the heap can provide
  LostAnswers,  \* whether the card may take a command whose answer is lost
  NoDma

Blocks == 0..(N - 1)
Ops == {"read", "write"}

\* What the DMA may be doing.
Transfers == [op : Ops, at : 0..N, left : 0..MaxNum, mem : {"user", "work"},
              to : 1..(MaxNum + 1)]

ASSUME SdcardAssumption ==
  /\ N \in Nat \ {0} /\ MaxNum \in Nat \ {0} /\ Heap \in Nat /\ LostAnswers \in BOOLEAN
  /\ Junk \notin Data /\ NoDma \notin Transfers

VARIABLES
  card,         \* card[b]: what block b holds
  hal,          \* h_sdio.State: "ready" or "busy"
  errcode,      \* h_sdio.ErrorCode: "none" or an error
  dma,          \* the transfer in progress, or NoDma
  armed,        \* a failed read command has left the Rx stream waiting for data
  semphr,       \* _rx_cplt_semphr ("read") and _tx_cplt_semphr ("write")
  call,         \* the arguments of the call
  pc, block,    \* where the caller is; its loop counter
  ret,          \* what the last call returned: "ok" or an error
  buf,          \* the caller's buffer
  work,         \* the work area
  held,         \* work areas taken from the heap and not given back
  late          \* history: a transfer has outlasted its call

hw == <<card, hal, errcode, dma, armed>>
mem == <<buf, work, held>>
caller == <<call, pc, block, ret>>
vars == <<hw, semphr, caller, mem, late>>

NoCall == [op |-> "none", addr |-> 0, num |-> 0, aligned |-> TRUE]

Return(r) == /\ ret' = r
             /\ pc' = "done"
             /\ UNCHANGED <<call, block>>

\* sd_error_to_errno.
Errno(e) == IF e = "none" THEN "ok" ELSE "error"

\* What the DMA is to move: n blocks from card block a, from or to m.
Move(op, a, n, m) == [op |-> op, at |-> a, left |-> n, mem |-> m, to |-> 1]
-----------------------------------------------------------------------------
(* Plausible mistakes in the steps below. *)

\* The loop over a buffer that is not aligned reads the first block again.
NextBlockStays ==
  /\ pc = "next"
  /\ \/ /\ block < call.num
        /\ work' = IF call.op = "write" THEN buf[block + 1] ELSE work
        /\ hal = "ready"
        /\ errcode' = "none" /\ hal' = "busy"
        /\ dma' = Move(call.op, call.addr, 1, "work")
        /\ pc' = "wait" /\ UNCHANGED <<call, block, ret, held>>
     \/ /\ block = call.num
        /\ held' = held - 1
        /\ Return("ok")
        /\ UNCHANGED <<work, hal, errcode, dma>>
  /\ UNCHANGED <<card, armed, semphr, buf, late>>

\* The driver does not wait for the transfer it has started.
TakeNoWait ==
  /\ pc = "wait"
  /\ IF call.aligned THEN Return("ok") /\ UNCHANGED buf
     ELSE /\ pc' = "next" /\ block' = block + 1 /\ UNCHANGED <<call, ret>>
          /\ buf' = IF call.op = "read" THEN [buf EXCEPT ![block + 1] = work] ELSE buf
  /\ UNCHANGED <<hw, semphr, work, held, late>>

\* xSemaphoreTake waits with portMAX_DELAY.
TakeForever == FALSE /\ UNCHANGED vars
-----------------------------------------------------------------------------
(* The calls.                                                              *)

\* The caller fills the buffer it wants written, and reads into a fresh one.
Begin(op, a, n, aligned, d) ==
  /\ pc = "idle"
  /\ call' = [op |-> op, addr |-> a, num |-> n, aligned |-> aligned]
  /\ buf' = IF op = "write" THEN d ELSE [i \in 1..MaxNum |-> Junk]
  /\ pc' = "poll"
  /\ UNCHANGED <<hw, semphr, block, ret, work, held, late>>

\* HAL_SD_GetCardState until the card is in the transfer state again, which it is
\* not while it moves data.  The poll may run out of time without any transfer too:
\* the card is still programming, waits for the data of a write whose answer was
\* lost, or does not answer.
Poll == /\ pc = "poll"
        /\ \/ /\ dma = NoDma
              /\ pc' = "start" /\ UNCHANGED <<call, block, ret>>
           \/ Return("error")
        /\ UNCHANGED <<hw, semphr, mem, late>>

\* What a failed start leaves behind.  A read starts its stream before it sends the
\* command and does not stop it when the command fails: the stream stays busy for
\* the reads to come, and moves the data should the card have taken the command
\* after all.  A write sends its command first, and starts nothing when that fails.
HalFails(a, n, m) ==
  \/ /\ call.op = "write" \/ a + n > N \/ armed
     /\ UNCHANGED <<dma, armed, late>>
  \/ /\ call.op = "read" /\ a + n <= N /\ ~armed
     /\ armed' = TRUE
     /\ \/ UNCHANGED <<dma, late>>
        \/ LostAnswers /\ dma' = Move("read", a, n, m) /\ late' = TRUE

\* HAL_SD_ReadBlocks_DMA and HAL_SD_WriteBlocks_DMA for n blocks at a: r is what
\* the driver makes of the answer.  A busy HAL leaves ErrorCode as it was.
HalStart(a, n, m, r) ==
  \/ /\ hal = "ready" /\ a + n <= N /\ ~(call.op = "read" /\ armed)
     /\ errcode' = "none" /\ hal' = "busy"
     /\ dma' = Move(call.op, a, n, m)
     /\ r = "ok" /\ UNCHANGED <<armed, late>>
  \/ /\ hal = "ready"          \* out of range, the stream is busy, the command fails
     /\ errcode' = "error"
     /\ HalFails(a, n, m)
     /\ r = "failed" /\ UNCHANGED hal
  \/ /\ hal = "busy"
     /\ r = "failed" /\ UNCHANGED <<hal, errcode, dma, armed, late>>

StartAligned ==
  /\ pc = "start" /\ call.aligned
  /\ \/ /\ HalStart(call.addr, call.num, "user", "ok")
        /\ pc' = "wait" /\ UNCHANGED <<call, block, ret>>
     \/ /\ HalStart(call.addr, call.num, "user", "failed")
        /\ Return(Errno(errcode'))
  /\ UNCHANGED <<card, semphr, mem>>

\* The work area is taken for the whole call.
StartUnaligned ==
  /\ pc = "start" /\ ~call.aligned
  /\ \/ /\ held < Heap
        /\ held' = held + 1
        /\ work' = Junk /\ block' = 0
        /\ pc' = "next" /\ UNCHANGED <<call, ret>>
     \/ /\ held = Heap                                    \* -ENOMEM
        /\ Return("error")
        /\ UNCHANGED <<held, work>>
  /\ UNCHANGED <<hw, semphr, buf, late>>

NextBlock ==
  /\ pc = "next"
  /\ \/ /\ block < call.num
        /\ work' = IF call.op = "write" THEN buf[block + 1] ELSE work
        /\ \/ /\ HalStart(call.addr + block, 1, "work", "ok")
              /\ pc' = "wait" /\ UNCHANGED <<call, block, ret, held>>
           \/ /\ HalStart(call.addr + block, 1, "work", "failed")
              /\ held' = held - 1
              /\ Return(Errno(errcode'))
     \/ /\ block = call.num
        /\ held' = held - 1
        /\ Return("ok")
        /\ UNCHANGED <<work, hal, errcode, dma, armed, late>>
  /\ UNCHANGED <<card, semphr, buf>>

\* xSemaphoreTake returns with the semaphore.
Take ==
  /\ pc = "wait" /\ semphr[call.op]
  /\ semphr' = [semphr EXCEPT ![call.op] = FALSE]
  /\ IF call.aligned THEN Return("ok") /\ UNCHANGED buf
     ELSE /\ pc' = "next" /\ block' = block + 1 /\ UNCHANGED <<call, ret>>
          /\ buf' = IF call.op = "read" THEN [buf EXCEPT ![block + 1] = work] ELSE buf
  /\ UNCHANGED <<hw, work, held, late>>

\* xSemaphoreTake times out: the work area stays with the transfer.
TakeTimeout == /\ pc = "wait" /\ ~semphr[call.op]
               /\ late' = (late \/ dma # NoDma)
               /\ Return("error")
               /\ UNCHANGED <<hw, semphr, mem>>

\* The caller has its answer and reuses its buffer.
Finish == /\ pc = "done"
          /\ pc' = "idle" /\ call' = NoCall /\ ret' = "none" /\ block' = 0
          /\ buf' = [i \in 1..MaxNum |-> Junk]
          /\ UNCHANGED <<hw, semphr, work, held, late>>

Erased(first, last) == [b \in Blocks |-> IF b \in first..last THEN Junk ELSE card[b]]

\* HAL_SD_Erase: the end address it is given is the last block it erases, which
\* the card must have.  The card may answer a command with an error, or its answer
\* may be lost.
HalErase(first, last, r) ==
  \/ /\ hal = "ready" /\ last < N
     /\ errcode' = "none"
     /\ card' = Erased(first, last)
     /\ r = "ok"
  \/ /\ hal = "ready"
     /\ errcode' = "error"
     /\ \/ UNCHANGED card
        \/ LostAnswers /\ last < N /\ card' = Erased(first, last)
     /\ r = "failed"

\* The call polls the card as Poll does; the rest is one command.
sdcard_erase_blocks(a, n) ==
  /\ pc = "idle"
  /\ call' = [op |-> "erase", addr |-> a, num |-> n, aligned |-> TRUE]
  /\ \/ /\ dma = NoDma /\ HalErase(a, a + n, "ok")
        /\ ret' = "ok"
     \/ /\ dma = NoDma /\ HalErase(a, a + n, "failed")
        /\ ret' = Errno(errcode')
     \/ ret' = "error" /\ UNCHANGED <<card, errcode>>     \* -ETIMEDOUT
  /\ pc' = "done"
  /\ UNCHANGED <<hal, dma, armed, semphr, block, mem, late>>
-----------------------------------------------------------------------------
(* The transfer.                                                           *)

\* The DMA moves a block.  A work area that was given back is someone else's.
DmaStep ==
  /\ dma # NoDma /\ dma.left > 0
  /\ dma' = [dma EXCEPT !.at = @ + 1, !.to = @ + 1, !.left = @ - 1]
  /\ \/ /\ dma.op = "read" /\ dma.mem = "user"
        /\ buf' = [buf EXCEPT ![dma.to] = card[dma.at]]
        /\ UNCHANGED <<card, work>>
     \/ /\ dma.op = "read" /\ dma.mem = "work"
        /\ work' = card[dma.at]
        /\ UNCHANGED <<card, buf>>
     \/ /\ dma.op = "write"
        /\ card' = [card EXCEPT ![dma.at] = IF dma.mem = "user" THEN buf[dma.to] ELSE work]
        /\ UNCHANGED <<buf, work>>
  /\ UNCHANGED <<hal, errcode, armed, semphr, caller, held, late>>

\* HAL_SD_IRQHandler and the callback: the HAL is ready, the semaphore given, also at
\* the end of a read whose command had failed.
Complete == /\ dma # NoDma /\ dma.left = 0
            /\ semphr' = [semphr EXCEPT ![dma.op] = TRUE]
            /\ armed' = (armed /\ dma.op = "write")
            /\ hal' = "ready" /\ dma' = NoDma
            /\ UNCHANGED <<card, errcode, caller, mem, late>>

\* A data error: sdio_error_callback does nothing and no semaphore is given.  The HAL
\* stops the stream of a transfer that it has started, and no other.
Fail == /\ dma # NoDma
        /\ errcode' = "error" /\ hal' = "ready" /\ dma' = NoDma
        /\ UNCHANGED <<card, armed, semphr, caller, mem, late>>
-----------------------------------------------------------------------------
Init ==
  /\ card \in [Blocks -> Data]
  /\ hal = "ready" /\ errcode = "none" /\ dma = NoDma /\ armed = FALSE
  /\ semphr = [o \in Ops |-> FALSE]
  /\ call = NoCall /\ pc = "idle" /\ block = 0 /\ ret = "none"
  /\ buf = [i \in 1..MaxNum |-> Junk] /\ work = Junk /\ held = 0
  /\ late = FALSE

Start == \E a \in Blocks, n \in 1..MaxNum :
           \/ \E op \in Ops, aligned \in BOOLEAN, d \in [1..MaxNum -> Data] :
                Begin(op, a, n, aligned, d)
           \/ sdcard_erase_blocks(a, n)

CallStep == Poll \/ StartAligned \/ StartUnaligned \/ NextBlock \/ Take \/ TakeTimeout
            \/ Finish

Next == Start \/ CallStep \/ DmaStep \/ Complete \/ Fail

Spec == Init /\ [][Next]_vars

\* The caller is scheduled and its timeouts run out; the card promises nothing.
FairSpec == Spec /\ WF_vars(CallStep)
-----------------------------------------------------------------------------
(* Properties.                                                             *)

\* The type of every variable.
TypeOK ==
  /\ card \in [Blocks -> Data \cup {Junk}]
  /\ hal \in {"ready", "busy"} /\ errcode \in {"none", "error"}
  /\ dma \in Transfers \cup {NoDma}
  /\ armed \in BOOLEAN
  /\ semphr \in [Ops -> BOOLEAN]
  /\ call \in [op : Ops \cup {"none", "erase"}, addr : Blocks \cup {0},
               num : 0..MaxNum, aligned : BOOLEAN]
  /\ pc \in {"idle", "poll", "start", "next", "wait", "done"}
  /\ block \in 0..MaxNum
  /\ ret \in {"none", "ok", "error"}
  /\ buf \in [1..MaxNum -> Data \cup {Junk}] /\ work \in Data \cup {Junk}
  /\ held \in 0..Heap /\ late \in BOOLEAN

\* sdcard.h: a call that returns 0 has read or written all its blocks, when it
\* returns, through an aligned buffer or the work area alike.
DeliveredAlways ==
  pc = "done" /\ ret = "ok" /\ call.op \in Ops =>
    \A i \in 1..call.num : card[call.addr + i - 1] = buf[i]

\* As long as no transfer has outlasted its call: it was slower than the timeout, or
\* the answer to its command was lost.
Delivered == ~late => DeliveredAlways

\* As long as that is so, failed commands and transfers included, the DMA touches a buffer only
\* while the caller waits for it, and no semaphore is left given for a later call
\* to mistake for its own; late or not, every variable keeps its type.
Quiet ==
  /\ TypeOK
  /\ ~late => /\ dma # NoDma => pc = "wait" /\ (dma.mem = "work" => ~call.aligned)
              /\ pc # "wait" => \A o \in Ops : ~semphr[o]

\* Every call returns, whatever the card does or fails to do (the timeouts of
\* sdcard.c:121 and :192).
CallReturns == pc # "idle" ~> pc = "idle"
=============================================================================
