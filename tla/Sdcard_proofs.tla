--------------------------- MODULE Sdcard_proofs ---------------------------
(***************************************************************************)
(* What the card driver keeps for any card, any number of blocks of a call *)
(* and any heap: as long as no transfer outlasts its call, a call that     *)
(* says "ok" has delivered its blocks, and neither the DMA nor a semaphore *)
(* is left over for the next call.  One invariant, Inv, is inductive; its  *)
(* part Fits holds always, the other three only until a transfer is late.  *)
(***************************************************************************)
EXTENDS Sdcard, TLAPS

\* What the arguments and the loop counter are where the caller is; and the DMA stays
\* within the card and within the buffer, also when it is late.
Fits ==
  /\ pc \in {"poll", "start", "next", "wait"} => call.op \in Ops /\ call.num > 0
  /\ pc = "next" => ~call.aligned /\ held > 0 /\ block <= call.num
  /\ pc = "wait" /\ ~call.aligned => held > 0 /\ block < call.num
  /\ dma # NoDma => dma.at + dma.left <= N /\ dma.to + dma.left <= MaxNum + 1

\* The transfer in progress is the one that the caller waits for.
Own ==
  /\ pc = "wait" /\ dma.op = call.op /\ ~semphr[call.op]
  /\ call.aligned => /\ dma.mem = "user"
                     /\ dma.at = call.addr + dma.to - 1
                     /\ dma.to + dma.left = call.num + 1
  /\ ~call.aligned => /\ dma.mem = "work"
                      /\ dma.at = call.addr + block + dma.to - 1
                      /\ dma.to + dma.left = 2

\* The HAL, the DMA and the semaphores agree on whether there is one.
Agree ==
  /\ hal = "ready" <=> dma = NoDma
  /\ dma # NoDma => Own
  /\ \A o \in Ops : semphr[o] => pc = "wait" /\ o = call.op

\* The first n blocks of the call are on the card as they are in the buffer.
Moved(n) == \A i \in 1..n : card[call.addr + i - 1] = buf[i]

\* How far the call has got: the DMA with the buffer, or the loop over the blocks
\* with the DMA one block ahead of it between the work area and the card.
Aligned ==
  pc = "wait" /\ call.aligned =>
    /\ dma # NoDma => Moved(dma.to - 1)
    /\ semphr[call.op] => Moved(call.num)

Unaligned ==
  /\ pc = "next" => Moved(block)
  /\ pc = "wait" /\ ~call.aligned =>
       /\ Moved(block)
       /\ call.op = "write" => work = buf[block + 1]
       /\ (dma # NoDma /\ dma.to = 2) \/ semphr[call.op] => card[call.addr + block] = work

Punctual == Agree /\ Aligned /\ Unaligned /\ DeliveredAlways

Inv == TypeOK /\ Fits /\ (~late => Punctual)
-----------------------------------------------------------------------------
(* What the HAL's answers mean.                                            *)

\* The DMA has been set to its first block.
LEMMA Started ==
  ASSUME TypeOK, call.op \in Ops, NEW a \in Nat, NEW n \in 1..MaxNum,
         NEW m \in {"user", "work"}, HalStart(a, n, m, "ok")
  PROVE  /\ dma' = Move(call.op, a, n, m) /\ a + n <= N
         /\ dma' \in Transfers /\ dma' # NoDma
         /\ hal' = "busy" /\ errcode' = "none" /\ UNCHANGED <<armed, late>>
<1>1. /\ dma' = Move(call.op, a, n, m) /\ a + n <= N
      /\ hal' = "busy" /\ errcode' = "none" /\ UNCHANGED <<armed, late>>
  BY DEF HalStart
<1>2. dma' \in Transfers
  BY <1>1, SdcardAssumption DEF Move, Transfers, Ops
<1>. QED BY <1>1, <1>2, SdcardAssumption

\* Nothing has been started, unless that makes a late transfer; an idle HAL says so.
LEMMA Refused ==
  ASSUME TypeOK, Fits, call.op \in Ops, NEW a \in Nat, NEW n \in 1..MaxNum,
         NEW m \in {"user", "work"}, HalStart(a, n, m, "failed")
  PROVE  /\ dma' \in Transfers \cup {NoDma}
         /\ dma' # NoDma => dma'.at + dma'.left <= N /\ dma'.to + dma'.left <= MaxNum + 1
         /\ hal' = hal /\ errcode' \in {"none", "error"} /\ armed' \in BOOLEAN
         /\ late' \in BOOLEAN /\ (late => late')
         /\ ~late' => dma' = dma
         /\ hal = "ready" => errcode' = "error"
<1>1. CASE UNCHANGED <<hal, dma, armed, late>>
  BY <1>1 DEF HalStart, HalFails, TypeOK, Fits
<1>2. CASE armed' = TRUE /\ errcode' = "error" /\ UNCHANGED <<dma, late, hal>>
  BY <1>2 DEF TypeOK, Fits
<1>3. CASE /\ call.op = "read" /\ a + n <= N /\ armed' = TRUE /\ errcode' = "error"
           /\ dma' = Move("read", a, n, m) /\ late' = TRUE /\ UNCHANGED hal
  <2>1. dma' = [op |-> "read", at |-> a, left |-> n, mem |-> m, to |-> 1]
    BY <1>3 DEF Move
  <2>2. dma' \in Transfers
    <3>1. a \in 0..N /\ n \in 0..MaxNum /\ 1 \in 1..(MaxNum + 1)
      BY <1>3, SdcardAssumption
    <3>. QED BY <2>1, <3>1 DEF Transfers, Ops
  <2>. QED BY <1>3, <2>1, <2>2, SdcardAssumption DEF TypeOK
<1>. QED BY <1>1, <1>2, <1>3 DEF HalStart, HalFails, TypeOK
-----------------------------------------------------------------------------
(* Types and bounds.                                                       *)

LEMMA BeginFits ==
  ASSUME TypeOK, Fits, Start
  PROVE  TypeOK' /\ Fits'
<1>1. CASE \E a \in Blocks, n \in 1..MaxNum, op \in Ops, aligned \in BOOLEAN,
              d \in [1..MaxNum -> Data] : Begin(op, a, n, aligned, d)
  <2>. PICK a \in Blocks, n \in 1..MaxNum, op \in Ops, aligned \in BOOLEAN,
           d \in [1..MaxNum -> Data] : Begin(op, a, n, aligned, d)
    BY <1>1
  <2>1. call' = [op |-> op, addr |-> a, num |-> n, aligned |-> aligned] /\ pc' = "poll"
    BY DEF Begin
  <2>2. buf' \in [1..MaxNum -> Data \cup {Junk}]
    BY DEF Begin
  <2>3. TypeOK'
    BY <2>1, <2>2, SdcardAssumption DEF Begin, TypeOK, hw
  <2>. QED BY <2>1, <2>3, SdcardAssumption DEF Begin, Fits, hw
<1>2. CASE \E a \in Blocks, n \in 1..MaxNum : sdcard_erase_blocks(a, n)
  <2>. PICK a \in Blocks, n \in 1..MaxNum : sdcard_erase_blocks(a, n)
    BY <1>2
  <2>1. call' = [op |-> "erase", addr |-> a, num |-> n, aligned |-> TRUE] /\ pc' = "done"
    BY DEF sdcard_erase_blocks
  <2>2. card' \in [Blocks -> Data \cup {Junk}] /\ errcode' \in {"none", "error"}
        /\ ret' \in {"none", "ok", "error"}
    BY DEF sdcard_erase_blocks, HalErase, Erased, TypeOK, Errno
  <2>3. TypeOK'
    BY <2>1, <2>2, SdcardAssumption DEF sdcard_erase_blocks, TypeOK, mem
  <2>. QED BY <2>1, <2>3, SdcardAssumption DEF sdcard_erase_blocks, Fits, mem
<1>. QED BY <1>1, <1>2 DEF Start

\* The DMA moves one block, within the card and the buffer.
LEMMA DmaMoves ==
  ASSUME TypeOK, Fits, DmaStep
  PROVE  /\ dma \in Transfers /\ dma # NoDma /\ dma.left > 0
         /\ dma.at \in Blocks /\ dma.to \in 1..MaxNum
         /\ dma' \in Transfers /\ dma' # NoDma
         /\ dma'.op = dma.op /\ dma'.mem = dma.mem
         /\ dma'.at = dma.at + 1 /\ dma'.to = dma.to + 1 /\ dma'.left = dma.left - 1
         /\ dma'.at + dma'.left = dma.at + dma.left /\ dma'.to + dma'.left = dma.to + dma.left
<1>1. /\ dma \in Transfers /\ dma # NoDma /\ dma.left > 0
      /\ dma.at + dma.left <= N /\ dma.to + dma.left <= MaxNum + 1
      /\ dma' = [dma EXCEPT !.at = @ + 1, !.to = @ + 1, !.left = @ - 1]
  BY DEF DmaStep, TypeOK, Fits
<1>2. dma.at \in Blocks /\ dma.to \in 1..MaxNum
  BY <1>1, SdcardAssumption DEF Transfers, Blocks
<1>3. dma.at + 1 \in 0..N /\ dma.to + 1 \in 1..(MaxNum + 1) /\ dma.left - 1 \in 0..MaxNum
  BY <1>1, <1>2, SdcardAssumption DEF Transfers, Blocks
<1>4. /\ dma' \in Transfers
      /\ dma'.op = dma.op /\ dma'.mem = dma.mem
      /\ dma'.at = dma.at + 1 /\ dma'.to = dma.to + 1 /\ dma'.left = dma.left - 1
  BY <1>1, <1>3 DEF Transfers
<1>5. dma.at \in Nat /\ dma.to \in Nat /\ dma.left \in Nat
  BY <1>1, SdcardAssumption DEF Transfers
<1>. QED BY <1>1, <1>2, <1>4, <1>5, SdcardAssumption

LEMMA StepFits ==
  ASSUME TypeOK, Fits, CallStep \/ DmaStep \/ Complete \/ Fail
  PROVE  TypeOK' /\ Fits'
<1>1. CASE Poll
  BY <1>1 DEF Poll, Return, hw, mem, TypeOK, Fits
<1>2. CASE StartAligned
  <2>1. call.op \in Ops /\ call.addr \in Nat /\ call.num \in 1..MaxNum
    BY <1>2, SdcardAssumption DEF StartAligned, Fits, TypeOK, Blocks
  <2>2. CASE HalStart(call.addr, call.num, "user", "ok") /\ pc' = "wait"
             /\ UNCHANGED <<call, block, ret>>
    <3>1. /\ dma' = Move(call.op, call.addr, call.num, "user")
          /\ call.addr + call.num <= N /\ dma' \in Transfers
          /\ hal' = "busy" /\ errcode' = "none" /\ UNCHANGED <<armed, late>>
      BY <2>1, <2>2, Started
    <3>2. TypeOK'
      BY <1>2, <2>2, <3>1 DEF StartAligned, TypeOK, mem
    <3>3. dma'.at = call.addr /\ dma'.left = call.num /\ dma'.to = 1
      BY <3>1 DEF Move
    <3>. QED BY <1>2, <2>1, <2>2, <3>1, <3>2, <3>3, SdcardAssumption DEF StartAligned, Fits, mem
  <2>3. CASE HalStart(call.addr, call.num, "user", "failed") /\ Return(Errno(errcode'))
    <3>1. /\ dma' \in Transfers \cup {NoDma}
          /\ dma' # NoDma => dma'.at + dma'.left <= N /\ dma'.to + dma'.left <= MaxNum + 1
          /\ hal' = hal /\ errcode' \in {"none", "error"} /\ armed' \in BOOLEAN
          /\ late' \in BOOLEAN
      BY <2>1, <2>3, Refused
    <3>. QED BY <1>2, <2>3, <3>1 DEF StartAligned, Return, Errno, TypeOK, Fits, mem
  <2>. QED BY <1>2, <2>2, <2>3 DEF StartAligned
<1>3. CASE StartUnaligned
  BY <1>3, SdcardAssumption DEF StartUnaligned, Return, hw, TypeOK, Fits
<1>4. CASE NextBlock
  <2>1. /\ call.op \in Ops /\ call.addr + block \in Nat /\ 1 \in 1..MaxNum
        /\ block \in 0..MaxNum /\ call.num \in 1..MaxNum /\ block <= call.num
        /\ ~call.aligned /\ held \in 1..Heap
    BY <1>4, SdcardAssumption DEF NextBlock, Fits, TypeOK, Blocks
  <2>2. CASE block < call.num /\ HalStart(call.addr + block, 1, "work", "ok") /\ pc' = "wait"
             /\ UNCHANGED <<call, block, ret, held>>
    <3>1. /\ dma' = Move(call.op, call.addr + block, 1, "work")
          /\ call.addr + block + 1 <= N /\ dma' \in Transfers
          /\ hal' = "busy" /\ errcode' = "none" /\ UNCHANGED <<armed, late>>
      BY <2>1, <2>2, Started
    <3>2. work' \in Data \cup {Junk}
      BY <1>4, <2>1, <2>2, SdcardAssumption DEF NextBlock, TypeOK
    <3>3. TypeOK'
      BY <1>4, <2>2, <3>1, <3>2 DEF NextBlock, TypeOK
    <3>4. dma'.at = call.addr + block /\ dma'.left = 1 /\ dma'.to = 1
      BY <3>1 DEF Move
    <3>. QED BY <1>4, <2>1, <2>2, <3>1, <3>3, <3>4, SdcardAssumption DEF NextBlock, Fits
  <2>3. CASE block < call.num /\ HalStart(call.addr + block, 1, "work", "failed")
             /\ held' = held - 1 /\ Return(Errno(errcode'))
    <3>1. /\ dma' \in Transfers \cup {NoDma}
          /\ dma' # NoDma => dma'.at + dma'.left <= N /\ dma'.to + dma'.left <= MaxNum + 1
          /\ hal' = hal /\ errcode' \in {"none", "error"} /\ armed' \in BOOLEAN
          /\ late' \in BOOLEAN
      BY <2>1, <2>3, Refused
    <3>2. work' \in Data \cup {Junk}
      BY <1>4, <2>1, <2>3, SdcardAssumption DEF NextBlock, TypeOK
    <3>3. held' \in 0..Heap
      BY <2>1, <2>3, SdcardAssumption
    <3>. QED BY <1>4, <2>3, <3>1, <3>2, <3>3 DEF NextBlock, Return, Errno, TypeOK, Fits
  <2>4. CASE block = call.num /\ held' = held - 1 /\ Return("ok")
             /\ UNCHANGED <<work, hal, errcode, dma, armed, late>>
    BY <1>4, <2>1, <2>4, SdcardAssumption DEF NextBlock, Return, TypeOK, Fits
  <2>. QED BY <1>4, <2>2, <2>3, <2>4 DEF NextBlock
<1>5. CASE Take
  <2>1. semphr' \in [Ops -> BOOLEAN]
    BY <1>5 DEF Take, TypeOK
  <2>2. CASE call.aligned
    BY <1>5, <2>1, <2>2 DEF Take, Return, hw, TypeOK, Fits
  <2>3. CASE ~call.aligned
    <3>1. block \in 0..MaxNum /\ call.num \in 0..MaxNum /\ block < call.num
      BY <1>5, <2>3 DEF Take, TypeOK, Fits
    <3>2. block' \in 0..MaxNum /\ block' <= call.num
      BY <1>5, <2>3, <3>1, SdcardAssumption DEF Take
    <3>3. buf' \in [1..MaxNum -> Data \cup {Junk}]
      BY <1>5, <2>3 DEF Take, TypeOK
    <3>. QED BY <1>5, <2>1, <2>3, <3>1, <3>2, <3>3 DEF Take, hw, TypeOK, Fits
  <2>. QED BY <2>2, <2>3
<1>6. CASE TakeTimeout
  BY <1>6 DEF TakeTimeout, Return, hw, mem, TypeOK, Fits
<1>7. CASE Finish
  BY <1>7, SdcardAssumption DEF Finish, NoCall, hw, TypeOK, Fits
<1>8. CASE DmaStep
  <2>1. /\ dma.at \in Blocks /\ dma.to \in 1..MaxNum /\ dma' \in Transfers
        /\ dma'.at + dma'.left = dma.at + dma.left /\ dma'.to + dma'.left = dma.to + dma.left
        /\ dma # NoDma
    BY <1>8, DmaMoves
  <2>2. /\ card' \in [Blocks -> Data \cup {Junk}]
        /\ buf' \in [1..MaxNum -> Data \cup {Junk}] /\ work' \in Data \cup {Junk}
    BY <1>8, <2>1 DEF DmaStep, TypeOK
  <2>3. TypeOK'
    BY <1>8, <2>1, <2>2 DEF DmaStep, caller, TypeOK
  <2>4. dma'.at + dma'.left <= N /\ dma'.to + dma'.left <= MaxNum + 1
    BY <2>1 DEF Fits
  <2>. QED BY <1>8, <2>3, <2>4 DEF DmaStep, caller, Fits
<1>9. CASE Complete
  <2>1. dma \in Transfers
    BY <1>9 DEF Complete, TypeOK
  <2>2. semphr' \in [Ops -> BOOLEAN]
    BY <1>9, <2>1 DEF Complete, TypeOK, Transfers
  <2>. QED BY <1>9, <2>2 DEF Complete, caller, mem, TypeOK, Fits
<1>10. CASE Fail
  BY <1>10 DEF Fail, caller, mem, TypeOK, Fits
<1>. QED BY <1>1, <1>2, <1>3, <1>4, <1>5, <1>6, <1>7, <1>8, <1>9, <1>10 DEF CallStep
-----------------------------------------------------------------------------
(* Until a transfer is late.                                               *)

\* A caller that does not wait finds everything at rest.
LEMMA AtRest ==
  ASSUME TypeOK, Agree, pc # "wait"
  PROVE  dma = NoDma /\ hal = "ready" /\ \A o \in Ops : ~semphr[o]
BY DEF Agree, Own

\* And so it stays if a step does not make it wait.
LEMMA StaysAtRest ==
  ASSUME TypeOK, Agree, pc # "wait", pc' # "wait", UNCHANGED <<dma, hal, semphr>>
  PROVE  Agree' /\ Aligned'
BY AtRest DEF Agree, Aligned

LEMMA BeginPunctual ==
  ASSUME TypeOK, Fits, Punctual, Start
  PROVE  Punctual'
<1>1. pc = "idle" /\ UNCHANGED <<dma, hal, semphr>> /\ pc' \in {"poll", "done"}
      /\ (pc' = "done" => call'.op = "erase")
  BY DEF Start, Begin, sdcard_erase_blocks, hw
<1>2. Agree' /\ Aligned'
  BY <1>1, StaysAtRest DEF Punctual
<1>3. Unaligned' /\ DeliveredAlways'
  BY <1>1 DEF Unaligned, DeliveredAlways, Ops
<1>. QED BY <1>2, <1>3 DEF Punctual

LEMMA CallPunctual ==
  ASSUME TypeOK, Fits, Punctual, CallStep, ~late'
  PROVE  Punctual'
<1>a. Agree /\ Aligned /\ Unaligned
  BY DEF Punctual
<1>1. CASE Poll
  <2>1. pc' \in {"start", "done"} /\ pc # "wait" /\ UNCHANGED <<dma, hal, semphr>>
        /\ (pc' = "done" => ret' = "error")
    BY <1>1 DEF Poll, Return, hw
  <2>. QED BY <1>a, <2>1, StaysAtRest DEF Punctual, Unaligned, DeliveredAlways
<1>2. CASE StartAligned
  <2>1. call.op \in Ops /\ call.addr \in Nat /\ call.num \in 1..MaxNum
        /\ call.aligned /\ pc = "start"
    BY <1>2, SdcardAssumption DEF StartAligned, Fits, TypeOK, Blocks
  <2>2. dma = NoDma /\ hal = "ready" /\ \A o \in Ops : ~semphr[o]
    BY <1>a, <2>1, AtRest
  <2>3. CASE HalStart(call.addr, call.num, "user", "ok") /\ pc' = "wait"
             /\ UNCHANGED <<call, block, ret>>
    <3>1. /\ dma' = Move(call.op, call.addr, call.num, "user") /\ dma' # NoDma
          /\ hal' = "busy"
      BY <2>1, <2>3, Started
    <3>2. semphr' = semphr
      BY <1>2 DEF StartAligned
    <3>3. Agree'
      BY <2>1, <2>2, <2>3, <3>1, <3>2 DEF Agree, Own, Move
    <3>4. Aligned'
      BY <2>1, <2>2, <2>3, <3>1, <3>2 DEF Aligned, Moved, Move
    <3>. QED BY <2>1, <2>3, <3>3, <3>4 DEF Punctual, Unaligned, DeliveredAlways
  <2>4. CASE HalStart(call.addr, call.num, "user", "failed") /\ Return(Errno(errcode'))
    <3>1. dma' = dma /\ hal' = hal /\ errcode' = "error"
      BY <2>1, <2>2, <2>4, Refused
    <3>2. pc' = "done" /\ ret' = "error" /\ semphr' = semphr
      BY <1>2, <2>4, <3>1 DEF StartAligned, Return, Errno
    <3>. QED BY <1>a, <2>1, <3>1, <3>2, StaysAtRest DEF Punctual, Unaligned, DeliveredAlways
  <2>. QED BY <1>2, <2>3, <2>4 DEF StartAligned
<1>3. CASE StartUnaligned
  <2>1. pc' \in {"next", "done"} /\ pc # "wait" /\ UNCHANGED <<dma, hal, semphr>>
        /\ (pc' = "done" => ret' = "error") /\ (pc' = "next" => block' = 0)
    BY <1>3 DEF StartUnaligned, Return, hw
  <2>2. Unaligned'
    BY <2>1 DEF Unaligned, Moved
  <2>. QED BY <1>a, <2>1, <2>2, StaysAtRest DEF Punctual, DeliveredAlways
<1>4. CASE NextBlock
  <2>1. /\ call.op \in Ops /\ call.addr \in Nat /\ call.addr + block \in Nat /\ 1 \in 1..MaxNum
        /\ block \in 0..MaxNum /\ call.num \in 1..MaxNum /\ block <= call.num
        /\ ~call.aligned /\ pc = "next" /\ UNCHANGED <<card, semphr, buf>>
    BY <1>4, SdcardAssumption DEF NextBlock, Fits, TypeOK, Blocks
  <2>2. dma = NoDma /\ hal = "ready" /\ \A o \in Ops : ~semphr[o]
    BY <1>a, <2>1, AtRest
  <2>3. CASE block < call.num /\ HalStart(call.addr + block, 1, "work", "ok") /\ pc' = "wait"
             /\ UNCHANGED <<call, block, ret, held>>
    <3>1. /\ dma' = Move(call.op, call.addr + block, 1, "work") /\ dma' # NoDma
          /\ hal' = "busy"
      BY <2>1, <2>3, Started
    <3>2. Agree'
      BY <2>1, <2>2, <2>3, <3>1 DEF Agree, Own, Move
    <3>3. call.op = "write" => work' = buf[block + 1]
      BY <1>4, <2>1, <2>3 DEF NextBlock
    <3>4. dma'.to = 1
      BY <3>1 DEF Move
    <3>5. Unaligned'
      BY <1>a, <2>1, <2>2, <2>3, <3>3, <3>4 DEF Unaligned, Moved
    <3>. QED BY <2>1, <2>3, <3>2, <3>5 DEF Punctual, Aligned, DeliveredAlways
  <2>4. CASE block < call.num /\ HalStart(call.addr + block, 1, "work", "failed")
             /\ held' = held - 1 /\ Return(Errno(errcode'))
    <3>1. dma' = dma /\ hal' = hal /\ errcode' = "error"
      BY <2>1, <2>2, <2>4, Refused
    <3>2. pc' = "done" /\ ret' = "error"
      BY <2>4, <3>1 DEF Return, Errno
    <3>. QED BY <1>a, <2>1, <3>1, <3>2, StaysAtRest DEF Punctual, Unaligned, DeliveredAlways
  <2>5. CASE block = call.num /\ held' = held - 1 /\ Return("ok")
             /\ UNCHANGED <<work, hal, errcode, dma, armed, late>>
    <3>1. pc' = "done" /\ call' = call
      BY <2>5 DEF Return
    <3>2. Moved(call.num)
      BY <1>a, <2>1, <2>5 DEF Unaligned
    <3>3. DeliveredAlways'
      BY <2>1, <3>1, <3>2 DEF DeliveredAlways, Moved
    <3>. QED BY <1>a, <2>1, <2>5, <3>1, <3>3, StaysAtRest DEF Punctual, Unaligned
  <2>. QED BY <1>4, <2>3, <2>4, <2>5 DEF NextBlock
<1>5. CASE Take
  <2>1. /\ pc = "wait" /\ call.op \in Ops /\ semphr[call.op]
        /\ semphr' = [semphr EXCEPT ![call.op] = FALSE]
        /\ UNCHANGED <<card, hal, dma, work>> /\ call' = call
    BY <1>5 DEF Take, Fits, Return, hw
  <2>2. dma = NoDma /\ pc' # "wait"
    BY <1>a, <1>5, <2>1 DEF Agree, Own, Take, Return
  <2>3. Agree' /\ Aligned'
    BY <1>a, <2>1, <2>2 DEF Agree, Aligned, TypeOK
  <2>4. CASE call.aligned
    <3>1. pc' = "done" /\ Moved(call.num) /\ buf' = buf
      BY <1>a, <1>5, <2>1, <2>4 DEF Aligned, Take, Return
    <3>. QED BY <2>1, <2>3, <3>1 DEF Punctual, Unaligned, DeliveredAlways, Moved
  <2>5. CASE ~call.aligned
    <3>1. /\ pc' = "next" /\ block' = block + 1
          /\ buf' = IF call.op = "read" THEN [buf EXCEPT ![block + 1] = work] ELSE buf
      BY <1>5, <2>5 DEF Take
    <3>2. /\ Moved(block) /\ card[call.addr + block] = work
          /\ call.op = "write" => work = buf[block + 1]
      BY <1>a, <2>1, <2>5 DEF Unaligned
    <3>3. block \in Nat /\ block + 1 \in 1..MaxNum /\ call.addr \in Nat
      BY <2>1, <2>5, SdcardAssumption DEF TypeOK, Fits, Blocks
    <3>4. buf'[block + 1] = work /\ \A i \in 1..block : buf'[i] = buf[i]
      BY <2>1, <3>1, <3>2, <3>3 DEF TypeOK, Ops
    <3>5. ASSUME NEW i \in 1..(block + 1)
          PROVE  card[call.addr + i - 1] = buf'[i]
      <4>1. CASE i = block + 1
        <5>1. call.addr + i - 1 = call.addr + block
          BY <3>3, <4>1
        <5>. QED BY <3>2, <3>4, <4>1, <5>1
      <4>2. CASE i # block + 1
        <5>1. i \in 1..block
          BY <3>3, <4>2
        <5>. QED BY <3>2, <3>4, <5>1 DEF Moved
      <4>. QED BY <4>1, <4>2
    <3>6. Moved(block)'
      BY <2>1, <3>1, <3>5 DEF Moved
    <3>. QED BY <2>3, <3>1, <3>6 DEF Punctual, Unaligned, DeliveredAlways
  <2>. QED BY <2>4, <2>5
<1>6. CASE TakeTimeout
  <2>1. /\ pc = "wait" /\ ~semphr[call.op] /\ dma = NoDma /\ UNCHANGED <<dma, hal, semphr>>
        /\ pc' = "done" /\ ret' = "error"
    BY <1>6 DEF TakeTimeout, Return, hw
  <2>2. Agree' /\ Aligned'
    BY <1>a, <2>1 DEF Agree, Aligned
  <2>. QED BY <2>1, <2>2 DEF Punctual, Unaligned, DeliveredAlways
<1>7. CASE Finish
  <2>1. pc = "done" /\ pc' = "idle" /\ UNCHANGED <<dma, hal, semphr>>
    BY <1>7 DEF Finish, hw
  <2>. QED BY <1>a, <2>1, StaysAtRest DEF Punctual, Unaligned, DeliveredAlways
<1>. QED BY <1>1, <1>2, <1>3, <1>4, <1>5, <1>6, <1>7 DEF CallStep

\* The DMA moves the next block of the call that waits for it.
LEMMA DmaPunctual ==
  ASSUME TypeOK, Fits, Punctual, DmaStep
  PROVE  Punctual'
<1>1. /\ dma \in Transfers /\ dma # NoDma /\ dma.left > 0
      /\ dma.at \in Blocks /\ dma.to \in 1..MaxNum /\ dma' # NoDma
      /\ dma'.op = dma.op /\ dma'.mem = dma.mem
      /\ dma'.at = dma.at + 1 /\ dma'.to = dma.to + 1
      /\ dma'.to + dma'.left = dma.to + dma.left
  BY DmaMoves
<1>3. Own /\ UNCHANGED <<hal, semphr, call, pc, block>>
  BY <1>1 DEF DmaStep, caller, Punctual, Agree
<1>6. /\ call.addr \in Nat /\ block \in Nat /\ pc = "wait" /\ call.op \in Ops
      /\ dma.op = call.op /\ ~semphr[call.op]
  BY <1>3, SdcardAssumption DEF TypeOK, Fits, Blocks, Own
<1>7. dma.at \in Nat /\ dma.to \in Nat
  BY <1>1, SdcardAssumption DEF Blocks
<1>9. card \in [Blocks -> Data \cup {Junk}] /\ buf \in [1..MaxNum -> Data \cup {Junk}]
  BY DEF TypeOK
<1>8. Own'
  BY <1>1, <1>3, <1>6, <1>7 DEF Own
<1>2. Agree'
  BY <1>1, <1>3, <1>8 DEF Punctual, Agree
<1>4. CASE call.aligned
  <2>1. dma.mem = "user" /\ dma.at = call.addr + dma.to - 1 /\ Moved(dma.to - 1)
    BY <1>1, <1>3, <1>6, <1>7, <1>4 DEF Own, Punctual, Aligned
  <2>2. \/ /\ buf' = [buf EXCEPT ![dma.to] = card[dma.at]] /\ card' = card
        \/ /\ card' = [card EXCEPT ![dma.at] = buf[dma.to]] /\ buf' = buf
    BY <1>1, <2>1 DEF DmaStep, Transfers, Ops
  <2>3. ASSUME NEW i \in 1..dma.to
        PROVE  card'[call.addr + i - 1] = buf'[i]
    <3>1. CASE i = dma.to
      <4>1. call.addr + i - 1 = dma.at
        BY <1>7, <2>1, <3>1
      <4>. QED BY <1>1, <1>9, <2>2, <3>1, <4>1
    <3>2. CASE i # dma.to
      <4>1. i \in 1..(dma.to - 1) /\ i \in 1..MaxNum
        BY <1>1, <1>7, <3>2, SdcardAssumption
      <4>2. call.addr + i - 1 \in Blocks /\ call.addr + i - 1 # dma.at
        BY <1>1, <1>6, <1>7, <2>1, <4>1, SdcardAssumption DEF Blocks
      <4>3. card[call.addr + i - 1] = buf[i]
        BY <2>1, <4>1 DEF Moved
      <4>. QED BY <1>9, <2>2, <3>2, <4>1, <4>2, <4>3
    <3>. QED BY <3>1, <3>2
  <2>4. dma'.to - 1 = dma.to
    BY <1>1, <1>3, <1>6, <1>7
  <2>5. Aligned'
    BY <1>3, <1>6, <1>7, <2>3, <2>4 DEF Aligned, Moved
  <2>. QED BY <1>2, <1>3, <1>6, <1>7, <1>4, <2>5 DEF Punctual, Unaligned, DeliveredAlways
<1>5. CASE ~call.aligned
  <2>1. /\ dma.mem = "work" /\ dma.at = call.addr + block + dma.to - 1 /\ dma.to + dma.left = 2
        /\ Moved(block)
        /\ call.op = "write" => work = buf[block + 1]
    BY <1>1, <1>3, <1>6, <1>7, <1>5 DEF Own, Punctual, Unaligned
  <2>2. dma.to = 1 /\ dma.at = call.addr + block
    BY <1>1, <1>3, <1>6, <1>7, <2>1 DEF Transfers
  <2>3. buf' = buf
    BY <1>1, <2>1 DEF DmaStep, Transfers
  <2>4. /\ \A i \in 1..block : card'[call.addr + i - 1] = card[call.addr + i - 1]
        /\ card'[call.addr + block] = work'
        /\ call.op = "write" => work' = work
    <3>1. CASE dma.op = "read"
      BY <1>1, <1>3, <1>6, <1>7, <2>1, <2>2, <3>1 DEF DmaStep
    <3>2. CASE dma.op = "write"
      <4>1. card' = [card EXCEPT ![dma.at] = work] /\ work' = work
        BY <2>1, <3>2 DEF DmaStep
      <4>2. \A i \in 1..block : call.addr + i - 1 \in Blocks \ {dma.at}
        BY <1>1, <1>6, <1>7, <2>2, SdcardAssumption DEF Blocks
      <4>. QED BY <1>1, <1>9, <2>2, <3>2, <4>1, <4>2
    <3>. QED BY <1>1, <3>1, <3>2 DEF Transfers, Ops
  <2>5. Unaligned'
    <3>1. \A i \in 1..block : card'[call.addr + i - 1] = buf'[i]
      BY <2>1, <2>3, <2>4 DEF Moved
    <3>2. Moved(block)'
      BY <1>3, <3>1 DEF Moved
    <3>3. call.op = "write" => work' = buf'[block + 1]
      BY <2>1, <2>3, <2>4
    <3>. QED BY <1>3, <1>6, <2>4, <3>2, <3>3 DEF Unaligned
  <2>. QED BY <1>2, <1>3, <1>6, <1>7, <1>5, <2>5 DEF Punctual, Aligned, DeliveredAlways
<1>. QED BY <1>4, <1>5

\* It ends, and wakes the caller or lets it time out.
LEMMA EndPunctual ==
  ASSUME TypeOK, Fits, Punctual, Complete \/ Fail
  PROVE  Punctual'
<1>1. /\ dma # NoDma /\ dma \in Transfers /\ Own
      /\ dma' = NoDma /\ hal' = "ready" /\ UNCHANGED <<card, call, pc, block, buf, work>>
  BY DEF Complete, Fail, TypeOK, Punctual, Agree, caller, mem
<1>2. pc = "wait" /\ call.op \in Ops /\ dma.op = call.op /\ ~semphr[call.op]
      /\ \A o \in Ops : ~semphr[o]
  BY <1>1 DEF Own, Fits, Punctual, Agree
<1>3. CASE Complete
  <2>1. semphr' = [semphr EXCEPT ![call.op] = TRUE] /\ dma.left = 0
    BY <1>1, <1>2, <1>3 DEF Complete, Own
  <2>2. Agree'
    BY <1>1, <1>2, <2>1 DEF Agree, TypeOK
  <2>3. CASE call.aligned
    <3>1. dma.to - 1 = call.num /\ Moved(dma.to - 1)
      BY <1>1, <1>2, <2>1, <2>3 DEF Own, Punctual, Aligned, Transfers, TypeOK
    <3>2. Moved(call.num)
      BY <3>1
    <3>. QED BY <1>1, <1>2, <2>2, <2>3, <3>2
         DEF Punctual, Aligned, Moved, Unaligned, DeliveredAlways
  <2>4. CASE ~call.aligned
    <3>1. dma.to = 2
      BY <1>1, <2>1, <2>4 DEF Own, Transfers
    <3>2. Unaligned'
      BY <1>1, <1>2, <2>4, <3>1 DEF Punctual, Unaligned, Moved
    <3>. QED BY <1>1, <1>2, <2>2, <2>4, <3>2 DEF Punctual, Aligned, DeliveredAlways
  <2>. QED BY <2>3, <2>4
<1>4. CASE Fail
  <2>1. semphr' = semphr
    BY <1>4 DEF Fail
  <2>2. Agree' /\ Aligned'
    BY <1>1, <1>2, <2>1 DEF Agree, Aligned
  <2>3. Unaligned'
    BY <1>1, <1>2, <2>1 DEF Punctual, Unaligned, Moved
  <2>. QED BY <1>1, <1>2, <2>2, <2>3 DEF Punctual, DeliveredAlways
<1>. QED BY <1>3, <1>4
-----------------------------------------------------------------------------
(* The theorems.                                                           *)

\* A transfer that was late stays so.
LEMMA LateStays ==
  ASSUME TypeOK, Fits, Next, late
  PROVE  late'
<1>1. CASE Start
  BY <1>1 DEF Start, Begin, sdcard_erase_blocks
<1>2. CASE StartAligned
  <2>1. call.op \in Ops /\ call.addr \in Nat /\ call.num \in 1..MaxNum
    BY <1>2, SdcardAssumption DEF StartAligned, Fits, TypeOK, Blocks
  <2>. QED BY <1>2, <2>1, Started, Refused DEF StartAligned
<1>3. CASE NextBlock
  <2>1. call.op \in Ops /\ call.addr + block \in Nat /\ 1 \in 1..MaxNum
    BY <1>3, SdcardAssumption DEF NextBlock, Fits, TypeOK, Blocks
  <2>. QED BY <1>3, <2>1, Started, Refused DEF NextBlock
<1>4. CASE Poll \/ StartUnaligned \/ Take \/ TakeTimeout \/ Finish
  BY <1>4 DEF Poll, StartUnaligned, Take, TakeTimeout, Finish
<1>5. CASE DmaStep \/ Complete \/ Fail
  BY <1>5 DEF DmaStep, Complete, Fail
<1>. QED BY <1>1, <1>2, <1>3, <1>4, <1>5 DEF Next, CallStep

LEMMA Inductive == Inv /\ [Next]_vars => Inv'
<1>. SUFFICES ASSUME Inv, [Next]_vars PROVE Inv'
  OBVIOUS
<1>a. TypeOK /\ Fits /\ (~late => Punctual)
  BY DEF Inv
<1>1. CASE Start
  BY <1>a, <1>1, BeginFits, BeginPunctual, LateStays DEF Next, Inv
<1>2. CASE CallStep
  BY <1>a, <1>2, StepFits, CallPunctual, LateStays DEF Next, Inv
<1>3. CASE DmaStep
  BY <1>a, <1>3, StepFits, DmaPunctual, LateStays DEF Next, Inv
<1>4. CASE Complete \/ Fail
  BY <1>a, <1>4, StepFits, EndPunctual, LateStays DEF Next, Inv
<1>5. CASE UNCHANGED vars
  BY <1>a, <1>5 DEF Inv, TypeOK, Fits, Punctual, Agree, Own, Aligned, Unaligned, Moved,
                    DeliveredAlways, vars, hw, mem, caller
<1>. QED BY <1>1, <1>2, <1>3, <1>4, <1>5 DEF Next

LEMMA Initial == Init => Inv
<1>. SUFFICES ASSUME Init PROVE Inv
  OBVIOUS
<1>1. TypeOK
  <2>1. call \in [op : Ops \cup {"none", "erase"}, addr : Blocks \cup {0},
                  num : 0..MaxNum, aligned : BOOLEAN]
    BY SdcardAssumption DEF Init, NoCall
  <2>2. 0 \in 0..MaxNum /\ 0 \in 0..Heap
    BY SdcardAssumption
  <2>. QED BY <2>1, <2>2 DEF Init, TypeOK
<1>3. Fits
  BY DEF Init, Fits
<1>2. Punctual
  BY DEF Init, Punctual, Agree, Aligned, Unaligned, DeliveredAlways
<1>. QED BY <1>1, <1>2, <1>3 DEF Inv

LEMMA Invariance == Spec => []Inv
BY Initial, Inductive, PTL DEF Spec

\* sdcard.h: unless a transfer has outlasted its call, or the answer to its command
\* was lost, a call that returns 0 has read or written all its blocks: with a buffer
\* that is aligned and with one that goes through the work area, whatever commands
\* and transfers fail before it, for a card and a call of any size.
THEOREM CallsDeliver == Spec => []Delivered
<1>1. Inv => Delivered
  BY DEF Inv, Punctual, Delivered
<1>. QED BY <1>1, Invariance, PTL

\* sdcard.c: until then the DMA touches a buffer only while its call waits for it,
\* and no semaphore is left given for a later call; late or not, the DMA stays within
\* the card and the buffer, and every variable keeps its type.
THEOREM CallsLeaveNothing == Spec => []Quiet
<1>1. Inv => Quiet
  BY DEF Inv, Punctual, Agree, Own, Quiet
<1>. QED BY <1>1, Invariance, PTL
=============================================================================
