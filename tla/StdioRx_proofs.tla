---------------------------- MODULE StdioRx_proofs ----------------------------
(***************************************************************************)
(* What the receive half of the standard I/O keeps, for any number of      *)
(* readers and of characters and queues of any length.                     *)
(***************************************************************************)
EXTENDS StdioRx, FiniteSetTheorems, SequenceTheorems, TLAPS

Receivers == Readers \cup {"cli"}

\* The queues, in parts.
Wire == /\ next \in 1..(N + 1) /\ dr \in 0..N /\ ore \in BOOLEAN /\ armed \in BOOLEAN
        /\ isr = NoIsr \/ isr \in [rxne : BOOLEAN, ore : BOOLEAN]
        /\ haste \subseteq {"fast", "race"}
Task == /\ rpc \in {"start", "recv", "arm", "route", "stdin", "listeners"} /\ ch \in 0..N
        /\ rxq \in Seq(1..N) /\ Len(rxq) <= 1
Calls == /\ holder \in Readers \cup {Nobody}
         /\ need \in [Readers -> 0..MaxLen] /\ reads \in 0..MaxReads
Queues == /\ stdinq \in Seq(1..N) /\ Len(stdinq) <= StdinLen
          /\ cliq \in Seq(1..N) /\ Len(cliq) <= CliLen
          /\ got \in [Receivers -> Seq(1..N)]

\* A reception is armed when the interrupt handler runs, and none while a character is
\* between it and the read task, which then arms the next one.
Arming ==
  /\ isr # NoIsr => armed /\ (isr.rxne => dr # 0)
  /\ armed => rxq = <<>>
  /\ rpc \in {"start", "arm"} => ~armed /\ rxq = <<>>

\* As long as nothing came while the handler ran, it sees what there is, and leaves a
\* character or the read task to arm the next reception.
Served ==
  "race" \notin haste =>
    /\ ore => dr # 0
    /\ isr # NoIsr => isr.rxne /\ isr.ore = ore
    /\ rpc \in {"recv", "route", "stdin", "listeners"} /\ rxq = <<>> /\ isr = NoIsr => armed

\* The characters on their way, in the order they came: a character x is older than
\* the one in the UART, than the one in the queue, and than the read task's.
InHand == rpc \in {"arm", "route", "stdin", "listeners"}
Typed(x) == x < next /\ (dr # 0 => x < dr)
Queued(x) == Typed(x) /\ (rxq # <<>> => x < rxq[1])
Sent(x) == Queued(x) /\ (InHand => x < ch)
Chain ==
  /\ dr < next
  /\ rxq # <<>> => Typed(rxq[1])
  /\ InHand => ch > 0 /\ Queued(ch)
  /\ \A i \in 1..Len(stdinq) : Sent(stdinq[i])
  /\ \A i \in 1..Len(cliq) : Sent(cliq[i])
  /\ \A c \in Receivers : \A i \in 1..Len(got[c]) : Sent(got[c][i])

\* What was received is older than what waits for the same receiver, and no character
\* is in two places.
Rising(s) == \A i, j \in 1..Len(s) : i < j => s[i] < s[j]
Older(s, q) == \A i \in 1..Len(s), j \in 1..Len(q) : s[i] < q[j]
Apart(s, q) == \A i \in 1..Len(s), j \in 1..Len(q) : s[i] # q[j]
Streams ==
  /\ Rising(cliq) /\ \A c \in Receivers : Rising(got[c])
  /\ Older(got["cli"], cliq) /\ Apart(got["cli"], stdinq) /\ Apart(stdinq, cliq)
  /\ \A r \in Readers : Older(got[r], stdinq) /\ Apart(got[r], cliq)
  /\ \A c, d \in Receivers : c # d => Apart(got[c], got[d])

RxInv == Wire /\ Task /\ Calls /\ Queues /\ Arming /\ Served /\ Chain /\ Streams

LEMMA RxInit ==
  ASSUME StdioRxAssumption, Init
  PROVE  RxInv
<1>1. Wire /\ Task
  <2>1. next \in 1..(N + 1) /\ dr \in 0..N
    BY DEF StdioRxAssumption, Init
  <2>3. Wire
    BY <2>1 DEF Init, Wire
  <2>2. rpc = "start" /\ ch = 0 /\ rxq = <<>> /\ N \in Nat
    BY DEF StdioRxAssumption, Init
  <2>. QED BY <2>2, <2>3 DEF Task
<1>2. Calls /\ Queues
  BY DEF StdioRxAssumption, Init, Calls, Queues, Receivers, StdinLen
<1>3. Arming /\ Served
  BY DEF Init, Arming, Served
<1>4. Chain /\ Streams
  BY DEF Init, Chain, Streams, InHand, Receivers, Rising, Older, Apart
<1>. QED BY <1>1, <1>2, <1>3, <1>4 DEF RxInv

\* What comes after a queue takes, and gives, a character.
LEMMA Taken ==
  ASSUME NEW q \in Seq(1..N), q # <<>>
  PROVE  /\ Head(q) = q[1] /\ Head(q) \in 1..N /\ Tail(q) \in Seq(1..N)
         /\ Len(Tail(q)) = Len(q) - 1 /\ Len(q) \in Nat \ {0}
         /\ \A i \in 1..(Len(q) - 1) : Tail(q)[i] = q[i + 1]
<1>1. Head(q) = q[1] /\ Len(q) \in Nat \ {0}
  BY EmptySeq
<1>2. /\ Head(q) \in 1..N /\ Tail(q) \in Seq(1..N) /\ Len(Tail(q)) = Len(q) - 1
      /\ \A i \in 1..Len(Tail(q)) : Tail(q)[i] = q[i + 1]
  BY HeadTailProperties
<1>. QED BY <1>1, <1>2

LEMMA Added ==
  ASSUME NEW q \in Seq(1..N), NEW x \in 1..N
  PROVE  /\ Append(q, x) \in Seq(1..N) /\ Len(Append(q, x)) = Len(q) + 1 /\ Len(q) \in Nat
         /\ \A i \in 1..Len(q) : Append(q, x)[i] = q[i]
         /\ Append(q, x)[Len(q) + 1] = x
OBVIOUS

LEMMA StillRising ==
  ASSUME NEW s, NEW t, NEW x, Len(s) \in Nat, Len(t) = Len(s) + 1,
         \A i \in 1..Len(s) : t[i] = s[i], t[Len(s) + 1] = x,
         Rising(s), \A i \in 1..Len(s) : s[i] < x
  PROVE  Rising(t)
BY DEF Rising

\* A step of the wire leaves the receivers alone.
LEMMA RxWire ==
  ASSUME StdioRxAssumption, RxInv, Arrive \/ IrqEnter \/ Irq
  PROVE  RxInv'
<1>. USE DEF StdioRxAssumption, task, stdin, cli
<1>a. Wire /\ Task /\ Calls /\ Queues /\ Arming /\ Served /\ Chain /\ Streams
  BY DEF RxInv
<1>1. CASE Arrive
  <2>0. Wire'
    <3>1. next' \in 1..(N + 1) /\ dr' \in 0..N
      BY <1>a, <1>1 DEF Arrive, Wire
    <3>2. haste' \subseteq {"fast", "race"}
      BY <1>a, <1>1 DEF Arrive, Wire
    <3>. QED BY <1>a, <1>1, <3>1, <3>2 DEF Arrive, Wire
  <2>1. Task' /\ Calls' /\ Queues'
    BY <1>a, <1>1 DEF Arrive, Task, Calls, Queues
  <2>2. Arming'
    BY <1>a, <1>1 DEF Arrive, Wire, Arming
  <2>3. Served'
    BY <1>a, <1>1 DEF Arrive, Wire, Served
  <2>4. ASSUME NEW x \in Nat, Typed(x) PROVE Typed(x)'
    BY <1>a, <1>1, <2>4 DEF Arrive, Wire, Typed
  <2>a. UNCHANGED <<rxq, rpc, ch, stdinq, cliq, got>>
    BY <1>1 DEF Arrive
  <2>b. ASSUME NEW x \in Nat, Sent(x) PROVE Sent(x)'
    BY <2>4, <2>a, <2>b DEF Sent, Queued, InHand
  <2>5. Chain'
    <3>1. dr' < next'
      BY <1>a, <1>1 DEF Arrive, Wire, Chain
    <3>2. rxq # <<>> => Typed(rxq[1])'
      <4>1. rxq # <<>> => rxq[1] \in Nat
        BY <1>a DEF Task
      <4>. QED BY <1>a, <2>4, <2>a, <4>1 DEF Chain
    <3>3. InHand => ch > 0 /\ Queued(ch)'
      BY <1>a, <2>4, <2>a DEF Task, Chain, Queued
    <3>4. /\ \A i \in 1..Len(stdinq) : Sent(stdinq[i])'
          /\ \A i \in 1..Len(cliq) : Sent(cliq[i])'
          /\ \A c \in Receivers : \A i \in 1..Len(got[c]) : Sent(got[c][i])'
      <4>1. /\ \A i \in 1..Len(stdinq) : stdinq[i] \in Nat
            /\ \A i \in 1..Len(cliq) : cliq[i] \in Nat
            /\ \A c \in Receivers : \A i \in 1..Len(got[c]) : got[c][i] \in Nat
        <5>1. ASSUME NEW q \in Seq(1..N), NEW i \in 1..Len(q) PROVE q[i] \in Nat
          OBVIOUS
        <5>2. \A c \in Receivers : got[c] \in Seq(1..N)
          BY <1>a DEF Queues
        <5>3. stdinq \in Seq(1..N) /\ cliq \in Seq(1..N)
          BY <1>a DEF Queues
        <5>. QED BY <5>1, <5>2, <5>3
      <4>. QED BY <1>a, <2>a, <2>b, <4>1 DEF Chain
    <3>. QED BY <2>a, <3>1, <3>2, <3>3, <3>4 DEF Chain, InHand
  <2>6. Streams'
    BY <1>a, <1>1 DEF Arrive, Streams
  <2>. QED BY <2>0, <2>1, <2>2, <2>3, <2>5, <2>6 DEF RxInv
<1>2. CASE IrqEnter
  <2>1. Wire' /\ Task' /\ Calls' /\ Queues'
    BY <1>a, <1>2 DEF IrqEnter, Wire, Task, Calls, Queues
  <2>2. Arming'
    BY <1>a, <1>2 DEF IrqEnter, Wire, Arming
  <2>3. Served'
    BY <1>a, <1>2 DEF IrqEnter, Wire, Served
  <2>4. Chain' /\ Streams'
    BY <1>a, <1>2 DEF IrqEnter, Chain, Sent, Queued, Typed, InHand, Streams
  <2>. QED BY <2>1, <2>2, <2>3, <2>4 DEF RxInv
<1>3. CASE Irq
  <2>0. /\ isr # NoIsr /\ isr \in [rxne : BOOLEAN, ore : BOOLEAN]
        /\ armed /\ rxq = <<>> /\ (isr.rxne => dr # 0)
        /\ rpc \notin {"start", "arm"}
        /\ dr' = 0 /\ armed' = FALSE /\ isr' = NoIsr
        /\ UNCHANGED <<next, rpc, ch, holder, need, reads, stdinq, cliq, got, haste>>
        /\ ore' = (ore /\ ~isr.ore)
    BY <1>a, <1>3 DEF Irq, Arming, Wire
  <2>1. IF isr.rxne THEN rxq' = <<dr>> /\ dr \in 1..N ELSE rxq' = <<>>
    BY <1>a, <1>3, <2>0 DEF Irq, rx_cplt_callback, Wire
  <2>2. /\ rxq' \in Seq(1..N) /\ Len(rxq') <= 1
        /\ rxq' # <<>> => rxq'[1] = dr /\ dr # 0
        /\ isr.rxne => rxq' # <<>>
    <3>1. CASE isr.rxne
      <4>1. rxq' = <<dr>> /\ dr \in 1..N
        BY <2>1, <3>1
      <4>2. <<dr>> \in Seq(1..N) /\ Len(<<dr>>) = 1 /\ <<dr>>[1] = dr /\ <<dr>> # <<>>
        BY <4>1
      <4>. QED BY <4>1, <4>2
    <3>2. CASE ~isr.rxne
      BY <2>1, <3>2
    <3>. QED BY <3>1, <3>2
  <2>c. Wire'
    <3>1. ore' \in BOOLEAN
      BY <2>0
    <3>2. dr' \in 0..N
      BY <2>0
    <3>. QED BY <1>a, <2>0, <3>1, <3>2 DEF Wire
  <2>3. Task' /\ Calls' /\ Queues'
    BY <1>a, <2>0, <2>2 DEF Task, Calls, Queues
  <2>4. Arming'
    BY <2>0 DEF Arming
  <2>5. Served'
    BY <1>a, <2>0, <2>2 DEF Served, Wire
  <2>6. Chain'
    BY <1>a, <2>0, <2>2 DEF Wire, Chain, Sent, Queued, Typed, InHand
  <2>7. Streams'
    BY <1>a, <2>0 DEF Streams
  <2>. QED BY <2>c, <2>3, <2>4, <2>5, <2>6, <2>7 DEF RxInv
<1>. QED BY <1>1, <1>2, <1>3

\* The read task takes a character and arms the next reception.
LEMMA RxTask ==
  ASSUME StdioRxAssumption, RxInv, Recv \/ Arm \/ Route
  PROVE  RxInv'
<1>. USE DEF uart, stdin, cli
<1>a. Wire /\ Task /\ Calls /\ Queues /\ Arming /\ Served /\ Chain /\ Streams
  BY DEF RxInv
<1>b. UNCHANGED <<next, dr, ore, isr, stdinq, holder, need, reads, cliq, got, haste>>
  BY DEF Recv, Arm, Route
<1>c. Calls' /\ Queues' /\ Streams'
  BY <1>a, <1>b DEF Calls, Queues, Streams
<1>1. CASE Recv
  <2>1. /\ isr = NoIsr /\ rpc = "recv" /\ rpc' = "arm" /\ rxq # <<>> /\ armed' = armed
        /\ ch' = rxq[1] /\ ch' \in 1..N /\ rxq' = <<>> /\ ~armed
    <3>1. rxq # <<>> /\ rxq \in Seq(1..N) /\ Len(rxq) <= 1
      BY <1>a, <1>1 DEF Recv, Task
    <3>2. /\ Head(rxq) = rxq[1] /\ Head(rxq) \in 1..N /\ Tail(rxq) \in Seq(1..N)
          /\ Len(Tail(rxq)) = Len(rxq) - 1 /\ Len(rxq) \in Nat \ {0}
      BY <3>1, Taken
    <3>3. Tail(rxq) = <<>>
      BY <3>1, <3>2, EmptySeq
    <3>. QED BY <1>a, <1>1, <3>1, <3>2, <3>3 DEF Recv, Arming
  <2>2. Wire' /\ Task'
    BY <1>a, <1>b, <2>1 DEF Wire, Task
  <2>3. Arming' /\ Served'
    BY <1>a, <1>b, <2>1 DEF Arming, Served
  <2>4. Typed(rxq[1]) /\ \A x : Sent(x) => x < rxq[1] /\ Typed(x)
    BY <1>a, <2>1 DEF Chain, Sent, Queued
  <2>5. Queued(ch)' /\ \A x : Sent(x) => Sent(x)'
    BY <1>b, <2>1, <2>4 DEF Sent, Queued, Typed
  <2>6. Chain'
    BY <1>a, <1>b, <2>1, <2>5 DEF Chain
  <2>. QED BY <1>c, <2>2, <2>3, <2>6 DEF RxInv
<1>2. CASE Arm
  <2>1. /\ isr = NoIsr /\ rpc \in {"start", "arm"} /\ ~armed /\ rxq = <<>> /\ armed' = TRUE
        /\ rpc' = IF rpc = "start" THEN "recv" ELSE "route"
        /\ UNCHANGED <<rxq, ch>>
    BY <1>a, <1>2 DEF Arm, Arming
  <2>2. Wire' /\ Task'
    BY <1>a, <1>b, <2>1 DEF Wire, Task
  <2>3. Arming' /\ Served'
    BY <1>a, <1>b, <2>1 DEF Arming, Served
  <2>4. InHand' = InHand
    BY <2>1 DEF InHand
  <2>5. Chain'
    BY <1>a, <1>b, <2>1, <2>4 DEF Chain, Sent, Queued, Typed
  <2>. QED BY <1>c, <2>2, <2>3, <2>5 DEF RxInv
<1>3. CASE Route
  <2>1. /\ rpc = "route" /\ rpc' \in {"stdin", "listeners"} /\ UNCHANGED <<armed, rxq, ch>>
    BY <1>3 DEF Route
  <2>2. Wire' /\ Task'
    BY <1>a, <1>b, <2>1 DEF Wire, Task
  <2>3. Arming' /\ Served'
    BY <1>a, <1>b, <2>1 DEF Arming, Served
  <2>4. InHand' = InHand
    BY <2>1 DEF InHand
  <2>5. Chain'
    BY <1>a, <1>b, <2>1, <2>4 DEF Chain, Sent, Queued, Typed
  <2>. QED BY <1>c, <2>2, <2>3, <2>5 DEF RxInv
<1>. QED BY <1>1, <1>2, <1>3

\* The read task passes its character on.
LEMMA RxSend ==
  ASSUME StdioRxAssumption, RxInv, SendStdin \/ SendCli
  PROVE  RxInv'
<1>. USE DEF uart, stdin, cli
<1>a. Wire /\ Task /\ Calls /\ Queues /\ Arming /\ Served /\ Chain /\ Streams
  BY DEF RxInv
<1>b. /\ UNCHANGED <<next, dr, ore, armed, isr, rxq, ch, holder, need, reads, got, haste>>
      /\ rpc \in {"stdin", "listeners"} /\ rpc' = "recv"
  BY DEF SendStdin, SendCli
<1>c. Wire' /\ Task' /\ Calls'
  BY <1>a, <1>b DEF Wire, Task, Calls
<1>d. Arming' /\ Served'
  BY <1>a, <1>b DEF Arming, Served
<1>e. /\ ch \in 1..N /\ Queued(ch) /\ \A x : Sent(x) => x < ch
      /\ \A x : Queued(x) => Sent(x)'
      /\ \A x : Sent(x) => Sent(x)'
  <2>1. ch \in 1..N /\ Queued(ch)
    BY <1>a, <1>b DEF Chain, InHand, Task
  <2>2. \A x : Sent(x) => x < ch
    BY <1>b DEF Sent, InHand
  <2>3. \A x : Queued(x) => Sent(x)'
    BY <1>b DEF Sent, Queued, Typed, InHand
  <2>. QED BY <2>1, <2>2, <2>3 DEF Sent
<1>f. /\ \A c \in Receivers : got[c] \in Seq(1..N) /\ \A i \in 1..Len(got[c]) : got[c][i] < ch
      /\ \A i \in 1..Len(stdinq) : stdinq[i] < ch
      /\ \A i \in 1..Len(cliq) : cliq[i] < ch
  BY <1>a, <1>e DEF Chain, Queues
<1>1. CASE SendStdin
  <2>1. stdinq' = <<ch>> /\ cliq' = cliq
    <3>1. stdinq \in Seq(1..N) /\ Len(stdinq) < 1
      BY <1>a, <1>1 DEF SendStdin, StdinLen, Queues
    <3>2. stdinq = <<>>
      BY <3>1, EmptySeq
    <3>. QED BY <1>1, <3>2 DEF SendStdin
  <2>2. <<ch>> \in Seq(1..N) /\ Len(<<ch>>) = 1 /\ <<ch>>[1] = ch
    BY <1>e
  <2>3. Queues'
    BY <1>a, <1>b, <2>1, <2>2 DEF Queues, StdinLen
  <2>4. Chain'
    <3>1. ~InHand' /\ \A i \in 1..Len(stdinq') : stdinq'[i] = ch
      BY <1>b, <2>1, <2>2 DEF InHand
    <3>2. rxq # <<>> => Typed(rxq[1])'
      BY <1>a, <1>b DEF Chain, Typed
    <3>. QED BY <1>a, <1>b, <1>e, <2>1, <3>1, <3>2 DEF Chain
  <2>5. Streams'
    <3>1. ASSUME NEW c \in Receivers
          PROVE  Older(got[c], <<ch>>) /\ Apart(got[c], <<ch>>)
      BY <1>a, <1>e, <1>f, <2>2 DEF Older, Apart, Queues
    <3>2. Apart(<<ch>>, cliq)
      BY <1>a, <1>e, <1>f, <2>2 DEF Apart, Queues
    <3>. QED BY <1>a, <1>b, <2>1, <3>1, <3>2 DEF Streams, Receivers
  <2>. QED BY <1>c, <1>d, <2>3, <2>4, <2>5 DEF RxInv
<1>2. CASE SendCli
  <2>0. cliq \in Seq(1..N) /\ Len(cliq) < CliLen /\ stdinq' = stdinq /\ cliq' = Append(cliq, ch)
    BY <1>a, <1>2 DEF SendCli, Queues
  <2>1. /\ cliq' \in Seq(1..N) /\ Len(cliq') = Len(cliq) + 1 /\ Len(cliq) \in Nat
        /\ \A i \in 1..Len(cliq) : cliq'[i] = cliq[i]
        /\ cliq'[Len(cliq) + 1] = ch
    BY <1>e, <2>0, Added
  <2>2. Queues'
    BY <1>a, <1>b, <2>0, <2>1 DEF Queues, StdioRxAssumption
  <2>3. \A i \in 1..Len(cliq') : cliq'[i] = ch \/ (i \in 1..Len(cliq) /\ cliq'[i] = cliq[i])
    BY <2>1
  <2>4. Chain'
    <3>1. ~InHand'
      BY <1>b DEF InHand
    <3>2. rxq # <<>> => Typed(rxq[1])'
      BY <1>a, <1>b DEF Chain, Typed
    <3>3. \A i \in 1..Len(cliq') : Sent(cliq[i])'
      <4>1. \A i \in 1..Len(cliq) : Sent(cliq[i])
        BY <1>a DEF Chain
      <4>2. \A i \in 1..Len(cliq') : \A x : x = cliq'[i] => Sent(x)'
        BY <1>e, <2>3, <4>1
      <4>. QED BY <4>2
    <3>. QED BY <1>a, <1>b, <1>e, <2>0, <3>1, <3>2, <3>3 DEF Chain
  <2>5. Streams'
    <3>1. Rising(cliq')
      <4>1. \A i \in 1..Len(cliq) : cliq[i] < ch
        BY <1>f
      <4>2. Rising(cliq)
        BY <1>a DEF Streams
      <4>. QED BY <2>1, <4>1, <4>2, StillRising
    <3>2. Older(got["cli"], cliq')
      BY <1>a, <1>f, <2>3 DEF Streams, Older, Receivers
    <3>3. ASSUME NEW r \in Readers PROVE Apart(got[r], cliq')
      <4>1. Apart(got[r], cliq) /\ got[r] \in Seq(1..N)
        BY <1>a DEF Streams, Queues, Receivers
      <4>2. \A i \in 1..Len(got[r]) : got[r][i] # ch
        BY <1>e, <1>f, <4>1 DEF Receivers
      <4>. QED BY <2>3, <4>1, <4>2 DEF Apart
    <3>4. Apart(stdinq, cliq')
      <4>1. Apart(stdinq, cliq) /\ stdinq \in Seq(1..N)
        BY <1>a DEF Streams, Queues
      <4>2. \A i \in 1..Len(stdinq) : stdinq[i] # ch
        BY <1>e, <1>f, <4>1
      <4>. QED BY <2>3, <4>1, <4>2 DEF Apart
    <3>. QED BY <1>a, <1>b, <2>0, <3>1, <3>2, <3>3, <3>4 DEF Streams
  <2>. QED BY <1>c, <1>d, <2>2, <2>4, <2>5 DEF RxInv
<1>. QED BY <1>1, <1>2

\* A task locks and unlocks stdin.
LEMMA RxLock ==
  ASSUME StdioRxAssumption, RxInv, NEW r \in Readers,
         Unlock(r) \/ \E n \in 1..MaxLen : Lock(r, n)
  PROVE  RxInv'
<1>. USE DEF uart, task, stdin, cli
<1>a. Wire /\ Task /\ Calls /\ Queues /\ Arming /\ Served /\ Chain /\ Streams
  BY DEF RxInv
<1>b. UNCHANGED <<next, dr, ore, armed, isr, rxq, rpc, ch, stdinq, cliq, got, haste>>
  BY DEF Unlock, Lock
<1>1. Calls'
  BY <1>a DEF Unlock, Lock, Calls, StdioRxAssumption
<1>2. Wire' /\ Task' /\ Queues' /\ Arming' /\ Served'
  BY <1>a, <1>b DEF Wire, Task, Queues, Arming, Served
<1>3. Chain' /\ Streams'
  BY <1>a, <1>b DEF Chain, Sent, Queued, Typed, InHand, Streams
<1>. QED BY <1>1, <1>2, <1>3 DEF RxInv

\* A receiver takes the first character of its queue.
LEMMA Received ==
  ASSUME StdioRxAssumption, Queues, NEW q \in Seq(1..N), q # <<>>, NEW c \in Receivers,
         got' = [got EXCEPT ![c] = Append(@, Head(q))]
  PROVE  /\ got' \in [Receivers -> Seq(1..N)]
         /\ Len(got'[c]) = Len(got[c]) + 1 /\ Len(got[c]) \in Nat
         /\ \A i \in 1..Len(got[c]) : got'[c][i] = got[c][i]
         /\ got'[c][Len(got[c]) + 1] = q[1] /\ q[1] \in 1..N
         /\ \A d \in Receivers : d # c => got'[d] = got[d]
         /\ \A i \in 1..Len(got'[c]) :
              got'[c][i] = q[1] \/ (i \in 1..Len(got[c]) /\ got'[c][i] = got[c][i])
<1>1. got \in [Receivers -> Seq(1..N)] /\ got[c] \in Seq(1..N)
  BY DEF Queues
<1>2. Head(q) = q[1] /\ Head(q) \in 1..N
  BY Taken
<1>. DEFINE a == Append(got[c], Head(q))
<1>3. /\ a \in Seq(1..N) /\ Len(a) = Len(got[c]) + 1 /\ Len(got[c]) \in Nat
      /\ \A i \in 1..Len(got[c]) : a[i] = got[c][i]
      /\ a[Len(got[c]) + 1] = Head(q)
  BY <1>1, <1>2, Added
<1>4. got' = [got EXCEPT ![c] = a]
  OBVIOUS
<1>. HIDE DEF a
<1>5. got' \in [Receivers -> Seq(1..N)] /\ got'[c] = a /\ \A d \in Receivers : d # c => got'[d] = got[d]
  BY <1>1, <1>3, <1>4
<1>. QED BY <1>2, <1>3, <1>5

LEMMA RxGet ==
  ASSUME StdioRxAssumption, RxInv, NEW r \in Readers, Get(r)
  PROVE  RxInv'
<1>. USE DEF uart, task
<1>a. Wire /\ Task /\ Calls /\ Queues /\ Arming /\ Served /\ Chain /\ Streams
  BY DEF RxInv
<1>b. /\ UNCHANGED <<next, dr, ore, armed, isr, rxq, rpc, ch, holder, reads, cliq, haste>>
      /\ need[r] > 0 /\ need' = [need EXCEPT ![r] = @ - 1] /\ stdinq # <<>>
      /\ got' = [got EXCEPT ![r] = Append(@, Head(stdinq))] /\ stdinq' = Tail(stdinq)
  BY DEF Get
<1>c. r \in Receivers /\ r # "cli" /\ "cli" \in Receivers
  BY DEF Receivers, StdioRxAssumption
<1>d. stdinq \in Seq(1..N) /\ stdinq' = <<>> /\ Len(stdinq) = 1
  <2>1. stdinq \in Seq(1..N) /\ Len(stdinq) <= 1
    BY <1>a DEF Queues, StdinLen
  <2>2. /\ Tail(stdinq) \in Seq(1..N) /\ Len(Tail(stdinq)) = Len(stdinq) - 1
        /\ Len(stdinq) \in Nat \ {0}
    BY <1>b, <2>1, Taken
  <2>3. Tail(stdinq) = <<>>
    BY <2>1, <2>2, EmptySeq
  <2>. QED BY <1>b, <2>1, <2>2, <2>3
<1>e. /\ got' \in [Receivers -> Seq(1..N)]
      /\ Len(got'[r]) = Len(got[r]) + 1 /\ Len(got[r]) \in Nat
      /\ \A i \in 1..Len(got[r]) : got'[r][i] = got[r][i]
      /\ got'[r][Len(got[r]) + 1] = stdinq[1] /\ stdinq[1] \in 1..N
      /\ \A d \in Receivers : d # r => got'[d] = got[d]
      /\ \A i \in 1..Len(got'[r]) :
           got'[r][i] = stdinq[1] \/ (i \in 1..Len(got[r]) /\ got'[r][i] = got[r][i])
  BY <1>a, <1>b, <1>c, <1>d, Received
<1>1. Calls'
  <2>1. need[r] - 1 \in 0..MaxLen
    BY <1>a, <1>b DEF Calls, StdioRxAssumption
  <2>. QED BY <1>a, <1>b, <2>1 DEF Calls
<1>2. Queues'
  <2>1. stdinq' \in Seq(1..N) /\ Len(stdinq') <= 1
    BY <1>d
  <2>. QED BY <1>a, <1>b, <1>e, <2>1 DEF Queues, StdinLen
<1>3. Wire' /\ Task' /\ Arming' /\ Served'
  BY <1>a, <1>b DEF Wire, Task, Arming, Served
<1>4. Chain'
  <2>1. \A x : Sent(x)' <=> Sent(x)
    BY <1>b DEF Sent, Queued, Typed, InHand
  <2>2. /\ dr' < next' /\ (rxq' # <<>> => Typed(rxq[1])')
        /\ InHand' => ch' > 0 /\ Queued(ch)'
    BY <1>a, <1>b DEF Chain, Queued, Typed, InHand
  <2>3. \A i \in 1..Len(cliq') : Sent(cliq[i])'
    BY <1>a, <1>b, <2>1 DEF Chain
  <2>4. \A i \in 1..Len(got'[r]) : Sent(got'[r][i])
    <3>1. Sent(stdinq[1]) /\ \A i \in 1..Len(got[r]) : Sent(got[r][i])
      BY <1>a, <1>c, <1>d DEF Chain
    <3>. QED BY <1>e, <3>1
  <2>5. ASSUME NEW c \in Receivers PROVE \A i \in 1..Len(got'[c]) : Sent(got'[c][i])
    BY <1>a, <1>e, <2>4 DEF Chain
  <2>. QED BY <1>d, <2>1, <2>2, <2>3, <2>5 DEF Chain
<1>5. Streams'
  <2>1. Rising(got'[r])
    <3>1. Rising(got[r]) /\ Older(got[r], stdinq)
      BY <1>a, <1>c DEF Streams
    <3>2. \A i \in 1..Len(got[r]) : got[r][i] < stdinq[1]
      BY <1>d, <3>1 DEF Older
    <3>. QED BY <1>e, <3>1, <3>2, StillRising
  <2>2. Apart(got'[r], cliq)
    <3>1. Apart(got[r], cliq) /\ \A j \in 1..Len(cliq) : stdinq[1] # cliq[j]
      BY <1>a, <1>d DEF Streams, Apart
    <3>. QED BY <1>e, <3>1 DEF Apart
  <2>3. ASSUME NEW d \in Receivers, d # r PROVE Apart(got'[r], got'[d]) /\ Apart(got'[d], got'[r])
    <3>1. \A j \in 1..Len(got[d]) : stdinq[1] # got[d][j]
      <4>1. CASE d = "cli"
        BY <1>a, <1>d, <4>1 DEF Streams, Apart
      <4>2. CASE d \in Readers
        <5>1. \A j \in 1..Len(got[d]) : got[d][j] < stdinq[1] /\ got[d][j] \in Int
          BY <1>a, <1>d, <4>2 DEF Streams, Older, Queues
        <5>. QED BY <1>e, <5>1
      <4>. QED BY <4>1, <4>2 DEF Receivers
    <3>2. Apart(got[r], got[d]) /\ Apart(got[d], got[r]) /\ got'[d] = got[d]
      BY <1>a, <1>c, <1>e, <2>3 DEF Streams
    <3>. QED BY <1>e, <3>1, <3>2 DEF Apart
  <2>4. \A s : Older(s, stdinq') /\ Apart(s, stdinq') /\ Apart(stdinq', s)
    BY <1>d DEF Older, Apart
  <2>5. \A c \in Receivers : Rising(got'[c])
    BY <1>a, <1>e, <2>1 DEF Streams
  <2>6. Rising(cliq) /\ Older(got'["cli"], cliq)
    BY <1>a, <1>c, <1>e DEF Streams
  <2>7. \A d \in Readers : Apart(got'[d], cliq)
    BY <1>a, <1>e, <2>2 DEF Streams, Receivers
  <2>8. \A c, d \in Receivers : c # d => Apart(got'[c], got'[d])
    BY <1>a, <1>e, <2>3 DEF Streams
  <2>. QED BY <1>b, <2>4, <2>5, <2>6, <2>7, <2>8 DEF Streams
<1>. QED BY <1>1, <1>2, <1>3, <1>4, <1>5 DEF RxInv

LEMMA RxCli ==
  ASSUME StdioRxAssumption, RxInv, CliRecv
  PROVE  RxInv'
<1>. USE DEF uart, task, stdin
<1>a. Wire /\ Task /\ Calls /\ Queues /\ Arming /\ Served /\ Chain /\ Streams
  BY DEF RxInv
<1>b. /\ UNCHANGED <<next, dr, ore, armed, isr, rxq, rpc, ch, stdinq, holder, need, reads, haste>>
      /\ cliq # <<>>
      /\ got' = [got EXCEPT !["cli"] = Append(@, Head(cliq))] /\ cliq' = Tail(cliq)
  BY DEF CliRecv
<1>c. "cli" \in Receivers /\ "cli" \notin Readers
  BY DEF Receivers, StdioRxAssumption
<1>d. /\ cliq \in Seq(1..N) /\ cliq' \in Seq(1..N) /\ Len(cliq') = Len(cliq) - 1
      /\ Len(cliq) \in Nat \ {0} /\ \A i \in 1..(Len(cliq) - 1) : cliq'[i] = cliq[i + 1]
  <2>1. cliq \in Seq(1..N)
    BY <1>a DEF Queues
  <2>. QED BY <1>b, <2>1, Taken
<1>e. /\ got' \in [Receivers -> Seq(1..N)]
      /\ Len(got'["cli"]) = Len(got["cli"]) + 1 /\ Len(got["cli"]) \in Nat
      /\ \A i \in 1..Len(got["cli"]) : got'["cli"][i] = got["cli"][i]
      /\ got'["cli"][Len(got["cli"]) + 1] = cliq[1] /\ cliq[1] \in 1..N
      /\ \A d \in Receivers : d # "cli" => got'[d] = got[d]
      /\ \A i \in 1..Len(got'["cli"]) :
           got'["cli"][i] = cliq[1] \/ (i \in 1..Len(got["cli"]) /\ got'["cli"][i] = got["cli"][i])
  BY ZenonT(60), <1>a, <1>b, <1>c, <1>d, Received
<1>f. \A i \in 1..Len(cliq') : i + 1 \in 2..Len(cliq) /\ i + 1 \in 1..Len(cliq) /\ cliq'[i] = cliq[i + 1]
  <2>1. Len(cliq') = Len(cliq) - 1 /\ Len(cliq) \in Nat \ {0}
    BY <1>d
  <2>2. \A i \in 1..(Len(cliq) - 1) : i + 1 \in 2..Len(cliq) /\ i + 1 \in 1..Len(cliq)
    BY <2>1
  <2>3. 1..Len(cliq') = 1..(Len(cliq) - 1)
    BY <2>1
  <2>. QED BY <1>d, <2>2, <2>3
<1>1. Calls' /\ Wire' /\ Task' /\ Arming' /\ Served'
  BY <1>a, <1>b DEF Calls, Wire, Task, Arming, Served
<1>2. Queues'
  BY <1>a, <1>b, <1>d, <1>e DEF Queues, StdioRxAssumption
<1>3. Chain'
  <2>1. \A x : Sent(x)' <=> Sent(x)
    BY <1>b DEF Sent, Queued, Typed, InHand
  <2>2. /\ dr' < next' /\ (rxq' # <<>> => Typed(rxq[1])')
        /\ InHand' => ch' > 0 /\ Queued(ch)'
    BY <1>a, <1>b DEF Chain, Queued, Typed, InHand
  <2>3. \A i \in 1..Len(cliq') : Sent(cliq'[i])
    BY <1>a, <1>f DEF Chain
  <2>4. \A i \in 1..Len(got'["cli"]) : Sent(got'["cli"][i])
    <3>1. Sent(cliq[1])
      BY <1>a, <1>d DEF Chain
    <3>. QED BY <1>a, <1>c, <1>e, <3>1 DEF Chain
  <2>5. ASSUME NEW c \in Receivers PROVE \A i \in 1..Len(got'[c]) : Sent(got'[c][i])
    BY <1>a, <1>e, <2>4 DEF Chain
  <2>6. \A i \in 1..Len(stdinq') : Sent(stdinq[i])
    BY <1>a, <1>b DEF Chain
  <2>. QED BY <1>b, <2>1, <2>2, <2>3, <2>5, <2>6 DEF Chain
<1>4. Streams'
  <2>1. Rising(got'["cli"])
    <3>1. Rising(got["cli"]) /\ Older(got["cli"], cliq)
      BY <1>a, <1>c DEF Streams
    <3>2. 1 \in 1..Len(cliq)
      BY <1>d
    <3>3. \A i \in 1..Len(got["cli"]) : got["cli"][i] < cliq[1]
      BY <3>1, <3>2 DEF Older
    <3>. QED BY <1>e, <3>1, <3>3, StillRising
  <2>2. Rising(cliq') /\ Older(got'["cli"], cliq')
    <3>1. Rising(cliq) /\ Older(got["cli"], cliq)
      BY <1>a DEF Streams
    <3>2. Rising(cliq')
      <4>1. \A i, j \in 1..Len(cliq') : i < j => i + 1 < j + 1
        BY <1>d
      <4>. QED BY <1>f, <3>1, <4>1 DEF Rising
    <3>3. \A j \in 1..Len(cliq') : cliq[1] < cliq'[j]
      <4>1. 1 \in 1..Len(cliq) /\ \A j \in 1..Len(cliq') : 1 < j + 1
        BY <1>d
      <4>. QED BY <1>f, <3>1, <4>1 DEF Rising
    <3>. QED BY <1>e, <1>f, <3>1, <3>2, <3>3 DEF Older
  <2>3. Apart(got'["cli"], stdinq) /\ Apart(stdinq, cliq')
    <3>1. Apart(got["cli"], stdinq) /\ Apart(stdinq, cliq)
      BY <1>a DEF Streams
    <3>2. \A j \in 1..Len(stdinq) : cliq[1] # stdinq[j]
      <4>1. 1 \in 1..Len(cliq)
        BY <1>d
      <4>. QED BY <3>1, <4>1 DEF Apart
    <3>. QED BY <1>e, <1>f, <3>1, <3>2 DEF Apart
  <2>4. ASSUME NEW d \in Readers
        PROVE  /\ got'[d] = got[d] /\ Apart(got[d], cliq')
               /\ Apart(got'["cli"], got[d]) /\ Apart(got[d], got'["cli"])
    <3>1. Apart(got[d], cliq) /\ Apart(got["cli"], got[d]) /\ Apart(got[d], got["cli"])
      BY <1>a, <1>c DEF Streams, Receivers
    <3>2. \A j \in 1..Len(got[d]) : cliq[1] # got[d][j]
      BY <1>d, <3>1 DEF Apart
    <3>3. got'[d] = got[d]
      BY <1>c, <1>e DEF Receivers
    <3>. QED BY SMTT(30), <1>e, <1>f, <3>1, <3>2, <3>3 DEF Apart
  <2>5. \A c \in Receivers : Rising(got'[c])
    BY <1>a, <1>e, <2>1 DEF Streams
  <2>6. \A d \in Readers : Older(got'[d], stdinq) /\ Apart(got'[d], cliq')
    BY <1>a, <2>4 DEF Streams
  <2>7. \A c, d \in Receivers : c # d => Apart(got'[c], got'[d])
    BY <1>a, <2>4 DEF Streams, Receivers
  <2>. QED BY <1>b, <2>2, <2>3, <2>5, <2>6, <2>7 DEF Streams
<1>. QED BY <1>1, <1>2, <1>3, <1>4 DEF RxInv

LEMMA RxStep ==
  ASSUME StdioRxAssumption, RxInv, [Next]_(vars)
  PROVE  RxInv'
<1>1. CASE Next
  BY <1>1, RxWire, RxTask, RxSend, RxLock, RxGet, RxCli
     DEF Next, uart_read_task, Reader
<1>2. CASE UNCHANGED vars
  BY <1>2 DEF vars, uart, task, stdin, cli, RxInv, Wire, Task, Calls, Queues, Arming,
              Served, Chain, Sent, Queued, Typed, InHand, Streams
<1>. QED BY <1>1, <1>2

\* stdio_uart.c: however fast characters are typed, and wherever the interrupt handler
\* runs, the task that reads stdin and the CLI get their characters in the order they
\* were typed and none twice; nor does the read task hang, or its queue fill up.
THEOREM TypedInOrder == ASSUME StdioRxAssumption PROVE Spec => []Ordered
<1>1. RxInv => Ordered
  <2>. SUFFICES ASSUME RxInv PROVE Ordered
    OBVIOUS
  <2>1. TypeOK
    BY DEF RxInv, Wire, Task, Calls, Queues, Arming, TypeOK
  <2>2. DOMAIN got = Receivers
    BY DEF RxInv, Queues
  <2>. QED BY <2>1, <2>2 DEF RxInv, Streams, Rising, Apart, Ordered
<1>. QED BY <1>1, RxInit, RxStep, PTL DEF Spec

\* The comment of error_handler: after an overrun the peripheral continues to operate.
\* As long as no character comes while the interrupt handler runs, a read task that
\* waits has a reception armed.
THEOREM KeepsReceiving == ASSUME StdioRxAssumption PROVE Spec => []Operating
<1>1. RxInv => Operating
  BY DEF RxInv, Served, Operating
<1>. QED BY <1>1, RxInit, RxStep, PTL DEF Spec
=============================================================================
