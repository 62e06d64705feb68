---------------------------- MODULE StdioTx_proofs ----------------------------
(***************************************************************************)
(* What the transmit half of the standard I/O keeps, for any number of     *)
(* writers and buffers, queues of any depth and texts of any length.       *)
(***************************************************************************)
EXTENDS StdioTx, FiniteSetTheorems, SequenceTheorems, WellFoundedInduction, TLAPS

Texted == Seq({"x", "n"})
Calling == [pc : {"idle", "get", "copy", "send", "done"}, text : Texted, rest : Texted,
            crlf : BOOLEAN, buf : Bufs, from : Nat, ret : {"none", "ok", "timeout"}]

\* The bytes that are sent.
SentBytes == [by : Writers, i : Nat, c : {"x", "n", "r"}]

TxTypes ==
  /\ avail \in Seq(Bufs) /\ ready \in Seq([buf : Bufs, size : Nat])
  /\ semphr \in BOOLEAN /\ wpc \in {"recv", "wait", "halt"} /\ pending \in Bufs
  /\ tx = NoTx \/ tx \in [at : Nat, left : Nat, size : Nat]
  /\ call \in [Writers -> Calling]
  /\ \A w \in Writers : call[w].crlf => call[w].rest # <<>>
  /\ given \in [Writers -> Seq(SentBytes)]
  /\ odd \subseteq {"long", "empty"}

\* Which buffers are where.
Free(b) == \E i \in 1..Len(avail) : avail[i] = b
Queueing(b) == \E i \in 1..Len(ready) : ready[i].buf = b
Filled(b) == \E w \in Writers : Filling(w) /\ call[w].buf = b
Sending(b) == wpc \in {"wait", "halt"} /\ pending = b

\* No buffer is in one of these places twice, none is in two, and each is in one.
Once == /\ \A i, j \in 1..Len(avail) : avail[i] = avail[j] => i = j
        /\ \A i, j \in 1..Len(ready) : ready[i].buf = ready[j].buf => i = j
        /\ \A v, w \in Writers : Filling(v) /\ Filling(w) /\ call[v].buf = call[w].buf => v = w
OnePlace == \A b \in Bufs :
              /\ Free(b) \/ Queueing(b) \/ Filled(b) \/ Sending(b)
              /\ Free(b) => ~Queueing(b) /\ ~Filled(b) /\ ~Sending(b)
              /\ Queueing(b) => ~Filled(b) /\ ~Sending(b)
              /\ Filled(b) => ~Sending(b)

TxInv == TxTypes /\ Once /\ OnePlace

\* An entry of a queue is one of what the queue holds.
LEMMA Element ==
  ASSUME NEW Elems, NEW q \in Seq(Elems), NEW i \in 1..Len(q)
  PROVE  q[i] \in Elems
OBVIOUS

\* What taking from a queue and adding to it does.
LEMMA FromQueue ==
  ASSUME NEW Elems, NEW q \in Seq(Elems), q # <<>>
  PROVE  /\ Head(q) = q[1] /\ Head(q) \in Elems /\ Tail(q) \in Seq(Elems)
         /\ Len(Tail(q)) = Len(q) - 1 /\ Len(q) \in Nat \ {0}
         /\ \A i \in 1..(Len(q) - 1) : Tail(q)[i] = q[i + 1]
<1>1. Head(q) = q[1] /\ Len(q) \in Nat \ {0}
  BY EmptySeq
<1>2. /\ Head(q) \in Elems /\ Tail(q) \in Seq(Elems) /\ Len(Tail(q)) = Len(q) - 1
      /\ \A i \in 1..Len(Tail(q)) : Tail(q)[i] = q[i + 1]
  BY HeadTailProperties
<1>. QED BY <1>1, <1>2

LEMMA ToQueue ==
  ASSUME NEW Elems, NEW q \in Seq(Elems), NEW x \in Elems
  PROVE  /\ Append(q, x) \in Seq(Elems) /\ Len(Append(q, x)) = Len(q) + 1 /\ Len(q) \in Nat
         /\ \A i \in 1..Len(q) : Append(q, x)[i] = q[i]
         /\ Append(q, x)[Len(q) + 1] = x
OBVIOUS

\* A set of numbers has a least one.
LEMMA LeastNumber ==
  ASSUME NEW I \in SUBSET Nat, I # {}
  PROVE  \E x \in I : \A y \in I : x <= y
<1>1. IsWellFoundedOn(OpToRel(<, Nat), Nat)
  BY NatLessThanWellFounded
<1>2. I \subseteq Nat
  OBVIOUS
<1>3. \E x \in I : \A y \in I : ~(<<y, x>> \in OpToRel(<, Nat))
  <2>. DEFINE Lower == OpToRel(<, Nat)
  <2>. HIDE DEF Lower
  <2>. QED BY <1>1, <1>2, WFMin
<1>4. \A x, y \in Nat : <<y, x>> \in OpToRel(<, Nat) <=> y < x
  BY DEF OpToRel
<1>5. PICK x \in I : \A y \in I : ~(y < x)
  BY <1>2, <1>3, <1>4
<1>6. ASSUME NEW y \in I
      PROVE  x <= y
  <2>1. x \in Nat /\ y \in Nat /\ ~(y < x)
    BY <1>2, <1>5
  <2>. QED BY <2>1
<1>. QED BY <1>6

\* The newline that ends a piece is the first.
LEMMA FirstNewline ==
  ASSUME NEW r \in Texted
  PROVE  /\ SelectInSeq(r, IsNewline) \in 0..Len(r)
         /\ \A i \in 1..Len(r) : r[i] = "n" => SelectInSeq(r, IsNewline) \in 1..i
         /\ SelectInSeq(r, IsNewline) # 0 => r[SelectInSeq(r, IsNewline)] = "n"
<1>. DEFINE I == {i \in 1..Len(r) : IsNewline(r[i])}
            pos == SelectInSeq(r, IsNewline)
<1>1. \A i : i \in I <=> i \in 1..Len(r) /\ r[i] = "n"
  BY DEF IsNewline
<1>2. Len(r) \in Nat
  BY DEF Texted
<1>3. CASE I = {}
  <2>1. pos = 0
    BY <1>3 DEF SelectInSeq
  <2>. HIDE DEF I, pos
  <2>2. /\ pos \in 0..Len(r) /\ pos = 0
        /\ \A i \in 1..Len(r) : ~(r[i] = "n")
    BY <1>1, <1>2, <1>3, <2>1
  <2>. QED BY <2>2 DEF pos
<1>4. CASE I # {}
  <2>1. I \in SUBSET Nat
    BY <1>2
  <2>2. \E x \in I : \A y \in I : x <= y
    BY <1>4, <2>1, LeastNumber
  <2>3. pos = CHOOSE x \in I : \A y \in I : x <= y
    BY <1>4 DEF SelectInSeq, Min
  <2>. HIDE DEF I
  <2>4. pos \in I /\ \A y \in I : pos <= y
    BY <2>2, <2>3
  <2>. HIDE DEF pos
  <2>5. pos \in 1..Len(r) /\ r[pos] = "n" /\ \A i \in 1..Len(r) : r[i] = "n" => pos <= i
    BY <1>1, <2>4
  <2>6. pos \in 0..Len(r) /\ \A i \in 1..Len(r) : r[i] = "n" => pos \in 1..i
    BY <1>2, <2>5
  <2>. QED BY <2>5, <2>6 DEF pos
<1>. QED BY <1>3, <1>4

\* A piece is a part of what is left of the text.
LEMMA Piece ==
  ASSUME TxTypes, NEW w \in Writers
  PROVE  /\ Chunk(w) \in Seq({"x", "n", "r"}) /\ Len(Chunk(w)) \in Nat
         /\ Left(w) \in Texted /\ ChunkBytes(w) \in Seq(SentBytes)
<1>. DEFINE r == call[w].rest
            pos == SelectInSeq(r, IsNewline)
<1>1. call[w] \in Calling /\ r \in Texted /\ call[w].crlf \in BOOLEAN /\ (call[w].crlf => r # <<>>)
  BY DEF TxTypes, Calling
<1>2. pos \in 0..Len(r)
  BY <1>1, FirstNewline
<1>. HIDE DEF pos
<1>3. Chunk(w) = IF call[w].crlf THEN <<"r", "n">>
                   ELSE IF pos # 0 /\ Len(r) # 1 THEN SubSeq(r, 1, pos - 1) ELSE r
  BY DEF Chunk, pos
<1>. HIDE DEF r
<1>4. /\ SubSeq(r, 1, pos - 1) \in Texted /\ Len(r) \in Nat
  <2>1. \A i \in 1..(pos - 1) : r[i] \in {"x", "n"}
    BY <1>1, <1>2 DEF Texted
  <2>. QED BY <1>1, <1>2, <2>1, SubSeqProperties DEF Texted
<1>5. Len(Chunk(w)) \in Nat
  BY <1>1, <1>3, <1>4 DEF Texted
<1>6. Left(w) \in Texted
  <2>1. CASE call[w].crlf
    BY <1>1, <2>1, FromQueue DEF Left, Texted, r
  <2>2. CASE ~call[w].crlf
    <3>. DEFINE n == Len(Chunk(w))
    <3>1. Left(w) = SubSeq(r, n + 1, Len(r))
      BY <2>2 DEF Left, r
    <3>2. n \in Nat
      BY <1>5
    <3>. HIDE DEF n
    <3>3. ASSUME NEW i \in (n + 1)..Len(r)
          PROVE  r[i] \in {"x", "n"}
      <4>1. i \in 1..Len(r)
        BY <1>4, <3>2
      <4>. QED BY <1>1, <4>1 DEF Texted
    <3>. QED BY <1>1, <1>4, <3>1, <3>2, <3>3, SubSeqProperties DEF Texted
  <2>. QED BY <1>1, <2>1, <2>2
<1>7. Chunk(w) \in Seq({"x", "n", "r"})
  <2>1. ASSUME NEW t \in Texted
        PROVE  t \in Seq({"x", "n", "r"})
    BY <2>1 DEF Texted
  <2>2. <<"r", "n">> \in Seq({"x", "n", "r"})
    OBVIOUS
  <2>. QED BY <1>1, <1>3, <1>4, <2>1, <2>2
<1>8. ChunkBytes(w) \in Seq(SentBytes)
  <2>. DEFINE k == Len(Chunk(w))
              g == Len(given[w])
  <2>1. k \in Nat /\ g \in Nat /\ \A i \in 1..k : Chunk(w)[i] \in {"x", "n", "r"}
    BY <1>7 DEF TxTypes
  <2>. HIDE DEF g
  <2>2. ASSUME NEW i \in 1..k
        PROVE  Byte(w, g + i, Chunk(w)[i]) \in SentBytes
    BY <2>1 DEF Byte, SentBytes
  <2>3. ChunkBytes(w) = [i \in 1..k |-> Byte(w, g + i, Chunk(w)[i])]
    BY DEF ChunkBytes, g
  <2>. HIDE DEF k
  <2>4. ChunkBytes(w) \in [1..k -> SentBytes]
    BY <2>2, <2>3
  <2>. QED BY <2>1, <2>4, IsASeq
<1>. QED BY <1>5, <1>6, <1>7, <1>8

LEMMA FreeTaken ==
  ASSUME avail \in Seq(Bufs), avail # <<>>, avail' = Tail(avail), Once
  PROVE  /\ Head(avail) \in Bufs /\ avail' \in Seq(Bufs) /\ Free(Head(avail))
         /\ \A b : Free(b)' <=> Free(b) /\ b # Head(avail)
         /\ \A i, j \in 1..Len(avail') : avail'[i] = avail'[j] => i = j
<1>1. /\ Head(avail) = avail[1] /\ Head(avail) \in Bufs /\ avail' \in Seq(Bufs)
      /\ Len(avail') = Len(avail) - 1 /\ Len(avail) \in Nat \ {0}
      /\ \A i \in 1..(Len(avail) - 1) : avail'[i] = avail[i + 1]
  BY FromQueue
<1>2. \A i, j \in 1..Len(avail) : avail[i] = avail[j] => i = j
  BY DEF Once
<1>3. ASSUME NEW b
      PROVE  Free(b)' <=> Free(b) /\ b # Head(avail)
  <2>1. ASSUME NEW i \in 1..Len(avail'), avail'[i] = b
        PROVE  Free(b) /\ b # Head(avail)
    <3>1. i + 1 \in 1..Len(avail) /\ avail[i + 1] = b /\ i + 1 # 1 /\ 1 \in 1..Len(avail)
      BY <1>1, <2>1
    <3>. QED BY <1>1, <1>2, <3>1 DEF Free
  <2>2. ASSUME NEW i \in 1..Len(avail), avail[i] = b, b # Head(avail)
        PROVE  Free(b)'
    <3>1. i # 1
      BY <1>1, <2>2
    <3>2. i - 1 \in 1..Len(avail') /\ i - 1 \in 1..(Len(avail) - 1) /\ (i - 1) + 1 = i
      BY <1>1, <3>1
    <3>3. avail'[i - 1] = b
      BY <1>1, <2>2, <3>2
    <3>. QED BY <3>2, <3>3 DEF Free
  <2>. QED BY <2>1, <2>2 DEF Free
<1>4. ASSUME NEW i \in 1..Len(avail'), NEW j \in 1..Len(avail'), avail'[i] = avail'[j]
      PROVE  i = j
  <2>1. i + 1 \in 1..Len(avail) /\ j + 1 \in 1..Len(avail) /\ avail[i + 1] = avail[j + 1]
    BY <1>1, <1>4
  <2>. QED BY <1>2, <2>1
<1>5. 1 \in 1..Len(avail)
  BY <1>1
<1>. QED BY <1>1, <1>3, <1>4, <1>5 DEF Free

LEMMA FreeAdded ==
  ASSUME avail \in Seq(Bufs), NEW x \in Bufs, avail' = Append(avail, x), Once, ~Free(x)
  PROVE  /\ avail' \in Seq(Bufs)
         /\ \A b : Free(b)' <=> Free(b) \/ b = x
         /\ \A i, j \in 1..Len(avail') : avail'[i] = avail'[j] => i = j
<1>1. /\ avail' \in Seq(Bufs) /\ Len(avail') = Len(avail) + 1 /\ Len(avail) \in Nat
      /\ \A i \in 1..Len(avail) : avail'[i] = avail[i]
      /\ avail'[Len(avail) + 1] = x
  BY ToQueue
<1>2. \A i, j \in 1..Len(avail) : avail[i] = avail[j] => i = j
  BY DEF Once
<1>3. \A i \in 1..Len(avail) : avail[i] # x
  BY DEF Free
<1>4. \A i : i \in 1..Len(avail') <=> i \in 1..Len(avail) \/ i = Len(avail) + 1
  BY <1>1
<1>5. \A b : Free(b)' <=> Free(b) \/ b = x
  BY <1>1, <1>4 DEF Free
<1>. QED BY <1>1, <1>2, <1>3, <1>4, <1>5

LEMMA ReadyTaken ==
  ASSUME ready \in Seq([buf : Bufs, size : Nat]), ready # <<>>, ready' = Tail(ready), Once
  PROVE  /\ Head(ready) \in [buf : Bufs, size : Nat] /\ Queueing(Head(ready).buf)
         /\ ready' \in Seq([buf : Bufs, size : Nat])
         /\ \A b : Queueing(b)' <=> Queueing(b) /\ b # Head(ready).buf
         /\ \A i, j \in 1..Len(ready') : ready'[i].buf = ready'[j].buf => i = j
<1>1. /\ Head(ready) = ready[1] /\ Head(ready) \in [buf : Bufs, size : Nat]
      /\ ready' \in Seq([buf : Bufs, size : Nat])
      /\ Len(ready') = Len(ready) - 1 /\ Len(ready) \in Nat \ {0}
      /\ \A i \in 1..(Len(ready) - 1) : ready'[i] = ready[i + 1]
  BY FromQueue
<1>2. \A i, j \in 1..Len(ready) : ready[i].buf = ready[j].buf => i = j
  BY DEF Once
<1>3. ASSUME NEW b
      PROVE  Queueing(b)' <=> Queueing(b) /\ b # Head(ready).buf
  <2>1. ASSUME NEW i \in 1..Len(ready'), ready'[i].buf = b
        PROVE  Queueing(b) /\ b # Head(ready).buf
    <3>1. i + 1 \in 1..Len(ready) /\ ready[i + 1].buf = b /\ i + 1 # 1 /\ 1 \in 1..Len(ready)
      BY <1>1, <2>1
    <3>. QED BY <1>1, <1>2, <3>1 DEF Queueing
  <2>2. ASSUME NEW i \in 1..Len(ready), ready[i].buf = b, b # Head(ready).buf
        PROVE  Queueing(b)'
    <3>1. i # 1
      BY <1>1, <2>2
    <3>2. i - 1 \in 1..Len(ready') /\ i - 1 \in 1..(Len(ready) - 1) /\ (i - 1) + 1 = i
      BY <1>1, <3>1
    <3>3. ready'[i - 1].buf = b
      BY <1>1, <2>2, <3>2
    <3>. QED BY <3>2, <3>3 DEF Queueing
  <2>. QED BY <2>1, <2>2 DEF Queueing
<1>4. ASSUME NEW i \in 1..Len(ready'), NEW j \in 1..Len(ready'), ready'[i].buf = ready'[j].buf
      PROVE  i = j
  <2>1. i + 1 \in 1..Len(ready) /\ j + 1 \in 1..Len(ready) /\ ready[i + 1].buf = ready[j + 1].buf
    BY <1>1, <1>4
  <2>. QED BY <1>2, <2>1
<1>5. 1 \in 1..Len(ready)
  BY <1>1
<1>. QED BY <1>1, <1>3, <1>4, <1>5 DEF Queueing

LEMMA ReadyAdded ==
  ASSUME ready \in Seq([buf : Bufs, size : Nat]), NEW x \in [buf : Bufs, size : Nat],
         ready' = Append(ready, x), Once, ~Queueing(x.buf)
  PROVE  /\ ready' \in Seq([buf : Bufs, size : Nat])
         /\ \A b : Queueing(b)' <=> Queueing(b) \/ b = x.buf
         /\ \A i, j \in 1..Len(ready') : ready'[i].buf = ready'[j].buf => i = j
<1>1. /\ ready' \in Seq([buf : Bufs, size : Nat])
      /\ Len(ready') = Len(ready) + 1 /\ Len(ready) \in Nat
      /\ \A i \in 1..Len(ready) : ready'[i] = ready[i]
      /\ ready'[Len(ready) + 1] = x
  BY ToQueue
<1>2. \A i, j \in 1..Len(ready) : ready[i].buf = ready[j].buf => i = j
  BY DEF Once
<1>3. \A i \in 1..Len(ready) : ready[i].buf # x.buf
  BY DEF Queueing
<1>4. \A i : i \in 1..Len(ready') <=> i \in 1..Len(ready) \/ i = Len(ready) + 1
  BY <1>1
<1>5. \A b : Queueing(b)' <=> Queueing(b) \/ b = x.buf
  BY <1>1, <1>4 DEF Queueing
<1>. QED BY <1>1, <1>2, <1>3, <1>4, <1>5

\* The queue of ready buffers has room for one that is being filled.
LEMMA Room ==
  ASSUME StdioTxAssumption, TxInv, NEW w \in Writers, Filling(w)
  PROVE  Len(ready) < NBufs
<1>. DEFINE b == call[w].buf
            Others == Bufs \ {b}
            f == [i \in 1..Len(ready) |-> ready[i].buf]
<1>1. NBufs \in Nat /\ NBufs > 0 /\ b \in Bufs /\ Len(ready) \in Nat
  BY DEF StdioTxAssumption, TxInv, TxTypes, Calling
<1>2. IsFiniteSet(Bufs) /\ Cardinality(Bufs) = NBufs
  <2>1. 0 \in Int /\ NBufs - 1 \in Int /\ ~(0 > NBufs - 1) /\ (NBufs - 1) - 0 + 1 = NBufs
    BY <1>1
  <2>. QED BY <2>1, FS_Interval DEF Bufs
<1>3. IsFiniteSet(Others) /\ Cardinality(Others) = NBufs - 1
  BY <1>1, <1>2, FS_RemoveElement
<1>4. ~Queueing(b)
  BY <1>1 DEF TxInv, OnePlace, Filled
<1>5. f \in Injection(1..Len(ready), Others)
  <2>1. \A i \in 1..Len(ready) : ready[i].buf \in Bufs
    <3>1. ASSUME NEW q \in Seq([buf : Bufs, size : Nat]), NEW i \in 1..Len(q)
          PROVE  q[i].buf \in Bufs
      <4>1. q[i] \in [buf : Bufs, size : Nat]
        BY Element
      <4>. QED BY <4>1
    <3>. QED BY <3>1 DEF TxInv, TxTypes
  <2>2. \A i \in 1..Len(ready) : ready[i].buf # b
    BY <1>4 DEF Queueing
  <2>3. \A i, j \in 1..Len(ready) : ready[i].buf = ready[j].buf => i = j
    BY DEF TxInv, Once
  <2>4. f \in [1..Len(ready) -> Others]
    BY <2>1, <2>2
  <2>. QED BY <2>3, <2>4 DEF Injection, IsInjective
<1>. HIDE DEF Others, f
<1>6. Cardinality(1..Len(ready)) <= Cardinality(Others)
  BY <1>3, <1>5, FS_Injection
<1>7. Cardinality(1..Len(ready)) = Len(ready)
  BY SMTT(30), <1>1, FS_Interval
<1>. QED BY <1>1, <1>3, <1>6, <1>7

\* What a step of one writer does to the buffers that are being filled.
LEMMA FilledNext ==
  ASSUME NEW w \in Writers, \A v \in Writers : v # w => call'[v] = call[v]
  PROVE  \A b : Filled(b)' <=> \/ \E v \in Writers : v # w /\ Filling(v) /\ call[v].buf = b
                               \/ Filling(w)' /\ call'[w].buf = b
BY DEF Filled, Filling

\* What a step does that changes only the call of writer w, and not where it fills.
LEMMA CallTyped ==
  ASSUME TxTypes, NEW w \in Writers, NEW c \in Calling, call' = [call EXCEPT ![w] = c],
         c.crlf => c.rest # <<>>
  PROVE  /\ call' \in [Writers -> Calling] /\ call'[w] = c
         /\ \A v \in Writers : v # w => call'[v] = call[v]
         /\ \A v \in Writers : call'[v].crlf => call'[v].rest # <<>>
<1>1. call \in [Writers -> Calling] /\ \A v \in Writers : call[v].crlf => call[v].rest # <<>>
  BY DEF TxTypes
<1>2. call' \in [Writers -> Calling] /\ call'[w] = c
  BY <1>1
<1>3. \A v \in Writers : v # w => call'[v] = call[v]
  BY <1>1
<1>. QED BY <1>1, <1>2, <1>3

\* A step after which the same buffers are in the same places.
LEMMA Stays ==
  ASSUME Once, OnePlace, UNCHANGED <<avail, ready, wpc, pending>>, NEW w \in Writers,
         \A v \in Writers : v # w => call'[v] = call[v],
         Filling(w)' = Filling(w), Filling(w) => call'[w].buf = call[w].buf
  PROVE  Once' /\ OnePlace'
<1>1. \A v \in Writers : Filling(v)' = Filling(v)
  BY DEF Filling
<1>2. \A v \in Writers : Filling(v) => call'[v].buf = call[v].buf
  OBVIOUS
<1>3. \A b : /\ Free(b)' = Free(b) /\ Queueing(b)' = Queueing(b) /\ Sending(b)' = Sending(b)
  BY DEF Free, Queueing, Sending
<1>4. \A b : Filled(b)' <=> Filled(b)
  BY <1>1, <1>2 DEF Filled
<1>5. Once'
  BY <1>1, <1>2 DEF Once
<1>. QED BY <1>3, <1>4, <1>5 DEF OnePlace

LEMMA TxCalls ==
  ASSUME StdioTxAssumption, TxInv, NEW w \in Writers,
         \/ \E t \in Texts : stdio_write(w, t)
         \/ GetTimeout(w) \/ Copy(w) \/ Finish(w)
  PROVE  TxInv'
<1>. USE DEF queues, gate
<1>a. TxTypes /\ Once /\ OnePlace
  BY DEF TxInv
<1>b. /\ UNCHANGED <<avail, ready, semphr, wpc, pending, tx, given>>
  BY DEF stdio_write, GetTimeout, Copy, Finish
<1>c. odd' \subseteq {"long", "empty"}
  BY <1>a DEF stdio_write, GetTimeout, Copy, Finish, TxTypes
<1>d. call[w] \in Calling /\ (call[w].crlf => call[w].rest # <<>>) /\ 0 \in Bufs
      /\ call \in [Writers -> Calling]
  BY <1>a DEF TxTypes, StdioTxAssumption, Bufs
<1>e. ASSUME NEW c \in Calling, call' = [call EXCEPT ![w] = c], c.crlf => c.rest # <<>>,
             c.pc \in {"copy", "send"} <=> Filling(w), Filling(w) => c.buf = call[w].buf
      PROVE  TxInv'
  <2>1. /\ call' \in [Writers -> Calling] /\ call'[w] = c
        /\ \A v \in Writers : v # w => call'[v] = call[v]
        /\ \A v \in Writers : call'[v].crlf => call'[v].rest # <<>>
    BY <1>a, <1>e, CallTyped
  <2>2. TxTypes'
    BY <1>a, <1>b, <1>c, <2>1 DEF TxTypes
  <2>3. Filling(w)' = Filling(w) /\ (Filling(w) => call'[w].buf = call[w].buf)
    BY <1>e, <2>1 DEF Filling
  <2>4. Once' /\ OnePlace'
    BY <1>a, <1>b, <2>1, <2>3, Stays
  <2>. QED BY <2>2, <2>4 DEF TxInv
<1>1. ASSUME NEW t \in Texts, stdio_write(w, t)
      PROVE  TxInv'
  <2>. DEFINE c == [Fresh EXCEPT !.pc = "get", !.text = t, !.rest = t, !.from = Len(given[w])]
  <2>1. t \in Texted /\ Len(given[w]) \in Nat
    BY <1>a DEF TxTypes, StdioTxAssumption, Texted
  <2>2. Fresh \in Calling /\ Fresh.crlf = FALSE
    BY <1>d DEF Fresh, Calling, Texted
  <2>3. call' = [call EXCEPT ![w] = c] /\ call[w].pc = "idle"
    BY <1>1 DEF stdio_write
  <2>4. c \in Calling /\ ~c.crlf /\ c.pc = "get"
    BY <2>1, <2>2 DEF Calling
  <2>. HIDE DEF c
  <2>. QED BY <1>e, <2>3, <2>4 DEF Filling
<1>2. CASE GetTimeout(w)
  <2>. DEFINE c == [call[w] EXCEPT !.pc = "done", !.ret = "timeout"]
  <2>1. c \in Calling /\ c.crlf = call[w].crlf /\ c.rest = call[w].rest /\ c.pc = "done"
    BY <1>d DEF Calling
  <2>2. call' = [call EXCEPT ![w] = c] /\ call[w].pc = "get"
    BY <1>2, <1>d DEF GetTimeout, Return, Calling
  <2>. HIDE DEF c
  <2>. QED BY <1>d, <1>e, <2>1, <2>2 DEF Filling
<1>3. CASE Copy(w)
  <2>. DEFINE c == [call[w] EXCEPT !.pc = "send"]
  <2>1. c \in Calling /\ c.crlf = call[w].crlf /\ c.rest = call[w].rest /\ c.pc = "send"
        /\ c.buf = call[w].buf
    BY <1>d DEF Calling
  <2>2. call' = [call EXCEPT ![w] = c] /\ call[w].pc = "copy"
    BY <1>3, <1>d DEF Copy, Calling
  <2>. HIDE DEF c
  <2>. QED BY <1>d, <1>e, <2>1, <2>2 DEF Filling
<1>4. CASE Finish(w)
  <2>1. Fresh \in Calling /\ ~Fresh.crlf /\ Fresh.pc = "idle"
    <3>1. <<>> \in Texted
      BY DEF Texted
    <3>. QED BY <1>d, <3>1 DEF Fresh, Calling
  <2>2. call' = [call EXCEPT ![w] = Fresh] /\ call[w].pc = "done"
    BY <1>4 DEF Finish
  <2>. QED BY <1>e, <2>1, <2>2 DEF Filling
<1>. QED BY <1>1, <1>2, <1>3, <1>4

LEMMA TxGet ==
  ASSUME StdioTxAssumption, TxInv, NEW w \in Writers, Get(w)
  PROVE  TxInv'
<1>. USE DEF queues, gate
<1>a. TxTypes /\ Once /\ OnePlace
  BY DEF TxInv
<1>. DEFINE x == Head(avail)
            c == [call[w] EXCEPT !.pc = "copy", !.buf = x]
<1>1. /\ UNCHANGED <<ready, semphr, wpc, pending, tx, given, odd>>
      /\ avail # <<>> /\ avail' = Tail(avail) /\ call[w].pc = "get"
  BY DEF Get
<1>2. /\ x \in Bufs /\ avail' \in Seq(Bufs) /\ Free(x)
      /\ \A b : Free(b)' <=> Free(b) /\ b # x
      /\ \A i, j \in 1..Len(avail') : avail'[i] = avail'[j] => i = j
  BY <1>a, <1>1, FreeTaken DEF TxTypes
<1>. HIDE DEF x
<1>3. call[w] \in Calling /\ (call[w].crlf => call[w].rest # <<>>) /\ call \in [Writers -> Calling]
  BY <1>a DEF TxTypes
<1>4. c \in Calling /\ c.crlf = call[w].crlf /\ c.rest = call[w].rest /\ c.pc = "copy" /\ c.buf = x
  BY <1>2, <1>3 DEF Calling
<1>5. call' = [call EXCEPT ![w] = c]
  BY <1>3 DEF Get, Calling, x
<1>. HIDE DEF c
<1>6. /\ call' \in [Writers -> Calling] /\ call'[w] = c
      /\ \A v \in Writers : v # w => call'[v] = call[v]
      /\ \A v \in Writers : call'[v].crlf => call'[v].rest # <<>>
  BY <1>a, <1>3, <1>4, <1>5, CallTyped
<1>7. TxTypes'
  BY <1>a, <1>1, <1>2, <1>6 DEF TxTypes
<1>8. ~Filling(w) /\ Filling(w)' /\ call'[w].buf = x
      /\ \A v \in Writers : v # w => Filling(v)' = Filling(v)
  BY <1>1, <1>4, <1>6 DEF Filling
<1>9. \A b : Filled(b)' <=> Filled(b) \/ b = x
  BY <1>6, <1>8, FilledNext DEF Filled
<1>10. \A b : Queueing(b)' = Queueing(b) /\ Sending(b)' = Sending(b)
  BY <1>1 DEF Queueing, Sending
<1>11. OnePlace'
  BY <1>a, <1>2, <1>9, <1>10 DEF OnePlace
<1>12. Once'
  <2>1. ~Filled(x)
    BY <1>a, <1>2 DEF OnePlace
  <2>2. ASSUME NEW v \in Writers, NEW u \in Writers, Filling(v)', Filling(u)',
               call'[v].buf = call'[u].buf
        PROVE  v = u
    <3>1. CASE v # w /\ u # w
      BY <1>a, <1>6, <1>8, <2>2, <3>1 DEF Once
    <3>2. CASE v = w /\ u # w
      BY <1>6, <1>8, <2>1, <2>2, <3>2 DEF Filled
    <3>3. CASE v # w /\ u = w
      BY <1>6, <1>8, <2>1, <2>2, <3>3 DEF Filled
    <3>. QED BY <3>1, <3>2, <3>3
  <2>. QED BY <1>a, <1>1, <1>2, <2>2 DEF Once
<1>. QED BY <1>7, <1>11, <1>12 DEF TxInv

LEMMA TxSend ==
  ASSUME StdioTxAssumption, TxInv, NEW w \in Writers, Send(w)
  PROVE  TxInv'
<1>. USE DEF queues, gate
<1>a. TxTypes /\ Once /\ OnePlace
  BY DEF TxInv
<1>. DEFINE left == Left(w)
            c == [call[w] EXCEPT !.rest = left, !.crlf = ~@ /\ left # <<>>,
                                 !.pc = IF left = <<>> THEN "done" ELSE "get",
                                 !.ret = IF left = <<>> THEN "ok" ELSE @]
            x == [buf |-> call[w].buf, size |-> Len(Chunk(w))]
<1>1. call[w].pc = "send" /\ Filling(w) /\ call[w] \in Calling /\ call \in [Writers -> Calling]
      /\ call[w].buf \in Bufs
  BY <1>a DEF Send, Filling, TxTypes, Calling
<1>2. Len(ready) # NBufs
  <2>1. NBufs \in Nat /\ Len(ready) < NBufs
    BY <1>1, Room DEF StdioTxAssumption
  <2>2. Len(ready) \in Nat
    BY <1>a DEF TxTypes
  <2>. QED BY <2>1, <2>2
<1>3. /\ UNCHANGED <<avail, semphr, wpc, pending, tx, odd>>
      /\ ready' = Append(ready, x)
      /\ given' = [given EXCEPT ![w] = @ \o ChunkBytes(w)]
      /\ call' = [call EXCEPT ![w].rest = left, ![w].crlf = ~@ /\ left # <<>>,
                              ![w].pc = IF left = <<>> THEN "done" ELSE "get",
                              ![w].ret = IF left = <<>> THEN "ok" ELSE @]
  BY <1>2 DEF Send
<1>4. Len(Chunk(w)) \in Nat /\ left \in Texted
  BY <1>a, Piece
<1>5. call' = [call EXCEPT ![w] = c]
  BY <1>1, <1>3 DEF Calling
<1>. HIDE DEF left
<1>6. /\ c \in Calling /\ (c.crlf => c.rest # <<>>) /\ c.pc \notin {"copy", "send"}
  BY <1>1, <1>4 DEF Calling
<1>. HIDE DEF c
<1>7. /\ call' \in [Writers -> Calling] /\ call'[w] = c
      /\ \A v \in Writers : v # w => call'[v] = call[v]
      /\ \A v \in Writers : call'[v].crlf => call'[v].rest # <<>>
  BY <1>a, <1>5, <1>6, CallTyped
<1>8. x \in [buf : Bufs, size : Nat] /\ x.buf = call[w].buf
  BY <1>1, <1>4
<1>. HIDE DEF x
<1>9. Filled(x.buf) /\ ~Queueing(x.buf)
  BY <1>a, <1>1, <1>8 DEF Filled, OnePlace
<1>10. /\ ready' \in Seq([buf : Bufs, size : Nat])
       /\ \A b : Queueing(b)' <=> Queueing(b) \/ b = x.buf
       /\ \A i, j \in 1..Len(ready') : ready'[i].buf = ready'[j].buf => i = j
  BY <1>a, <1>3, <1>8, <1>9, ReadyAdded DEF TxTypes
<1>11. given' \in [Writers -> Seq(SentBytes)]
  <2>1. given \in [Writers -> Seq(SentBytes)] /\ ChunkBytes(w) \in Seq(SentBytes)
    BY <1>a, Piece DEF TxTypes
  <2>. DEFINE g == given[w] \o ChunkBytes(w)
  <2>2. g \in Seq(SentBytes)
    BY <2>1
  <2>3. given' = [given EXCEPT ![w] = g]
    BY <1>3
  <2>. HIDE DEF g
  <2>. QED BY <2>1, <2>2, <2>3
<1>12. TxTypes'
  BY <1>a, <1>3, <1>7, <1>10, <1>11 DEF TxTypes
<1>13. ~Filling(w)' /\ \A v \in Writers : v # w => Filling(v)' = Filling(v)
  BY <1>6, <1>7 DEF Filling
<1>14. \A b : Free(b)' = Free(b) /\ Sending(b)' = Sending(b)
  BY <1>3 DEF Free, Sending
<1>15. \A b : Filled(b)' <=> Filled(b) /\ b # x.buf
  <2>1. \A v \in Writers : v # w /\ Filling(v) => call[v].buf # x.buf
    BY <1>a, <1>1, <1>8 DEF Once
  <2>. QED BY <1>1, <1>7, <1>8, <1>13, <2>1, FilledNext DEF Filled
<1>16. OnePlace'
  BY <1>a, <1>9, <1>10, <1>14, <1>15 DEF OnePlace
<1>17. Once'
  <2>1. ASSUME NEW v \in Writers, NEW u \in Writers, Filling(v)', Filling(u)',
               call'[v].buf = call'[u].buf
        PROVE  v = u
    BY <1>a, <1>7, <1>13, <2>1 DEF Once
  <2>. QED BY <1>a, <1>3, <1>10, <2>1 DEF Once
<1>. QED BY <1>12, <1>16, <1>17 DEF TxInv

\* The gate-keeper takes a buffer from the queue, and gives one back.
LEMMA TxTransmit ==
  ASSUME StdioTxAssumption, TxInv, Transmit
  PROVE  TxInv'
<1>. USE DEF queues, gate
<1>a. TxTypes /\ Once /\ OnePlace
  BY DEF TxInv
<1>. DEFINE x == Head(ready)
<1>1. /\ UNCHANGED <<avail, semphr, call, given, odd>>
      /\ wpc = "recv" /\ ready # <<>> /\ ready' = Tail(ready) /\ pending' = x.buf
      /\ wpc' \in {"wait", "halt"}
  BY DEF Transmit, error_handler
<1>2. /\ x \in [buf : Bufs, size : Nat] /\ Queueing(x.buf)
      /\ ready' \in Seq([buf : Bufs, size : Nat])
      /\ \A b : Queueing(b)' <=> Queueing(b) /\ b # x.buf
      /\ \A i, j \in 1..Len(ready') : ready'[i].buf = ready'[j].buf => i = j
  BY <1>a, <1>1, ReadyTaken DEF TxTypes
<1>3. tx' = NoTx \/ tx' \in [at : Nat, left : Nat, size : Nat]
  <2>1. \/ tx' = tx \/ tx' = NoTx
        \/ tx' = [at |-> x.buf * Depth + 1, left |-> x.size, size |-> x.size]
    BY DEF Transmit, error_handler
  <2>. HIDE DEF x
  <2>2. x.buf \in Nat /\ x.size \in Nat /\ Depth \in Nat
    BY <1>2 DEF Bufs, StdioTxAssumption
  <2>3. x.buf * Depth + 1 \in Nat
    BY <2>2
  <2>. QED BY <1>a, <2>1, <2>2, <2>3 DEF TxTypes
<1>. HIDE DEF x
<1>4. TxTypes'
  BY <1>a, <1>1, <1>2, <1>3 DEF TxTypes
<1>5. /\ \A b : Free(b)' = Free(b) /\ Filled(b)' = Filled(b)
      /\ \A b : ~Sending(b) /\ (Sending(b)' <=> b = x.buf)
  BY <1>1 DEF Free, Filled, Filling, Sending
<1>6. OnePlace'
  BY <1>a, <1>2, <1>5 DEF OnePlace
<1>7. Once'
  BY <1>a, <1>1, <1>2 DEF Once, Filling
<1>. QED BY <1>4, <1>6, <1>7 DEF TxInv

LEMMA TxRecycle ==
  ASSUME StdioTxAssumption, TxInv, Take \/ TakeTimeout
  PROVE  TxInv'
<1>. USE DEF queues, gate
<1>a. TxTypes /\ Once /\ OnePlace
  BY DEF TxInv
<1>1. /\ UNCHANGED <<ready, tx, pending, call, given, odd>>
      /\ wpc = "wait" /\ wpc' = "recv" /\ avail' = Append(avail, pending)
      /\ semphr' \in BOOLEAN
  BY <1>a DEF Take, TakeTimeout, Recycle, TxTypes
<1>2. Sending(pending) /\ pending \in Bufs
  BY <1>a, <1>1 DEF Sending, TxTypes
<1>3. ~Free(pending)
  BY <1>a, <1>2 DEF OnePlace
<1>4. /\ avail' \in Seq(Bufs)
      /\ \A b : Free(b)' <=> Free(b) \/ b = pending
      /\ \A i, j \in 1..Len(avail') : avail'[i] = avail'[j] => i = j
  BY <1>a, <1>1, <1>2, <1>3, FreeAdded DEF TxTypes
<1>5. TxTypes'
  BY <1>a, <1>1, <1>4 DEF TxTypes
<1>6. /\ \A b : Queueing(b)' = Queueing(b) /\ Filled(b)' = Filled(b)
      /\ \A b : ~Sending(b)' /\ (Sending(b) <=> b = pending)
  BY <1>1 DEF Queueing, Filled, Filling, Sending
<1>7. OnePlace'
  BY <1>a, <1>4, <1>6 DEF OnePlace
<1>8. Once'
  BY <1>a, <1>1, <1>4 DEF Once, Filling
<1>. QED BY <1>5, <1>7, <1>8 DEF TxInv

LEMMA TxHardware ==
  ASSUME TxInv, DmaByte \/ Complete
  PROVE  TxInv'
<1>. USE DEF queues, gate
<1>a. TxTypes /\ Once /\ OnePlace
  BY DEF TxInv
<1>1. UNCHANGED <<avail, ready, wpc, pending, call, given, odd>>
  BY DEF DmaByte, Complete
<1>2. semphr' \in BOOLEAN
  BY <1>a DEF DmaByte, Complete, TxTypes
<1>3. tx' = NoTx \/ tx' \in [at : Nat, left : Nat, size : Nat]
  <2>1. CASE DmaByte
    <3>1. /\ tx \in [at : Nat, left : Nat, size : Nat] /\ tx.left > 0
          /\ tx' = [tx EXCEPT !.at = tx.at + 1, !.left = tx.left - 1]
      BY <1>a, <2>1 DEF DmaByte, TxTypes
    <3>2. tx.at + 1 \in Nat /\ tx.left - 1 \in Nat
      BY <3>1
    <3>. QED BY <3>1, <3>2
  <2>2. CASE Complete
    BY <2>2 DEF Complete
  <2>. QED BY <2>1, <2>2
<1>4. TxTypes'
  BY <1>a, <1>1, <1>2, <1>3 DEF TxTypes
<1>5. Once' /\ OnePlace'
  BY <1>a, <1>1 DEF Once, OnePlace, Free, Queueing, Filled, Sending, Filling
<1>. QED BY <1>4, <1>5 DEF TxInv

LEMMA TxStarts == StdioTxAssumption /\ Init => TxInv
<1>. SUFFICES ASSUME StdioTxAssumption, Init
              PROVE  TxInv
  OBVIOUS
<1>1. NBufs \in Nat /\ NBufs > 0 /\ 0 \in Bufs
  BY DEF StdioTxAssumption, Bufs
<1>2. /\ avail = [i \in 1..NBufs |-> i - 1] /\ ready = <<>> /\ semphr = FALSE /\ tx = NoTx
      /\ wpc = "recv" /\ pending = 0 /\ call = [w \in Writers |-> Fresh]
      /\ given = [w \in Writers |-> <<>>] /\ odd = {}
  BY DEF Init
<1>3. avail \in Seq(Bufs) /\ Len(avail) = NBufs
  <2>1. avail \in [1..NBufs -> Bufs]
    BY <1>1, <1>2 DEF Bufs
  <2>. QED BY <1>1, <2>1, IsASeq
<1>4. Fresh \in Calling /\ ~Fresh.crlf /\ Fresh.pc = "idle"
  <2>1. <<>> \in Texted
    BY DEF Texted
  <2>. QED BY <1>1, <2>1 DEF Fresh, Calling
<1>5. TxTypes
  <2>1. <<>> \in Seq([buf : Bufs, size : Nat]) /\ <<>> \in Seq(SentBytes)
    OBVIOUS
  <2>. QED BY <1>1, <1>2, <1>3, <1>4, <2>1 DEF TxTypes
<1>6. \A b : ~Queueing(b) /\ ~Filled(b) /\ ~Sending(b)
  BY <1>2, <1>4 DEF Queueing, Filled, Sending, Filling
<1>7. \A b \in Bufs : Free(b)
  <2>1. ASSUME NEW b \in Bufs
        PROVE  Free(b)
    <3>1. b + 1 \in 1..NBufs /\ (b + 1) - 1 = b
      BY <1>1 DEF Bufs
    <3>2. avail[b + 1] = b
      BY <1>2, <3>1
    <3>. QED BY <1>3, <3>1, <3>2 DEF Free
  <2>. QED BY <2>1
<1>8. Once
  <2>1. \A i, j \in 1..Len(avail) : avail[i] = avail[j] => i = j
    BY <1>1, <1>2, <1>3
  <2>2. \A i, j \in 1..Len(ready) : ready[i].buf = ready[j].buf => i = j
    BY <1>2
  <2>3. \A w \in Writers : ~Filling(w)
    BY <1>2, <1>4 DEF Filling
  <2>. QED BY <2>1, <2>2, <2>3 DEF Once
<1>. QED BY <1>5, <1>6, <1>7, <1>8 DEF TxInv, OnePlace

LEMMA TxSteps == StdioTxAssumption /\ TxInv /\ [Next]_(vars) => TxInv'
<1>. SUFFICES ASSUME StdioTxAssumption, TxInv, [Next]_(vars)
              PROVE  TxInv'
  OBVIOUS
<1>1. CASE UNCHANGED vars
  BY <1>1 DEF vars, queues, gate, TxInv, TxTypes, Once, OnePlace, Free, Queueing, Filled,
              Sending, Filling
<1>2. ASSUME NEW w \in Writers, Step(w) \/ \E t \in Texts : stdio_write(w, t)
      PROVE  TxInv'
  BY <1>2, TxCalls, TxGet, TxSend DEF Step
<1>3. CASE uart_write_task
  BY <1>3, TxTransmit, TxRecycle DEF uart_write_task
<1>4. CASE Hardware
  BY <1>4, TxHardware DEF Hardware
<1>. QED BY <1>1, <1>2, <1>3, <1>4 DEF Next

\* The places of a buffer are the one it is in.
LEMMA TxPlaces ==
  ASSUME TxInv, NEW b \in Bufs
  PROVE  Cardinality(Places(b)) = 1
<1>a. Once /\ OnePlace
  BY DEF TxInv
<1>1. \E p : Places(b) = {p}
  <2>1. CASE Free(b)
    <3>1. PICK i \in 1..Len(avail) : avail[i] = b
      BY <2>1 DEF Free
    <3>2. \A j \in 1..Len(avail) : avail[j] = b => j = i
      BY <1>a, <3>1 DEF Once
    <3>3. ~Queueing(b) /\ ~Filled(b) /\ ~Sending(b)
      BY <1>a, <2>1 DEF OnePlace
    <3>4. Places(b) = {<<"avail", i>>}
      BY <3>1, <3>2, <3>3 DEF Places, Queueing, Filled, Sending
    <3>. QED BY <3>4
  <2>2. CASE Queueing(b)
    <3>1. PICK i \in 1..Len(ready) : ready[i].buf = b
      BY <2>2 DEF Queueing
    <3>2. \A j \in 1..Len(ready) : ready[j].buf = b => j = i
      BY <1>a, <3>1 DEF Once
    <3>3. ~Free(b) /\ ~Filled(b) /\ ~Sending(b)
      BY <1>a, <2>2 DEF OnePlace
    <3>4. Places(b) = {<<"ready", i>>}
      BY <3>1, <3>2, <3>3 DEF Places, Free, Filled, Sending
    <3>. QED BY <3>4
  <2>3. CASE Filled(b)
    <3>1. PICK w \in Writers : Filling(w) /\ call[w].buf = b
      BY <2>3 DEF Filled
    <3>2. \A v \in Writers : Filling(v) /\ call[v].buf = b => v = w
      BY <1>a, <3>1 DEF Once
    <3>3. ~Free(b) /\ ~Queueing(b) /\ ~Sending(b)
      BY <1>a, <2>3 DEF OnePlace
    <3>4. Places(b) = {<<"writer", w>>}
      BY <3>1, <3>2, <3>3 DEF Places, Free, Queueing, Sending
    <3>. QED BY <3>4
  <2>4. CASE Sending(b)
    <3>1. wpc \in {"wait", "halt"} /\ pending = b
      BY <2>4 DEF Sending
    <3>2. ~Free(b) /\ ~Queueing(b) /\ ~Filled(b)
      BY <1>a, <2>4 DEF OnePlace
    <3>3. Places(b) = {<<"task", wpc>>}
      BY <3>1, <3>2 DEF Places, Free, Queueing, Filled
    <3>. QED BY <3>3
  <2>. QED BY <1>a, <2>1, <2>2, <2>3, <2>4 DEF OnePlace
<1>2. Cardinality(Places(b)) = Cardinality(Places(b))
  BY DEF Cardinality, Cardinality
<1>. QED BY <1>1, <1>2, FS_Singleton

\* stdio_uart.c: no buffer of the pool is lost or given to two, whatever times out.
THEOREM PoolKept ==
  ASSUME StdioTxAssumption
  PROVE  Spec => []TypeOK
<1>1. TxInv => TypeOK
  <2>. SUFFICES ASSUME TxInv
                PROVE  TypeOK
    OBVIOUS
  <2>1. \A i \in 1..Len(ready) : ready[i] \in [buf : Bufs, size : Nat]
    <3>1. ASSUME NEW q \in Seq([buf : Bufs, size : Nat]), NEW i \in 1..Len(q)
          PROVE  q[i] \in [buf : Bufs, size : Nat]
      BY Element
    <3>. QED BY <3>1 DEF TxInv, TxTypes
  <2>2. \A w \in Writers : call[w].pc \in {"idle", "get", "copy", "send", "done"}
    BY DEF TxInv, TxTypes, Calling
  <2>. QED BY <2>1, <2>2, TxPlaces DEF TxInv, TxTypes, TypeOK
<1>2. Init => TxInv
  BY TxStarts
<1>3. TxInv /\ [Next]_(vars) => TxInv'
  BY TxSteps
<1>. QED BY <1>1, <1>2, <1>3, PTL DEF Spec
-----------------------------------------------------------------------------
(* What is queued for a text.                                              *)

\* How much of its text a writer has queued.
Queued(w) == Len(call[w].text) - Len(call[w].rest)

\* What has been queued is the text up to there, and what comes next is what Chunk takes it for.
TextOf(w) ==
  LET t == call[w].text
      r == call[w].rest
      m == Queued(w)
      Code(i) == given[w][call[w].from + i].c
  IN /\ m \in 0..Len(t) /\ \A i \in 1..Len(r) : r[i] = t[m + i]
     /\ Len(given[w]) = call[w].from + Place(t, m)
     /\ \A i \in 1..m : /\ Code(Place(t, i)) = t[i]
                        /\ Doubled(t, i) => Code(Place(t, i) - 1) = "r"
     /\ call[w].crlf => r # <<>> /\ Doubled(t, m + 1)
     /\ ~call[w].crlf /\ Len(r) = 1 /\ r[1] = "n" => m = 0 \/ t[m] = "n"

TextInv == \A w \in Writers :
  /\ call[w].pc \in {"get", "copy", "send"} => call[w].rest # <<>> /\ TextOf(w)
  /\ call[w].pc = "done" /\ call[w].ret = "ok" => call[w].rest = <<>> /\ TextOf(w)

\* The places of a text's characters: the first of a piece, and those behind it.
LEMMA PlaceNext ==
  ASSUME NEW t, NEW m \in Nat
  PROVE  /\ Place(t, m) \in Nat /\ Place(t, m) >= m
         /\ Place(t, m + 1) = Place(t, m) + (IF Doubled(t, m + 1) THEN 2 ELSE 1)
         /\ Place(t, 0) = 0
<1>. DEFINE D(i) == {j \in 1..i : Doubled(t, j)}
<1>1. ASSUME NEW i \in Nat
      PROVE  IsFiniteSet(D(i)) /\ Cardinality(D(i)) \in Nat
  <2>1. IsFiniteSet(1..i) /\ D(i) \subseteq 1..i
    BY FS_Interval
  <2>. QED BY <2>1, FS_Subset, FS_CardinalityType
<1>2. D(0) = {} /\ Cardinality(D(0)) = 0
  BY FS_EmptySet
<1>3. Cardinality(D(m + 1)) = Cardinality(D(m)) + (IF Doubled(t, m + 1) THEN 1 ELSE 0)
  <2>1. CASE Doubled(t, m + 1)
    <3>1. D(m + 1) = D(m) \cup {m + 1} /\ m + 1 \notin D(m)
      BY <2>1
    <3>. HIDE DEF D
    <3>2. Cardinality(D(m) \cup {m + 1}) = Cardinality(D(m)) + 1
      BY <1>1, <3>1, FS_AddElement
    <3>. QED BY <2>1, <3>1, <3>2
  <2>2. CASE ~Doubled(t, m + 1)
    <3>1. D(m + 1) = D(m)
      BY <2>2
    <3>. HIDE DEF D
    <3>. QED BY <1>1, <2>2, <3>1
  <2>. QED BY <2>1, <2>2
<1>4. \A i : Place(t, i) = i + Cardinality(D(i))
  BY DEF Place
<1>. HIDE DEF D
<1>5. m + 1 \in Nat /\ Cardinality(D(m)) \in Nat
  BY <1>1
<1>6. Place(t, 0) = 0
  BY <1>2, <1>4
<1>7. Place(t, m) \in Nat /\ Place(t, m) >= m
  BY <1>4, <1>5
<1>8. Place(t, m + 1) = Place(t, m) + (IF Doubled(t, m + 1) THEN 2 ELSE 1)
  BY <1>3, <1>4, <1>5
<1>. QED BY <1>6, <1>7, <1>8

LEMMA PlacesAlong ==
  ASSUME NEW t, NEW m \in Nat, NEW n \in Nat, \A i \in 1..n : ~Doubled(t, m + i)
  PROVE  \A i \in 0..n : Place(t, m + i) = Place(t, m) + i
<1>. SUFFICES ASSUME NEW i \in 0..n
              PROVE  Place(t, m + i) = Place(t, m) + i
  OBVIOUS
<1>1. {j \in 1..(m + i) : Doubled(t, j)} = {j \in 1..m : Doubled(t, j)}
  <2>1. ASSUME NEW j \in 1..(m + i), Doubled(t, j), j > m
        PROVE  FALSE
    <3>1. j - m \in 1..n /\ m + (j - m) = j
      BY <2>1
    <3>. QED BY <2>1, <3>1
  <2>. QED BY <2>1
<1>2. Place(t, m) \in Nat
  BY PlaceNext
<1>3. Cardinality({j \in 1..m : Doubled(t, j)}) \in Nat
  <2>1. IsFiniteSet(1..m) /\ {j \in 1..m : Doubled(t, j)} \subseteq 1..m
    BY FS_Interval
  <2>. QED BY <2>1, FS_Subset, FS_CardinalityType
<1>. QED BY <1>1, <1>3 DEF Place

LEMMA PlacesOrder ==
  ASSUME NEW t, NEW m \in Nat, NEW i \in 1..m
  PROVE  /\ Place(t, i) \in 1..Place(t, m)
         /\ Doubled(t, i) => Place(t, i) - 1 \in 1..Place(t, m)
<1>. DEFINE D(k) == {j \in 1..k : Doubled(t, j)}
<1>1. /\ IsFiniteSet(D(m)) /\ Cardinality(D(m)) \in Nat
      /\ Cardinality(D(i)) \in Nat /\ Cardinality(D(i)) <= Cardinality(D(m))
  <2>1. IsFiniteSet(1..m) /\ D(m) \subseteq 1..m /\ D(i) \subseteq D(m)
    BY FS_Interval
  <2>2. IsFiniteSet(D(m))
    BY <2>1, FS_Subset
  <2>. HIDE DEF D
  <2>. QED BY <2>1, <2>2, FS_Subset, FS_CardinalityType
<1>2. Place(t, i) = i + Cardinality(D(i)) /\ Place(t, m) = m + Cardinality(D(m))
  BY DEF Place
<1>3. Doubled(t, i) => Cardinality(D(i)) >= 1
  <2>1. ASSUME Doubled(t, i)
        PROVE  Cardinality(D(i)) # 0
    <3>1. i \in D(i) /\ IsFiniteSet(D(i))
      <4>1. IsFiniteSet(1..i) /\ D(i) \subseteq 1..i /\ i \in 1..i
        BY FS_Interval
      <4>. QED BY <2>1, <4>1, FS_Subset
    <3>. HIDE DEF D
    <3>. QED BY <3>1, FS_EmptySet
  <2>. QED BY <1>1, <2>1
<1>. HIDE DEF D
<1>4. Place(t, i) \in 1..Place(t, m)
  BY <1>1, <1>2
<1>5. Doubled(t, i) => Place(t, i) - 1 \in 1..Place(t, m)
  BY <1>1, <1>2, <1>3
<1>. QED BY <1>4, <1>5

\* What a piece is of the text, and what is left behind it.
LEMMA PieceOfText ==
  ASSUME TxTypes, NEW w \in Writers, call[w].rest # <<>>, TextOf(w)
  PROVE  LET t == call[w].text
             m == Queued(w)
             k == Len(Chunk(w))
             left == Left(w)
         IN
         \/ /\ call[w].crlf /\ Chunk(w) = <<"r", "n">> /\ k = 2 /\ Doubled(t, m + 1)
            /\ Len(left) = Len(call[w].rest) - 1
            /\ \A i \in 1..Len(left) : left[i] = call[w].rest[i + 1]
         \/ /\ ~call[w].crlf /\ k \in 0..Len(call[w].rest)
            /\ Len(left) = Len(call[w].rest) - k
            /\ \A i \in 1..Len(left) : left[i] = call[w].rest[i + k]
            /\ \A i \in 1..k : Chunk(w)[i] = t[m + i] /\ ~Doubled(t, m + i)
            /\ left # <<>> => Doubled(t, m + k + 1)
<1>. DEFINE t == call[w].text
            m == Queued(w)
            k == Len(Chunk(w))
            left == Left(w)
            r == call[w].rest
            pos == SelectInSeq(r, IsNewline)
<1>1. /\ r \in Texted /\ t \in Texted /\ r # <<>> /\ call[w].crlf \in BOOLEAN
      /\ Len(r) \in Nat \ {0} /\ Len(t) \in Nat
  BY EmptySeq DEF TxTypes, Calling, Texted
<1>2. /\ m \in Nat /\ m + Len(r) = Len(t)
      /\ \A i \in 1..Len(r) : r[i] = t[m + i]
      /\ call[w].crlf => Doubled(t, m + 1)
      /\ ~call[w].crlf /\ Len(r) = 1 /\ r[1] = "n" => m = 0 \/ t[m] = "n"
  <2>1. /\ m \in 0..Len(t) /\ \A i \in 1..Len(r) : r[i] = t[m + i]
        /\ call[w].crlf => Doubled(t, m + 1)
        /\ ~call[w].crlf /\ Len(r) = 1 /\ r[1] = "n" => m = 0 \/ t[m] = "n"
    BY DEF TextOf
  <2>2. m = Len(t) - Len(r)
    BY DEF Queued
  <2>. HIDE DEF r, t, m
  <2>. QED BY <1>1, <2>1, <2>2
<1>3. /\ pos \in 0..Len(r) /\ (pos # 0 => r[pos] = "n")
      /\ \A i \in 1..Len(r) : r[i] = "n" => pos \in 1..i
  BY <1>1, FirstNewline
<1>. HIDE DEF pos
<1>4. Chunk(w) = IF call[w].crlf THEN <<"r", "n">>
                   ELSE IF pos # 0 /\ Len(r) # 1 THEN SubSeq(r, 1, pos - 1) ELSE r
  BY DEF Chunk, pos
<1>5. left = IF call[w].crlf THEN Tail(r) ELSE SubSeq(r, k + 1, Len(r))
  BY DEF Left
<1>9. k = Len(Chunk(w))
  OBVIOUS
<1>. HIDE DEF r, t, m, k, left
<1>6. CASE call[w].crlf
  <2>1. Chunk(w) = <<"r", "n">> /\ k = 2
    BY <1>4, <1>6, <1>9
  <2>2. Len(left) = Len(r) - 1 /\ \A i \in 1..(Len(r) - 1) : left[i] = r[i + 1]
    BY <1>1, <1>5, <1>6, FromQueue DEF Texted
  <2>. QED BY <1>2, <1>6, <2>1, <2>2 DEF r, t, m, k, left
<1>7. CASE ~call[w].crlf
  <2>1. CASE pos # 0 /\ Len(r) # 1
    <3>1. Chunk(w) = SubSeq(r, 1, pos - 1)
      BY <1>4, <1>7, <2>1
    <3>2. k = pos - 1 /\ k \in 0..Len(r) /\ \A i \in 1..k : Chunk(w)[i] = r[i]
      BY <1>1, <1>3, <1>9, <2>1, <3>1 DEF Texted
    <3>3. left = SubSeq(r, k + 1, Len(r))
      BY <1>5, <1>7
    <3>4. Len(left) = Len(r) - k /\ \A i \in 1..Len(left) : left[i] = r[i + k]
      BY <1>1, <3>2, <3>3 DEF Texted
    <3>5. ASSUME NEW i \in 1..k
          PROVE  Chunk(w)[i] = t[m + i] /\ ~Doubled(t, m + i)
      <4>1. i \in 1..Len(r) /\ i < pos
        BY <1>1, <1>3, <3>2
      <4>2. r[i] # "n"
        BY <1>3, <4>1
      <4>. QED BY <1>2, <3>2, <4>1, <4>2 DEF Doubled
    <3>6. Doubled(t, m + k + 1)
      <4>1. pos \in 1..Len(r) /\ m + k + 1 = m + pos /\ t[m + pos] = "n"
        BY <1>1, <1>2, <1>3, <2>1, <3>2
      <4>2. ASSUME m + pos = Len(t), m + pos = 1 \/ t[(m + pos) - 1] = "n"
            PROVE  FALSE
        <5>1. pos = Len(r)
          BY <1>1, <1>2, <4>1, <4>2
        <5>2. pos # 1 /\ pos - 1 \in 1..Len(r) /\ m + (pos - 1) = (m + pos) - 1 /\ m + pos # 1
          BY <1>1, <1>2, <2>1, <5>1
        <5>3. r[pos - 1] = t[m + (pos - 1)]
          BY <1>2, <5>2
        <5>4. ~(pos \in 1..(pos - 1))
          BY <1>1, <5>1
        <5>5. r[pos - 1] # "n"
          BY <1>3, <5>2, <5>4
        <5>6. t[(m + pos) - 1] = "n"
          BY <4>2, <5>2
        <5>7. t[(m + pos) - 1] = t[m + (pos - 1)]
          BY <5>2
        <5>. QED BY <5>3, <5>5, <5>6, <5>7
      <4>3. Doubled(t, m + pos)
        BY <4>1, <4>2 DEF Doubled
      <4>. QED BY <4>1, <4>3
    <3>. QED BY <1>7, <3>2, <3>4, <3>5, <3>6 DEF r, t, m, k, left
  <2>2. CASE pos = 0 \/ Len(r) = 1
    <3>1. Chunk(w) = r /\ k = Len(r)
      BY <1>4, <1>7, <1>9, <2>2
    <3>2. left = SubSeq(r, Len(r) + 1, Len(r))
      BY <1>5, <1>7, <3>1
    <3>3. left = <<>> /\ Len(left) = 0
      BY <1>1, <3>2 DEF Texted
    <3>4. ASSUME NEW i \in 1..k
          PROVE  Chunk(w)[i] = t[m + i] /\ ~Doubled(t, m + i)
      <4>1. r[i] = t[m + i]
        BY <1>2, <3>1
      <4>2. CASE r[i] # "n"
        BY <4>1, <4>2, <3>1 DEF Doubled
      <4>3. CASE r[i] = "n"
        <5>1. Len(r) = 1 /\ i = 1 /\ m + i = Len(t) /\ (m = 0 \/ t[m] = "n")
          BY <1>1, <1>2, <1>3, <1>7, <2>2, <3>1, <4>3
        <5>2. m + i = 1 \/ t[(m + i) - 1] = "n"
          <6>1. (m + i) - 1 = m /\ (m = 0 => m + i = 1)
            BY <1>2, <5>1
          <6>. QED BY <5>1, <6>1
        <5>3. ~Doubled(t, m + i)
          BY <5>1, <5>2 DEF Doubled
        <5>. QED BY <3>1, <4>1, <5>3
      <4>. QED BY <4>2, <4>3
    <3>5. Len(left) = Len(r) - k /\ k \in 0..Len(r)
      BY <1>1, <3>1, <3>3
    <3>. QED BY <1>7, <3>3, <3>4, <3>5 DEF r, t, m, k, left
  <2>. QED BY <1>3, <2>1, <2>2
<1>8. call[w].crlf \/ ~call[w].crlf
  OBVIOUS
<1>. QED BY <1>6, <1>7, <1>8 DEF t, m, k, left, r

\* What is queued becomes the next part of the text.
LEMMA TextGrows ==
  ASSUME TxTypes, NEW w \in Writers, TextOf(w), call[w].rest # <<>>,
         given'[w] = given[w] \o ChunkBytes(w),
         call'[w].text = call[w].text, call'[w].from = call[w].from,
         call'[w].rest = Left(w), call'[w].crlf = (~call[w].crlf /\ Left(w) # <<>>)
  PROVE  TextOf(w)'
<1>. DEFINE t == call[w].text
            r == call[w].rest
            m == Queued(w)
            k == Len(Chunk(w))
            left == Left(w)
            m2 == Len(t) - Len(left)
            g == given[w]
            f == call[w].from
            n == Len(g)
<1>1. /\ t \in Texted /\ r \in Texted /\ left \in Texted /\ f \in Nat
      /\ Len(t) \in Nat /\ Len(r) \in Nat /\ Len(left) \in Nat
      /\ g \in Seq(SentBytes) /\ ChunkBytes(w) \in Seq(SentBytes) /\ n \in Nat /\ k \in Nat
  BY SMTT(30), Piece DEF TxTypes, Calling, Texted
<1>2. /\ m \in 0..Len(t) /\ m = Len(t) - Len(r) /\ \A i \in 1..Len(r) : r[i] = t[m + i]
      /\ n = f + Place(t, m)
      /\ \A i \in 1..m : /\ g[f + Place(t, i)].c = t[i]
                         /\ Doubled(t, i) => g[f + (Place(t, i) - 1)].c = "r"
  BY DEF TextOf, Queued
<1>3. /\ Len(ChunkBytes(w)) = k
      /\ \A i \in 1..k : ChunkBytes(w)[i].c = Chunk(w)[i]
  BY <1>1 DEF ChunkBytes, Byte
<1>4. \/ /\ call[w].crlf /\ Chunk(w) = <<"r", "n">> /\ k = 2 /\ Doubled(t, m + 1)
         /\ Len(left) = Len(r) - 1
         /\ \A i \in 1..Len(left) : left[i] = r[i + 1]
      \/ /\ ~call[w].crlf /\ k \in 0..Len(r)
         /\ Len(left) = Len(r) - k
         /\ \A i \in 1..Len(left) : left[i] = r[i + k]
         /\ \A i \in 1..k : Chunk(w)[i] = t[m + i] /\ ~Doubled(t, m + i)
         /\ left # <<>> => Doubled(t, m + k + 1)
  BY PieceOfText
<1>. DEFINE h == given'[w]
<1>5. /\ Len(h) = n + k
      /\ \A i \in 1..n : h[i] = g[i]
      /\ \A i \in 1..k : h[n + i].c = Chunk(w)[i]
  <2>. DEFINE cb == ChunkBytes(w)
  <2>1. h = g \o cb
    OBVIOUS
  <2>. HIDE DEF h, g, cb
  <2>2. /\ Len(h) = Len(g) + Len(cb)
        /\ \A i \in 1..Len(g) : h[i] = g[i]
        /\ \A i \in 1..Len(cb) : h[Len(g) + i] = cb[i]
    BY <1>1, <2>1 DEF cb
  <2>. QED BY <1>3, <2>2 DEF cb
<1>6. m \in Nat /\ m + Len(r) = Len(t) /\ n = f + Place(t, m)
  <2>. HIDE DEF m, t, r, n, f
  <2>. QED BY <1>1, <1>2
<1>7. \A i \in 1..m : /\ Place(t, i) \in 1..Place(t, m)
                      /\ Doubled(t, i) => Place(t, i) - 1 \in 1..Place(t, m)
  BY <1>6, PlacesOrder
<1>8. Place(t, m) \in Nat
  BY <1>6, PlaceNext
<1>9. ASSUME m2 \in 0..Len(t), \A i \in 1..Len(left) : left[i] = t[m2 + i],
             Len(h) = f + Place(t, m2),
             \A i \in 1..m2 : /\ h[f + Place(t, i)].c = t[i]
                              /\ Doubled(t, i) => h[f + (Place(t, i) - 1)].c = "r",
             ~call[w].crlf /\ left # <<>> => Doubled(t, m2 + 1),
             (call[w].crlf \/ left = <<>>) /\ Len(left) = 1 /\ left[1] = "n" => m2 = 0 \/ t[m2] = "n"
      PROVE  TextOf(w)'
  <2>1. Queued(w)' = m2
    BY DEF Queued
  <2>. HIDE DEF m2
  <2>. QED BY ZenonT(60), <1>9, <2>1 DEF TextOf
<1>. HIDE DEF t, r, m, k, left, g, f, n, h
<1>10. \A i \in 1..m : /\ h[f + Place(t, i)].c = t[i]
                       /\ Doubled(t, i) => h[f + (Place(t, i) - 1)].c = "r"
  <2>. SUFFICES ASSUME NEW i \in 1..m
                PROVE  /\ h[f + Place(t, i)].c = t[i]
                       /\ Doubled(t, i) => h[f + (Place(t, i) - 1)].c = "r"
    OBVIOUS
  <2>1. f + Place(t, i) \in 1..n /\ (Doubled(t, i) => f + (Place(t, i) - 1) \in 1..n)
    <3>. DEFINE a == Place(t, i)
                b == Place(t, m)
    <3>1. a \in 1..b /\ (Doubled(t, i) => a - 1 \in 1..b)
      BY <1>7
    <3>2. f \in Nat /\ b \in Nat /\ n = f + b
      BY <1>1, <1>6, <1>8
    <3>. HIDE DEF a, b
    <3>3. f + a \in 1..n /\ (a - 1 \in 1..b => f + (a - 1) \in 1..n)
      BY <3>1, <3>2
    <3>. QED BY <3>1, <3>3 DEF a
  <2>. QED BY <1>2, <1>5, <2>1
<1>11. CASE call[w].crlf
  <2>1. /\ Chunk(w) = <<"r", "n">> /\ k = 2 /\ Doubled(t, m + 1)
        /\ Len(left) = Len(r) - 1 /\ \A i \in 1..Len(left) : left[i] = r[i + 1]
    BY <1>4, <1>11
  <2>2. m2 = m + 1 /\ m2 \in 0..Len(t)
    BY <1>1, <1>2, <2>1
  <2>. HIDE DEF m2
  <2>3. \A i \in 1..Len(left) : left[i] = t[m2 + i]
    <3>1. ASSUME NEW i \in 1..Len(left)
          PROVE  left[i] = t[m2 + i]
      <4>1. i + 1 \in 1..Len(r) /\ m + (i + 1) = m2 + i
        BY <1>1, <1>6, <2>1, <2>2
      <4>. QED BY <1>2, <2>1, <4>1
    <3>. QED BY <3>1
  <2>4. Place(t, m2) = Place(t, m) + 2
    BY <1>6, <2>1, <2>2, PlaceNext
  <2>5. Len(h) = f + Place(t, m2)
    BY <1>1, <1>2, <1>5, <1>8, <2>1, <2>4
  <2>6. h[n + 1].c = "r" /\ h[n + 2].c = "n"
    BY <1>5, <2>1
  <2>7. t[m2] = "n"
    BY <2>1, <2>2 DEF Doubled
  <2>8. f + Place(t, m2) = n + 2 /\ f + (Place(t, m2) - 1) = n + 1
    <3>. DEFINE a == Place(t, m2)
                b == Place(t, m)
    <3>1. a = b + 2 /\ b \in Nat /\ n = f + b
      BY <1>6, <1>8, <2>4
    <3>. HIDE DEF a, b
    <3>2. f \in Nat
      BY <1>1
    <3>3. a - 1 = b + 1 /\ f + (b + 1) = n + 1 /\ f + (b + 2) = n + 2
      BY <3>1, <3>2
    <3>4. f + a = n + 2 /\ f + (a - 1) = n + 1
      BY <3>1, <3>3
    <3>. QED BY <3>4 DEF a
  <2>9. \A i \in 1..m2 : /\ h[f + Place(t, i)].c = t[i]
                         /\ Doubled(t, i) => h[f + (Place(t, i) - 1)].c = "r"
    <3>1. \A i \in 1..m2 : i \in 1..m \/ i = m2
      BY <1>6, <2>2
    <3>. QED BY <1>10, <2>6, <2>7, <2>8, <3>1
  <2>. QED BY <1>9, <1>11, <2>2, <2>3, <2>5, <2>7, <2>9
<1>12. CASE ~call[w].crlf
  <2>1. /\ k \in 0..Len(r) /\ Len(left) = Len(r) - k
        /\ \A i \in 1..Len(left) : left[i] = r[i + k]
        /\ \A i \in 1..k : Chunk(w)[i] = t[m + i] /\ ~Doubled(t, m + i)
        /\ left # <<>> => Doubled(t, m + k + 1)
    BY <1>4, <1>12
  <2>2. m2 = m + k /\ m2 \in 0..Len(t)
    BY <1>1, <1>2, <2>1 DEF m2
  <2>. HIDE DEF m2
  <2>3. \A i \in 1..Len(left) : left[i] = t[m2 + i]
    <3>1. ASSUME NEW i \in 1..Len(left)
          PROVE  left[i] = t[m2 + i]
      <4>1. i + k \in 1..Len(r)
        <5>1. k \in Nat /\ Len(left) = Len(r) - k
          BY <1>1, <2>1
        <5>. QED BY <1>1, <3>1, <5>1
      <4>2. m + (i + k) = m2 + i
        BY <1>1, <1>6, <2>2
      <4>. QED BY <1>2, <2>1, <4>1, <4>2
    <3>. QED BY <3>1
  <2>4. \A i \in 0..k : Place(t, m + i) = Place(t, m) + i
    <3>1. m \in Nat /\ k \in Nat /\ \A i \in 1..k : ~Doubled(t, m + i)
      BY <1>1, <1>6, <2>1
    <3>. QED BY <3>1, PlacesAlong
  <2>5. Len(h) = f + Place(t, m2)
    <3>1. Place(t, m2) = Place(t, m) + k
      BY <1>1, <2>2, <2>4
    <3>. QED BY <1>1, <1>2, <1>5, <1>8, <3>1
  <2>6. \A i \in 1..m2 : /\ h[f + Place(t, i)].c = t[i]
                         /\ Doubled(t, i) => h[f + (Place(t, i) - 1)].c = "r"
    <3>1. ASSUME NEW i \in 1..m2, i \notin 1..m
          PROVE  h[f + Place(t, i)].c = t[i] /\ ~Doubled(t, i)
      <4>. DEFINE j == i - m
      <4>1. j \in 1..k /\ i = m + j
        BY <1>1, <1>6, <2>2, <3>1
      <4>. HIDE DEF j
      <4>2. Place(t, i) = Place(t, m) + j
        BY <1>1, <2>4, <4>1
      <4>3. f + Place(t, i) = n + j
        BY SMTT(30), <1>1, <1>2, <1>8, <4>1, <4>2
      <4>. QED BY <1>5, <2>1, <4>1, <4>3
    <3>. QED BY <1>10, <3>1
  <2>7. left # <<>> => Doubled(t, m2 + 1)
    BY <2>1, <2>2
  <2>8. left = <<>> => Len(left) # 1
    OBVIOUS
  <2>. QED BY <1>9, <1>12, <2>2, <2>3, <2>5, <2>6, <2>7, <2>8
<1>. QED BY <1>1, <1>11, <1>12

LEMMA TextStays ==
  ASSUME NEW w \in Writers, TextOf(w), given'[w] = given[w],
         call'[w].text = call[w].text, call'[w].rest = call[w].rest,
         call'[w].from = call[w].from, call'[w].crlf = call[w].crlf
  PROVE  TextOf(w)'
BY DEF TextOf, Queued

LEMMA TextSteps == StdioTxAssumption /\ TxInv /\ TextInv /\ [Next]_(vars) => TextInv'
<1>. SUFFICES ASSUME StdioTxAssumption, TxInv, TextInv, [Next]_(vars)
              PROVE  TextInv'
  OBVIOUS
<1>. USE DEF queues, gate
<1>1. TxTypes
  BY DEF TxInv
<1>2. CASE UNCHANGED <<call, given>>
  BY ZenonT(60), <1>2 DEF TextInv, TextOf, Queued
<1>3. ASSUME NEW w \in Writers, Step(w) \/ \E t \in Texts : stdio_write(w, t)
      PROVE  TextInv'
  <2>. DEFINE Good(c) == /\ c.pc \in {"get", "copy", "send"} => c.rest # <<>>
                         /\ c.pc = "done" /\ c.ret = "ok" => c.rest = <<>>
              Busy(c) == c.pc \in {"get", "copy", "send"} \/ (c.pc = "done" /\ c.ret = "ok")
  <2>1. call \in [Writers -> Calling] /\ given \in [Writers -> Seq(SentBytes)] /\ call[w] \in Calling
    BY <1>1 DEF TxTypes
  <2>2. ASSUME NEW c, call' = [call EXCEPT ![w] = c], Good(c), Busy(c) => TextOf(w)',
               \A v \in Writers : v # w => given'[v] = given[v]
        PROVE  TextInv'
    <3>1. call'[w] = c /\ \A v \in Writers : v # w => call'[v] = call[v]
      BY <2>1, <2>2
    <3>2. ASSUME NEW v \in Writers, v # w
          PROVE  /\ call'[v].pc \in {"get", "copy", "send"} => call'[v].rest # <<>> /\ TextOf(v)'
                 /\ call'[v].pc = "done" /\ call'[v].ret = "ok" => call'[v].rest = <<>> /\ TextOf(v)'
      <4>1. call'[v] = call[v] /\ given'[v] = given[v]
        BY <2>2, <3>1, <3>2
      <4>2. TextOf(v) => TextOf(v)'
        BY <4>1, TextStays
      <4>. QED BY <4>1, <4>2 DEF TextInv
    <3>. QED BY <2>2, <3>1, <3>2 DEF TextInv
  <2>3. /\ call[w].pc \in {"get", "copy", "send"} => call[w].rest # <<>> /\ TextOf(w)
        /\ call[w].pc = "done" /\ call[w].ret = "ok" => call[w].rest = <<>> /\ TextOf(w)
    BY DEF TextInv
  <2>4. ASSUME NEW c \in Calling, call' = [call EXCEPT ![w] = c], c.text = call[w].text,
               c.rest = call[w].rest, c.from = call[w].from, c.crlf = call[w].crlf,
               call[w].pc \in {"get", "copy", "send"}, given' = given,
               c.pc = "done" => c.ret = "timeout"
        PROVE  TextInv'
    <3>1. call'[w] = c
      BY <2>1, <2>4
    <3>2. TextOf(w)'
      BY <2>3, <2>4, <3>1, TextStays
    <3>3. Good(c)
      BY <2>3, <2>4
    <3>. QED BY <2>2, <2>4, <3>2, <3>3
  <2>5. ASSUME NEW t \in Texts, stdio_write(w, t)
        PROVE  TextInv'
    <3>. DEFINE c == [Fresh EXCEPT !.pc = "get", !.text = t, !.rest = t, !.from = Len(given[w])]
    <3>1. call' = [call EXCEPT ![w] = c] /\ given' = given
      BY <2>5 DEF stdio_write
    <3>2. /\ c.pc = "get" /\ c.text = t /\ c.rest = t /\ c.crlf = FALSE /\ c.from = Len(given[w])
      BY DEF Fresh
    <3>. HIDE DEF c
    <3>3. t # <<>> /\ Len(t) \in Nat /\ Len(given[w]) \in Nat
      BY <2>1 DEF StdioTxAssumption
    <3>4. call'[w] = c
      BY <2>1, <3>1
    <3>5. Queued(w)' = 0
      BY <3>2, <3>3, <3>4 DEF Queued
    <3>6. Place(t, 0) = 0
      BY PlaceNext
    <3>7. TextOf(w)'
      BY <3>1, <3>2, <3>3, <3>4, <3>5, <3>6 DEF TextOf
    <3>. QED BY <2>2, <3>1, <3>2, <3>3, <3>7
  <2>6. CASE Get(w)
    <3>. DEFINE c == [call[w] EXCEPT !.pc = "copy", !.buf = Head(avail)]
    <3>1. call' = [call EXCEPT ![w] = c] /\ given' = given /\ call[w].pc = "get"
      BY <2>1, <2>6 DEF Get, Calling
    <3>2. Head(avail) \in Bufs
      BY <1>1, <2>6, FromQueue DEF Get, TxTypes
    <3>3. c \in Calling /\ c.pc = "copy" /\ c.text = call[w].text /\ c.rest = call[w].rest
          /\ c.from = call[w].from /\ c.crlf = call[w].crlf
      BY <2>1, <3>2 DEF Calling
    <3>. HIDE DEF c
    <3>. QED BY <2>4, <3>1, <3>3
  <2>7. CASE GetTimeout(w)
    <3>. DEFINE c == [call[w] EXCEPT !.pc = "done", !.ret = "timeout"]
    <3>1. call' = [call EXCEPT ![w] = c] /\ given' = given /\ call[w].pc = "get"
      BY <2>1, <2>7 DEF GetTimeout, Return, Calling
    <3>2. c \in Calling /\ c.pc = "done" /\ c.ret = "timeout" /\ c.text = call[w].text
          /\ c.rest = call[w].rest /\ c.from = call[w].from /\ c.crlf = call[w].crlf
      BY <2>1 DEF Calling
    <3>. HIDE DEF c
    <3>. QED BY <2>4, <3>1, <3>2
  <2>8. CASE Copy(w)
    <3>. DEFINE c == [call[w] EXCEPT !.pc = "send"]
    <3>1. call' = [call EXCEPT ![w] = c] /\ given' = given /\ call[w].pc = "copy"
      BY <2>1, <2>8 DEF Copy, Calling
    <3>2. c \in Calling /\ c.pc = "send" /\ c.text = call[w].text
          /\ c.rest = call[w].rest /\ c.from = call[w].from /\ c.crlf = call[w].crlf
      BY <2>1 DEF Calling
    <3>. HIDE DEF c
    <3>. QED BY <2>4, <3>1, <3>2
  <2>9. CASE Send(w)
    <3>. DEFINE left == Left(w)
                c == [call[w] EXCEPT !.rest = left, !.crlf = ~@ /\ left # <<>>,
                                     !.pc = IF left = <<>> THEN "done" ELSE "get",
                                     !.ret = IF left = <<>> THEN "ok" ELSE @]
    <3>1. call[w].pc = "send" /\ Filling(w) /\ call[w].rest # <<>> /\ TextOf(w)
      BY <2>3, <2>9 DEF Send, Filling
    <3>2. Len(ready) # NBufs
      <4>1. NBufs \in Nat /\ Len(ready) < NBufs /\ Len(ready) \in Nat
        BY <1>1, <3>1, Room DEF StdioTxAssumption, TxTypes
      <4>. QED BY <4>1
    <3>3. call' = [call EXCEPT ![w].rest = left, ![w].crlf = ~@ /\ left # <<>>,
                               ![w].pc = IF left = <<>> THEN "done" ELSE "get",
                               ![w].ret = IF left = <<>> THEN "ok" ELSE @]
          /\ given' = [given EXCEPT ![w] = @ \o ChunkBytes(w)]
      BY <2>9, <3>2 DEF Send
    <3>4. call' = [call EXCEPT ![w] = c]
      BY <2>1, <3>3 DEF Calling
    <3>5. given'[w] = given[w] \o ChunkBytes(w) /\ \A v \in Writers : v # w => given'[v] = given[v]
      BY <2>1, <3>3
    <3>6. /\ c.rest = left /\ c.crlf = (~call[w].crlf /\ left # <<>>) /\ c.text = call[w].text
          /\ c.from = call[w].from /\ c.pc = (IF left = <<>> THEN "done" ELSE "get")
      BY <2>1 DEF Calling
    <3>. HIDE DEF c
    <3>7. call'[w] = c
      BY <2>1, <3>4
    <3>8. TextOf(w)'
      BY <1>1, <3>1, <3>5, <3>6, <3>7, TextGrows
    <3>9. Good(c)
      BY <3>6
    <3>. QED BY <2>2, <3>4, <3>5, <3>8, <3>9
  <2>10. CASE Finish(w)
    <3>1. call' = [call EXCEPT ![w] = Fresh] /\ given' = given
      BY <2>10 DEF Finish
    <3>2. Fresh.pc = "idle"
      BY DEF Fresh
    <3>. QED BY <2>2, <3>1, <3>2
  <2>. QED BY <1>3, <2>5, <2>6, <2>7, <2>8, <2>9, <2>10 DEF Step
<1>4. UNCHANGED <<call, given>> \/ \E w \in Writers : Step(w) \/ \E t \in Texts : stdio_write(w, t)
  BY DEF Next, vars, uart_write_task, Transmit, Take, TakeTimeout, Recycle, Hardware, DmaByte, Complete
<1>. QED BY <1>2, <1>3, <1>4

\* What a call that reports success has queued is its text.
LEMMA TextDone == TxInv /\ TextInv => Written
<1>. SUFFICES ASSUME TxInv, TextInv, NEW w \in Writers, call[w].pc = "done", call[w].ret = "ok"
              PROVE  LET t == call[w].text
                         Code(i) == given[w][call[w].from + i].c
                     IN /\ Len(given[w]) = call[w].from + Place(t, Len(t))
                        /\ \A i \in 1..Len(t) : /\ Code(Place(t, i)) = t[i]
                                                /\ Doubled(t, i) => Code(Place(t, i) - 1) = "r"
  BY DEF Written
<1>1. call[w].rest = <<>> /\ TextOf(w)
  BY DEF TextInv
<1>2. Len(call[w].text) \in Nat
  BY DEF TxInv, TxTypes, Calling, Texted
<1>3. Queued(w) = Len(call[w].text)
  BY <1>1, <1>2 DEF Queued
<1>. QED BY <1>1, <1>3 DEF TextOf
-----------------------------------------------------------------------------
(* What is on its way to the line.                                         *)

\* The pieces that are to be sent, in their order: piece 0 is what the DMA has left
\* of its transfer, the others are the ready buffers.  Where one begins, how long it
\* is, and the bytes of it.
Pieces == 0..Len(ready)
Begin(k) == IF k = 0 THEN tx.at ELSE ready[k].buf * Depth + 1
Size(k) == IF k # 0 THEN ready[k].size ELSE IF tx = NoTx THEN 0 ELSE tx.left
Of(k) == 0..(Size(k) - 1)
Waiting(k, j) == mem[Begin(k) + j]

Spots == 1..(2 * NBufs * Depth)

\* No piece is longer than its buffer, the gate-keeper waits while the DMA sends
\* its buffer, and a piece that is to be queued is in its buffer.
Fits ==
  /\ DOMAIN mem = Spots
  /\ \A k \in 1..Len(ready) : ready[k].size <= Depth
  /\ wpc = "recv" => tx = NoTx /\ ~semphr
  /\ tx # NoTx => /\ wpc = "wait" /\ ~semphr /\ tx.size <= Depth
                  /\ tx.at > pending * Depth /\ tx.at + tx.left = pending * Depth + tx.size + 1
  /\ \A w \in Writers : call[w].pc = "send" =>
       /\ Len(Chunk(w)) <= Depth
       /\ \A j \in 1..Len(Chunk(w)) : mem[call[w].buf * Depth + j] = ChunkBytes(w)[j]

Numbered == \A w \in Writers : \A i \in 1..Len(given[w]) : given[w][i].by = w /\ given[w][i].i = i

\* What w has queued and is not yet on the line.
Due(w) == (OnWire(w, Len(wire)) + 1)..Len(given[w])

\* Each byte of these pieces is due, each byte that is due is in one, and those of one
\* writer are in their order.
Owned == \A k \in Pieces : \A j \in Of(k) :
           \E w \in Writers : \E i \in Due(w) : Waiting(k, j) = given[w][i]
Whole == \A w \in Writers : \A i \in Due(w) :
           \E k \in Pieces : \E j \in Of(k) : Waiting(k, j) = given[w][i]
Lined == \A k, l \in Pieces : \A j \in Of(k), m \in Of(l) :
           /\ Waiting(k, j).by = Waiting(l, m).by
           /\ k < l \/ (k = l /\ j < m)
           => Waiting(k, j).i < Waiting(l, m).i

\* The line so far.
Came == /\ wire \in Seq(SentBytes)
        /\ \A p \in 1..Len(wire) : \E w \in Writers :
             LET k == OnWire(w, p)
             IN wire[p].by = w /\ k <= Len(given[w]) /\ wire[p] = given[w][k]
        /\ \A w \in Writers : OnWire(w, Len(wire)) <= Len(given[w])

LineInv == Numbered /\ ("long" \notin odd => Fits /\ Owned /\ Whole /\ Lined /\ Came)

LEMMA DepthOrder ==
  ASSUME StdioTxAssumption, NEW p \in Nat, NEW q \in Nat, p < q
  PROVE  p * Depth + Depth <= q * Depth
<1>1. Depth \in Nat /\ Depth > 0
  BY DEF StdioTxAssumption
<1>2. q * Depth - p * Depth = (q - p) * Depth
  BY <1>1
<1>3. (q - p) * Depth >= Depth
  <2>. DEFINE d == q - p
  <2>1. d \in Nat /\ d >= 1
    OBVIOUS
  <2>. HIDE DEF d
  <2>2. d * Depth = (d - 1) * Depth + Depth
    BY <1>1, <2>1
  <2>3. (d - 1) * Depth >= 0
    BY <1>1, <2>1
  <2>4. d * Depth >= Depth
    BY <1>1, <2>1, <2>2, <2>3
  <2>. QED BY <2>4 DEF d
<1>4. p * Depth \in Nat /\ q * Depth \in Nat
  BY <1>1
<1>. QED BY <1>1, <1>2, <1>3, <1>4

\* A byte of a buffer is in no other one.
LEMMA Apart ==
  ASSUME StdioTxAssumption, NEW b \in Bufs, NEW i \in 1..Depth
  PROVE  /\ b * Depth + i \in Spots
         /\ \A c \in Bufs : \A j \in 1..Depth : b * Depth + i = c * Depth + j => b = c
<1>1. Depth \in Nat /\ NBufs \in Nat /\ b \in Nat /\ b < NBufs
  BY DEF StdioTxAssumption, Bufs
<1>2. b * Depth \in Nat /\ NBufs * Depth \in Nat
  BY <1>1
<1>3. b * Depth + Depth <= NBufs * Depth
  BY <1>1, DepthOrder
<1>4. 2 * NBufs * Depth = NBufs * Depth + NBufs * Depth
  BY <1>1
<1>5. b * Depth + i \in Spots
  BY <1>1, <1>2, <1>3, <1>4 DEF Spots
<1>6. ASSUME NEW c \in Bufs, NEW j \in 1..Depth, b * Depth + i = c * Depth + j
      PROVE  b = c
  <2>1. c \in Nat /\ c * Depth \in Nat
    BY <1>1 DEF Bufs
  <2>2. ~(b < c)
    <3>1. ASSUME b < c
          PROVE  FALSE
      <4>1. b * Depth + Depth <= c * Depth
        BY <1>1, <2>1, <3>1, DepthOrder
      <4>. QED BY <1>1, <1>2, <1>6, <2>1, <4>1
    <3>. QED BY <3>1
  <2>3. ~(c < b)
    <3>1. ASSUME c < b
          PROVE  FALSE
      <4>1. c * Depth + Depth <= b * Depth
        BY <1>1, <2>1, <3>1, DepthOrder
      <4>. QED BY <1>1, <1>2, <1>6, <2>1, <4>1
    <3>. QED BY <3>1
  <2>. QED BY <1>1, <2>1, <2>2, <2>3
<1>. QED BY <1>5, <1>6

\* Where a byte that is to be sent lies.
LEMMA Lies ==
  ASSUME StdioTxAssumption, TxTypes, Fits, NEW k \in Pieces, NEW j \in Of(k)
  PROVE  \E b \in Bufs : \E i \in 1..Depth :
           Begin(k) + j = b * Depth + i /\ (Queueing(b) \/ Sending(b))
<1>1. Depth \in Nat /\ Len(ready) \in Nat
  BY DEF StdioTxAssumption, TxTypes
<1>2. CASE k = 0
  <2>1. tx # NoTx /\ Size(k) = tx.left /\ Begin(k) = tx.at
    BY <1>2 DEF Of, Size, Begin
  <2>2. /\ wpc = "wait" /\ tx.size <= Depth /\ tx.at > pending * Depth
        /\ tx.at + tx.left = pending * Depth + tx.size + 1
        /\ tx.at \in Nat /\ tx.left \in Nat /\ tx.size \in Nat /\ pending \in Bufs
    BY <2>1 DEF Fits, TxTypes
  <2>3. j \in 0..(tx.left - 1) /\ pending * Depth \in Nat
    BY <1>1, <2>1, <2>2 DEF Of, Bufs
  <2>. DEFINE i == tx.at + j - (pending * Depth)
  <2>4. i \in 1..Depth /\ tx.at + j = pending * Depth + i
    BY SMTT(30), <1>1, <2>2, <2>3
  <2>. HIDE DEF i
  <2>5. Sending(pending)
    BY <2>2 DEF Sending
  <2>. QED BY <2>1, <2>2, <2>4, <2>5
<1>3. CASE k # 0
  <2>1. k \in 1..Len(ready)
    BY <1>1, <1>3 DEF Pieces
  <2>2. ready[k] \in [buf : Bufs, size : Nat]
    <3>1. ready \in Seq([buf : Bufs, size : Nat])
      BY DEF TxTypes
    <3>. QED BY <2>1, <3>1, Element
  <2>3. ready[k].size <= Depth /\ Queueing(ready[k].buf)
    BY <2>1 DEF Fits, Queueing
  <2>4. j \in 0..(ready[k].size - 1) /\ Begin(k) = ready[k].buf * Depth + 1
    BY <1>3 DEF Of, Size, Begin
  <2>5. ready[k].buf * Depth \in Nat
    BY <1>1, <2>2 DEF Bufs
  <2>6. j + 1 \in 1..Depth /\ Begin(k) + j = ready[k].buf * Depth + (j + 1)
    BY <1>1, <2>2, <2>3, <2>4, <2>5
  <2>. QED BY <2>2, <2>3, <2>6
<1>. QED BY <1>2, <1>3

\* What is to be sent stays the same, though the pieces may have moved up by d.
LEMMA MovedUp ==
  ASSUME TxTypes, Numbered, Owned, Whole, Lined, Came, NEW d \in Nat,
         UNCHANGED <<given, wire>>,
         \A k \in Pieces' : /\ k + d \in Pieces /\ Of(k)' = Of(k + d)
                            /\ \A j \in Of(k + d) : Waiting(k, j)' = Waiting(k + d, j),
         \A k \in Pieces : Of(k) # {} => k - d \in Pieces'
  PROVE  Numbered' /\ Owned' /\ Whole' /\ Lined' /\ Came'
<1>1. Pieces \subseteq Int /\ Pieces' \subseteq Int
  BY DEF Pieces
<1>2. \A w \in Writers : Due(w)' = Due(w)
  BY DEF Due, OnWire
<1>3. Numbered' /\ Came'
  <2>1. \A w \in Writers : \A p \in 1..Len(wire) : OnWire(w, p)' = OnWire(w, p)
    BY DEF OnWire
  <2>2. \A w \in Writers : OnWire(w, Len(wire))' = OnWire(w, Len(wire))
    BY DEF OnWire
  <2>. QED BY <2>1, <2>2 DEF Numbered, Came
<1>4. Owned'
  <2>1. ASSUME NEW k \in Pieces', NEW j \in Of(k)'
        PROVE  \E w \in Writers : \E i \in Due(w)' : Waiting(k, j)' = given'[w][i]
    <3>1. k + d \in Pieces /\ j \in Of(k + d) /\ Waiting(k, j)' = Waiting(k + d, j)
      BY <2>1
    <3>2. \E w \in Writers : \E i \in Due(w) : Waiting(k + d, j) = given[w][i]
      BY <3>1 DEF Owned
    <3>. QED BY <1>2, <3>1, <3>2
  <2>. QED BY <2>1 DEF Owned
<1>5. Whole'
  <2>1. ASSUME NEW w \in Writers, NEW i \in Due(w)'
        PROVE  \E k \in Pieces' : \E j \in Of(k)' : Waiting(k, j)' = given'[w][i]
    <3>1. PICK k \in Pieces : \E j \in Of(k) : Waiting(k, j) = given[w][i]
      BY <1>2, <2>1 DEF Whole
    <3>2. PICK j \in Of(k) : Waiting(k, j) = given[w][i]
      BY <3>1
    <3>3. k - d \in Pieces' /\ (k - d) + d = k
      BY <1>1, <3>2
    <3>4. j \in Of(k - d)' /\ Waiting(k - d, j)' = given'[w][i]
      BY <3>2, <3>3
    <3>. QED BY <3>3, <3>4
  <2>. QED BY <2>1 DEF Whole
<1>6. Lined'
  <2>1. ASSUME NEW k \in Pieces', NEW l \in Pieces', NEW j \in Of(k)', NEW m \in Of(l)',
               Waiting(k, j)'.by = Waiting(l, m)'.by, k < l \/ (k = l /\ j < m)
        PROVE  Waiting(k, j)'.i < Waiting(l, m)'.i
    <3>1. k + d \in Pieces /\ j \in Of(k + d) /\ Waiting(k, j)' = Waiting(k + d, j)
      BY <2>1
    <3>2. l + d \in Pieces /\ m \in Of(l + d) /\ Waiting(l, m)' = Waiting(l + d, m)
      BY <2>1
    <3>3. k + d < l + d \/ (k + d = l + d /\ j < m)
      BY <1>1, <2>1
    <3>. QED BY <2>1, <3>1, <3>2, <3>3 DEF Lined
  <2>. QED BY <2>1 DEF Lined
<1>. QED BY <1>3, <1>4, <1>5, <1>6

\* A step that leaves the pieces and the line alone.
LEMMA LineStays ==
  ASSUME TxTypes, LineInv, UNCHANGED <<ready, mem, given, wire, odd>>,
         \A k \in Pieces : Of(k)' = Of(k) /\ (Of(k) # {} => Begin(k)' = Begin(k)),
         "long" \notin odd /\ Fits => Fits'
  PROVE  LineInv'
<1>1. Numbered'
  BY DEF LineInv, Numbered
<1>2. ASSUME "long" \notin odd
      PROVE  Fits' /\ Owned' /\ Whole' /\ Lined' /\ Came'
  <2>1. Fits' /\ Numbered /\ Owned /\ Whole /\ Lined /\ Came
    BY <1>2 DEF LineInv
  <2>2. Pieces' = Pieces /\ \A k \in Pieces : k + 0 = k /\ k - 0 = k
    BY DEF Pieces
  <2>3. \A k \in Pieces' : /\ k + 0 \in Pieces /\ Of(k)' = Of(k + 0)
                           /\ \A j \in Of(k + 0) : Waiting(k, j)' = Waiting(k + 0, j)
    <3>1. ASSUME NEW k \in Pieces
          PROVE  \A j \in Of(k) : Waiting(k, j)' = Waiting(k, j)
      BY DEF Waiting
    <3>. QED BY <2>2, <3>1
  <2>4. \A k \in Pieces : Of(k) # {} => k - 0 \in Pieces'
    BY <2>2
  <2>5. Owned' /\ Whole' /\ Lined' /\ Came'
    <3>1. 0 \in Nat
      OBVIOUS
    <3>. QED BY <2>1, <2>3, <2>4, <3>1, MovedUp
  <2>. QED BY <2>1, <2>5
<1>. QED BY <1>1, <1>2 DEF LineInv

LEMMA PieceStays ==
  ASSUME NEW w \in Writers, call'[w] = call[w], given'[w] = given[w]
  PROVE  Chunk(w)' = Chunk(w) /\ ChunkBytes(w)' = ChunkBytes(w)
<1>1. Chunk(w)' = Chunk(w)
  BY DEF Chunk
<1>. QED BY <1>1 DEF ChunkBytes

\* The steps of a writer that neither fill a buffer nor queue one.
LEMMA LineCalls ==
  ASSUME StdioTxAssumption, TxInv, LineInv, NEW w \in Writers,
         \/ \E t \in Texts : stdio_write(w, t)
         \/ Get(w) \/ GetTimeout(w) \/ Finish(w)
  PROVE  LineInv'
<1>. USE DEF queues, gate
<1>1. TxTypes /\ call \in [Writers -> Calling]
  BY DEF TxInv, TxTypes
<1>2. UNCHANGED <<ready, mem, given, wire, odd, tx, semphr, wpc, pending>>
  BY DEF stdio_write, Get, GetTimeout, Finish
<1>3. call'[w].pc # "send" /\ \A v \in Writers : v # w => call'[v] = call[v]
  <2>1. ASSUME NEW t \in Texts, stdio_write(w, t)
        PROVE  call'[w].pc # "send" /\ \A v \in Writers : v # w => call'[v] = call[v]
    BY <1>1, <2>1 DEF stdio_write, Fresh
  <2>2. CASE Get(w)
    BY <1>1, <2>2 DEF Get, Calling
  <2>3. CASE GetTimeout(w)
    BY <1>1, <2>3 DEF GetTimeout, Return, Calling
  <2>4. CASE Finish(w)
    BY <1>1, <2>4 DEF Finish, Fresh
  <2>. QED BY <2>1, <2>2, <2>3, <2>4
<1>4. \A k \in Pieces : Of(k)' = Of(k) /\ Begin(k)' = Begin(k)
  BY <1>2 DEF Of, Size, Begin
<1>5. Fits => Fits'
  <2>. SUFFICES ASSUME Fits
                PROVE  Fits'
    OBVIOUS
  <2>1. ASSUME NEW v \in Writers, call'[v].pc = "send"
        PROVE  /\ Len(Chunk(v)') <= Depth
               /\ \A j \in 1..Len(Chunk(v)') :
                    mem'[call'[v].buf * Depth + j] = ChunkBytes(v)'[j]
    <3>1. call'[v] = call[v] /\ given'[v] = given[v]
      BY <1>2, <1>3, <2>1
    <3>2. Chunk(v)' = Chunk(v) /\ ChunkBytes(v)' = ChunkBytes(v)
      BY <3>1, PieceStays
    <3>. QED BY <1>2, <2>1, <3>1, <3>2 DEF Fits
  <2>. QED BY <1>2, <2>1 DEF Fits, Spots
<1>. QED BY <1>1, <1>2, <1>4, <1>5, LineStays

\* The gate-keeper returns a buffer, and the interrupt that ends a transfer.
LEMMA LineGate ==
  ASSUME StdioTxAssumption, TxInv, LineInv, Take \/ TakeTimeout \/ Complete
  PROVE  LineInv'
<1>. USE DEF queues, gate
<1>1. TxTypes
  BY DEF TxInv
<1>2. UNCHANGED <<ready, mem, given, wire, odd, pending, call>>
  BY DEF Take, TakeTimeout, Complete, Recycle
<1>3. \A k \in Pieces : Of(k)' = Of(k) /\ (Of(k) # {} => Begin(k)' = Begin(k))
  <2>1. CASE tx' = tx
    BY <1>2, <2>1 DEF Of, Size, Begin
  <2>2. CASE tx # NoTx /\ tx.left = 0 /\ tx' = NoTx
    <3>1. Of(0) = {} /\ Of(0)' = {}
      BY <2>2 DEF Of, Size
    <3>2. \A k \in Pieces : k # 0 => Of(k)' = Of(k) /\ Begin(k)' = Begin(k)
      BY <1>2 DEF Of, Size, Begin
    <3>. QED BY <3>1, <3>2
  <2>. QED BY <2>1, <2>2 DEF Take, TakeTimeout, Complete, Recycle
<1>4. Fits => Fits'
  <2>. SUFFICES ASSUME Fits
                PROVE  Fits'
    OBVIOUS
  <2>1. \A v \in Writers : Chunk(v)' = Chunk(v) /\ ChunkBytes(v)' = ChunkBytes(v)
    BY <1>2, PieceStays
  <2>2. /\ wpc' = "recv" => tx' = NoTx /\ ~semphr'
        /\ tx' # NoTx => tx' = tx /\ wpc' = "wait" /\ ~semphr'
    <3>1. CASE Take
      BY <3>1 DEF Take, Recycle, Fits
    <3>2. CASE TakeTimeout
      <4>1. tx = NoTx
        <5>1. ASSUME tx # NoTx, tx.size > Depth
              PROVE  FALSE
          <6>1. tx.size \in Nat /\ Depth \in Nat /\ tx.size <= Depth
            BY <1>1, <5>1 DEF Fits, TxTypes, StdioTxAssumption
          <6>. QED BY <5>1, <6>1
        <5>. QED BY <3>2, <5>1 DEF TakeTimeout
      <4>. QED BY <3>2, <4>1 DEF TakeTimeout, Recycle
    <3>3. CASE Complete
      BY <3>3 DEF Complete, Fits
    <3>. QED BY <3>1, <3>2, <3>3
  <2>. QED BY <1>2, <2>1, <2>2 DEF Fits, Spots
<1>. QED BY <1>1, <1>2, <1>3, <1>4, LineStays

\* The copy goes into a buffer that nobody else has.
LEMMA LineCopy ==
  ASSUME StdioTxAssumption, TxInv, LineInv, NEW w \in Writers, Copy(w)
  PROVE  LineInv'
<1>. USE DEF queues, gate
<1>. DEFINE x == call[w].buf
            at == x * Depth
            bytes == ChunkBytes(w)
<1>1. TxTypes /\ Once /\ OnePlace /\ call \in [Writers -> Calling] /\ x \in Bufs
  BY DEF TxInv, TxTypes, Calling
<1>2. /\ UNCHANGED <<avail, ready, tx, given, wire, semphr, wpc, pending>>
      /\ call[w].pc = "copy" /\ call' = [call EXCEPT ![w].pc = "send"]
      /\ mem' = [p \in DOMAIN mem |-> IF p \in (at + 1)..(at + Len(bytes))
                                        THEN bytes[p - at] ELSE mem[p]]
      /\ "long" \notin odd' => "long" \notin odd /\ ~(Len(Chunk(w)) > Depth)
  BY DEF Copy
<1>3. Numbered'
  BY <1>2 DEF LineInv, Numbered
<1>4. ASSUME "long" \notin odd'
      PROVE  Fits' /\ Owned' /\ Whole' /\ Lined' /\ Came'
  <2>1. Fits /\ Numbered /\ Owned /\ Whole /\ Lined /\ Came
    BY <1>2, <1>4 DEF LineInv
  <2>2. /\ Depth \in Nat /\ Len(Chunk(w)) \in Nat /\ Len(Chunk(w)) <= Depth
        /\ Len(bytes) = Len(Chunk(w)) /\ at \in Nat
    <3>1. Depth \in Nat /\ Len(Chunk(w)) \in Nat /\ Len(Chunk(w)) <= Depth
      BY <1>1, <1>2, <1>4, Piece DEF StdioTxAssumption
    <3>2. Len(bytes) = Len(Chunk(w))
      BY <3>1 DEF ChunkBytes
    <3>3. x \in Nat
      BY <1>1 DEF Bufs
    <3>. QED BY <3>1, <3>2, <3>3
  <2>. HIDE DEF bytes
  <2>3. ASSUME NEW b \in Bufs, NEW i \in 1..Depth, b # x
        PROVE  mem'[b * Depth + i] = mem[b * Depth + i]
    <3>1. b * Depth + i \in DOMAIN mem
      BY <2>1, Apart DEF Fits
    <3>2. ASSUME b * Depth + i \in (at + 1)..(at + Len(bytes))
          PROVE  FALSE
      <4>. DEFINE y == b * Depth
                  j == (y + i) - at
      <4>1. y \in Nat
        BY <2>2 DEF Bufs
      <4>2. y + i \in (at + 1)..(at + Len(bytes)) /\ Len(bytes) <= Depth /\ Len(bytes) \in Nat
        BY <2>2, <3>2
      <4>. HIDE DEF y, at
      <4>3. j \in 1..Depth /\ y + i = at + j
        BY <2>2, <4>1, <4>2
      <4>. HIDE DEF j
      <4>4. b * Depth + i = x * Depth + j
        BY <4>3 DEF y, at
      <4>. QED BY <1>1, <2>3, <4>3, <4>4, Apart
    <3>. QED BY <1>2, <3>1, <3>2
  <2>4. Filled(x) /\ Filling(w)
    BY <1>2 DEF Filled, Filling
  <2>5. ASSUME NEW k \in Pieces, NEW j \in Of(k)
        PROVE  Waiting(k, j)' = Waiting(k, j)
    <3>1. PICK b \in Bufs : \E i \in 1..Depth :
             Begin(k) + j = b * Depth + i /\ (Queueing(b) \/ Sending(b))
      BY <1>1, <2>1, Lies
    <3>2. PICK i \in 1..Depth : Begin(k) + j = b * Depth + i
      BY <3>1
    <3>3. b # x
      BY <1>1, <2>4, <3>1 DEF OnePlace
    <3>4. mem'[Begin(k) + j] = mem[Begin(k) + j]
      BY <2>3, <3>2, <3>3
    <3>5. Begin(k)' = Begin(k)
      BY <1>2 DEF Begin
    <3>. QED BY <3>4, <3>5 DEF Waiting
  <2>6. Pieces' = Pieces /\ \A k \in Pieces : k + 0 = k /\ k - 0 = k /\ Of(k)' = Of(k)
    BY <1>2 DEF Pieces, Of, Size
  <2>7. Owned' /\ Whole' /\ Lined' /\ Came'
    <3>1. \A k \in Pieces' : /\ k + 0 \in Pieces /\ Of(k)' = Of(k + 0)
                             /\ \A j \in Of(k + 0) : Waiting(k, j)' = Waiting(k + 0, j)
      BY <2>5, <2>6
    <3>2. \A k \in Pieces : Of(k) # {} => k - 0 \in Pieces'
      BY <2>6
    <3>3. 0 \in Nat /\ UNCHANGED <<given, wire>>
      BY <1>2
    <3>. QED BY <1>1, <2>1, <3>1, <3>2, <3>3, MovedUp
  <2>8. ASSUME NEW v \in Writers, call'[v].pc = "send"
        PROVE  /\ Len(Chunk(v)') <= Depth
               /\ \A j \in 1..Len(Chunk(v)') :
                    mem'[call'[v].buf * Depth + j] = ChunkBytes(v)'[j]
    <3>1. CASE v # w
      <4>1. call'[v] = call[v] /\ given'[v] = given[v]
        BY <1>1, <1>2, <3>1
      <4>2. Chunk(v)' = Chunk(v) /\ ChunkBytes(v)' = ChunkBytes(v)
        BY <4>1, PieceStays
      <4>3. call[v].buf # x /\ call[v].buf \in Bufs
        BY <1>1, <2>4, <2>8, <3>1, <4>1 DEF Once, Filling, Calling
      <4>4. /\ Len(Chunk(v)) <= Depth
            /\ \A j \in 1..Len(Chunk(v)) : mem[call[v].buf * Depth + j] = ChunkBytes(v)[j]
        BY <2>1, <2>8, <4>1 DEF Fits
      <4>5. Len(Chunk(v)) \in Nat
        BY <1>1, Piece
      <4>6. \A j \in 1..Len(Chunk(v)) : j \in 1..Depth
        BY <2>2, <4>4, <4>5
      <4>. QED BY <2>3, <4>1, <4>2, <4>3, <4>4, <4>6
    <3>2. CASE v = w
      <4>1. /\ call'[w].buf = x /\ call'[w].rest = call[w].rest /\ call'[w].crlf = call[w].crlf
        BY <1>1, <1>2 DEF Calling
      <4>2. Chunk(w)' = Chunk(w)
        BY <4>1 DEF Chunk
      <4>3. ChunkBytes(w)' = bytes
        BY <1>2, <4>2 DEF ChunkBytes, bytes
      <4>4. ASSUME NEW j \in 1..Len(Chunk(w))
            PROVE  mem'[x * Depth + j] = bytes[j]
        <5>1. j \in 1..Depth /\ at + j \in (at + 1)..(at + Len(bytes)) /\ (at + j) - at = j
          BY <2>2
        <5>2. at + j \in DOMAIN mem
          BY <1>1, <2>1, <5>1, Apart DEF Fits
        <5>. QED BY <1>2, <5>1, <5>2
      <4>. QED BY <2>2, <3>2, <4>1, <4>2, <4>3, <4>4
    <3>. QED BY <3>1, <3>2
  <2>9. DOMAIN mem' = Spots'
    BY <1>2, <2>1 DEF Fits, Spots
  <2>10. Fits'
    BY <1>2, <2>1, <2>8, <2>9 DEF Fits
  <2>. QED BY <2>7, <2>10
<1>. QED BY <1>3, <1>4 DEF LineInv

LEMMA ReadyFirst ==
  ASSUME TxTypes, ready # <<>>
  PROVE  /\ Head(ready) = ready[1] /\ ready[1] \in [buf : Bufs, size : Nat]
         /\ Len(Tail(ready)) = Len(ready) - 1 /\ Len(ready) \in Nat \ {0}
         /\ \A i \in 1..(Len(ready) - 1) : Tail(ready)[i] = ready[i + 1]
<1>1. ready \in Seq([buf : Bufs, size : Nat])
  BY DEF TxTypes
<1>2. /\ Head(ready) = ready[1] /\ Head(ready) \in [buf : Bufs, size : Nat]
      /\ Len(Tail(ready)) = Len(ready) - 1 /\ Len(ready) \in Nat \ {0}
      /\ \A i \in 1..(Len(ready) - 1) : Tail(ready)[i] = ready[i + 1]
  BY <1>1, FromQueue
<1>. QED BY <1>2

\* The first of the ready buffers becomes what the DMA sends.
LEMMA LineTransmit ==
  ASSUME StdioTxAssumption, TxInv, LineInv, Transmit
  PROVE  LineInv'
<1>. USE DEF queues, gate
<1>1. TxTypes
  BY DEF TxInv
<1>2. /\ UNCHANGED <<mem, semphr, call, given, wire, odd>>
      /\ wpc = "recv" /\ ready # <<>> /\ ready' = Tail(ready) /\ pending' = Head(ready).buf
      /\ wpc' \in {"wait", "halt"}
  BY DEF Transmit, error_handler
<1>3. /\ Head(ready) = ready[1] /\ ready[1] \in [buf : Bufs, size : Nat]
      /\ Len(ready') = Len(ready) - 1 /\ Len(ready) \in Nat \ {0}
      /\ \A i \in 1..(Len(ready) - 1) : ready'[i] = ready[i + 1]
  BY <1>1, <1>2, ReadyFirst
<1>4. Numbered'
  BY <1>2 DEF LineInv, Numbered
<1>5. ASSUME "long" \notin odd'
      PROVE  Fits' /\ Owned' /\ Whole' /\ Lined' /\ Came'
  <2>1. Fits /\ Numbered /\ Owned /\ Whole /\ Lined /\ Came
    BY <1>2, <1>5 DEF LineInv
  <2>2. tx = NoTx /\ ~semphr
    BY <1>2, <2>1 DEF Fits
  <2>. DEFINE size == ready[1].size
              at == ready[1].buf * Depth + 1
  <2>3. size \in Nat /\ size <= Depth /\ ready[1].buf \in Nat /\ Depth \in Nat
    BY <1>3, <2>1 DEF Fits, StdioTxAssumption, Bufs
  <2>4. at \in Nat /\ at = ready[1].buf * Depth + 1
    BY <2>3
  <2>5. \/ /\ size > 0 /\ tx' = [at |-> at, left |-> size, size |-> size] /\ wpc' = "wait"
        \/ size = 0 /\ tx' = NoTx
    <3>1. \/ size > 0 /\ tx' = [at |-> at, left |-> size, size |-> size] /\ wpc' = "wait"
          \/ size = 0 /\ error_handler
      BY <1>3, <2>2 DEF Transmit
    <3>. QED BY <2>2, <3>1 DEF error_handler
  <2>. HIDE DEF size, at
  <2>6. Size(0) = 0 /\ Size(1) = size /\ Begin(1) = at
    BY <2>2 DEF Size, Begin, size, at
  <2>7. Size(0)' = size /\ (size > 0 => Begin(0)' = at)
    <3>1. CASE size > 0 /\ tx' = [at |-> at, left |-> size, size |-> size]
      <4>1. tx' # NoTx
        BY <2>3, <2>4, <3>1 DEF StdioTxAssumption
      <4>. QED BY <3>1, <4>1 DEF Size, Begin
    <3>2. CASE size = 0 /\ tx' = NoTx
      BY <3>2 DEF Size
    <3>. QED BY <2>5, <3>1, <3>2
  <2>8. Pieces' = 0..(Len(ready) - 1) /\ Pieces = 0..Len(ready)
    BY <1>3 DEF Pieces
  <2>9. ASSUME NEW k \in Pieces'
        PROVE  /\ k + 1 \in Pieces /\ Of(k)' = Of(k + 1)
               /\ \A j \in Of(k + 1) : Waiting(k, j)' = Waiting(k + 1, j)
    <3>1. k + 1 \in Pieces /\ (k # 0 => k \in 1..(Len(ready) - 1)) /\ k + 1 # 0
      BY <1>3, <2>8
    <3>2. Size(k)' = Size(k + 1) /\ (Size(k + 1) > 0 => Begin(k)' = Begin(k + 1))
      <4>1. CASE k = 0
        BY <2>6, <2>7, <4>1
      <4>2. CASE k # 0
        <5>1. ready'[k] = ready[k + 1]
          BY <1>3, <3>1, <4>2
        <5>. QED BY <3>1, <4>2, <5>1 DEF Size, Begin
      <4>. QED BY <4>1, <4>2
    <3>3. Size(k + 1) \in Nat
      <4>1. k + 1 \in 1..Len(ready)
        BY <1>3, <3>1, <2>8
      <4>2. ready[k + 1] \in [buf : Bufs, size : Nat]
        <5>1. ready \in Seq([buf : Bufs, size : Nat])
          BY <1>1 DEF TxTypes
        <5>. QED BY <4>1, <5>1, Element
      <4>. QED BY <3>1, <4>2 DEF Size
    <3>4. Of(k)' = Of(k + 1)
      BY <3>2 DEF Of
    <3>5. ASSUME NEW j \in Of(k + 1)
          PROVE  Waiting(k, j)' = Waiting(k + 1, j)
      <4>1. Size(k + 1) > 0
        BY <3>3, <3>5 DEF Of
      <4>. QED BY <1>2, <3>2, <4>1 DEF Waiting
    <3>. QED BY <3>1, <3>4, <3>5
  <2>10. ASSUME NEW k \in Pieces, Of(k) # {}
         PROVE  k - 1 \in Pieces'
    <3>1. k # 0
      BY <2>6, <2>10 DEF Of
    <3>. QED BY <1>3, <2>8, <3>1
  <2>11. Owned' /\ Whole' /\ Lined' /\ Came'
    <3>1. 1 \in Nat /\ UNCHANGED <<given, wire>>
      BY <1>2
    <3>. QED BY <1>1, <2>1, <2>9, <2>10, <3>1, MovedUp
  <2>12. \A v \in Writers : Chunk(v)' = Chunk(v) /\ ChunkBytes(v)' = ChunkBytes(v)
    BY <1>2, PieceStays
  <2>13. \A k \in 1..Len(ready') : ready'[k].size <= Depth
    <3>1. ASSUME NEW k \in 1..Len(ready')
          PROVE  ready'[k].size <= Depth
      <4>1. k \in 1..(Len(ready) - 1) /\ k + 1 \in 1..Len(ready)
        BY <1>3
      <4>. QED BY <1>3, <2>1, <4>1 DEF Fits
    <3>. QED BY <3>1
  <2>14. tx' # NoTx => /\ wpc' = "wait" /\ ~semphr' /\ tx'.size <= Depth
                       /\ tx'.at > pending' * Depth
                       /\ tx'.at + tx'.left = pending' * Depth + tx'.size + 1
    <3>1. CASE size > 0 /\ tx' = [at |-> at, left |-> size, size |-> size] /\ wpc' = "wait"
      <4>1. pending' * Depth \in Nat /\ at = pending' * Depth + 1
        BY <1>2, <1>3, <2>3, <2>4
      <4>2. at > pending' * Depth /\ at + size = pending' * Depth + size + 1
        BY <2>3, <4>1
      <4>. QED BY <1>2, <2>2, <2>3, <3>1, <4>2
    <3>. QED BY <2>5, <3>1
  <2>15. Fits'
    BY <1>2, <2>1, <2>12, <2>13, <2>14 DEF Fits, Spots
  <2>. QED BY <2>11, <2>15
<1>. QED BY <1>4, <1>5 DEF LineInv

LEMMA Joined ==
  ASSUME NEW Elems, NEW p \in Seq(Elems), NEW q \in Seq(Elems)
  PROVE  /\ Len(p \o q) = Len(p) + Len(q)
         /\ \A i \in 1..Len(p) : (p \o q)[i] = p[i]
         /\ \A i \in 1..Len(q) : (p \o q)[Len(p) + i] = q[i]
OBVIOUS

LEMMA Counted ==
  ASSUME Came, NEW v \in Writers
  PROVE  OnWire(v, Len(wire)) \in Nat
<1>1. Len(wire) \in Nat
  BY DEF Came
<1>2. IsFiniteSet(1..Len(wire)) /\ {p \in 1..Len(wire) : wire[p].by = v} \subseteq 1..Len(wire)
  BY <1>1, FS_Interval
<1>. QED BY <1>2, FS_Subset, FS_CardinalityType DEF OnWire

\* What is queued comes last.
LEMMA LineSend ==
  ASSUME StdioTxAssumption, TxInv, LineInv, NEW w \in Writers, Send(w)
  PROVE  LineInv'
<1>. USE DEF queues, gate
<1>. DEFINE c == Len(Chunk(w))
            g == given[w]
            n == Len(g)
            cb == ChunkBytes(w)
            h == given'[w]
            x == [buf |-> call[w].buf, size |-> c]
<1>0. PICK K : K = Len(ready) + 1
  OBVIOUS
<1>1. TxTypes /\ call \in [Writers -> Calling] /\ call[w] \in Calling /\ Filling(w)
      /\ given \in [Writers -> Seq(SentBytes)]
  BY DEF TxInv, TxTypes, Send, Filling
<1>2. Len(ready) # NBufs
  <2>1. NBufs \in Nat /\ Len(ready) < NBufs /\ Len(ready) \in Nat
    BY <1>1, Room DEF StdioTxAssumption, TxTypes
  <2>. QED BY <2>1
<1>3. /\ UNCHANGED <<avail, mem, tx, wire, semphr, wpc, pending, odd>>
      /\ call[w].pc = "send" /\ ready' = Append(ready, x)
      /\ given' = [given EXCEPT ![w] = @ \o cb]
      /\ call' = [call EXCEPT ![w].rest = Left(w),
                              ![w].crlf = ~@ /\ Left(w) # <<>>,
                              ![w].pc = IF Left(w) = <<>> THEN "done" ELSE "get",
                              ![w].ret = IF Left(w) = <<>> THEN "ok" ELSE @]
  BY <1>2 DEF Send
<1>4. /\ call'[w].pc # "send"
      /\ \A v \in Writers : v # w => call'[v] = call[v] /\ given'[v] = given[v]
  BY <1>1, <1>3 DEF Calling
<1>5. /\ c \in Nat /\ n \in Nat /\ Len(cb) = c /\ cb \in Seq(SentBytes) /\ g \in Seq(SentBytes)
      /\ \A i \in 1..c : cb[i].by = w /\ cb[i].i = n + i
  <2>1. c \in Nat /\ cb \in Seq(SentBytes) /\ g \in Seq(SentBytes) /\ n \in Nat
    BY <1>1, Piece
  <2>2. Len(cb) = c /\ \A i \in 1..c : cb[i].by = w /\ cb[i].i = n + i
    BY <2>1 DEF ChunkBytes, Byte
  <2>. QED BY <2>1, <2>2
<1>6. h = g \o cb
  BY <1>1, <1>3
<1>. HIDE DEF g, cb, h, c
<1>7. /\ Len(h) = n + c
      /\ \A i \in 1..n : h[i] = g[i]
      /\ \A i \in 1..c : h[n + i] = cb[i]
  BY <1>5, <1>6, Joined
<1>8. /\ Len(ready) \in Nat /\ Len(ready') = K /\ ready'[K] = x
      /\ \A k \in 1..Len(ready) : ready'[k] = ready[k]
  BY <1>0, <1>1, <1>3 DEF TxTypes
<1>9. \A v \in Writers : \A i \in 1..Len(given[v]) : given'[v][i] = given[v][i]
  BY <1>4, <1>7 DEF g, h
<1>10. ASSUME Numbered
       PROVE  Numbered'
  <2>1. ASSUME NEW i \in 1..Len(h)
        PROVE  h[i].by = w /\ h[i].i = i
    <3>1. CASE i \in 1..n
      BY <1>7, <1>10, <3>1 DEF Numbered, g
    <3>2. CASE i \notin 1..n
      <4>. DEFINE j == i - n
      <4>1. j \in 1..c /\ i = n + j
        BY <1>5, <1>7, <2>1, <3>2
      <4>. HIDE DEF j
      <4>. QED BY <1>5, <1>7, <4>1
    <3>. QED BY <3>1, <3>2
  <2>2. ASSUME NEW v \in Writers, NEW i \in 1..Len(given'[v])
        PROVE  given'[v][i].by = v /\ given'[v][i].i = i
    BY <1>4, <1>10, <2>1, <2>2 DEF Numbered, h
  <2>. QED BY <2>2 DEF Numbered
<1>11. ASSUME "long" \notin odd', Numbered
       PROVE  Fits' /\ Owned' /\ Whole' /\ Lined' /\ Came'
  <2>1. Fits /\ Owned /\ Whole /\ Lined /\ Came
    BY <1>3, <1>11 DEF LineInv
  <2>2. c <= Depth /\ \A j \in 1..c : mem[call[w].buf * Depth + j] = cb[j]
    BY <1>3, <2>1 DEF Fits, c, cb
  <2>3. /\ Pieces = 0..Len(ready) /\ Pieces' = 0..K
        /\ \A k \in Pieces' : k \in Pieces \/ k = K
        /\ K \notin Pieces /\ \A k \in Pieces : k \in Pieces' /\ k < K
    BY <1>0, <1>8 DEF Pieces
  <2>4. ASSUME NEW k \in Pieces
        PROVE  Of(k)' = Of(k) /\ \A j \in Of(k) : Waiting(k, j)' = Waiting(k, j)
    <3>1. k # 0 => ready'[k] = ready[k]
      BY <1>8, <2>3
    <3>2. Size(k)' = Size(k) /\ Begin(k)' = Begin(k)
      BY <1>3, <3>1 DEF Size, Begin
    <3>. QED BY <1>3, <3>2 DEF Of, Waiting
  <2>5. /\ Of(K)' = 0..(c - 1)
        /\ \A j \in 0..(c - 1) : j + 1 \in 1..c /\ Waiting(K, j)' = cb[j + 1]
    <3>1. K # 0 /\ Size(K)' = c /\ Begin(K)' = call[w].buf * Depth + 1
      BY <1>0, <1>8 DEF Size, Begin, x
    <3>2. ASSUME NEW j \in 0..(c - 1)
          PROVE  j + 1 \in 1..c /\ Waiting(K, j)' = cb[j + 1]
      <4>1. j + 1 \in 1..c
        BY <1>5
      <4>2. call[w].buf * Depth \in Nat
        BY <1>1 DEF Calling, Bufs, StdioTxAssumption
      <4>3. (call[w].buf * Depth + 1) + j = call[w].buf * Depth + (j + 1)
        <5>. DEFINE y == call[w].buf * Depth
        <5>1. y \in Nat /\ j \in Nat
          BY <4>2
        <5>. HIDE DEF y
        <5>2. (y + 1) + j = y + (j + 1)
          BY <5>1
        <5>. QED BY <5>2 DEF y
      <4>4. Waiting(K, j)' = mem[(call[w].buf * Depth + 1) + j]
        BY <1>3, <3>1 DEF Waiting
      <4>. QED BY <2>2, <4>1, <4>3, <4>4
    <3>. QED BY <3>1, <3>2 DEF Of
  <2>6. /\ \A v \in Writers : OnWire(v, Len(wire))' = OnWire(v, Len(wire))
        /\ \A v \in Writers : OnWire(v, Len(wire)) \in Nat /\ OnWire(v, Len(wire)) <= Len(given[v])
    <3>1. \A v \in Writers : OnWire(v, Len(wire)) \in Nat
      BY <2>1, Counted
    <3>2. \A v \in Writers : OnWire(v, Len(wire))' = OnWire(v, Len(wire))
      BY <1>3 DEF OnWire
    <3>. QED BY <2>1, <3>1, <3>2 DEF Came
  <2>7. \A v \in Writers : v # w => Due(v)' = Due(v)
    BY <1>4, <2>6 DEF Due
  <2>. DEFINE on == OnWire(w, Len(wire))
  <2>8. Due(w) = (on + 1)..n /\ Due(w)' = (on + 1)..(n + c) /\ on \in Nat /\ on <= n
    BY <1>7, <2>6 DEF Due, g, h
  <2>. HIDE DEF on
  <2>9. \A v \in Writers : \A i \in Due(v) : i \in Due(v)' /\ i \in 1..Len(given[v])
                                              /\ given'[v][i] = given[v][i]
    <3>1. ASSUME NEW v \in Writers, NEW i \in Due(v)
          PROVE  i \in 1..Len(given[v])
      <4>1. OnWire(v, Len(wire)) \in Nat /\ Len(given[v]) \in Nat
        BY <1>1, <2>6
      <4>. QED BY <3>1, <4>1 DEF Due
    <3>2. \A i \in Due(w) : i \in Due(w)'
      BY <1>5, <2>8
    <3>. QED BY <1>9, <2>7, <3>1, <3>2
  <2>10. ASSUME NEW j \in 0..(c - 1)
         PROVE  /\ n + (j + 1) \in Due(w)' /\ Waiting(K, j)' = given'[w][n + (j + 1)]
                /\ Waiting(K, j)'.by = w /\ Waiting(K, j)'.i = n + (j + 1)
    <3>1. j + 1 \in 1..c /\ Waiting(K, j)' = cb[j + 1]
      BY <2>5
    <3>2. n + (j + 1) \in Due(w)'
      BY <1>5, <2>8, <3>1
    <3>. QED BY <1>5, <1>7, <3>1, <3>2 DEF h
  <2>11. Owned'
    <3>1. ASSUME NEW k \in Pieces', NEW j \in Of(k)'
          PROVE  \E v \in Writers : \E i \in Due(v)' : Waiting(k, j)' = given'[v][i]
      <4>1. CASE k \in Pieces
        <5>1. j \in Of(k) /\ Waiting(k, j)' = Waiting(k, j)
          BY <2>4, <3>1, <4>1
        <5>2. \E v \in Writers : \E i \in Due(v) : Waiting(k, j) = given[v][i]
          BY <2>1, <4>1, <5>1 DEF Owned
        <5>. QED BY <2>9, <5>1, <5>2
      <4>2. CASE k = K
        <5>1. j \in 0..(c - 1)
          BY <2>5, <3>1, <4>2
        <5>. QED BY <2>10, <4>2, <5>1
      <4>. QED BY <2>3, <4>1, <4>2
    <3>. QED BY <3>1 DEF Owned
  <2>12. Whole'
    <3>1. ASSUME NEW v \in Writers, NEW i \in Due(v)
          PROVE  \E k \in Pieces' : \E j \in Of(k)' : Waiting(k, j)' = given'[v][i]
      <4>1. PICK k \in Pieces : \E j \in Of(k) : Waiting(k, j) = given[v][i]
        BY <2>1 DEF Whole
      <4>2. PICK j \in Of(k) : Waiting(k, j) = given[v][i]
        BY <4>1
      <4>3. k \in Pieces' /\ j \in Of(k)' /\ Waiting(k, j)' = given'[v][i]
        BY <2>3, <2>4, <2>9, <4>2
      <4>. QED BY <4>3
    <3>2. ASSUME NEW i \in Due(w)', i \notin Due(w)
          PROVE  \E k \in Pieces' : \E j \in Of(k)' : Waiting(k, j)' = given'[w][i]
      <4>1. i \in (on + 1)..(n + c) /\ i \notin (on + 1)..n
        BY <2>8, <3>2
      <4>2. PICK j \in 0..(c - 1) : i = n + (j + 1)
        <5>. DEFINE d == i - (n + 1)
        <5>1. d \in 0..(c - 1) /\ i = n + (d + 1)
          BY <1>5, <2>8, <4>1
        <5>. HIDE DEF d
        <5>. QED BY <5>1
      <4>3. Waiting(K, j)' = given'[w][i]
        BY <2>10, <4>2
      <4>4. j \in Of(K)'
        BY <2>5, <4>2
      <4>5. K \in Pieces'
        <5>1. K \in Nat /\ Pieces' = 0..K
          BY <1>0, <1>8, <2>3
        <5>. QED BY <5>1
      <4>. QED BY <4>3, <4>4, <4>5
    <3>3. ASSUME NEW v \in Writers, NEW i \in Due(v)'
          PROVE  \E k \in Pieces' : \E j \in Of(k)' : Waiting(k, j)' = given'[v][i]
      <4>1. CASE v = w
        BY <3>1, <3>2, <3>3, <4>1
      <4>2. CASE v # w
        BY <2>7, <3>1, <3>3, <4>2
      <4>. QED BY <4>1, <4>2
    <3>. QED BY <3>3 DEF Whole
  <2>13. Lined'
    <3>1. ASSUME NEW k \in Pieces', NEW l \in Pieces', NEW j \in Of(k)', NEW m \in Of(l)',
                 Waiting(k, j)'.by = Waiting(l, m)'.by, k < l \/ (k = l /\ j < m)
          PROVE  Waiting(k, j)'.i < Waiting(l, m)'.i
      <4>1. CASE k \in Pieces /\ l \in Pieces
        <5>1. /\ j \in Of(k) /\ Waiting(k, j)' = Waiting(k, j)
              /\ m \in Of(l) /\ Waiting(l, m)' = Waiting(l, m)
          BY <2>4, <3>1, <4>1
        <5>. QED BY <2>1, <3>1, <4>1, <5>1 DEF Lined
      <4>2. CASE k \in Pieces /\ l = K
        <5>1. j \in Of(k) /\ Waiting(k, j)' = Waiting(k, j)
          BY <2>4, <3>1, <4>2
        <5>2. PICK v \in Writers : \E i \in Due(v) : Waiting(k, j) = given[v][i]
          BY <2>1, <4>2, <5>1 DEF Owned
        <5>3. PICK i \in Due(v) : Waiting(k, j) = given[v][i]
          BY <5>2
        <5>4. m \in 0..(c - 1) /\ Waiting(l, m)'.by = w /\ Waiting(l, m)'.i = n + (m + 1)
          BY <2>5, <2>10, <3>1, <4>2
        <5>5. Waiting(k, j).by = v /\ Waiting(k, j).i = i
          BY <1>11, <2>9, <5>3 DEF Numbered
        <5>6. v = w
          BY <3>1, <5>1, <5>4, <5>5
        <5>7. i \in (on + 1)..n
          BY <2>8, <5>3, <5>6
        <5>8. i < n + (m + 1)
          BY <1>5, <2>8, <5>4, <5>7
        <5>. QED BY <5>1, <5>4, <5>5, <5>8
      <4>3. CASE k = K /\ l = K
        <5>1. j \in 0..(c - 1) /\ m \in 0..(c - 1) /\ j < m
          BY <1>8, <2>5, <3>1, <4>3
        <5>2. Waiting(k, j)'.i = n + (j + 1) /\ Waiting(l, m)'.i = n + (m + 1)
          BY <2>10, <4>3, <5>1
        <5>3. n + (j + 1) < n + (m + 1)
          BY <1>5, <5>1
        <5>. QED BY <5>2, <5>3
      <4>4. ~(k = K /\ l \in Pieces)
        BY <1>8, <2>3, <3>1
      <4>. QED BY <2>3, <4>1, <4>2, <4>3, <4>4
    <3>. QED BY <3>1 DEF Lined
  <2>14. Came'
    <3>1. \A v \in Writers : \A p \in 1..Len(wire) : OnWire(v, p)' = OnWire(v, p)
      BY <1>3 DEF OnWire
    <3>2. \A v \in Writers : Len(given[v]) \in Nat /\ Len(given'[v]) >= Len(given[v])
      <4>1. \A v \in Writers : Len(given[v]) \in Nat
        BY <1>1
      <4>2. Len(given'[w]) >= Len(given[w])
        BY <1>5, <1>7 DEF g, h
      <4>. QED BY <1>4, <4>1, <4>2
    <3>3. ASSUME NEW p \in 1..Len(wire)
          PROVE  \E v \in Writers : /\ wire[p].by = v /\ OnWire(v, p)' <= Len(given'[v])
                                    /\ wire[p] = given'[v][OnWire(v, p)']
      <4>1. PICK v \in Writers : /\ wire[p].by = v /\ OnWire(v, p) <= Len(given[v])
                                 /\ wire[p] = given[v][OnWire(v, p)]
        BY <2>1 DEF Came
      <4>2. OnWire(v, p) \in 1..Len(given[v])
        <5>1. p \in {q \in 1..p : wire[q].by = v}
          BY <2>1, <4>1 DEF Came
        <5>2. IsFiniteSet({q \in 1..p : wire[q].by = v})
          <6>1. p \in Int /\ IsFiniteSet(1..p) /\ {q \in 1..p : wire[q].by = v} \subseteq 1..p
            BY <2>1, FS_Interval DEF Came
          <6>. QED BY <6>1, FS_Subset
        <5>3. OnWire(v, p) \in Nat /\ OnWire(v, p) # 0
          BY <5>1, <5>2, FS_EmptySet, FS_CardinalityType DEF OnWire
        <5>. QED BY <3>2, <4>1, <5>3
      <4>3. OnWire(v, p)' = OnWire(v, p) /\ given'[v][OnWire(v, p)] = given[v][OnWire(v, p)]
        BY <1>9, <3>1, <4>2
      <4>4. OnWire(v, p) <= Len(given'[v])
        BY <3>2, <4>2
      <4>. QED BY <4>1, <4>3, <4>4
    <3>4. \A v \in Writers : OnWire(v, Len(wire))' <= Len(given'[v])
      BY <2>6, <3>2
    <3>. QED BY <1>3, <2>1, <3>3, <3>4 DEF Came
  <2>15. ASSUME NEW v \in Writers, call'[v].pc = "send"
         PROVE  /\ Len(Chunk(v)') <= Depth
                /\ \A j \in 1..Len(Chunk(v)') :
                     mem'[call'[v].buf * Depth + j] = ChunkBytes(v)'[j]
    <3>1. call'[v] = call[v] /\ given'[v] = given[v]
      BY <1>4, <2>15
    <3>2. Chunk(v)' = Chunk(v) /\ ChunkBytes(v)' = ChunkBytes(v)
      BY <3>1, PieceStays
    <3>. QED BY <1>3, <2>1, <2>15, <3>1, <3>2 DEF Fits
  <2>16. \A k \in 1..Len(ready') : ready'[k].size <= Depth
    <3>1. \A k \in 1..Len(ready') : k \in 1..Len(ready) \/ k = K
      BY <1>0, <1>8
    <3>2. ready'[K].size <= Depth
      BY <1>8, <2>2
    <3>. QED BY <1>8, <2>1, <3>1, <3>2 DEF Fits
  <2>17. Fits'
    BY <1>3, <2>1, <2>15, <2>16 DEF Fits, Spots
  <2>. QED BY <2>11, <2>12, <2>13, <2>14, <2>17
<1>. QED BY <1>3, <1>10, <1>11 DEF LineInv

\* The DMA sends the byte of its writer that is due first.
LEMMA LineByte ==
  ASSUME StdioTxAssumption, TxInv, LineInv, DmaByte
  PROVE  LineInv'
<1>. USE DEF queues, gate
<1>1. TxTypes /\ given \in [Writers -> Seq(SentBytes)]
  BY DEF TxInv, TxTypes
<1>2. /\ UNCHANGED <<ready, mem, semphr, wpc, pending, call, given, odd>>
      /\ tx # NoTx /\ tx.left > 0 /\ wire' = Append(wire, mem[tx.at])
      /\ tx' = [tx EXCEPT !.at = @ + 1, !.left = @ - 1]
  BY DEF DmaByte
<1>3. Numbered'
  BY <1>2 DEF LineInv, Numbered
<1>4. ASSUME "long" \notin odd'
      PROVE  Fits' /\ Owned' /\ Whole' /\ Lined' /\ Came'
  <2>1. Fits /\ Numbered /\ Owned /\ Whole /\ Lined /\ Came
    BY <1>2, <1>4 DEF LineInv
  <2>2. /\ tx \in [at : Nat, left : Nat, size : Nat] /\ tx'.at = tx.at + 1 /\ tx'.size = tx.size
        /\ tx'.left = tx.left - 1 /\ tx' \in [at : Nat, left : Nat, size : Nat]
    <3>1. tx \in [at : Nat, left : Nat, size : Nat]
      BY <1>1, <1>2 DEF TxTypes
    <3>2. tx.at + 1 \in Nat /\ tx.left - 1 \in Nat
      BY <1>2, <3>1
    <3>. QED BY <1>2, <3>1, <3>2
  <2>3. tx' # NoTx
    BY <2>2 DEF StdioTxAssumption
  <2>4. /\ Size(0) = tx.left /\ Size(0)' = tx.left - 1
        /\ Begin(0) = tx.at /\ Begin(0)' = tx.at + 1
    BY <1>2, <2>2, <2>3 DEF Size, Begin
  <2>5. 0 \in Of(0) /\ Of(0) = 0..(tx.left - 1) /\ Of(0)' = 0..((tx.left - 1) - 1)
    BY <1>2, <2>2, <2>4 DEF Of
  <2>6. Pieces' = Pieces /\ 0 \in Pieces /\ Pieces \subseteq Nat
    BY <1>1, <1>2 DEF Pieces, TxTypes
  <2>7. \A j \in Of(0)' : j + 1 \in Of(0) /\ j \in Nat /\ Waiting(0, j)' = Waiting(0, j + 1)
    <3>1. ASSUME NEW j \in Of(0)'
          PROVE  j + 1 \in Of(0) /\ j \in Nat /\ Waiting(0, j)' = Waiting(0, j + 1)
      <4>1. j \in Nat /\ j + 1 \in Of(0)
        BY <2>2, <2>5, <3>1
      <4>2. (tx.at + 1) + j = tx.at + (j + 1)
        BY <2>2, <4>1
      <4>3. Waiting(0, j)' = mem[(tx.at + 1) + j]
        BY <1>2, <2>4 DEF Waiting
      <4>. QED BY <2>4, <4>1, <4>2, <4>3 DEF Waiting
    <3>. QED BY <3>1
  <2>8. \A k \in Pieces : k # 0 => /\ Of(k)' = Of(k)
                                   /\ \A j \in Of(k) : Waiting(k, j)' = Waiting(k, j)
    BY <1>2 DEF Of, Size, Waiting, Begin
  <2>. DEFINE x == mem[tx.at]
  <2>9. x = Waiting(0, 0)
    <3>1. tx.at + 0 = tx.at
      BY <2>2
    <3>. QED BY <2>4, <3>1 DEF Waiting
  <2>10. \A v \in Writers : /\ OnWire(v, Len(wire)) \in Nat /\ Len(given[v]) \in Nat
                            /\ OnWire(v, Len(wire)) <= Len(given[v])
    BY <1>1, <2>1, Counted DEF Came
  <2>11. PICK w \in Writers : \E i \in Due(w) : x = given[w][i]
    BY <2>1, <2>5, <2>6, <2>9 DEF Owned
  <2>12. PICK n \in Nat : n = OnWire(w, Len(wire))
    BY <2>10
  <2>13. PICK i \in Due(w) : x = given[w][i]
    BY <2>11
  <2>14. i \in Nat /\ n + 1 <= i /\ i <= Len(given[w]) /\ i \in 1..Len(given[w])
         /\ n + 1 \in Due(w) /\ n + 1 \in 1..Len(given[w])
    BY <2>10, <2>12, <2>13 DEF Due
  <2>15. x.by = w /\ x.i = i
    BY <2>1, <2>13, <2>14 DEF Numbered
  <2>. HIDE DEF x
  <2>16. i = n + 1
    <3>1. PICK k \in Pieces : \E j \in Of(k) : Waiting(k, j) = given[w][n + 1]
      BY <2>1, <2>14 DEF Whole
    <3>2. PICK j \in Of(k) : Waiting(k, j) = given[w][n + 1]
      BY <3>1
    <3>3. Waiting(k, j).by = w /\ Waiting(k, j).i = n + 1
      BY <2>1, <2>14, <3>2 DEF Numbered
    <3>4. CASE k = 0 /\ j = 0
      BY <2>9, <2>15, <3>3, <3>4
    <3>5. CASE ~(k = 0 /\ j = 0)
      <4>1. 0 < k \/ (0 = k /\ 0 < j)
        <5>1. k = 0 => j \in 0..(tx.left - 1)
          BY <2>5
        <5>. QED BY <2>2, <2>6, <3>5, <5>1
      <4>2. i < n + 1
        BY <2>1, <2>5, <2>6, <2>9, <2>15, <3>3, <4>1 DEF Lined
      <4>. QED BY <2>14, <4>2
    <3>. QED BY <3>4, <3>5
  <2>17. /\ Len(wire) \in Nat /\ Len(wire') = Len(wire) + 1 /\ wire' \in Seq(SentBytes)
         /\ wire'[Len(wire) + 1] = x /\ \A p \in 1..Len(wire) : wire'[p] = wire[p]
    <3>1. wire \in Seq(SentBytes) /\ x \in SentBytes
      <4>1. given[w] \in Seq(SentBytes)
        BY <1>1
      <4>. QED BY <2>1, <2>13, <2>14, <4>1, Element DEF Came
    <3>2. wire' = Append(wire, x)
      BY <1>2 DEF x
    <3>. QED BY <3>1, <3>2, ToQueue
  <2>18. \A v \in Writers : \A p \in 1..Len(wire) : OnWire(v, p)' = OnWire(v, p)
    <3>1. ASSUME NEW v \in Writers, NEW p \in 1..Len(wire)
          PROVE  OnWire(v, p)' = OnWire(v, p)
      <4>1. \A q \in 1..p : wire'[q] = wire[q]
        BY <2>17
      <4>2. {q \in 1..p : wire'[q].by = v} = {q \in 1..p : wire[q].by = v}
        BY <4>1
      <4>. QED BY <4>2 DEF OnWire
    <3>. QED BY <3>1
  <2>19. /\ OnWire(w, Len(wire))' = n + 1
         /\ \A v \in Writers : v # w => OnWire(v, Len(wire))' = OnWire(v, Len(wire))
    <3>. DEFINE m == Len(wire)
                By(v) == {q \in 1..m : wire[q].by = v}
    <3>1. \A v \in Writers : IsFiniteSet(By(v)) /\ m + 1 \notin By(v)
      <4>1. IsFiniteSet(1..m) /\ \A v \in Writers : By(v) \subseteq 1..m
        BY <2>17, FS_Interval
      <4>2. m + 1 \notin 1..m
        BY <2>17
      <4>. QED BY <4>1, <4>2, FS_Subset
    <3>2. \A q : q \in 1..(m + 1) <=> q \in 1..m \/ q = m + 1
      BY <2>17
    <3>3. \A v \in Writers : {q \in 1..(m + 1) : wire'[q].by = v} =
             IF v = w THEN By(v) \cup {m + 1} ELSE By(v)
      BY <2>15, <2>17, <3>2
    <3>4. \A v \in Writers : OnWire(v, Len(wire))' = Cardinality({q \in 1..(m + 1) : wire'[q].by = v})
      BY <2>17 DEF OnWire
    <3>5. \A v \in Writers : OnWire(v, Len(wire)) = Cardinality(By(v))
      BY DEF OnWire
    <3>. HIDE DEF m, By
    <3>6. Cardinality(By(w) \cup {m + 1}) = Cardinality(By(w)) + 1
      BY <3>1, FS_AddElement
    <3>. QED BY <2>12, <3>3, <3>4, <3>5, <3>6
  <2>20. /\ \A v \in Writers : v # w => Due(v)' = Due(v)
         /\ Due(w) = (n + 1)..Len(given[w]) /\ Due(w)' = (n + 2)..Len(given[w])
    <3>1. (n + 1) + 1 = n + 2
      OBVIOUS
    <3>. QED BY <1>2, <2>12, <2>19, <3>1 DEF Due
  <2>21. ASSUME NEW k \in Pieces, NEW j \in Of(k), k # 0 \/ j # 0,
                NEW v \in Writers, NEW e \in Due(v), Waiting(k, j) = given[v][e]
         PROVE  e \in Due(v)'
    <3>1. CASE v # w
      BY <2>20, <2>21, <3>1
    <3>2. CASE v = w
      <4>1. e \in Nat /\ n + 1 <= e /\ e <= Len(given[w]) /\ e \in 1..Len(given[w])
        BY <2>10, <2>20, <2>21, <3>2
      <4>2. Waiting(k, j).by = w /\ Waiting(k, j).i = e
        BY <2>1, <2>21, <3>2, <4>1 DEF Numbered
      <4>3. 0 < k \/ (0 = k /\ 0 < j)
        <5>1. k = 0 => j \in 0..(tx.left - 1)
          BY <2>5
        <5>. QED BY <2>2, <2>6, <2>21, <5>1
      <4>4. i < e
        BY <2>1, <2>5, <2>6, <2>9, <2>15, <4>2, <4>3 DEF Lined
      <4>5. e \in (n + 2)..Len(given[w])
        BY <2>10, <2>14, <2>16, <4>1, <4>4
      <4>. QED BY <2>20, <3>2, <4>5
    <3>. QED BY <3>1, <3>2
  <2>22. Owned'
    <3>1. ASSUME NEW k \in Pieces', NEW j \in Of(k)'
          PROVE  \E v \in Writers : \E e \in Due(v)' : Waiting(k, j)' = given'[v][e]
      <4>1. PICK l \in Of(k) : Waiting(k, j)' = Waiting(k, l) /\ (k # 0 \/ l # 0)
        <5>1. CASE k = 0
          <6>1. j + 1 \in Of(k) /\ Waiting(k, j)' = Waiting(k, j + 1) /\ j + 1 # 0
            BY <2>7, <3>1, <5>1
          <6>. QED BY <6>1
        <5>2. CASE k # 0
          BY <2>6, <2>8, <3>1, <5>2
        <5>. QED BY <5>1, <5>2
      <4>2. PICK v \in Writers : \E e \in Due(v) : Waiting(k, l) = given[v][e]
        BY <2>1, <2>6, <3>1 DEF Owned
      <4>3. PICK e \in Due(v) : Waiting(k, l) = given[v][e]
        BY <4>2
      <4>4. e \in Due(v)'
        BY <2>6, <2>21, <3>1, <4>1, <4>3
      <4>. QED BY <1>2, <4>1, <4>3, <4>4
    <3>. QED BY <3>1 DEF Owned
  <2>23. Whole'
    <3>1. ASSUME NEW v \in Writers, NEW e \in Due(v)'
          PROVE  \E k \in Pieces' : \E j \in Of(k)' : Waiting(k, j)' = given'[v][e]
      <4>1. e \in Due(v) /\ (v = w => e # n + 1)
        <5>1. CASE v # w
          BY <2>20, <3>1, <5>1
        <5>2. CASE v = w
          <6>1. e \in (n + 2)..Len(given[w])
            BY <2>20, <3>1, <5>2
          <6>2. e \in (n + 1)..Len(given[w]) /\ e # n + 1
            BY <2>10, <6>1
          <6>. QED BY <2>20, <5>2, <6>2
        <5>. QED BY <5>1, <5>2
      <4>2. PICK k \in Pieces : \E j \in Of(k) : Waiting(k, j) = given[v][e]
        BY <2>1, <4>1 DEF Whole
      <4>3. PICK j \in Of(k) : Waiting(k, j) = given[v][e]
        BY <4>2
      <4>4. k # 0 \/ j # 0
        <5>1. ASSUME k = 0, j = 0
              PROVE  FALSE
          <6>1. x = given[v][e]
            BY <2>9, <4>3, <5>1
          <6>2. e \in 1..Len(given[v])
            BY <2>10, <4>1 DEF Due
          <6>3. x.by = v /\ x.i = e
            BY <2>1, <6>1, <6>2 DEF Numbered
          <6>. QED BY <2>15, <2>16, <4>1, <6>3
        <5>. QED BY <5>1
      <4>5. CASE k # 0
        <5>1. j \in Of(k)' /\ Waiting(k, j)' = given'[v][e]
          BY <1>2, <2>8, <4>3, <4>5
        <5>. QED BY <2>6, <5>1
      <4>6. CASE k = 0
        <5>1. PICK l \in Nat : j = l + 1
          <6>1. j \in 0..(tx.left - 1) /\ j # 0
            BY <2>5, <4>4, <4>6
          <6>2. j - 1 \in Nat /\ j = (j - 1) + 1
            BY <2>2, <6>1
          <6>. QED BY <6>2
        <5>2. l \in Of(0)'
          <6>1. j \in 0..(tx.left - 1)
            BY <2>5, <4>6
          <6>2. l \in 0..((tx.left - 1) - 1)
            BY <2>2, <5>1, <6>1
          <6>. QED BY <2>5, <6>2
        <5>3. Waiting(0, l)' = given'[v][e]
          BY <1>2, <2>7, <4>3, <4>6, <5>1, <5>2
        <5>. QED BY <2>6, <5>2, <5>3
      <4>. QED BY <4>5, <4>6
    <3>. QED BY <3>1 DEF Whole
  <2>24. Lined'
    <3>1. ASSUME NEW k \in Pieces', NEW l \in Pieces', NEW j \in Of(k)', NEW m \in Of(l)',
                 Waiting(k, j)'.by = Waiting(l, m)'.by, k < l \/ (k = l /\ j < m)
          PROVE  Waiting(k, j)'.i < Waiting(l, m)'.i
      <4>1. PICK a \in Of(k) : Waiting(k, j)' = Waiting(k, a) /\ a = (IF k = 0 THEN j + 1 ELSE j)
        BY <2>6, <2>7, <2>8, <3>1
      <4>2. PICK b \in Of(l) : Waiting(l, m)' = Waiting(l, b) /\ b = (IF l = 0 THEN m + 1 ELSE m)
        BY <2>6, <2>7, <2>8, <3>1
      <4>3. k < l \/ (k = l /\ a < b)
        <5>1. CASE k = 0 /\ l = 0
          <6>1. j \in Nat /\ m \in Nat
            BY <2>7, <3>1, <5>1
          <6>. QED BY <3>1, <4>1, <4>2, <5>1, <6>1
        <5>2. CASE ~(k = 0 /\ l = 0)
          BY <3>1, <4>1, <4>2, <5>2
        <5>. QED BY <5>1, <5>2
      <4>. QED BY <2>1, <2>6, <3>1, <4>1, <4>2, <4>3 DEF Lined
    <3>. QED BY <3>1 DEF Lined
  <2>25. Came'
    <3>1. ASSUME NEW p \in 1..Len(wire')
          PROVE  \E v \in Writers : /\ wire'[p].by = v /\ OnWire(v, p)' <= Len(given'[v])
                                    /\ wire'[p] = given'[v][OnWire(v, p)']
      <4>1. CASE p \in 1..Len(wire)
        <5>1. PICK v \in Writers : /\ wire[p].by = v /\ OnWire(v, p) <= Len(given[v])
                                   /\ wire[p] = given[v][OnWire(v, p)]
          BY <2>1, <4>1 DEF Came
        <5>2. OnWire(v, p)' = OnWire(v, p) /\ wire'[p] = wire[p]
          BY <2>17, <2>18, <4>1
        <5>. QED BY <1>2, <5>1, <5>2
      <4>2. CASE p = Len(wire')
        <5>1. OnWire(w, p)' = n + 1
          BY <2>19, <4>2 DEF OnWire
        <5>2. wire'[p] = x
          BY <2>17, <4>2
        <5>. QED BY <1>2, <2>13, <2>14, <2>15, <2>16, <5>1, <5>2
      <4>. QED BY <2>17, <3>1, <4>1, <4>2
    <3>2. ASSUME NEW v \in Writers
          PROVE  OnWire(v, Len(wire))' <= Len(given'[v])
      <4>1. CASE v = w
        BY <1>2, <2>14, <2>19, <4>1
      <4>2. CASE v # w
        BY <1>2, <2>10, <2>19, <4>2
      <4>. QED BY <4>1, <4>2
    <3>. QED BY <2>17, <3>1, <3>2 DEF Came
  <2>26. \A v \in Writers : Chunk(v)' = Chunk(v) /\ ChunkBytes(v)' = ChunkBytes(v)
    BY <1>2, PieceStays
  <2>27. /\ tx'.at > pending * Depth
         /\ tx'.at + tx'.left = pending * Depth + tx'.size + 1
    <3>. DEFINE y == pending * Depth
    <3>1. y \in Nat
      BY <1>1 DEF TxTypes, Bufs, StdioTxAssumption
    <3>2. tx.at > y /\ tx.at + tx.left = y + tx.size + 1
      BY <1>2, <2>1 DEF Fits
    <3>. HIDE DEF y
    <3>3. tx'.at > y /\ tx'.at + tx'.left = y + tx'.size + 1
      BY <2>2, <3>1, <3>2
    <3>. QED BY <3>3 DEF y
  <2>28. Fits'
    BY SMTT(30), <1>2, <2>1, <2>2, <2>26, <2>27 DEF Fits, Spots
  <2>. QED BY <2>22, <2>23, <2>24, <2>25, <2>28
<1>. QED BY <1>3, <1>4 DEF LineInv

LEMMA LineStarts == StdioTxAssumption /\ Init => TextInv /\ LineInv
<1>. SUFFICES ASSUME StdioTxAssumption, Init
              PROVE  TextInv /\ LineInv
  OBVIOUS
<1>1. /\ ready = <<>> /\ tx = NoTx /\ ~semphr /\ wpc = "recv" /\ wire = <<>>
      /\ mem = [p \in 1..(2 * NBufs * Depth) |-> NoByte]
      /\ \A w \in Writers : call[w].pc = "idle" /\ given[w] = <<>>
  BY DEF Init, Fresh
<1>2. TextInv
  BY <1>1 DEF TextInv
<1>3. Pieces = {0} /\ Of(0) = {}
  BY <1>1 DEF Pieces, Of, Size
<1>4. \A w \in Writers : OnWire(w, Len(wire)) = 0 /\ Len(given[w]) = 0 /\ Due(w) = {}
  <2>1. \A w \in Writers : {p \in 1..Len(wire) : wire[p].by = w} = {}
    BY <1>1
  <2>2. \A w \in Writers : OnWire(w, Len(wire)) = 0
    BY <2>1, FS_EmptySet DEF OnWire
  <2>. QED BY <1>1, <2>2 DEF Due
<1>5. Numbered
  BY <1>4 DEF Numbered
<1>6. Fits
  <2>1. DOMAIN mem = Spots
    BY <1>1 DEF Spots
  <2>. QED BY <1>1, <2>1 DEF Fits
<1>7. Owned /\ Lined
  BY <1>3 DEF Owned, Lined
<1>8. Whole
  BY <1>4 DEF Whole
<1>9. Came
  <2>1. wire \in Seq(SentBytes) /\ Len(wire) = 0
    BY <1>1
  <2>. QED BY <1>4, <2>1 DEF Came
<1>. QED BY <1>2, <1>5, <1>6, <1>7, <1>8, <1>9 DEF LineInv

LEMMA LineSteps == StdioTxAssumption /\ TxInv /\ LineInv /\ [Next]_(vars) => LineInv'
<1>. SUFFICES ASSUME StdioTxAssumption, TxInv, LineInv, [Next]_(vars)
              PROVE  LineInv'
  OBVIOUS
<1>1. CASE UNCHANGED vars
  <2>1. UNCHANGED <<ready, mem, given, wire, odd, tx, semphr, wpc, pending, call>>
    BY <1>1 DEF vars, queues, gate
  <2>2. \A k \in Pieces : Of(k)' = Of(k) /\ Begin(k)' = Begin(k)
    BY <2>1 DEF Of, Size, Begin
  <2>3. \A v \in Writers : Chunk(v)' = Chunk(v) /\ ChunkBytes(v)' = ChunkBytes(v)
    BY <2>1, PieceStays
  <2>4. Fits => Fits'
    BY <2>1, <2>3 DEF Fits, Spots
  <2>5. TxTypes
    BY DEF TxInv
  <2>. QED BY <2>1, <2>2, <2>4, <2>5, LineStays
<1>2. ASSUME NEW w \in Writers, Step(w) \/ \E t \in Texts : stdio_write(w, t)
      PROVE  LineInv'
  BY <1>2, LineCalls, LineCopy, LineSend DEF Step
<1>3. CASE uart_write_task
  BY <1>3, LineTransmit, LineGate DEF uart_write_task
<1>4. CASE Hardware
  BY <1>4, LineByte, LineGate DEF Hardware
<1>. QED BY <1>1, <1>2, <1>3, <1>4 DEF Next

\* stdio_uart.c: the bytes on the line are those that the writers queued, each writer's
\* in its order, unless a piece was longer than a buffer; and a call of stdio_write that
\* reports success has queued its text, carriage returns included.
THEOREM TextsWhole ==
  ASSUME StdioTxAssumption
  PROVE  Spec => []Line
<1>. DEFINE IInv == TxInv /\ TextInv /\ LineInv
<1>1. IInv => Line
  BY TextDone DEF LineInv, Came, Line
<1>2. Init => IInv
  BY TxStarts, LineStarts
<1>3. IInv /\ [Next]_(vars) => IInv'
  BY TxSteps, TextSteps, LineSteps
<1>. HIDE DEF IInv
<1>. QED BY <1>1, <1>2, <1>3, PTL DEF Spec
=============================================================================
