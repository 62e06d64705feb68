----------------------------- MODULE Mtd_proofs -----------------------------
(***************************************************************************)
(* A memory device of any size moves the bytes it is told to move and no   *)
(* others, whichever commands to the card fail.  A byte of the device has  *)
(* a number, Linear counts them, and the invariant says of every place of  *)
(* a call which numbers it is done with.  The later sections are about     *)
(* what MCDevices puts beside the device: the command line, and the        *)
(* functions that tidy a path, which are loops over a sequence; each has   *)
(* an invariant in the characters it has read, which an induction over     *)
(* sequences carries to the end of the path.                               *)
(***************************************************************************)
EXTENDS MCDevices, SequenceTheorems, WellFoundedInduction, TLAPS

-----------------------------------------------------------------------------
(* The invariant.                                                          *)

Busy == pc \notin {"idle", "assert", "done"}
Done == pc = "done" /\ ret = "ok" /\ call.len > 0
Straight == {"read", "read_page", "write_page_raw"}
Sectors == {"write_sector", "erase_sector"}

Types ==
  /\ flash \in [Pages -> [InPage -> Byte]] /\ before \in [Pages -> [InPage -> Byte]]
  /\ work \in [InPage -> Byte] /\ buf \in [1..MaxLen -> Byte]
  /\ pc \in {"idle", "read", "write", "erase", "sector", "assert", "done"}
  /\ ret \in {"none", "ok", "eio", "overflow"}
  /\ loop \in [page : Nat, off : InPage, left : Nat, at : Nat, mem : {"user", "work"}]
  /\ sector \in [n : Nat, off : Nat, left : Nat, at : Nat]
  /\ call \in [op : AllOps \cup {"none"}, page : 0..(W - 1), off : 0..(W - 1), len : 0..MaxLen]

\* Where a call is, and that what it asks for lies on the device, unless it is one of
\* those that out_of_bounds does not see.
CallInv ==
  /\ pc = "read" => call.op \in {"read", "read_page", "write_page"}
  /\ pc = "write" => call.op \in {"write_page_raw", "write_page", "write_sector"}
  /\ pc = "erase" => call.op \in {"write_page"} \cup Sectors
  /\ pc = "sector" => call.op = "write_page"
  /\ Busy => \/ Start + call.len <= N * P
             \/ /\ call.op \in Straight
                /\ call.off + call.len > W \/ First > W - MaxLen

\* What the loop over pages still has to move, and where from.
LoopInv ==
  pc \in {"read", "write"} =>
    /\ loop.left > 0
    /\ call.op # "write_page" =>
         /\ loop.mem = "user" /\ loop.page * P + loop.off = Start + loop.at
         /\ loop.at + loop.left = call.len
         /\ call.op = "read" => loop.at = 0 /\ loop.off = call.off % P
    /\ call.op = "write_page" =>
         /\ loop.page = sector.n /\ loop.off = 0 /\ loop.left = P
         /\ pc = "read" => loop.mem = "work"
         /\ loop.mem = "work" => loop.at = 0
         /\ loop.mem = "user" =>
              loop.at = sector.at /\ sector.off = 0 /\ sector.left >= P

\* What the loop over sectors still has to write, and that of the erasure to erase.
Merged == \A i \in 0..(Least(sector.left, P - sector.off) - 1) :
            work[sector.off + i] = buf[sector.at + i + 1]
SectorInv ==
  /\ Busy /\ call.op = "write_page" =>
       /\ sector.at + sector.left = call.len /\ (sector.at > 0 => sector.off = 0)
       /\ sector.left > 0 => sector.off < P /\ sector.n * P + sector.off = Start + sector.at
       /\ pc # "sector" => sector.left > 0
       /\ pc = "write" /\ loop.mem = "work" => Merged
  /\ pc = "erase" /\ call.op \in Sectors =>
       /\ call.off = 0 /\ call.page <= sector.n
       /\ \E k \in 1..N : sector.left = k * P /\ (sector.n + k) * P = Start + call.len
       /\ call.len > 0

\* The bytes that have been moved.
Equal(n) == \A i \in 0..(n - 1) : Linear(flash, Start + i) = buf[i + 1]
MovedInv ==
  /\ (pc \in {"read", "write"} \/ Done) /\ call.op \notin {"write_page", "erase_sector"} =>
       Equal(loop.at) /\ (Done => loop.at = call.len)
  /\ (Busy \/ Done) /\ call.op = "write_page" =>
       Equal(sector.at) /\ (Done => sector.at = call.len)
  /\ Done => Start + call.len <= N * P
  /\ pc = "done" /\ ret = "overflow" =>
       \/ call.page * P + call.off + call.len > N * P
       \/ call.len = 0
       \/ call.op = "read" /\ (call.off % P) + call.len > P

IInv == Types /\ CallInv /\ LoopInv /\ SectorInv /\ MovedInv /\ OthersKept
-----------------------------------------------------------------------------
(* Numbers of bytes.                                                       *)

LEMMA Sizes == N \in Nat /\ N > 0 /\ P \in Nat /\ P > 1 /\ MaxLen \in Nat /\ MaxLen > 0
               /\ W \in Nat /\ W > N + P + MaxLen /\ Zero \in Byte
BY MtdAssumption DEF MtdAssumption

\* Every number has its page and its place there.
LEMMA Divides ==
  ASSUME NEW a \in Nat
  PROVE  /\ a \div P \in Nat /\ a % P \in InPage
         /\ a = (a \div P) * P + (a % P)
BY Sizes DEF InPage

\* The order of numbers is that of their pages.
LEMMA PageOrder ==
  ASSUME NEW p \in Nat, NEW q \in Nat, p < q
  PROVE  p * P + P <= q * P
<1>1. q * P - p * P = (q - p) * P
  BY Sizes
<1>2. q - p \in Nat /\ q - p >= 1
  OBVIOUS
<1>3. (q - p) * P >= P
  <2>. DEFINE d == q - p
  <2>1. d \in Nat /\ d >= 1
    BY <1>2
  <2>. HIDE DEF d
  <2>2. d * P = (d - 1) * P + P
    BY <2>1, Sizes
  <2>3. (d - 1) * P >= 0
    BY <2>1, Sizes
  <2>4. d * P >= P
    BY <2>1, <2>2, <2>3, Sizes
  <2>. QED BY <2>4 DEF d
<1>4. p * P \in Nat /\ q * P \in Nat
  BY Sizes
<1>. QED BY <1>1, <1>3, <1>4, Sizes

\* And there is one.
LEMMA Divided ==
  ASSUME NEW q \in Nat, NEW r \in InPage
  PROVE  (q * P + r) \div P = q /\ (q * P + r) % P = r
<1>. DEFINE a == q * P + r
            d == a \div P
<1>1. q * P \in Nat /\ r \in Nat /\ r < P /\ a \in Nat
  BY Sizes DEF InPage
<1>2. d \in Nat /\ a % P \in InPage /\ a = d * P + (a % P)
  BY <1>1, Divides
<1>3. d * P \in Nat /\ a % P \in Nat /\ a % P < P
  BY <1>2, Sizes DEF InPage
<1>4. ~(d < q)
  BY <1>1, <1>2, <1>3, PageOrder, Sizes
<1>5. ~(q < d)
  BY <1>1, <1>2, <1>3, PageOrder, Sizes
<1>6. d = q
  BY <1>2, <1>4, <1>5
<1>. HIDE DEF d
<1>7. a % P = r
  BY <1>1, <1>2, <1>3, <1>6
<1>. QED BY <1>6, <1>7 DEF d

\* What lies on the device.
LEMMA OnDevice ==
  ASSUME NEW p \in Nat, NEW r \in InPage
  PROVE  p * P + r < N * P <=> p \in Pages
<1>1. p * P \in Nat /\ N * P \in Nat /\ r \in Nat /\ r < P
  BY Sizes DEF InPage
<1>2. CASE p < N
  <2>1. p * P + P <= N * P
    BY <1>2, PageOrder, Sizes
  <2>. QED BY <1>1, <1>2, <2>1, Sizes DEF Pages
<1>3. CASE N = p
  BY <1>1, <1>3, Sizes DEF Pages
<1>4. CASE N < p
  <2>1. N * P + P <= p * P
    BY <1>4, PageOrder, Sizes
  <2>. QED BY <1>1, <1>4, <2>1, Sizes DEF Pages
<1>. QED BY <1>2, <1>3, <1>4, Sizes

LEMMA ByteOf ==
  ASSUME NEW i \in Bytes
  PROVE  i \in Nat /\ i < N * P /\ i \div P \in Pages /\ i % P \in InPage
         /\ i = (i \div P) * P + (i % P)
<1>1. N * P \in Nat
  BY Sizes
<1>2. i \in Nat /\ i < N * P
  BY <1>1 DEF Bytes
<1>3. i \div P \in Nat /\ i % P \in InPage /\ i = (i \div P) * P + (i % P)
  BY <1>2, Divides
<1>. QED BY <1>2, <1>3, OnDevice

\* The byte i behind byte 0 of a page.
LEMMA AtLinear ==
  ASSUME NEW f, NEW p \in Nat, NEW i \in Nat
  PROVE  At(f, p, i) = Linear(f, p * P + i)
<1>. DEFINE d == i \div P
            r == i % P
<1>1. d \in Nat /\ r \in InPage /\ i = d * P + r
  BY Divides
<1>2. p + d \in Nat
  BY <1>1
<1>. HIDE DEF d, r
<1>3. (p + d) * P = p * P + d * P
  BY <1>1, Sizes
<1>4. p * P + i = (p + d) * P + r
  BY <1>1, <1>3, Sizes DEF InPage
<1>5. (p * P + i) \div P = p + d /\ (p * P + i) % P = r
  BY <1>1, <1>2, <1>4, Divided
<1>. QED BY <1>5 DEF At, Linear, d, r

LEMMA LinearType ==
  ASSUME NEW f \in [Pages -> [InPage -> Byte]], NEW i \in Bytes
  PROVE  Linear(f, i) \in Byte
BY ByteOf DEF Linear

\* The numbers of the bytes of some pages.
LEMMA PageRun ==
  ASSUME NEW p \in Nat, NEW r \in InPage, NEW q \in Nat, NEW n \in Nat
  PROVE  p \in q..(q + n - 1) <=> p * P + r \in (q * P)..(q * P + n * P - 1)
<1>1. p * P \in Nat /\ q * P \in Nat /\ n * P \in Nat /\ r \in Nat /\ r < P
  BY Sizes DEF InPage
<1>2. (q + n) * P = q * P + n * P
  BY Sizes
<1>3. p < q => p * P + P <= q * P
  BY PageOrder
<1>4. q < p => q * P + P <= p * P
  BY PageOrder
<1>5. p < q + n => p * P + P <= q * P + n * P
  BY <1>2, PageOrder
<1>6. q + n < p => q * P + n * P + P <= p * P
  BY <1>2, PageOrder
<1>7. q + n = p => q * P + n * P = p * P
  BY <1>2
<1>. DEFINE x == p * P
            y == q * P
            z == n * P
<1>8. x \in Nat /\ y \in Nat /\ z \in Nat
  BY <1>1
<1>9. /\ p < q => x + P <= y
      /\ q < p => y + P <= x
      /\ p < q + n => x + P <= y + z
      /\ q + n < p => y + z + P <= x
      /\ q + n = p => y + z = x
      /\ q = p => x = y
  BY <1>3, <1>4, <1>5, <1>6, <1>7
<1>. HIDE DEF x, y, z
<1>10. p \in q..(q + n - 1) <=> x + r \in y..(y + z - 1)
  <2>1. CASE p < q
    BY <1>1, <1>8, <1>9, <2>1, Sizes
  <2>2. CASE q <= p /\ p < q + n
    BY <1>1, <1>8, <1>9, <2>2, Sizes
  <2>3. CASE q + n <= p
    BY <1>1, <1>8, <1>9, <2>3, Sizes
  <2>4. p < q \/ (q <= p /\ p < q + n) \/ q + n <= p
    OBVIOUS
  <2>. QED BY <2>1, <2>2, <2>3, <2>4
<1>. QED BY <1>10 DEF x, y, z
-----------------------------------------------------------------------------
(* What a round of the driver moves.                                       *)

Place == loop.page * P + loop.off
From(i) == IF loop.mem = "user" THEN buf[loop.at + i + 1] ELSE work[loop.at + i]

LEMMA Fields ==
  ASSUME Types
  PROVE  /\ loop.page \in Nat /\ loop.off \in InPage /\ loop.off \in Nat /\ loop.off < P
         /\ loop.left \in Nat /\ loop.at \in Nat /\ loop.mem \in {"user", "work"}
         /\ sector.n \in Nat /\ sector.off \in Nat /\ sector.left \in Nat /\ sector.at \in Nat
         /\ call.op \in AllOps \cup {"none"} /\ call.page \in 0..(W - 1)
         /\ call.off \in 0..(W - 1) /\ call.len \in 0..MaxLen
         /\ First \in Nat /\ call.off % P \in Nat /\ Start \in Nat /\ Place \in Nat /\ N * P \in Nat
<1>1. /\ loop.page \in Nat /\ loop.off \in InPage
      /\ loop.left \in Nat /\ loop.at \in Nat /\ loop.mem \in {"user", "work"}
  BY DEF Types
<1>2. sector.n \in Nat /\ sector.off \in Nat /\ sector.left \in Nat /\ sector.at \in Nat
  BY DEF Types
<1>3. /\ call.op \in AllOps \cup {"none"} /\ call.page \in 0..(W - 1)
      /\ call.off \in 0..(W - 1) /\ call.len \in 0..MaxLen
  BY DEF Types
<1>4. loop.off \in Nat /\ loop.off < P
  BY <1>1, Sizes DEF InPage
<1>5. call.page \in Nat /\ call.off \in Nat
  BY <1>3, Sizes
<1>6. loop.page * P \in Nat /\ N * P \in Nat
  BY <1>1, <1>5, Sizes
<1>7. First \in Nat /\ call.off % P \in Nat /\ Start \in Nat
  <2>. DEFINE d == call.off \div P
  <2>1. d \in Nat /\ call.off % P \in Nat
    BY <1>5, Divides, Sizes DEF InPage
  <2>. HIDE DEF d
  <2>2. (call.page + d) % W \in Nat
    BY <1>5, <2>1, Sizes
  <2>3. First \in Nat
    BY <2>2 DEF First, d
  <2>. HIDE DEF First
  <2>4. First * P \in Nat
    BY <2>3, Sizes
  <2>. QED BY <2>1, <2>3, <2>4 DEF Start
<1>8. Place \in Nat
  BY <1>4, <1>6 DEF Place
<1>. QED BY <1>1, <1>2, <1>3, <1>4, <1>6, <1>7, <1>8

\* The sector of mtd_write_page lies on the device.
LEMMA SectorOn ==
  ASSUME Types, CallInv, SectorInv, Busy, call.op = "write_page", sector.left > 0
  PROVE  sector.n \in Pages /\ sector.n * P + P <= N * P
<1>1. sector.off < P /\ sector.n * P + sector.off = Start + sector.at
      /\ sector.at + sector.left = call.len
  BY DEF SectorInv
<1>2. Start + call.len <= N * P
  BY DEF CallInv, Straight
<1>3. sector.off \in InPage
  BY <1>1, Fields, Sizes DEF InPage
<1>4. sector.n * P + sector.off < N * P
  BY <1>1, <1>2, Fields, Sizes
<1>5. sector.n \in Pages
  BY <1>3, <1>4, OnDevice, Fields
<1>6. sector.n < N /\ sector.n \in Nat
  BY <1>5, Sizes DEF Pages
<1>. QED BY <1>5, <1>6, PageOrder, Sizes

\* Nor does the loop leave a buffer.
LEMMA Reach ==
  ASSUME Types, CallInv, LoopInv, SectorInv, pc \in {"read", "write"}
  PROVE  /\ loop.left > 0
         /\ loop.mem = "user" => loop.at + loop.left <= MaxLen
         /\ loop.mem = "work" => loop.at = 0 /\ loop.off = 0 /\ loop.left = P
<1>1. Busy /\ loop.left > 0
  BY DEF Busy, LoopInv
<1>2. CASE call.op # "write_page"
  <2>1. loop.mem = "user" /\ loop.at + loop.left = call.len
    BY <1>2 DEF LoopInv
  <2>. QED BY <1>1, <2>1, Fields, Sizes
<1>3. CASE call.op = "write_page"
  <2>1. /\ loop.page = sector.n /\ loop.off = 0 /\ loop.left = P
        /\ loop.mem = "work" => loop.at = 0
        /\ loop.mem = "user" => loop.at = sector.at /\ sector.left >= P
    BY <1>3 DEF LoopInv
  <2>2. sector.left > 0 /\ sector.at + sector.left = call.len
    BY <1>1, <1>3 DEF SectorInv
  <2>. QED BY <1>1, <2>1, <2>2, Fields, Sizes
<1>. QED BY <1>2, <1>3

\* Nor the device, if the call is on it.
LEMMA Inside ==
  ASSUME Types, CallInv, LoopInv, SectorInv, pc \in {"read", "write"}
  PROVE  \/ Place + loop.left <= N * P
         \/ call.off + call.len > W \/ First > W - MaxLen
<1>1. Busy /\ (Start + call.len <= N * P \/ call.off + call.len > W \/ First > W - MaxLen)
  BY DEF Busy, CallInv
<1>2. CASE call.op # "write_page"
  <2>1. Place = Start + loop.at /\ loop.at + loop.left = call.len
    BY <1>2 DEF LoopInv, Place
  <2>2. Place + loop.left = Start + call.len
    BY <2>1, Fields
  <2>. QED BY <1>1, <2>2
<1>3. CASE call.op = "write_page"
  <2>1. loop.page = sector.n /\ loop.off = 0 /\ loop.left = P
    BY <1>3 DEF LoopInv
  <2>2. sector.left > 0
    BY <1>1, <1>3 DEF SectorInv
  <2>3. sector.n * P + P <= N * P
    BY <1>1, <1>3, <2>2, SectorOn
  <2>. QED BY <2>1, <2>3, Fields, Sizes DEF Place
<1>. QED BY <1>2, <1>3

LEMMA SizeIs ==
  ASSUME Types, loop.left > 0
  PROVE  /\ Size(loop) \in Nat /\ Size(loop) > 0 /\ Size(loop) <= loop.left
         /\ Whole(loop) => loop.off = 0 /\ Size(loop) = loop.left
                           /\ loop.left \div P \in Nat /\ loop.left = (loop.left \div P) * P
         /\ ~Whole(loop) => loop.off + Size(loop) <= P
                            /\ (Size(loop) = loop.left \/ loop.off + Size(loop) = P)
<1>1. loop.left \div P \in Nat /\ loop.left = (loop.left \div P) * P + (loop.left % P)
  BY Fields, Divides
<1>2. CASE Whole(loop)
  <2>1. loop.off = 0 /\ loop.left % P = 0 /\ Size(loop) = loop.left
    BY <1>2 DEF Whole, Size
  <2>2. (loop.left \div P) * P \in Nat
    BY <1>1, Sizes
  <2>. QED BY <1>1, <1>2, <2>1, <2>2, Fields
<1>3. CASE ~Whole(loop)
  <2>1. Size(loop) = IF loop.left < P - loop.off THEN loop.left ELSE P - loop.off
    BY <1>3 DEF Size, Least
  <2>. QED BY <1>3, <2>1, Fields, Sizes
<1>. QED BY <1>2, <1>3

\* Less than a page from its start is one round, and so is a page.
LEMMA WholePage ==
  ASSUME loop.off = 0, loop.left = P
  PROVE  Whole(loop) /\ Size(loop) = P
<1>1. 1 \in Nat /\ 0 \in InPage /\ 1 * P + 0 = P
  BY Sizes DEF InPage
<1>2. P % P = 0
  BY <1>1, Divided
<1>. QED BY <1>2 DEF Whole, Size

\* A round of the loop for which the card has the blocks.
LEMMA OnCardIs ==
  ASSUME Types, loop.left > 0, OnCard(loop)
  PROVE  /\ Place + Size(loop) <= N * P
         /\ loop.page \in Pages
         /\ loop.page + ((loop.off + Size(loop)) \div P) \in 0..N
<1>. DEFINE K == Size(loop)
            M == loop.left \div P
<1>1. /\ K \in Nat /\ K > 0
      /\ Whole(loop) => loop.off = 0 /\ K = loop.left /\ M \in Nat /\ loop.left = M * P
      /\ ~Whole(loop) => loop.off + K <= P
  BY SizeIs
<1>2. /\ Whole(loop) => loop.page + M <= N
      /\ ~Whole(loop) => loop.page + 1 <= N
  BY DEF OnCard
<1>. HIDE DEF K, M
<1>3. Place + K <= N * P /\ loop.page + ((loop.off + K) \div P) \in 0..N
  <2>1. CASE Whole(loop)
    <3>1. loop.off + K = M * P + 0 /\ 0 \in InPage
      BY <1>1, <2>1, Fields, Sizes DEF InPage
    <3>2. (loop.off + K) \div P = M
      BY <1>1, <2>1, <3>1, Divided
    <3>3. (loop.page + M) * P = loop.page * P + M * P
      BY <1>1, <2>1, Fields, Sizes
    <3>4. loop.page + M = N \/ (loop.page + M) * P + P <= N * P
      <4>1. loop.page + M \in Nat /\ loop.page + M <= N
        BY <1>1, <1>2, <2>1, Fields
      <4>. QED BY <4>1, PageOrder, Sizes
    <3>5. (loop.page + M) * P <= N * P
      <4>1. loop.page + M \in Nat
        BY <1>1, <2>1, Fields
      <4>2. (loop.page + M) * P \in Nat
        BY <4>1, Sizes
      <4>. QED BY <3>4, <4>2, Fields, Sizes
    <3>. QED BY <1>1, <1>2, <2>1, <3>1, <3>2, <3>3, <3>5, Fields, Sizes DEF Place
  <2>2. CASE ~Whole(loop)
    <3>1. loop.page * P + P <= N * P
      BY <1>2, <2>2, PageOrder, Fields, Sizes
    <3>2. Place + K <= N * P
      BY <1>1, <2>2, <3>1, Fields, Sizes DEF Place
    <3>3. (loop.off + K) \div P \in {0, 1}
      <4>1. CASE loop.off + K = P
        <5>1. loop.off + K = 1 * P + 0 /\ 0 \in InPage
          BY <4>1, Sizes DEF InPage
        <5>2. (loop.off + K) \div P = 1
          BY <5>1, Divided
        <5>. QED BY <5>2
      <4>2. CASE loop.off + K # P
        <5>. DEFINE b == loop.off + K
        <5>1. b \in InPage
          BY <1>1, <2>2, <4>2, Fields, Sizes DEF InPage
        <5>. HIDE DEF b
        <5>2. b = 0 * P + b
          BY <5>1, Sizes DEF InPage
        <5>3. b \div P = 0
          BY <5>1, <5>2, Divided
        <5>. QED BY <5>3 DEF b
      <4>. QED BY <4>1, <4>2
    <3>. QED BY <1>2, <2>2, <3>2, <3>3, Fields, Sizes
  <2>. QED BY <2>1, <2>2
<1>4. loop.page * P + loop.off < N * P
  BY <1>1, <1>3, Fields DEF Place
<1>. QED BY <1>3, <1>4, OnDevice, Fields DEF K

\* The driver succeeds only with blocks that the card has.
LEMMA WrittenOnCard ==
  ASSUME Types, loop.left > 0, DriverWrite(TRUE)
  PROVE  OnCard(loop)
<1>. DEFINE M == Size(loop) \div P
<1>1. CASE Whole(loop)
  <2>1. PICK n \in 0..M : TRUE = (n = M) /\ (OnCard(loop) \/ n = 0)
    BY <1>1 DEF DriverWrite
  <2>2. M \in Nat /\ M # 0
    <3>1. M \in Nat /\ loop.left = M * P
      BY <1>1, SizeIs
    <3>. HIDE DEF M
    <3>2. 0 * P = 0
      BY Sizes
    <3>. QED BY <3>1, <3>2
  <2>. QED BY <2>1, <2>2
<1>2. CASE ~Whole(loop)
  BY <1>2 DEF DriverWrite
<1>. QED BY <1>1, <1>2

\* A round of the loop takes it on by the bytes it moves.
LEMMA MovedIs ==
  ASSUME Types, loop.left > 0, OnCard(loop)
  PROVE  LET k == Size(loop)
             l == Moved(loop, k)
         IN /\ l \in [page : Nat, off : InPage, left : Nat, at : Nat, mem : {"user", "work"}]
            /\ l.page * P + l.off = Place + k
            /\ l.left = loop.left - k /\ l.at = loop.at + k /\ l.mem = loop.mem
<1>. DEFINE k == Size(loop)
            b == loop.off + k
            d == b \div P
            r == b % P
<1>0. k \in Nat /\ k <= loop.left /\ loop.page + d \in 0..N
  BY SizeIs, OnCardIs
<1>1. b \in Nat
  BY <1>0, Fields
<1>2. d \in Nat /\ r \in InPage /\ b = d * P + r
  BY <1>1, Divides
<1>3. Moved(loop, k) = [page |-> (loop.page + d) % W, off |-> r, left |-> loop.left - k,
                        at |-> loop.at + k, mem |-> loop.mem]
  BY DEF Moved, Loop
<1>. HIDE DEF d, r, k
<1>4. (loop.page + d) % W = loop.page + d
  <2>1. loop.page + d \in Nat /\ loop.page + d < W
    BY <1>0, Sizes
  <2>. QED BY <2>1, Sizes
<1>5. (loop.page + d) * P = loop.page * P + d * P /\ loop.page * P \in Nat /\ d * P \in Nat
  BY <1>2, Fields, Sizes
<1>6. (loop.page + d) * P + r = Place + k
  <2>1. r \in Nat /\ loop.off \in Nat /\ k \in Nat
    BY <1>0, <1>2, Fields, Sizes DEF InPage
  <2>2. loop.off + k = d * P + r
    BY <1>2
  <2>. QED BY <1>5, <2>1, <2>2 DEF Place
<1>7. loop.page + d \in Nat /\ loop.left - k \in Nat /\ loop.at + k \in Nat
  BY <1>0, <1>2, Fields
<1>8. /\ Moved(loop, k) \in
           [page : Nat, off : InPage, left : Nat, at : Nat, mem : {"user", "work"}]
      /\ Moved(loop, k).page * P + Moved(loop, k).off = Place + k
      /\ Moved(loop, k).left = loop.left - k /\ Moved(loop, k).at = loop.at + k
      /\ Moved(loop, k).mem = loop.mem
  BY <1>2, <1>3, <1>4, <1>6, <1>7, Fields
<1>. QED BY <1>8 DEF k

\* mtd_sdcard_write_page: the bytes it is told, if it succeeds, and no others.
LEMMA WriteMoves ==
  ASSUME Types, CallInv, LoopInv, SectorInv, pc = "write",
         NEW ok \in BOOLEAN, DriverWrite(ok)
  PROVE  /\ flash' \in [Pages -> [InPage -> Byte]] /\ work' \in [InPage -> Byte]
         /\ \A i \in Bytes : i \notin Place..(Place + Size(loop) - 1) =>
              Linear(flash', i) = Linear(flash, i)
         /\ ok => \A i \in 0..(Size(loop) - 1) : Linear(flash', Place + i) = From(i)
<1>. DEFINE K == Size(loop)
<1>1. /\ loop.left > 0
      /\ loop.mem = "user" => loop.at + loop.left <= MaxLen
      /\ loop.mem = "work" => loop.at = 0 /\ loop.off = 0 /\ loop.left = P
  BY Reach
<1>2. K \in Nat /\ K > 0 /\ K <= loop.left
  BY <1>1, SizeIs
<1>9. OnCard(loop) => Place + K <= N * P /\ loop.page \in Pages
  BY <1>1, OnCardIs
<1>. HIDE DEF K
<1>3. ASSUME NEW i \in Nat, i < loop.left
      PROVE  From(i) \in Byte
  <2>1. CASE loop.mem = "user"
    <3>1. loop.at + i + 1 \in 1..MaxLen
      BY <1>1, <1>3, <2>1, Fields, Sizes
    <3>. QED BY <2>1, <3>1 DEF From, Types
  <2>2. CASE loop.mem = "work"
    <3>1. loop.at + i \in InPage
      BY <1>1, <1>3, <2>2, Fields, Sizes DEF InPage
    <3>. QED BY <2>2, <3>1 DEF From, Types
  <2>. QED BY <2>1, <2>2, Fields
<1>4. CASE Whole(loop) /\ OnCard(loop)
  <2>. DEFINE M == loop.left \div P
  <2>1. /\ loop.off = 0 /\ K = loop.left /\ M \in Nat /\ loop.left = M * P
        /\ Place = loop.page * P
    BY <1>1, <1>4, SizeIs, Fields, Sizes DEF K, Place
  <2>2. PICK n \in 0..M :
          /\ ok = (n = M)
          /\ flash' = [p \in Pages |->
               IF p \in loop.page..(loop.page + n - 1)
                 THEN [i \in InPage |-> From((p - loop.page) * P + i)] ELSE flash[p]]
          /\ UNCHANGED work
    BY <1>4, <2>1 DEF DriverWrite, From, K
  <2>. HIDE DEF M
  <2>3. n \in Nat /\ n <= M /\ n * P \in Nat /\ n * P <= loop.left
    <3>1. n \in Nat /\ n <= M
      BY <2>1, <2>2
    <3>2. n < M => n * P + P <= M * P
      BY <2>1, <3>1, PageOrder
    <3>3. n * P \in Nat
      BY <3>1, Sizes
    <3>. QED BY <2>1, <3>1, <3>2, <3>3, Sizes
  \* Byte r of page p is one of those that are written.
  <2>4. ASSUME NEW p \in Nat, NEW r \in InPage,
               p * P + r \in Place..(Place + n * P - 1)
        PROVE  /\ p \in loop.page..(loop.page + n - 1)
               /\ (p - loop.page) * P + r \in Nat /\ (p - loop.page) * P + r < n * P
               /\ Place + ((p - loop.page) * P + r) = p * P + r
    <3>1. p \in loop.page..(loop.page + n - 1)
      BY <2>1, <2>3, <2>4, PageRun, Fields
    <3>2. (p - loop.page) * P = p * P - loop.page * P
      BY Fields, Sizes
    <3>3. p * P \in Nat /\ loop.page * P \in Nat /\ r \in Nat
      BY Fields, Sizes DEF InPage
    <3>. QED BY <2>1, <2>3, <2>4, <3>1, <3>2, <3>3
  <2>5. ASSUME NEW p \in Pages, NEW r \in InPage
        PROVE  flash'[p][r] = IF p * P + r \in Place..(Place + n * P - 1)
                                THEN From((p - loop.page) * P + r) ELSE flash[p][r]
    <3>1. p \in Nat
      BY Sizes DEF Pages
    <3>2. p \in loop.page..(loop.page + n - 1) <=> p * P + r \in Place..(Place + n * P - 1)
      BY <2>1, <2>3, <3>1, PageRun, Fields
    <3>. QED BY <2>2, <3>2
  <2>6. flash' \in [Pages -> [InPage -> Byte]]
    <3>1. ASSUME NEW p \in Pages, p \in loop.page..(loop.page + n - 1), NEW r \in InPage
          PROVE  From((p - loop.page) * P + r) \in Byte
      <4>1. p \in Nat
        BY Sizes DEF Pages
      <4>2. p * P + r \in Place..(Place + n * P - 1)
        BY <2>1, <2>3, <3>1, <4>1, PageRun, Fields
      <4>. QED BY <1>3, <2>3, <2>4, <4>1, <4>2, Fields
    <3>2. ASSUME NEW p \in Pages
          PROVE  flash'[p] \in [InPage -> Byte]
      <4>1. CASE p \in loop.page..(loop.page + n - 1)
        BY <2>2, <3>1, <4>1
      <4>2. CASE p \notin loop.page..(loop.page + n - 1)
        BY <2>2, <4>2 DEF Types
      <4>. QED BY <4>1, <4>2
    <3>3. flash' = [p \in Pages |-> flash'[p]]
      BY <2>2
    <3>. QED BY <3>2, <3>3
  <2>7. ASSUME NEW i \in Bytes, i \notin Place..(Place + K - 1)
        PROVE  Linear(flash', i) = Linear(flash, i)
    <3>1. i \div P \in Pages /\ i % P \in InPage /\ i = (i \div P) * P + (i % P) /\ i \in Nat
      BY ByteOf
    <3>2. i \notin Place..(Place + n * P - 1)
      BY <2>1, <2>3, <2>7, <3>1, Fields
    <3>. QED BY <2>5, <3>1, <3>2 DEF Linear
  <2>8. ASSUME ok, NEW i \in 0..(K - 1)
        PROVE  Linear(flash', Place + i) = From(i)
    <3>. DEFINE b == Place + i
    <3>0. n = M
      BY <2>2, <2>8
    <3>1. i \in Nat /\ i < K /\ n * P = K
      BY <1>2, <2>1, <2>8, <3>0
    <3>. HIDE DEF b
    <3>9. b \in Nat /\ b < N * P /\ b - Place = i /\ Place <= b
      BY <1>2, <1>4, <1>9, <3>1, Fields DEF b
    <3>. HIDE DEF b
    <3>2. b \in Bytes
      BY <3>9, Fields DEF Bytes
    <3>3. b \div P \in Pages /\ b % P \in InPage /\ b = (b \div P) * P + (b % P)
      BY <3>2, ByteOf
    <3>4. b \div P \in Nat
      BY <3>3, Sizes DEF Pages
    <3>5. b \in Place..(Place + n * P - 1) /\ b - Place = i
      BY <1>2, <3>1, <3>9, Fields
    <3>6. (b \div P - loop.page) * P + (b % P) = i
      <4>1. Place + ((b \div P - loop.page) * P + (b % P)) = b
            /\ (b \div P - loop.page) * P + (b % P) \in Nat
        BY <2>4, <3>3, <3>4, <3>5
      <4>. QED BY <3>5, <4>1, Fields
    <3>7. Linear(flash', b) = From(i)
      BY <2>5, <3>3, <3>5, <3>6 DEF Linear
    <3>. QED BY <3>7 DEF b
  <2>9. work' \in [InPage -> Byte]
    BY <2>2 DEF Types
  <2>. QED BY <2>6, <2>7, <2>8, <2>9 DEF K
<1>5. CASE ~Whole(loop) /\ OnCard(loop)
  <2>. DEFINE add == [i \in InPage |->
                  IF i \in loop.off..(loop.off + K - 1) THEN From(i - loop.off)
                  ELSE flash[loop.page][i]]
  <2>1. loop.off + K <= P
    BY <1>1, <1>5, SizeIs DEF K
  <2>2. loop.page \in Pages
    BY <1>5, <1>9
  <2>3. flash[loop.page] \in [InPage -> Byte]
    BY <2>2 DEF Types
  <2>4. CASE ok
    <3>1. work' = add /\ flash' = [flash EXCEPT ![loop.page] = add]
      BY <1>5, <2>4 DEF DriverWrite, From, K
    <3>2. ASSUME NEW i \in InPage
          PROVE  add[i] \in Byte
      <4>1. CASE i \in loop.off..(loop.off + K - 1)
        <5>1. i - loop.off \in Nat /\ i - loop.off < loop.left
          BY <1>2, <4>1, Fields
        <5>. QED BY <1>3, <4>1, <5>1
      <4>2. CASE i \notin loop.off..(loop.off + K - 1)
        BY <2>3, <4>2
      <4>. QED BY <4>1, <4>2
    <3>. HIDE DEF add
    <3>3. add \in [InPage -> Byte]
      BY <3>2 DEF add
    <3>4. flash' \in [Pages -> [InPage -> Byte]]
      BY <3>1, <3>3 DEF Types
    <3>5. ASSUME NEW i \in Bytes, i \notin Place..(Place + K - 1)
          PROVE  Linear(flash', i) = Linear(flash, i)
      <4>. DEFINE p == i \div P
                  r == i % P
      <4>1. p \in Pages /\ r \in InPage /\ i = p * P + r /\ i \in Nat
        BY ByteOf
      <4>. HIDE DEF p, r
      <4>2. r \in Nat
        BY <4>1, Sizes DEF InPage
      <4>3. CASE p = loop.page
        <5>1. r \notin loop.off..(loop.off + K - 1)
          BY <1>2, <3>5, <4>1, <4>2, <4>3, Fields, Sizes DEF Place
        <5>2. add[r] = flash[loop.page][r]
          BY <4>1, <5>1 DEF add
        <5>3. flash'[p][r] = flash[p][r]
          BY <3>1, <4>1, <4>3, <5>2 DEF Types
        <5>. QED BY <5>3 DEF Linear, p, r
      <4>4. CASE p # loop.page
        <5>1. flash'[p][r] = flash[p][r]
          BY <3>1, <4>1, <4>4 DEF Types
        <5>. QED BY <5>1 DEF Linear, p, r
      <4>. QED BY <4>3, <4>4
    <3>6. ASSUME NEW i \in 0..(K - 1)
          PROVE  Linear(flash', Place + i) = From(i)
      <4>. DEFINE r == loop.off + i
      <4>1. i \in Nat /\ r \in InPage /\ r - loop.off = i /\ r \in loop.off..(loop.off + K - 1)
        BY <1>2, <2>1, <3>6, Fields, Sizes DEF InPage
      <4>2. Place + i = loop.page * P + r
        BY <4>1, Fields, Sizes DEF Place
      <4>. HIDE DEF r
      <4>3. (Place + i) \div P = loop.page /\ (Place + i) % P = r
        BY <4>1, <4>2, Divided, Fields
      <4>4. flash'[loop.page][r] = From(i)
        <5>1. add[r] = From(i)
          BY <4>1 DEF add
        <5>. QED BY <2>2, <3>1, <5>1 DEF Types
      <4>. QED BY <4>3, <4>4 DEF Linear
    <3>. QED BY <3>1, <3>3, <3>4, <3>5, <3>6 DEF K
  <2>5. CASE ~ok
    <3>1. work' \in {work, flash[loop.page]} /\ flash' = flash
      BY <1>5, <2>5 DEF DriverWrite
    <3>. QED BY <2>3, <2>5, <3>1 DEF Types
  <2>. QED BY <2>4, <2>5
<1>6. CASE ~OnCard(loop)
  <2>1. ~ok /\ flash' = flash /\ work' = work
    <3>1. CASE Whole(loop)
      <4>. DEFINE M == K \div P
      <4>1. PICK n \in 0..M :
              /\ ok = (n = M) /\ (OnCard(loop) \/ n = 0)
              /\ flash' = [p \in Pages |->
                   IF p \in loop.page..(loop.page + n - 1)
                     THEN [i \in InPage |-> From((p - loop.page) * P + i)] ELSE flash[p]]
              /\ UNCHANGED work
        BY <3>1 DEF DriverWrite, From, K
      <4>6. n = 0
        BY <1>6, <4>1
      <4>2. \A p \in Pages : p \notin loop.page..(loop.page + n - 1)
        BY <4>6, Fields, Sizes DEF Pages
      <4>3. M \in Nat /\ K = M * P
        BY <1>1, <3>1, SizeIs DEF K
      <4>. HIDE DEF M
      <4>4. M # 0
        BY <1>2, <4>3, Sizes
      <4>5. flash' = [p \in Pages |-> flash[p]]
        BY <4>1, <4>2
      <4>. QED BY <4>1, <4>4, <4>5, <4>6 DEF Types
    <3>2. CASE ~Whole(loop)
      BY <1>6, <3>2 DEF DriverWrite
    <3>. QED BY <3>1, <3>2
  <2>. QED BY <2>1 DEF Types, Linear
<1>. QED BY <1>4, <1>5, <1>6

\* mtd_sdcard_read_page: the bytes it is told, if it succeeds.
LEMMA ReadMoves ==
  ASSUME Types, CallInv, LoopInv, SectorInv, pc = "read",
         NEW ok \in BOOLEAN, DriverRead(ok)
  PROVE  /\ buf' \in [1..MaxLen -> Byte] /\ work' \in [InPage -> Byte]
         /\ ok /\ loop.mem = "user" =>
              /\ \A i \in 0..(Size(loop) - 1) : buf'[loop.at + i + 1] = Linear(flash, Place + i)
              /\ \A i \in 1..loop.at : buf'[i] = buf[i]
         /\ loop.mem = "work" \/ ~ok => buf' = buf
<1>. DEFINE K == Size(loop)
            byte(i) == At(flash, loop.page, loop.off + i)
<1>1. /\ loop.left > 0
      /\ loop.mem = "user" => loop.at + loop.left <= MaxLen
      /\ loop.mem = "work" => loop.at = 0 /\ loop.off = 0 /\ loop.left = P
  BY Reach
<1>2. K \in Nat /\ K > 0 /\ K <= loop.left
  BY <1>1, SizeIs
<1>9. ok => Place + K <= N * P /\ loop.page \in Pages
  BY <1>1, OnCardIs DEF DriverRead
<1>3. ASSUME ok, NEW i \in Nat, i < K
      PROVE  byte(i) = Linear(flash, Place + i) /\ byte(i) \in Byte
  <2>1. loop.off + i \in Nat /\ loop.page * P \in Nat
    BY Fields, Sizes
  <2>2. loop.page * P + (loop.off + i) = Place + i
    BY <2>1, Fields, Sizes DEF Place
  <2>3. Place + i \in Bytes
    <3>. HIDE DEF K
    <3>. QED BY <1>2, <1>3, <1>9, Fields DEF Bytes
  <2>4. byte(i) = Linear(flash, Place + i)
    BY <2>1, <2>2, AtLinear, Fields
  <2>. QED BY <2>3, <2>4, LinearType DEF Types
<1>4. ok => flash[loop.page] \in [InPage -> Byte]
  BY <1>9 DEF Types
<1>. HIDE DEF K
<1>5. work' \in [InPage -> Byte]
  <2>1. CASE loop.mem = "work" /\ ok
    <3>0. K = P
      BY <1>1, <2>1, WholePage DEF K
    <3>1. ASSUME NEW i \in InPage
          PROVE  byte(i) \in Byte
      <4>1. i \in Nat /\ i < K
        BY <3>0, Sizes DEF InPage
      <4>. QED BY <1>3, <2>1, <4>1
    <3>2. [i \in InPage |-> byte(i)] \in [InPage -> Byte]
      BY <3>1
    <3>3. work' \in {flash[loop.page], [i \in InPage |-> byte(i)], work}
      BY DEF DriverRead
    <3>. QED BY <1>4, <2>1, <3>2, <3>3 DEF Types
  <2>2. CASE ~(loop.mem = "work" /\ ok)
    BY <1>4, <2>2 DEF DriverRead, Types
  <2>. QED BY <2>1, <2>2
<1>6. CASE ok /\ loop.mem = "user"
  <2>1. buf' = [i \in 1..MaxLen |-> IF i \in (loop.at + 1)..(loop.at + K)
                                      THEN byte(i - loop.at - 1) ELSE buf[i]]
    BY <1>6 DEF DriverRead, K
  <2>2. ASSUME NEW i \in 1..MaxLen
        PROVE  buf'[i] \in Byte
    <3>1. CASE i \in (loop.at + 1)..(loop.at + K)
      <4>1. i - loop.at - 1 \in Nat /\ i - loop.at - 1 < K
        BY <1>2, <3>1, Fields
      <4>2. buf'[i] = byte(i - loop.at - 1)
        BY <2>1, <3>1
      <4>. QED BY <1>3, <1>6, <4>1, <4>2
    <3>2. CASE i \notin (loop.at + 1)..(loop.at + K)
      BY <2>1, <3>2 DEF Types
    <3>. QED BY <3>1, <3>2
  <2>3. ASSUME NEW i \in 0..(K - 1)
        PROVE  buf'[loop.at + i + 1] = Linear(flash, Place + i)
    <3>. DEFINE j == loop.at + i + 1
    <3>1. /\ j \in 1..MaxLen /\ j \in (loop.at + 1)..(loop.at + K) /\ j - loop.at - 1 = i
          /\ i \in Nat /\ i < K
      BY <1>1, <1>2, <1>6, <2>3, Fields, Sizes
    <3>. HIDE DEF j
    <3>2. buf'[j] = byte(i)
      BY <2>1, <3>1
    <3>3. buf'[j] = Linear(flash, Place + i)
      BY <1>3, <1>6, <3>1, <3>2
    <3>. QED BY <3>3 DEF j
  <2>4. ASSUME NEW i \in 1..loop.at
        PROVE  buf'[i] = buf[i]
    <3>1. i \in 1..MaxLen /\ i \notin (loop.at + 1)..(loop.at + K)
      BY <1>1, <1>6, <2>4, Fields, Sizes
    <3>. QED BY <2>1, <3>1
  <2>5. buf' \in [1..MaxLen -> Byte]
    BY <2>1, <2>2
  <2>. QED BY <1>5, <1>6, <2>3, <2>4, <2>5 DEF K
<1>7. CASE ~(ok /\ loop.mem = "user")
  <2>1. buf' = buf
    BY <1>7 DEF DriverRead
  <2>. QED BY <1>5, <1>7, <2>1 DEF Types
<1>. QED BY <1>6, <1>7
-----------------------------------------------------------------------------
(* The calls begin.                                                        *)

LEMMA Nought == 0 \div P = 0 /\ 0 % P = 0
<1>1. 0 \in Nat /\ 0 \in InPage /\ 0 * P + 0 = 0
  BY Sizes DEF InPage
<1>. QED BY <1>1, Divided

\* A loop from a page's start.
LEMMA LoopAtPage ==
  ASSUME NEW page \in Nat, page < W, NEW left, NEW at, NEW mem
  PROVE  Loop(page, 0, left, at, mem)
           = [page |-> page, off |-> 0, left |-> left, at |-> at, mem |-> mem]
<1>1. (page + 0) % W = page
  BY Sizes
<1>. QED BY <1>1, Nought DEF Loop

\* The page and the place in it at which a call begins.
LEMMA FirstIs ==
  ASSUME NEW page \in 0..(W - 1), NEW off \in Nat
  PROVE  /\ (page + off \div P) % W \in Nat /\ off % P \in InPage
         /\ off < P => (page + off \div P) % W = page /\ off % P = off
<1>. DEFINE d == off \div P
<1>1. d \in Nat /\ off % P \in InPage /\ off = d * P + (off % P)
  BY Divides
<1>2. page \in Nat /\ page < W
  BY Sizes
<1>. HIDE DEF d
<1>3. (page + d) % W \in Nat
  BY <1>1, <1>2, Sizes
<1>4. ASSUME off < P
      PROVE  d = 0 /\ off % P = off
  <2>1. off \in InPage /\ 0 * P + off = off /\ 0 \in Nat
    BY <1>4, Sizes DEF InPage
  <2>. QED BY <2>1, Divided DEF d
<1>5. off < P => (page + d) % W = page
  BY <1>2, <1>4, Sizes
<1>. QED BY <1>1, <1>3, <1>4, <1>5 DEF d

LEMMA LoopIs ==
  ASSUME NEW page \in 0..(W - 1), NEW off \in Nat, NEW left \in Nat
  PROVE  LET l == Loop(page, off, left, 0, "user")
         IN /\ l \in [page : Nat, off : InPage, left : Nat, at : Nat, mem : {"user", "work"}]
            /\ l.page = (page + off \div P) % W
            /\ l.left = left /\ l.at = 0 /\ l.mem = "user" /\ l.off = off % P
<1>. DEFINE f == (page + off \div P) % W
            r == off % P
<1>1. f \in Nat /\ r \in InPage
  BY FirstIs
<1>2. Loop(page, off, left, 0, "user")
        = [page |-> f, off |-> r, left |-> left, at |-> 0, mem |-> "user"]
  BY DEF Loop
<1>. HIDE DEF f, r
<1>3. LET l == Loop(page, off, left, 0, "user")
      IN /\ l \in [page : Nat, off : InPage, left : Nat, at : Nat, mem : {"user", "work"}]
         /\ l.page = f
         /\ l.left = left /\ l.at = 0 /\ l.mem = "user" /\ l.off = r
  BY <1>1, <1>2
<1>. QED BY <1>3 DEF f, r

\* What the test refuses leaves the device.
LEMMA Refuses ==
  ASSUME NEW page \in 0..(W - 1), NEW off \in Nat, NEW len \in Nat \ {0},
         out_of_bounds(page, off, len) \/ page >= N
  PROVE  page * P + off + len > N * P
<1>. DEFINE b == off + len - 1
            c == b % W
            d == c \div P
<1>0. page \in Nat /\ page * P \in Nat /\ N * P \in Nat
  BY Sizes
<1>1. b \in Nat /\ off + len = b + 1
  OBVIOUS
<1>2. c \in Nat /\ c <= b
  <2>. HIDE DEF b
  <2>. QED BY <1>1, Sizes
<1>3. d \in Nat /\ c % P \in InPage /\ c = d * P + (c % P)
  <2>. HIDE DEF c
  <2>. QED BY <1>2, Divides
<1>4. CASE page >= N
  <2>1. N = page \/ N * P + P <= page * P
    BY <1>0, <1>4, PageOrder, Sizes
  <2>. HIDE DEF b
  <2>. QED BY <1>0, <1>1, <2>1, Sizes
<1>5. CASE out_of_bounds(page, off, len)
  <2>1. (page + d) % W >= N
    BY <1>5 DEF out_of_bounds
  <2>. HIDE DEF b, c, d
  <2>2. (page + d) % W <= page + d
    BY <1>0, <1>3, Sizes
  <2>3. page + d \in Nat /\ page + d >= N
    BY <1>0, <1>3, <2>1, <2>2, Sizes
  <2>4. (page + d) * P = page * P + d * P /\ d * P \in Nat
    BY <1>0, <1>3, Sizes
  <2>5. N = page + d \/ N * P + P <= (page + d) * P
    BY <2>3, PageOrder, Sizes
  <2>6. N * P <= (page + d) * P
    BY <1>0, <2>4, <2>5, Sizes
  <2>7. c % P \in Nat
    BY <1>3, Sizes DEF InPage
  <2>. QED BY <1>0, <1>1, <1>2, <1>3, <2>4, <2>6, <2>7
<1>. QED BY <1>4, <1>5

\* A sum below 2W that, modulo W, is below N.
LEMMA Wraps ==
  ASSUME NEW y \in Nat, NEW e \in Nat, y + e < 2 * W, e < MaxLen, (y + e) % W < N
  PROVE  (y % W) + e < N \/ y % W > W - MaxLen
<1>1. W \in Nat /\ N \in Nat /\ MaxLen \in Nat /\ W > N + MaxLen /\ W > 0
  BY Sizes
<1>2. CASE y + e < W
  <2>1. (y + e) % W = y + e /\ y % W = y
    BY <1>1, <1>2
  <2>. QED BY <2>1
<1>3. CASE y < W /\ W <= y + e
  <2>1. y % W = y
    BY <1>1, <1>3
  <2>. QED BY <1>1, <1>3, <2>1
<1>4. CASE W <= y
  <2>1. y % W = y - W /\ (y + e) % W = y + e - W
    <3>. DEFINE a == y - W
                b == y + e - W
    <3>1. a \in Nat /\ b \in Nat /\ a < W /\ b < W /\ y = a + W /\ y + e = b + W
      BY <1>1, <1>4
    <3>. HIDE DEF a, b
    <3>2. (a + W) % W = a /\ (b + W) % W = b
      BY <1>1, <3>1
    <3>3. y % W = a /\ (y + e) % W = b
      BY <3>1, <3>2
    <3>. QED BY <3>3 DEF a, b
  <2>. QED BY <1>1, <1>4, <2>1
<1>. QED BY <1>1, <1>2, <1>3, <1>4

\* What the test lets through lies on the device, or one of its sums has wrapped.
LEMMA LetsThrough ==
  ASSUME NEW page \in 0..(W - 1), NEW off \in 0..(W - 1), NEW len \in 1..MaxLen,
         ~out_of_bounds(page, off, len)
  PROVE  \/ ((page + off \div P) % W) * P + (off % P) + len <= N * P
         \/ off + len > W
         \/ (page + off \div P) % W > W - MaxLen
<1>. DEFINE f == off \div P
            r == off % P
            g == r + len - 1
            e == g \div P
            y == page + f
            q == y % W
<1>1. page \in Nat /\ off \in Nat /\ len \in Nat /\ len > 0 /\ page < W /\ off < W /\ len <= MaxLen
  BY Sizes
<1>2. f \in Nat /\ r \in InPage /\ off = f * P + r
  BY <1>1, Divides
<1>. SUFFICES ASSUME off + len <= W
              PROVE  q * P + r + len <= N * P \/ q > W - MaxLen
  BY <1>1, Sizes
<1>3. r \in Nat /\ r < P /\ g \in Nat
  BY <1>1, <1>2, Sizes DEF InPage
<1>. HIDE DEF f, r
<1>4. e \in Nat /\ g % P \in InPage /\ g = e * P + (g % P)
  <2>. HIDE DEF g
  <2>. QED BY <1>3, Divides
<1>5. (off + len - 1) \div P = f + e
  <2>1. f * P \in Nat /\ e * P \in Nat /\ (f + e) * P = f * P + e * P /\ f + e \in Nat
    BY <1>2, <1>4, Sizes
  <2>2. off + len - 1 = f * P + g
    BY <1>1, <1>2, <1>3, <2>1
  <2>. HIDE DEF g, e
  <2>3. off + len - 1 = (f + e) * P + (g % P)
    BY <1>4, <2>1, <2>2, Sizes DEF InPage
  <2>4. ((f + e) * P + (g % P)) \div P = f + e
    BY <1>4, <2>1, Divided
  <2>. QED BY <2>3, <2>4
<1>6. (off + len - 1) % W = off + len - 1
  BY <1>1, Sizes
<1>7. (y + e) % W < N
  <2>1. page + (f + e) = y + e
    BY <1>1, <1>2, <1>4
  <2>2. ~((page + (f + e)) % W >= N)
    BY <1>5, <1>6 DEF out_of_bounds
  <2>3. (y + e) % W \in Nat
    <3>. HIDE DEF e
    <3>. QED BY <1>1, <1>2, <1>4, Sizes
  <2>. HIDE DEF e, y
  <2>. QED BY <2>1, <2>2, <2>3, Sizes
<1>8. f + e < W
  <2>1. f + e <= off + len - 1
    <3>. DEFINE d == f + e
    <3>0. d \in Nat
      BY <1>2, <1>4
    <3>1. off + len - 1 \in Nat
      BY <1>1
    <3>2. off + len - 1 = d * P + ((off + len - 1) % P) /\ (off + len - 1) % P \in Nat
      BY <1>5, <3>1, Divides, Sizes DEF InPage
    <3>. HIDE DEF d
    <3>3. d * P = d + d * (P - 1) /\ d * (P - 1) \in Nat
      BY <3>0, Sizes
    <3>4. d <= off + len - 1
      BY <3>0, <3>1, <3>2, <3>3
    <3>. QED BY <3>4 DEF d
  <2>. QED BY <1>1, <1>2, <1>4, <2>1, Sizes
<1>9. e < MaxLen
  <2>. HIDE DEF e
  <2>1. CASE e = 0
    BY <2>1, Sizes
  <2>2. CASE e > 0
    <3>1. g <= P + MaxLen - 2
      BY <1>1, <1>3, Sizes
    <3>2. e * P = e + e * (P - 1) /\ (e - 1) * (P - 1) \in Nat
          /\ e * (P - 1) = (e - 1) * (P - 1) + (P - 1)
      BY <1>4, <2>2, Sizes
    <3>3. g % P \in Nat
      BY <1>4, Sizes DEF InPage
    <3>. HIDE DEF g
    <3>. QED BY <1>4, <2>2, <3>1, <3>2, <3>3, Sizes
  <2>. QED BY <1>4, <2>1, <2>2
<1>10. q \in Nat /\ (q + e < N \/ q > W - MaxLen)
  <2>. HIDE DEF e
  <2>1. y \in Nat /\ y + e < 2 * W
    BY <1>1, <1>2, <1>4, <1>8, Sizes
  <2>. HIDE DEF y
  <2>2. q \in Nat
    BY <2>1, Sizes
  <2>. QED BY <1>4, <1>7, <1>9, <2>1, <2>2, Wraps
<1>11. CASE q + e < N
  <2>. HIDE DEF e, q
  <2>1. (q + e) * P = q * P + e * P /\ q * P \in Nat /\ e * P \in Nat /\ q + e \in Nat
    BY <1>4, <1>10, Sizes
  <2>2. q * P + e * P + P <= N * P
    BY <1>11, <2>1, PageOrder, Sizes
  <2>3. r + len = g + 1 /\ g % P < P /\ g % P \in Nat
    BY <1>1, <1>3, <1>4, Sizes DEF InPage
  <2>4. N * P \in Nat
    BY Sizes
  <2>. HIDE DEF g
  <2>. QED BY <1>1, <1>3, <1>4, <2>1, <2>2, <2>3, <2>4, Sizes
<1>. QED BY <1>10, <1>11

\* What begins the loops begins them right.
LEMMA AcceptStep ==
  ASSUME IInv, NEW op \in AllOps, NEW page \in 0..(W - 1), NEW off \in 0..(W - 1),
         NEW len \in 1..MaxLen, NEW refused,
         refused => page * P + off + len > N * P,
         ~refused =>
           \/ ((page + off \div P) % W) * P + (off % P) + len <= N * P
           \/ /\ op \in Straight
              /\ off + len > W \/ (page + off \div P) % W > W - MaxLen,
         op = "write_page" => off < P,
         op \in Sectors => off = 0 /\ \E k \in 1..N : len = k * P /\ page + k <= N,
         Accept(op, page, off, len, refused),
         buf' \in [1..MaxLen -> Byte]
  PROVE  IInv'
<1>. DEFINE first == (page + off \div P) % W
<1>1. /\ call' = [op |-> op, page |-> page, off |-> off, len |-> len]
      /\ before' = flash /\ flash' = flash /\ work' = work
      /\ sector' = [n |-> page, off |-> off, left |-> len, at |-> 0]
      /\ loop' = IF op \in {"read", "read_page", "write_page_raw"}
                   THEN Loop(page, off, len, 0, "user") ELSE NoLoop
  BY DEF Accept
<1>2. /\ call'.op = op /\ call'.page = page /\ call'.off = off /\ call'.len = len
      /\ First' = first /\ Start' = first * P + (off % P)
      /\ sector'.n = page /\ sector'.off = off /\ sector'.left = len /\ sector'.at = 0
  BY <1>1 DEF Start, First
<1>14. /\ first \in Nat /\ off % P \in InPage
       /\ off < P => first = page /\ off % P = off
  BY FirstIs
<1>. HIDE DEF first
<1>3. page \in Nat /\ off \in Nat /\ len \in Nat /\ len > 0 /\ page * P \in Nat /\ N * P \in Nat
  BY Sizes
<1>4. NoLoop \in [page : Nat, off : InPage, left : Nat, at : Nat, mem : {"user", "work"}]
  BY Sizes DEF NoLoop, InPage
<1>5. loop' \in [page : Nat, off : InPage, left : Nat, at : Nat, mem : {"user", "work"}]
  BY <1>1, <1>3, <1>4, LoopIs
<1>6. sector' \in [n : Nat, off : Nat, left : Nat, at : Nat]
  BY <1>1, <1>3
<1>7. call' \in [op : AllOps \cup {"none"}, page : 0..(W - 1), off : 0..(W - 1), len : 0..MaxLen]
  <2>1. op \in AllOps \cup {"none"} /\ len \in 0..MaxLen
    BY Sizes
  <2>. QED BY <1>1, <2>1
<1>8. \/ pc' = "done" /\ ret' = "overflow"
      \/ /\ ret' = ret
         /\ op \in {"read", "read_page"} => pc' = "read"
         /\ op = "write_page_raw" => pc' = "write"
         /\ op = "write_page" => pc' = "sector"
         /\ op \in {"write_sector", "erase_sector"} => pc' = "erase"
  BY DEF Accept, Return, AllOps
<1>9. /\ refused => pc' = "done" /\ ret' = "overflow"
      /\ ~refused => /\ ret' = ret
                     /\ op \in {"read", "read_page"} => pc' = "read"
                     /\ op = "write_page_raw" => pc' = "write"
                     /\ op = "write_page" => pc' = "sector"
                     /\ op \in {"write_sector", "erase_sector"} => pc' = "erase"
  BY DEF Accept, Return, AllOps
<1>10. Types'
  <2>1. ret' \in {"none", "ok", "eio", "overflow"}
    BY <1>8 DEF IInv, Types
  <2>2. pc' \in {"idle", "read", "write", "erase", "sector", "assert", "done"}
    BY <1>8 DEF AllOps
  <2>. QED BY <1>1, <1>5, <1>6, <1>7, <2>1, <2>2 DEF IInv, Types
<1>11. OthersKept'
  BY <1>1 DEF OthersKept, Linear
<1>12. CASE refused
  <2>1. pc' = "done" /\ ret' = "overflow" /\ page * P + off + len > N * P
    BY <1>2, <1>9, <1>12
  <2>2. CallInv' /\ LoopInv' /\ SectorInv'
    BY <2>1 DEF CallInv, LoopInv, SectorInv, Busy
  <2>3. MovedInv'
    BY <1>2, <2>1 DEF MovedInv, Busy, Done
  <2>. QED BY <1>10, <1>11, <2>2, <2>3 DEF IInv
<1>13. CASE ~refused
  <2>1. \/ Start' + call'.len <= N * P
        \/ call'.op \in Straight /\ (call'.off + call'.len > W \/ First' > W - MaxLen)
    BY <1>2, <1>3, <1>13 DEF first
  <2>2. CallInv'
    BY <1>2, <1>9, <1>13, <2>1 DEF CallInv, AllOps, Sectors, Straight
  <2>3. CASE op \in {"read", "read_page", "write_page_raw"}
    <3>1. /\ loop'.page = first
          /\ loop'.left = len /\ loop'.at = 0 /\ loop'.mem = "user" /\ loop'.off = off % P
      <4>1. loop' = Loop(page, off, len, 0, "user")
        BY <1>1, <2>3
      <4>. DEFINE l == Loop(page, off, len, 0, "user")
      <4>2. /\ l.page = first
            /\ l.left = len /\ l.at = 0 /\ l.mem = "user" /\ l.off = off % P
        BY <1>3, LoopIs DEF first
      <4>. HIDE DEF l
      <4>3. loop' = l
        BY <4>1 DEF l
      <4>. QED BY <4>2, <4>3
    <3>6. /\ loop'.page * P + loop'.off = Start' + loop'.at
          /\ loop'.at + loop'.left = call'.len /\ loop'.off = call'.off % P
      <4>1. first * P \in Nat /\ off % P \in Nat
        BY <1>14, Sizes DEF InPage
      <4>. QED BY <1>2, <1>3, <3>1, <4>1
    <3>2. LoopInv'
      BY <1>2, <1>3, <2>3, <3>1, <3>6 DEF LoopInv
    <3>3. pc' \in {"read", "write"}
      BY <1>9, <1>13, <2>3
    <3>4. SectorInv'
      BY <1>2, <2>3, <3>3 DEF SectorInv, Busy
    <3>5. MovedInv'
      BY <1>2, <2>3, <3>1, <3>3 DEF MovedInv, Busy, Done, Equal
    <3>. QED BY <1>10, <1>11, <2>2, <3>2, <3>4, <3>5 DEF IInv
  <2>4. CASE op = "write_page"
    <3>1. pc' = "sector"
      BY <1>9, <1>13, <2>4
    <3>2. LoopInv'
      BY <3>1 DEF LoopInv
    <3>5. off < P /\ Start' = page * P + off
      BY <1>2, <1>14, <2>4
    <3>3. SectorInv'
      BY <1>2, <1>3, <2>4, <3>1, <3>5 DEF SectorInv, Sectors
    <3>4. MovedInv'
      BY <1>2, <2>4, <3>1 DEF MovedInv, Busy, Done, Equal
    <3>. QED BY <1>10, <1>11, <2>2, <3>2, <3>3, <3>4 DEF IInv
  <2>5. CASE op \in Sectors
    <3>1. pc' = "erase"
      BY <1>9, <1>13, <2>5 DEF Sectors
    <3>2. LoopInv'
      BY <3>1 DEF LoopInv
    <3>3. PICK k \in 1..N : len = k * P /\ page + k <= N
      BY <2>5
    <3>4. (page + k) * P = page * P + k * P
      BY <1>3, <3>3, Sizes
    <3>9. Start' = page * P + 0
      BY <1>2, <1>14, <2>5, Sizes
    <3>5. sector'.left = k * P /\ (sector'.n + k) * P = Start' + call'.len
      BY <1>2, <1>3, <2>5, <3>3, <3>4, <3>9
    <3>6. call'.off = 0 /\ call'.page <= sector'.n /\ call'.len > 0 /\ call'.op # "write_page"
      BY <1>2, <1>3, <2>5 DEF Sectors
    <3>7. SectorInv'
      BY <3>1, <3>5, <3>6 DEF SectorInv
    <3>8. MovedInv'
      BY <3>1, <3>6 DEF MovedInv, Done
    <3>. QED BY <1>10, <1>11, <2>2, <3>2, <3>7, <3>8 DEF IInv
  <2>. QED BY <2>3, <2>4, <2>5 DEF AllOps, Sectors
<1>. QED BY <1>12, <1>13
-----------------------------------------------------------------------------
(* The steps.                                                              *)

\* A step after which nothing remains to be shown of the loops.
LEMMA Fails ==
  ASSUME IInv, Types', pc' = "done", ret' = "eio", UNCHANGED <<call, before>>,
         call.op # "write_page" =>
           \A i \in Bytes : ~Asked(i) => Linear(flash', i) = Linear(flash, i),
         pc # "idle"
  PROVE  IInv'
<1>1. CallInv' /\ LoopInv' /\ SectorInv' /\ MovedInv'
  BY DEF CallInv, LoopInv, SectorInv, MovedInv, Busy, Done
<1>2. OthersKept'
  BY DEF IInv, OthersKept, Asked, Start, First, Linear
<1>. QED BY <1>1, <1>2 DEF IInv

LEMMA OthersSame ==
  ASSUME OthersKept, UNCHANGED <<flash, call, before>>, pc # "idle"
  PROVE  OthersKept'
BY DEF OthersKept, Asked, Start, First, Linear

LEMMA ReadStep ==
  ASSUME IInv, Read
  PROVE  IInv'
<1>. DEFINE K == Size(loop)
<1>1. Types /\ CallInv /\ LoopInv /\ SectorInv /\ MovedInv /\ OthersKept
  BY DEF IInv
<1>2. /\ pc = "read" /\ flash' = flash /\ call' = call /\ sector' = sector /\ before' = before
      /\ Start' = Start /\ First' = First /\ Busy
  BY DEF Read, Start, First, Busy
<1>3. CASE DriverRead(FALSE) /\ Return("eio") /\ UNCHANGED loop
  <2>1. buf' \in [1..MaxLen -> Byte] /\ work' \in [InPage -> Byte]
    BY <1>1, <1>2, <1>3, ReadMoves
  <2>2. Types'
    BY <1>1, <1>2, <1>3, <2>1 DEF Types, Return
  <2>. QED BY <1>2, <1>3, <2>2, Fails DEF Return, Linear
<1>4. CASE /\ DriverRead(TRUE)
           /\ loop' = Moved(loop, K)
           /\ IF call.op = "read" THEN Return(IF loop'.left = 0 THEN "ok" ELSE "overflow")
              ELSE IF loop'.left > 0 THEN UNCHANGED <<pc, ret>>
              ELSE IF call.op = "write_page" THEN pc' = "erase" /\ UNCHANGED ret
              ELSE Return("ok")
  <2>1. /\ buf' \in [1..MaxLen -> Byte] /\ work' \in [InPage -> Byte]
        /\ loop.mem = "user" =>
             /\ \A i \in 0..(K - 1) : buf'[loop.at + i + 1] = Linear(flash, Place + i)
             /\ \A i \in 1..loop.at : buf'[i] = buf[i]
        /\ loop.mem = "work" => buf' = buf
    BY <1>1, <1>2, <1>4, ReadMoves
  <2>2. loop.left > 0
    BY <1>1, <1>2 DEF LoopInv
  <2>3. /\ K \in Nat /\ K > 0 /\ K <= loop.left
        /\ Whole(loop) => K = loop.left
        /\ ~Whole(loop) => K = loop.left \/ loop.off + K = P
    BY <1>1, <2>2, SizeIs
  <2>10. OnCard(loop) /\ Place + K <= N * P
    BY <1>1, <1>4, <2>2, OnCardIs DEF DriverRead
  <2>. HIDE DEF K
  <2>4. /\ loop' \in [page : Nat, off : InPage, left : Nat, at : Nat, mem : {"user", "work"}]
        /\ loop'.page * P + loop'.off = Place + K
        /\ loop'.left = loop.left - K /\ loop'.at = loop.at + K /\ loop'.mem = loop.mem
    <3>. DEFINE l == Moved(loop, K)
    <3>1. /\ l \in [page : Nat, off : InPage, left : Nat, at : Nat, mem : {"user", "work"}]
          /\ l.page * P + l.off = Place + K
          /\ l.left = loop.left - K /\ l.at = loop.at + K /\ l.mem = loop.mem
      BY <1>1, <2>2, <2>10, MovedIs DEF K
    <3>. HIDE DEF l
    <3>2. loop' = l
      BY <1>4 DEF l
    <3>. QED BY <3>1, <3>2
  <2>5. pc' \in {"read", "erase", "done"} /\ ret' \in {"none", "ok", "eio", "overflow"}
    BY <1>1, <1>2, <1>4 DEF Return, Types
  <2>6. Types'
    BY <1>1, <1>2, <2>1, <2>4, <2>5 DEF Types
  <2>7. OthersKept'
    BY <1>1, <1>2, OthersSame
  <2>8. CASE call.op # "write_page"
    <3>1. /\ loop.mem = "user" /\ Place = Start + loop.at /\ loop.at + loop.left = call.len
          /\ call.op = "read" => loop.at = 0 /\ loop.off = call.off % P
          /\ call.op \in {"read", "read_page"} /\ loop.left > 0
      BY <1>1, <1>2, <2>8 DEF LoopInv, CallInv, Place
    <3>2. Equal(loop.at)
      BY <1>1, <1>2, <3>1 DEF MovedInv
    <3>3. \A i \in 0..(loop'.at - 1) : Linear(flash', Start + i) = buf'[i + 1]
      <4>1. ASSUME NEW i \in 0..(loop'.at - 1)
            PROVE  Linear(flash, Start + i) = buf'[i + 1]
        <5>1. CASE i < loop.at
          <6>1. i \in 0..(loop.at - 1) /\ i + 1 \in 1..loop.at
            BY <1>1, <5>1, Fields
          <6>2. Linear(flash, Start + i) = buf[i + 1]
            BY <3>2, <6>1 DEF Equal
          <6>. QED BY <2>1, <3>1, <6>1, <6>2
        <5>2. CASE ~(i < loop.at)
          <6>. DEFINE j == i - loop.at
          <6>1. j \in 0..(K - 1) /\ loop.at + j + 1 = i + 1 /\ Place + j = Start + i
            <7>1. loop.at \in Nat /\ Start \in Nat /\ Place = Start + loop.at
              BY <1>1, <3>1, Fields
            <7>2. loop'.at = loop.at + K
              BY <2>4
            <7>3. i \in Nat /\ i < loop.at + K
              BY <2>3, <7>1, <7>2
            <7>. QED BY <2>3, <5>2, <7>1, <7>3
          <6>. HIDE DEF j
          <6>. QED BY <2>1, <3>1, <6>1
        <5>. QED BY <5>1, <5>2
      <4>. QED BY <1>2, <4>1
    <3>4. Equal(loop.at)'
      BY <1>2, <3>3 DEF Equal
    <3>5. CASE pc' = "read"
      <4>1. loop'.left > 0 /\ call.op # "read"
        BY <1>4, <2>8, <3>1, <3>5 DEF Return
      <4>2. loop'.page * P + loop'.off = Start + loop'.at /\ loop'.at + loop'.left = call.len
        BY <1>1, <2>3, <2>4, <3>1, Fields
      <4>3. LoopInv'
        BY <1>2, <2>4, <2>8, <3>1, <4>1, <4>2 DEF LoopInv
      <4>4. CallInv' /\ SectorInv'
        BY <1>1, <1>2, <2>8, <3>5 DEF CallInv, SectorInv, Busy
      <4>5. MovedInv'
        BY <1>2, <2>8, <3>4, <3>5 DEF MovedInv, Done
      <4>. QED BY <2>6, <2>7, <4>3, <4>4, <4>5 DEF IInv
    <3>6. CASE pc' = "done"
      <4>1. CallInv' /\ LoopInv' /\ SectorInv'
        BY <3>6 DEF CallInv, LoopInv, SectorInv, Busy
      <4>2. ret' = IF loop'.left = 0 THEN "ok" ELSE "overflow"
        BY <1>2, <1>4, <2>4, <2>8, <3>6, <1>1, <2>3, Fields DEF Return
      <4>3. loop'.left = 0 => loop'.at = call.len
        BY <1>1, <2>3, <2>4, <3>1, Fields
      <4>4. ret' = "overflow" => call.op = "read" /\ (call.off % P) + call.len > P
        <5>1. ASSUME ret' = "overflow"
              PROVE  call.op = "read" /\ (call.off % P) + call.len > P
          <6>1. call.op = "read" /\ loop'.left # 0
            BY <1>4, <2>8, <3>6, <4>2, <5>1, <3>1, <1>2 DEF Return
          <6>2. K < loop.left
            BY <1>1, <2>3, <2>4, <6>1, Fields
          <6>3. loop.off + K = P
            BY <2>3, <6>2
          <6>. QED BY <1>1, <2>3, <3>1, <6>1, <6>2, <6>3, Fields
        <5>. QED BY <5>1
      <4>5. MovedInv'
        <5>1. Done' => loop'.left = 0
          BY <4>2 DEF Done
        <5>2. loop'.left = 0 => Start + call.len <= N * P
          BY <1>1, <2>3, <2>4, <2>10, <3>1, Fields
        <5>3. ret' = "overflow" =>
                \/ call.page * P + call.off + call.len > N * P
                \/ call.len = 0
                \/ call.op = "read" /\ (call.off % P) + call.len > P
          BY <4>4
        <5>. QED BY <1>2, <2>8, <3>4, <3>6, <4>3, <5>1, <5>2, <5>3 DEF MovedInv, Busy
      <4>. QED BY <2>6, <2>7, <4>1, <4>5 DEF IInv
    <3>. QED BY <1>4, <2>5, <2>8, <3>5, <3>6, <1>2 DEF Return
  <2>9. CASE call.op = "write_page"
    <3>1. loop.off = 0 /\ loop.left = P /\ loop.mem = "work"
      BY <1>1, <1>2, <2>9 DEF LoopInv
    <3>2. Whole(loop)
      <4>1. P % P = 0
        <5>1. 1 \in Nat /\ 0 \in InPage /\ 1 * P + 0 = P
          BY Sizes DEF InPage
        <5>. QED BY <5>1, Divided
      <4>. QED BY <3>1, <4>1 DEF Whole
    <3>3. loop'.left = 0
      BY <1>1, <2>3, <2>4, <3>2, Fields
    <3>4. pc' = "erase" /\ buf' = buf
      BY <1>4, <2>1, <2>9, <3>1, <3>3
    <3>5. CallInv' /\ LoopInv'
      BY <1>1, <1>2, <2>9, <3>4 DEF CallInv, LoopInv, Busy
    <3>6. SectorInv'
      BY <1>1, <1>2, <2>9, <3>4 DEF SectorInv, Busy, Sectors
    <3>7. MovedInv'
      BY <1>1, <1>2, <2>9, <3>4 DEF MovedInv, Busy, Done, Equal
    <3>. QED BY <2>6, <2>7, <3>5, <3>6, <3>7 DEF IInv
  <2>. QED BY <2>8, <2>9
<1>. QED BY <1>3, <1>4 DEF Read

\* What a step over some bytes behind those that are done leaves of them.
LEMMA EqualKept ==
  ASSUME NEW n \in Nat, NEW from \in Nat, Equal(n), Start \in Nat, Start + n <= from,
         from <= N * P, N * P \in Nat, Start' = Start, buf' = buf,
         \A i \in Bytes : i < from => Linear(flash', i) = Linear(flash, i)
  PROVE  \A i \in 0..(n - 1) : Linear(flash', Start + i) = buf'[i + 1]
<1>1. ASSUME NEW i \in 0..(n - 1)
      PROVE  Linear(flash', Start + i) = buf'[i + 1]
  <2>1. Start + i \in Bytes /\ Start + i < from
    BY DEF Bytes
  <2>2. Linear(flash, Start + i) = buf[i + 1]
    BY DEF Equal
  <2>. QED BY <2>1, <2>2
<1>. QED BY <1>1

\* A round of mtd_write_page_raw, or of mtd_write_sector when all is erased.
LEMMA WriteStraight ==
  ASSUME IInv, pc = "write", call.op # "write_page", DriverWrite(TRUE), Types',
         UNCHANGED <<buf, call, before, sector>>, loop' = Moved(loop, Size(loop)),
         IF loop'.left > 0 THEN UNCHANGED <<pc, ret>> ELSE Return("ok")
  PROVE  IInv'
<1>. DEFINE K == Size(loop)
<1>1. Types /\ CallInv /\ LoopInv /\ SectorInv /\ MovedInv /\ OthersKept
  BY DEF IInv
<1>2. Start' = Start /\ First' = First /\ Busy
  BY DEF Start, First, Busy
<1>3. /\ loop.left > 0 /\ loop.mem = "user" /\ Place = Start + loop.at
      /\ loop.at + loop.left = call.len /\ call.op \in {"write_page_raw", "write_sector"}
  BY <1>1 DEF LoopInv, CallInv, Place
<1>4. K \in Nat /\ K > 0 /\ K <= loop.left
  BY <1>1, <1>3, SizeIs
<1>5. /\ \A i \in Bytes : i \notin Place..(Place + K - 1) => Linear(flash', i) = Linear(flash, i)
      /\ \A i \in 0..(K - 1) : Linear(flash', Place + i) = From(i)
  BY <1>1, WriteMoves
<1>15. OnCard(loop) /\ Place + K <= N * P
  BY <1>1, <1>3, WrittenOnCard, OnCardIs
<1>. HIDE DEF K
<1>6. /\ loop'.page * P + loop'.off = Place + K
      /\ loop'.left = loop.left - K /\ loop'.at = loop.at + K /\ loop'.mem = loop.mem
  <2>. DEFINE l == Moved(loop, K)
  <2>1. /\ l.page * P + l.off = Place + K
        /\ l.left = loop.left - K /\ l.at = loop.at + K /\ l.mem = loop.mem
    BY <1>1, <1>3, <1>15, MovedIs DEF K
  <2>. HIDE DEF l
  <2>2. loop' = l
    BY DEF l, K
  <2>. QED BY <2>1, <2>2
<1>8. Equal(loop.at)
  BY <1>1, <1>3 DEF MovedInv
<1>9. \A i \in 0..(loop.at - 1) : Linear(flash', Start + i) = buf'[i + 1]
  <2>1. Place \in Nat /\ Start + loop.at <= Place /\ Place <= N * P
    BY <1>1, <1>3, <1>4, <1>15, Fields
  <2>2. \A i \in Bytes : i < Place => Linear(flash', i) = Linear(flash, i)
    <3>1. ASSUME NEW i \in Bytes, i < Place
          PROVE  Linear(flash', i) = Linear(flash, i)
      <4>1. i \notin Place..(Place + K - 1)
        BY <1>4, <2>1, <3>1, Fields DEF Bytes
      <4>. QED BY <1>5, <4>1
    <3>. QED BY <3>1
  <2>. QED BY <1>1, <1>2, <1>8, <2>1, <2>2, EqualKept, Fields
<1>10. \A i \in 0..(loop'.at - 1) : Linear(flash', Start + i) = buf'[i + 1]
  <2>1. ASSUME NEW i \in 0..(loop'.at - 1)
        PROVE  Linear(flash', Start + i) = buf'[i + 1]
    <3>1. loop.at \in Nat /\ Start \in Nat /\ Place = Start + loop.at
      BY <1>1, <1>3, Fields
    <3>2. i \in Nat /\ i < loop.at + K
      BY <1>4, <1>6, <3>1
    <3>3. CASE i < loop.at
      BY <1>9, <3>1, <3>2, <3>3
    <3>4. CASE ~(i < loop.at)
      <4>. DEFINE j == i - loop.at
      <4>1. j \in 0..(K - 1) /\ loop.at + j + 1 = i + 1 /\ Place + j = Start + i
        BY <1>4, <3>1, <3>2, <3>4
      <4>. HIDE DEF j
      <4>2. From(j) = buf[i + 1]
        BY <1>3, <4>1 DEF From
      <4>. QED BY <1>5, <4>1, <4>2
    <3>. QED BY <3>3, <3>4
  <2>. QED BY <2>1
<1>11. Equal(loop.at)'
  BY <1>2, <1>10 DEF Equal
<1>12. OthersKept'
  <2>1. ASSUME NEW i \in Bytes, ~Asked(i)
        PROVE  Linear(flash', i) = Linear(flash, i)
    <3>1. i \notin Place..(Place + K - 1)
      BY <1>1, <1>3, <1>4, <2>1, Fields DEF Asked, Bytes
    <3>. QED BY <1>5, <3>1
  <2>. QED BY <1>1, <1>2, <2>1 DEF OthersKept, Asked, Start, First, Linear
<1>13. CASE pc' = "write"
  <2>1. loop'.left > 0
    BY <1>13 DEF Return
  <2>2. loop'.page * P + loop'.off = Start + loop'.at /\ loop'.at + loop'.left = call.len
    BY <1>1, <1>3, <1>4, <1>6, Fields
  <2>3. LoopInv'
    BY <1>2, <1>3, <1>6, <1>13, <2>1, <2>2 DEF LoopInv
  <2>4. CallInv' /\ SectorInv'
    BY <1>1, <1>2, <1>3, <1>13 DEF CallInv, SectorInv, Busy
  <2>5. MovedInv'
    BY <1>2, <1>3, <1>11, <1>13 DEF MovedInv, Done
  <2>. QED BY <1>12, <2>3, <2>4, <2>5 DEF IInv
<1>14. CASE pc' = "done"
  <2>1. CallInv' /\ LoopInv' /\ SectorInv'
    BY <1>14 DEF CallInv, LoopInv, SectorInv, Busy
  <2>2. ret' = "ok" /\ ~(loop'.left > 0)
    BY <1>14 DEF Return
  <2>3. loop'.at = call.len
    BY <1>1, <1>3, <1>4, <1>6, <2>2, Fields
  <2>5. Start + call.len <= N * P
    BY <1>1, <1>3, <1>4, <1>6, <1>15, <2>3, Fields
  <2>4. MovedInv'
    BY <1>2, <1>3, <1>11, <1>14, <2>2, <2>3, <2>5 DEF MovedInv, Done, Busy
  <2>. QED BY <1>12, <2>1, <2>4 DEF IInv
<1>. QED BY <1>13, <1>14 DEF Return

\* What the loop over sectors has done of a call lies before the sector it is at.
LEMMA DoneBefore ==
  ASSUME Types, CallInv, SectorInv, Busy, call.op = "write_page", sector.left > 0
  PROVE  /\ sector.at = 0 \/ Start + sector.at = sector.n * P
         /\ sector.off \in Nat /\ sector.off < P
         /\ sector.n * P + sector.off = Start + sector.at /\ sector.n * P \in Nat
<1>1. /\ sector.off < P /\ sector.n * P + sector.off = Start + sector.at
      /\ sector.at > 0 => sector.off = 0
  BY DEF SectorInv
<1>2. sector.n * P \in Nat /\ sector.off \in Nat
  BY Fields, Sizes
<1>. QED BY <1>1, <1>2, Fields

\* Writing over the bytes of sector n and no others keeps what is done.
LEMMA DoneKept ==
  ASSUME IInv, Busy, call.op = "write_page", sector.left > 0, Start' = Start, buf' = buf,
         \A i \in Bytes : i \notin (sector.n * P)..(sector.n * P + P - 1) =>
           Linear(flash', i) = Linear(flash, i)
  PROVE  \A i \in 0..(sector.at - 1) : Linear(flash', Start + i) = buf'[i + 1]
<1>1. Types /\ CallInv /\ SectorInv /\ Equal(sector.at)
  BY DEF IInv, MovedInv
<1>2. CASE sector.at = 0
  BY <1>2
<1>3. CASE Start + sector.at = sector.n * P
  <2>1. sector.n * P \in Nat /\ sector.n * P <= N * P
    BY <1>1, SectorOn, Fields, Sizes
  <2>2. \A i \in Bytes : i < sector.n * P => Linear(flash', i) = Linear(flash, i)
    <3>. DEFINE x == sector.n * P
    <3>1. ASSUME NEW i \in Bytes, i < x
          PROVE  i \notin x..(x + P - 1)
      <4>1. x \in Nat
        BY <2>1
      <4>. HIDE DEF x
      <4>. QED BY <3>1, <4>1, Fields DEF Bytes
    <3>. QED BY <3>1
  <2>. QED BY <1>1, <1>3, <2>1, <2>2, EqualKept, Fields
<1>. QED BY <1>1, <1>2, <1>3, DoneBefore

\* _write_sector ends, and the loop of mtd_write_page goes on.
LEMMA WriteSector ==
  ASSUME IInv, pc = "write", call.op = "write_page", DriverWrite(TRUE),
         UNCHANGED <<buf, call, before, ret>>, loop' = Moved(loop, Size(loop)), pc' = "sector",
         sector' = [n |-> sector.n + 1, off |-> 0,
                    left |-> sector.left - Least(sector.left, P - sector.off),
                    at |-> sector.at + Least(sector.left, P - sector.off)]
  PROVE  IInv'
<1>. DEFINE K == Size(loop)
            len == Least(sector.left, P - sector.off)
            x == sector.n * P
<1>1. Types /\ CallInv /\ LoopInv /\ SectorInv /\ MovedInv /\ OthersKept
  BY DEF IInv
<1>2. Start' = Start /\ Busy /\ Busy'
  BY DEF Start, First, Busy
<1>3. /\ loop.page = sector.n /\ loop.off = 0 /\ loop.left = P
      /\ loop.mem = "work" => loop.at = 0
      /\ loop.mem = "user" => loop.at = sector.at /\ sector.off = 0 /\ sector.left >= P
  BY <1>1 DEF LoopInv
<1>4. /\ sector.left > 0 /\ sector.at + sector.left = call.len
      /\ loop.mem = "work" => Merged
  BY <1>1, <1>2 DEF SectorInv
<1>5. /\ sector.at = 0 \/ Start + sector.at = x
      /\ sector.off \in Nat /\ sector.off < P
      /\ x + sector.off = Start + sector.at /\ x \in Nat
  BY <1>1, <1>2, <1>4, DoneBefore
<1>6. x + P <= N * P /\ Start + call.len <= N * P
  BY <1>1, <1>2, <1>4, SectorOn DEF CallInv, Straight
<1>7. /\ len \in Nat /\ len > 0 /\ len <= sector.left /\ sector.off + len <= P
      /\ len < sector.left => sector.off + len = P
  BY <1>1, <1>4, <1>5, Fields, Sizes DEF Least
<1>8. K = P
  BY <1>3, WholePage
<1>9. Place = x
  BY <1>3, <1>5 DEF Place
<1>10. /\ \A i \in Bytes : i \notin x..(x + P - 1) => Linear(flash', i) = Linear(flash, i)
       /\ \A i \in 0..(P - 1) : Linear(flash', x + i) = From(i)
       /\ flash' \in [Pages -> [InPage -> Byte]] /\ work' \in [InPage -> Byte]
  <2>. HIDE DEF x
  <2>. QED BY <1>1, <1>8, <1>9, WriteMoves
<1>11. \A i \in 0..(sector.at - 1) : Linear(flash', Start + i) = buf'[i + 1]
  BY <1>2, <1>4, <1>10, DoneKept
<1>. HIDE DEF K, len, x
<1>12. sector'.at = sector.at + len /\ sector'.left = sector.left - len
       /\ sector'.n = sector.n + 1 /\ sector'.off = 0
  BY DEF len
<1>13. ASSUME NEW j \in 0..(len - 1)
       PROVE  Linear(flash', Start + sector.at + j) = buf[sector.at + j + 1]
  <2>1. /\ j \in Nat /\ sector.off + j \in 0..(P - 1)
        /\ x + (sector.off + j) = Start + sector.at + j
    BY <1>1, <1>5, <1>7, Fields, Sizes
  <2>2. From(sector.off + j) = buf[sector.at + j + 1]
    <3>1. CASE loop.mem = "user"
      <4>1. loop.at + (sector.off + j) + 1 = sector.at + j + 1
        BY <1>1, <1>3, <2>1, <3>1, Fields
      <4>. QED BY <3>1, <4>1 DEF From
    <3>2. CASE loop.mem = "work"
      <4>1. loop.at + (sector.off + j) = sector.off + j
        BY <1>3, <1>5, <2>1, <3>2
      <4>2. work[sector.off + j] = buf[sector.at + j + 1]
        BY <1>4, <3>2 DEF Merged, len
      <4>. QED BY <3>2, <4>1, <4>2 DEF From
    <3>. QED BY <1>1, <3>1, <3>2, Fields
  <2>3. Linear(flash', x + (sector.off + j)) = From(sector.off + j)
    BY <1>10, <2>1
  <2>. QED BY <2>1, <2>2, <2>3
<1>14. Equal(sector.at)'
  <2>1. ASSUME NEW i \in 0..(sector'.at - 1)
        PROVE  Linear(flash', Start + i) = buf'[i + 1]
    <3>1. sector.at \in Nat /\ i \in Nat /\ Start \in Nat /\ i < sector.at + len
      BY <1>1, <1>7, <1>12, Fields
    <3>2. CASE i < sector.at
      BY <1>11, <3>1, <3>2
    <3>3. CASE ~(i < sector.at)
      <4>. DEFINE j == i - sector.at
      <4>1. j \in 0..(len - 1) /\ sector.at + j + 1 = i + 1 /\ Start + sector.at + j = Start + i
        BY <1>7, <3>1, <3>3
      <4>. HIDE DEF j
      <4>. QED BY <1>13, <4>1
    <3>. QED BY <3>2, <3>3
  <2>. QED BY <1>2, <2>1 DEF Equal
<1>15. Types'
  <2>1. loop' \in [page : Nat, off : InPage, left : Nat, at : Nat, mem : {"user", "work"}]
    <3>1. loop.left > 0
      BY <1>3, Sizes
    <3>. QED BY <1>1, <3>1, WrittenOnCard, MovedIs
  <2>2. sector' \in [n : Nat, off : Nat, left : Nat, at : Nat]
    <3>1. sector.n + 1 \in Nat /\ sector.left - len \in Nat /\ sector.at + len \in Nat /\ 0 \in 0..P
      BY <1>1, <1>7, Fields, Sizes
    <3>. QED BY <3>1 DEF len
  <2>. QED BY <1>1, <1>10, <2>1, <2>2 DEF Types
<1>16. SectorInv'
  <2>1. sector'.at + sector'.left = call.len
    BY <1>1, <1>4, <1>7, <1>12, Fields
  <2>2. ASSUME sector'.left > 0
        PROVE  sector'.n * P + sector'.off = Start + sector'.at
    <3>1. sector.off + len = P
      BY <1>1, <1>7, <1>12, <2>2, Fields
    <3>2. (sector.n + 1) * P = x + P
      BY <1>1, Fields, Sizes DEF x
    <3>3. sector'.n * P + sector'.off = x + P
      BY <1>5, <1>12, <3>2, Sizes
    <3>4. x + P = x + sector.off + len /\ sector.at \in Nat /\ Start \in Nat
      BY <1>1, <1>5, <1>7, <3>1, Fields
    <3>5. x + sector.off + len = Start + sector.at + len
      BY <1>5
    <3>. QED BY <1>7, <1>12, <3>3, <3>4, <3>5
  <2>. QED BY <1>2, <1>12, <2>1, <2>2, Sizes DEF SectorInv, Sectors
<1>17. CallInv' /\ LoopInv'
  BY <1>2, <1>6 DEF CallInv, LoopInv, Sectors, Straight
<1>18. MovedInv'
  BY <1>14 DEF MovedInv, Done
<1>19. OthersKept'
  BY DEF OthersKept
<1>. QED BY <1>15, <1>16, <1>17, <1>18, <1>19 DEF IInv

LEMMA WriteStep ==
  ASSUME IInv, Write
  PROVE  IInv'
<1>1. Types /\ CallInv /\ LoopInv /\ SectorInv /\ MovedInv /\ OthersKept
  BY DEF IInv
<1>2. pc = "write" /\ buf' = buf /\ call' = call /\ before' = before /\ Start' = Start
  BY DEF Write, Start, First
<1>3. loop.left > 0
  BY <1>1, <1>2 DEF LoopInv
<1>4. Size(loop) \in Nat /\ Size(loop) <= loop.left
  BY <1>1, <1>3, SizeIs
<1>5. CASE DriverWrite(FALSE) /\ Return("eio") /\ UNCHANGED <<loop, sector>>
  <2>1. /\ flash' \in [Pages -> [InPage -> Byte]] /\ work' \in [InPage -> Byte]
        /\ \A i \in Bytes : i \notin Place..(Place + Size(loop) - 1) =>
             Linear(flash', i) = Linear(flash, i)
    BY <1>1, <1>2, <1>5, WriteMoves
  <2>2. Types'
    BY <1>1, <1>2, <1>5, <2>1 DEF Types, Return
  <2>3. ASSUME call.op # "write_page", NEW i \in Bytes, ~Asked(i)
        PROVE  Linear(flash', i) = Linear(flash, i)
    <3>1. Place = Start + loop.at /\ loop.at + loop.left = call.len
      BY <1>1, <1>2, <2>3 DEF LoopInv, Place
    <3>2. i \notin Place..(Place + Size(loop) - 1)
      BY <1>1, <1>4, <2>3, <3>1, Fields DEF Asked, Bytes
    <3>. QED BY <2>1, <3>2
  <2>. QED BY <1>2, <1>5, <2>2, <2>3, Fails DEF Return
<1>6. CASE /\ DriverWrite(TRUE)
           /\ loop' = Moved(loop, Size(loop))
           /\ IF loop'.left > 0 THEN UNCHANGED <<pc, ret, sector>>
              ELSE IF call.op = "write_page"
              THEN LET len == Least(sector.left, P - sector.off)
                   IN /\ sector' = [n |-> sector.n + 1, off |-> 0, left |-> sector.left - len,
                                    at |-> sector.at + len]
                      /\ pc' = "sector" /\ UNCHANGED ret
              ELSE Return("ok") /\ UNCHANGED sector
  <2>1. CASE call.op = "write_page"
    <3>1. loop.off = 0 /\ loop.left = P
      BY <1>1, <1>2, <2>1 DEF LoopInv
    <3>3. Size(loop) = loop.left
      BY <3>1, WholePage
    <3>4. loop'.left = 0
      <4>1. Moved(loop, loop.left).left = loop.left - loop.left
        BY <1>1, <1>3, <1>6, <3>3, WrittenOnCard, MovedIs
      <4>. QED BY <1>1, <1>6, <3>3, <4>1, Fields
    <3>5. /\ sector' = [n |-> sector.n + 1, off |-> 0,
                        left |-> sector.left - Least(sector.left, P - sector.off),
                        at |-> sector.at + Least(sector.left, P - sector.off)]
          /\ pc' = "sector" /\ ret' = ret
      BY <1>6, <2>1, <3>4
    <3>. QED BY <1>2, <1>6, <2>1, <3>5, WriteSector
  <2>2. CASE call.op # "write_page"
    <3>1. sector' = sector /\ IF loop'.left > 0 THEN UNCHANGED <<pc, ret>> ELSE Return("ok")
      BY <1>6, <2>2
    <3>2. flash' \in [Pages -> [InPage -> Byte]] /\ work' \in [InPage -> Byte]
      BY <1>1, <1>2, <1>6, WriteMoves
    <3>3. loop' \in [page : Nat, off : InPage, left : Nat, at : Nat, mem : {"user", "work"}]
      BY <1>1, <1>3, <1>6, WrittenOnCard, MovedIs
    <3>4. Types'
      BY <1>1, <1>2, <3>1, <3>2, <3>3 DEF Types, Return
    <3>. QED BY <1>2, <1>6, <2>2, <3>1, <3>4, WriteStraight
  <2>. QED BY <2>1, <2>2
<1>. QED BY <1>5, <1>6 DEF Write

\* What an erased sector, or nothing, leaves of the flash.
LEMMA PageErased ==
  ASSUME Types, sector.n \in Pages,
         flash' = [flash EXCEPT ![sector.n] = [i \in InPage |-> Zero]]
  PROVE  /\ flash' \in [Pages -> [InPage -> Byte]]
         /\ \A i \in Bytes : i \notin (sector.n * P)..(sector.n * P + P - 1) =>
              Linear(flash', i) = Linear(flash, i)
<1>. DEFINE x == sector.n * P
            zeroes == [i \in InPage |-> Zero]
<1>1. zeroes \in [InPage -> Byte]
  BY Sizes
<1>. HIDE DEF zeroes
<1>2. flash' = [flash EXCEPT ![sector.n] = zeroes]
  BY DEF zeroes
<1>3. flash' \in [Pages -> [InPage -> Byte]]
  BY <1>1, <1>2 DEF Types
<1>4. ASSUME NEW i \in Bytes, i \notin x..(x + P - 1)
      PROVE  Linear(flash', i) = Linear(flash, i)
  <2>. DEFINE p == i \div P
              r == i % P
  <2>1. p \in Pages /\ r \in InPage /\ i = p * P + r /\ i \in Nat
    BY ByteOf
  <2>. HIDE DEF p, r
  <2>2. r \in Nat /\ r < P
    BY <2>1, Sizes DEF InPage
  <2>3. x \in Nat
    <3>1. sector.n \in Nat /\ P \in Nat
      BY Fields, Sizes
    <3>2. sector.n * P \in Nat
      BY <3>1
    <3>. QED
      BY <3>2
  <2>4. p # sector.n
    <3>1. CASE p = sector.n
      <4>1. i = x + r
        BY <2>1, <3>1
      <4>. HIDE DEF x
      <4>2. i \in x..(x + P - 1)
        BY <2>2, <2>3, <4>1, Sizes
      <4>. QED BY <1>4, <4>2
    <3>. QED BY <3>1
  <2>5. flash'[p] = flash[p]
    BY <1>2, <2>1, <2>4 DEF Types
  <2>. QED BY <2>5 DEF Linear, p, r
<1>. QED BY <1>3, <1>4

LEMMA EraseStep ==
  ASSUME IInv, Erase
  PROVE  IInv'
<1>. DEFINE zeroes == [i \in InPage |-> Zero]
            len == Least(sector.left, P - sector.off)
            x == sector.n * P
<1>1. Types /\ CallInv /\ LoopInv /\ SectorInv /\ MovedInv /\ OthersKept
  BY DEF IInv
<1>2. /\ pc = "erase" /\ buf' = buf /\ call' = call /\ before' = before /\ Start' = Start
      /\ Busy /\ call.op \in {"write_page"} \cup Sectors
  BY <1>1 DEF Erase, Start, First, Busy, CallInv
<1>3. zeroes \in [InPage -> Byte]
  BY Sizes
<1>4. x \in Nat /\ N * P \in Nat /\ Start + call.len <= N * P
  BY <1>1, <1>2, Fields, Sizes DEF CallInv, Straight, Sectors
<1>. HIDE DEF zeroes, len, x
<1>5. CASE work' = zeroes /\ Return("eio") /\ UNCHANGED <<flash, loop, sector>>
  <2>1. Types'
    BY <1>1, <1>2, <1>3, <1>5 DEF Types, Return
  <2>. QED BY <1>2, <1>5, <2>1, Fails DEF Return, Linear
<1>6. CASE /\ flash' = [flash EXCEPT ![sector.n] = zeroes]
           /\ call.op = "write_page"
           /\ work' = [i \in InPage |->
                IF i \in sector.off..(sector.off + len - 1)
                  THEN buf[sector.at + i - sector.off + 1] ELSE zeroes[i]]
           /\ loop' = Loop(sector.n, 0, P, 0, "work")
           /\ pc' = "write" /\ UNCHANGED <<ret, sector>>
  <2>1. sector.left > 0 /\ sector.at + sector.left = call.len
    BY <1>1, <1>2, <1>6 DEF SectorInv
  <2>2. sector.n \in Pages /\ x + P <= N * P
    BY <1>1, <1>2, <1>6, <2>1, SectorOn DEF x
  <2>3. sector.off \in Nat /\ sector.off < P
    BY <1>1, <1>2, <1>6, <2>1, DoneBefore
  <2>4. len \in Nat /\ len <= sector.left /\ sector.off + len <= P
    BY <1>1, <2>3, Fields, Sizes DEF Least, len
  <2>5. /\ flash' \in [Pages -> [InPage -> Byte]]
        /\ \A i \in Bytes : i \notin x..(x + P - 1) => Linear(flash', i) = Linear(flash, i)
    BY <1>1, <1>6, <2>2, PageErased DEF zeroes, x
  <2>6. work' \in [InPage -> Byte]
    <3>1. ASSUME NEW i \in InPage, i \in sector.off..(sector.off + len - 1)
          PROVE  buf[sector.at + i - sector.off + 1] \in Byte
      <4>1. sector.at + i - sector.off + 1 \in 1..MaxLen
        BY <1>1, <2>1, <2>3, <2>4, <3>1, Fields, Sizes
      <4>. QED BY <1>1, <4>1 DEF Types
    <3>. QED BY <1>3, <1>6, <3>1
  <2>7. loop' = [page |-> sector.n, off |-> 0, left |-> P, at |-> 0, mem |-> "work"]
    <3>1. sector.n \in Nat /\ sector.n < W
      BY <2>2, Sizes DEF Pages
    <3>. QED BY <1>6, <3>1, LoopAtPage
  <2>8. Types'
    <3>1. 0 \in InPage
      BY Sizes DEF InPage
    <3>2. loop' \in [page : Nat, off : InPage, left : Nat, at : Nat, mem : {"user", "work"}]
      BY <1>1, <2>7, <3>1, Fields, Sizes
    <3>. QED BY <1>1, <1>2, <1>6, <2>5, <2>6, <3>2 DEF Types
  <2>9. CallInv' /\ LoopInv'
    <3>1. CallInv'
      BY <1>2, <1>4, <1>6 DEF CallInv, Busy
    <3>2. LoopInv'
      BY <1>2, <1>6, <2>7, Sizes DEF LoopInv
    <3>. QED BY <3>1, <3>2
  <2>10. Merged'
    <3>1. ASSUME NEW i \in 0..(len - 1)
          PROVE  work'[sector.off + i] = buf[sector.at + i + 1]
      <4>. DEFINE j == sector.off + i
      <4>1. /\ j \in InPage /\ j \in sector.off..(sector.off + len - 1)
            /\ sector.at + j - sector.off + 1 = sector.at + i + 1
        BY <1>1, <2>3, <2>4, Fields, Sizes DEF InPage
      <4>. HIDE DEF j
      <4>2. work'[j] = buf[sector.at + i + 1]
        BY <1>6, <4>1
      <4>. QED BY <4>2 DEF j
    <3>. QED BY <1>2, <1>6, <3>1 DEF Merged, len
  <2>11. SectorInv'
    BY <1>1, <1>2, <1>6, <2>10 DEF SectorInv, Busy, Sectors
  <2>12. \A i \in 0..(sector.at - 1) : Linear(flash', Start + i) = buf'[i + 1]
    BY <1>2, <1>6, <2>1, <2>5, DoneKept DEF x
  <2>13. MovedInv'
    BY <1>2, <1>6, <2>12 DEF MovedInv, Done, Equal
  <2>14. OthersKept'
    BY <1>2, <1>6 DEF OthersKept
  <2>. QED BY <2>8, <2>9, <2>11, <2>13, <2>14 DEF IInv
<1>7. CASE /\ flash' = [flash EXCEPT ![sector.n] = zeroes]
           /\ call.op # "write_page"
           /\ work' = zeroes
           /\ sector' = [sector EXCEPT !.n = @ + 1, !.left = @ - P]
           /\ IF sector'.left > 0 THEN UNCHANGED <<loop, pc, ret>>
              ELSE IF call.op = "erase_sector" THEN Return("ok") /\ UNCHANGED loop
              ELSE /\ loop' = Loop(call.page, 0, call.len, 0, "user")
                   /\ pc' = "write" /\ UNCHANGED ret
  <2>1. call.off = 0 /\ call.page <= sector.n /\ call.len > 0 /\ call.op \in Sectors
    BY <1>1, <1>2, <1>7 DEF SectorInv
  <2>14. Start = call.page * P
    <3>1. First = call.page /\ call.off % P = 0
      <4>1. call.page \in 0..(W - 1) /\ call.off \in Nat /\ call.off < P
        BY <1>1, <2>1, Fields, Sizes
      <4>2. (call.page + call.off \div P) % W = call.page /\ call.off % P = call.off
        BY <4>1, FirstIs
      <4>. QED BY <2>1, <4>2 DEF First
    <3>. QED BY <1>1, <3>1, Fields, Sizes DEF Start
  <2>2. PICK k \in 1..N : sector.left = k * P /\ (sector.n + k) * P = Start + call.len
    BY <1>1, <1>2, <2>1 DEF SectorInv
  <2>3. /\ (sector.n + k) * P = x + k * P /\ k * P \in Nat /\ k \in Nat
        /\ (k - 1) * P = k * P - P /\ (sector.n + 1 + (k - 1)) * P = (sector.n + k) * P
    BY <1>1, <2>2, Fields, Sizes DEF x
  <2>4. k * P >= P /\ (k * P > P => k - 1 \in 1..N)
    <3>1. CASE k = 1
      BY <2>3, <3>1, Sizes
    <3>2. CASE 1 < k
      <4>1. 1 * P + P <= k * P
        BY <2>2, <2>3, <3>2, PageOrder
      <4>. QED BY <2>2, <3>2, <4>1, Sizes
    <3>. QED BY <2>2, <3>1, <3>2, Sizes
  <2>5. x + P <= Start + call.len
    BY <1>1, <1>4, <2>2, <2>3, <2>4, Fields, Sizes
  <2>6. Start <= x
    <3>1. call.page \in Nat /\ Start = call.page * P /\ call.page * P \in Nat
      BY <1>1, <2>14, Fields, Sizes
    <3>2. CASE call.page = sector.n
      BY <1>4, <3>1, <3>2 DEF x
    <3>3. CASE call.page < sector.n
      <4>1. call.page * P + P <= sector.n * P
        BY <1>1, <3>1, <3>3, PageOrder, Fields
      <4>. QED BY <1>4, <3>1, <4>1, Sizes DEF x
    <3>. QED BY <1>1, <2>1, <3>1, <3>2, <3>3, Fields
  <2>7. sector.n \in Pages
    <3>1. x + 0 < N * P
      BY <1>1, <1>4, <2>5, Fields, Sizes
    <3>2. 0 \in InPage
      BY Sizes DEF InPage
    <3>. QED BY <1>1, <3>1, <3>2, OnDevice, Fields DEF x
  <2>8. /\ flash' \in [Pages -> [InPage -> Byte]]
        /\ \A i \in Bytes : i \notin x..(x + P - 1) => Linear(flash', i) = Linear(flash, i)
    BY <1>1, <1>7, <2>7, PageErased DEF zeroes, x
  <2>9. OthersKept'
    <3>1. ASSUME NEW i \in Bytes, ~Asked(i)
          PROVE  Linear(flash', i) = Linear(flash, i)
      <4>1. i \notin x..(x + P - 1)
        BY <1>1, <1>4, <2>5, <2>6, <3>1, Fields, Sizes DEF Asked, Bytes
      <4>. QED BY <2>8, <4>1
    <3>. QED BY <1>1, <1>2, <3>1 DEF OthersKept, Asked, Start, First, Linear
  <2>10. sector'.n = sector.n + 1 /\ sector'.left = k * P - P
         /\ sector' \in [n : Nat, off : Nat, left : Nat, at : Nat]
    <3>1. sector.n + 1 \in Nat /\ sector.left - P \in Nat
      BY <1>1, <2>2, <2>3, <2>4, Fields, Sizes
    <3>2. sector.left - P = k * P - P
      BY <2>2
    <3>. QED BY <1>1, <1>7, <3>1, <3>2 DEF Types
  <2>11. CASE sector'.left > 0
    <3>1. pc' = "erase" /\ loop' = loop /\ ret' = ret
      BY <1>2, <1>7, <2>11
    <3>2. Types'
      BY <1>1, <1>2, <1>3, <1>7, <2>8, <2>10, <3>1 DEF Types
    <3>3. k - 1 \in 1..N /\ sector'.left = (k - 1) * P
          /\ (sector'.n + (k - 1)) * P = Start + call.len
      BY <2>2, <2>3, <2>4, <2>10, <2>11, Sizes
    <3>4. call.page <= sector'.n
      BY <1>1, <2>1, <2>10, Fields, Sizes
    <3>5. SectorInv'
      BY <1>2, <1>7, <2>1, <3>1, <3>3, <3>4 DEF SectorInv
    <3>6. CallInv' /\ LoopInv'
      BY <1>2, <1>4, <2>1, <3>1 DEF CallInv, LoopInv, Busy
    <3>7. MovedInv'
      BY <1>2, <1>7, <3>1 DEF MovedInv, Done
    <3>. QED BY <2>9, <3>2, <3>5, <3>6, <3>7 DEF IInv
  <2>12. CASE ~(sector'.left > 0) /\ call.op = "erase_sector"
    <3>1. pc' = "done" /\ ret' = "ok" /\ loop' = loop
      BY <1>7, <2>12 DEF Return
    <3>2. Types'
      BY <1>1, <1>2, <1>3, <1>7, <2>8, <2>10, <3>1 DEF Types
    <3>3. CallInv' /\ LoopInv' /\ SectorInv'
      BY <3>1 DEF CallInv, LoopInv, SectorInv, Busy
    <3>4. MovedInv'
      BY <1>2, <1>4, <2>12, <3>1 DEF MovedInv, Done
    <3>. QED BY <2>9, <3>2, <3>3, <3>4 DEF IInv
  <2>13. CASE ~(sector'.left > 0) /\ call.op # "erase_sector"
    <3>1. pc' = "write" /\ ret' = ret /\ loop' = Loop(call.page, 0, call.len, 0, "user")
      BY <1>7, <2>13
    <3>2. loop' = [page |-> call.page, off |-> 0, left |-> call.len, at |-> 0, mem |-> "user"]
          /\ call.page \in Nat /\ call.len \in Nat
      <4>1. call.page \in Nat /\ call.page < W /\ call.len \in Nat
        BY <1>1, Fields, Sizes
      <4>. QED BY <3>1, <4>1, LoopAtPage
    <3>3. Types'
      <4>1. 0 \in InPage
        BY Sizes DEF InPage
      <4>2. loop' \in [page : Nat, off : InPage, left : Nat, at : Nat, mem : {"user", "work"}]
        BY <3>2, <4>1
      <4>. QED BY <1>1, <1>2, <1>3, <1>7, <2>8, <2>10, <3>1, <4>2 DEF Types
    <3>4. call.page * P + 0 = Start + 0 /\ 0 + call.len = call.len
      BY <1>1, <2>14, <3>2, Fields, Sizes
    <3>5. call.op = "write_sector"
      BY <2>1, <2>13 DEF Sectors
    <3>6. LoopInv'
      BY <1>2, <2>1, <3>1, <3>2, <3>4, <3>5 DEF LoopInv
    <3>7. CallInv' /\ SectorInv'
      BY <1>2, <1>4, <3>1, <3>5 DEF CallInv, SectorInv, Busy
    <3>8. MovedInv'
      BY <1>2, <3>1, <3>2, <3>5 DEF MovedInv, Done, Equal
    <3>. QED BY <2>9, <3>3, <3>6, <3>7, <3>8 DEF IInv
  <2>. QED BY <2>11, <2>12, <2>13
<1>. QED BY <1>5, <1>6, <1>7 DEF Erase, zeroes, len

LEMMA SectorStep ==
  ASSUME IInv, Sector
  PROVE  IInv'
<1>1. Types /\ CallInv /\ LoopInv /\ SectorInv /\ MovedInv /\ OthersKept
  BY DEF IInv
<1>2. /\ pc = "sector" /\ call.op = "write_page" /\ Busy /\ Start' = Start
      /\ UNCHANGED <<flash, work, buf, call, sector, before>>
  BY <1>1 DEF Sector, Busy, Start, First, CallInv
<1>3. Equal(sector.at)
  BY <1>1, <1>2 DEF MovedInv
<1>4. Equal(sector.at)'
  BY <1>2, <1>3 DEF Equal, Linear
<1>5. OthersKept'
  BY <1>1, <1>2, OthersSame
<1>6. sector.at + sector.left = call.len
  BY <1>1, <1>2 DEF SectorInv
<1>7. CASE sector.left = 0 /\ Return("ok") /\ UNCHANGED loop
  <2>1. Types'
    BY <1>1, <1>2, <1>7 DEF Types, Return
  <2>2. CallInv' /\ LoopInv' /\ SectorInv'
    BY <1>7 DEF CallInv, LoopInv, SectorInv, Busy, Return
  <2>3. sector.at = call.len
    BY <1>1, <1>6, <1>7, Fields
  <2>5. Start + call.len <= N * P
    BY <1>1, <1>2 DEF CallInv, Straight
  <2>4. MovedInv'
    BY <1>2, <1>4, <1>7, <2>3, <2>5 DEF MovedInv, Return, Done
  <2>. QED BY <1>5, <2>1, <2>2, <2>4 DEF IInv
<1>8. CASE /\ sector.left > 0
           /\ IF sector.off = 0 /\ sector.left >= P
              THEN loop' = Loop(sector.n, 0, P, sector.at, "user") /\ pc' = "write"
              ELSE loop' = Loop(sector.n, 0, P, 0, "work") /\ pc' = "read"
           /\ UNCHANGED ret
  <2>1. \/ /\ sector.off = 0 /\ sector.left >= P /\ pc' = "write"
           /\ loop' = [page |-> sector.n, off |-> 0, left |-> P, at |-> sector.at, mem |-> "user"]
        \/ /\ pc' = "read"
           /\ loop' = [page |-> sector.n, off |-> 0, left |-> P, at |-> 0, mem |-> "work"]
    <3>1. sector.n \in Nat /\ sector.n < W
      <4>1. sector.n \in Pages
        BY <1>1, <1>2, <1>8, SectorOn
      <4>. QED BY <4>1, Sizes DEF Pages
    <3>. QED BY <1>8, <3>1, LoopAtPage
  <2>2. loop' \in [page : Nat, off : InPage, left : Nat, at : Nat, mem : {"user", "work"}]
    <3>1. 0 \in InPage
      BY Sizes DEF InPage
    <3>. QED BY <1>1, <2>1, <3>1, Fields, Sizes
  <2>3. Types'
    BY <1>1, <1>2, <1>8, <2>1, <2>2 DEF Types
  <2>4. LoopInv'
    BY <1>2, <2>1, Sizes DEF LoopInv
  <2>5. CallInv'
    BY <1>1, <1>2, <2>1 DEF CallInv, Busy, Straight
  <2>6. SectorInv'
    <3>1. Busy'
      BY <2>1 DEF Busy
    <3>2. ~(pc' = "write" /\ loop'.mem = "work") /\ pc' # "erase"
      BY <2>1
    <3>. QED BY <1>1, <1>2, <1>8, <3>1, <3>2 DEF SectorInv
  <2>7. MovedInv'
    BY <1>2, <1>4, <2>1 DEF MovedInv, Done
  <2>. QED BY <1>5, <2>3, <2>4, <2>5, <2>6, <2>7 DEF IInv
<1>. QED BY <1>7, <1>8 DEF Sector

LEMMA FreshType == Fresh \in [1..MaxLen -> Byte]
BY Sizes DEF Fresh

LEMMA DataType ==
  ASSUME NEW len, NEW data \in Data(len)
  PROVE  data \in [1..MaxLen -> Byte]
BY DEF Data

LEMMA BytesStep ==
  ASSUME IInv, NEW op \in {"read", "read_page", "write_page_raw", "write_page"},
         NEW page \in 0..(W - 1), NEW off \in 0..(W - 1), NEW len \in 1..MaxLen,
         op = "write_page" => off < P,
         NEW data \in [1..MaxLen -> Byte], mtd_bytes(op, page, off, len, data)
  PROVE  IInv'
<1>. DEFINE refused == out_of_bounds(page, off, len) \/ (op = "write_page" /\ page >= N)
            first == (page + off \div P) % W
<1>1. page \in Nat /\ off \in Nat /\ len \in Nat \ {0} /\ len <= MaxLen
  BY Sizes
<1>2. refused => page * P + off + len > N * P
  BY <1>1, Refuses
<1>3. ASSUME ~refused
      PROVE  \/ first * P + (off % P) + len <= N * P
             \/ op \in Straight /\ (off + len > W \/ first > W - MaxLen)
  <2>1. \/ first * P + (off % P) + len <= N * P
        \/ off + len > W
        \/ first > W - MaxLen
    BY <1>3, LetsThrough
  <2>2. CASE op = "write_page"
    <3>1. off < P /\ page < N /\ first = page
      BY <1>1, <1>3, <2>2, FirstIs, Sizes
    <3>2. off + len <= W /\ ~(page > W - MaxLen)
      BY <1>1, <3>1, Sizes
    <3>3. ~(off + len > W)
      BY <1>1, <3>2, Sizes
    <3>. HIDE DEF first
    <3>. QED BY <2>1, <3>1, <3>2, <3>3
  <2>. QED BY <2>1, <2>2 DEF Straight
<1>6. Accept(op, page, off, len, refused) /\ buf' = data
  BY DEF mtd_bytes
<1>. HIDE DEF refused
<1>7. op \in AllOps /\ op \notin Sectors
  BY DEF AllOps, Sectors
<1>. QED BY <1>2, <1>3, <1>6, <1>7, AcceptStep

LEMMA SectorsStep ==
  ASSUME IInv, NEW op \in Sectors, NEW page \in 0..(W - 1), NEW num \in 1..(MaxLen \div P),
         NEW data \in [1..MaxLen -> Byte], mtd_sectors(op, page, num, data)
  PROVE  IInv'
<1>. DEFINE len == num * P
            d == MaxLen \div P
            refused == page + num > N
            test == (page + num) % W > N \/ (page + num) % W < page
<1>1. d \in Nat /\ MaxLen = d * P + (MaxLen % P) /\ MaxLen % P \in InPage
  BY Divides, Sizes
<1>2. num \in Nat /\ num > 0 /\ num <= d
  BY <1>1
<1>. HIDE DEF d
<1>3. MaxLen % P \in Nat /\ d * P \in Nat /\ len \in Nat /\ len <= d * P
  <2>1. num < d => num * P + P <= d * P
    BY <1>1, <1>2, PageOrder
  <2>2. num * P \in Nat /\ d * P \in Nat /\ MaxLen % P \in Nat
    BY <1>1, <1>2, Sizes DEF InPage
  <2>. QED BY <1>1, <1>2, <2>1, <2>2, Sizes
<1>4. len > 0
  <2>1. 0 * P + P <= num * P /\ 0 * P = 0
    BY <1>2, PageOrder, Sizes
  <2>. QED BY <2>1, Sizes
<1>5. len \in 1..MaxLen
  BY <1>1, <1>3, <1>4, Sizes
<1>6. refused <=> page * P + 0 + len > N * P
  <2>1. page \in Nat /\ page * P \in Nat /\ N * P \in Nat /\ (page + num) * P = page * P + len
    BY <1>2, Sizes
  <2>2. 0 \in InPage /\ page + num \in Nat
    BY <1>2, <2>1, Sizes DEF InPage
  <2>3. (page + num < N) <=> (page + num) * P + 0 < N * P
    BY <2>2, OnDevice, Sizes DEF Pages
  <2>4. page + num = N => page * P + len = N * P
    BY <2>1
  <2>5. page + num > N => N * P + P <= (page + num) * P
    BY <2>2, PageOrder, Sizes
  <2>. HIDE DEF len
  <2>6. CASE page + num < N
    BY <1>3, <2>1, <2>2, <2>3, <2>6, Sizes
  <2>7. CASE page + num = N
    BY <1>3, <2>1, <2>2, <2>4, <2>7, Sizes
  <2>8. CASE page + num > N
    BY <1>3, <2>1, <2>2, <2>5, <2>8, Sizes
  <2>. QED BY <2>2, <2>6, <2>7, <2>8, Sizes
\* The sum wraps only if it is outside the device, and is then smaller.
<1>9. test <=> refused
  <2>1. page \in Nat /\ page < W /\ num <= MaxLen /\ N < W /\ MaxLen < W
    <3>1. d <= MaxLen
      <4>1. d * P = d + d * (P - 1) /\ d * (P - 1) \in Nat
        BY <1>1, Sizes
      <4>2. MaxLen % P \in Nat
        BY <1>3
      <4>. QED BY <1>1, <4>1, <4>2
    <3>. QED BY <1>1, <1>2, <3>1, Sizes
  <2>2. CASE page + num < W
    <3>1. (page + num) % W = page + num
      BY <1>2, <2>1, <2>2, Sizes
    <3>. QED BY <1>2, <2>1, <3>1, Sizes
  <2>3. CASE W <= page + num
    <3>. DEFINE a == page + num - W
    <3>1. a \in Nat /\ a < W /\ a < page /\ page + num = a + W
      BY <1>2, <2>1, <2>3, Sizes
    <3>. HIDE DEF a
    <3>2. (a + W) % W = a
      BY <3>1, Sizes
    <3>. QED BY <1>2, <2>1, <2>3, <3>1, <3>2, Sizes
  <2>. QED BY <1>2, <2>1, <2>2, <2>3, Sizes
<1>. HIDE DEF test
<1>10. mtd_sectors(op, page, num, data) => Accept(op, page, 0, len, test) /\ buf' = data
  BY DEF mtd_sectors, test
<1>7. CASE refused
  <2>1. Accept(op, page, 0, len, TRUE) /\ buf' = data
    BY <1>7, <1>9, <1>10 DEF Accept
  <2>2. pc' = "done" /\ ret' = "overflow" /\ call'.page = page /\ call'.off = 0 /\ call'.len = len
    BY <2>1 DEF Accept, Return
  <2>3. page * P + 0 + len > N * P
    BY <1>6, <1>7
  <2>4. CallInv' /\ LoopInv' /\ SectorInv'
    BY <2>2 DEF CallInv, LoopInv, SectorInv, Busy
  <2>5. MovedInv'
    BY <2>2, <2>3 DEF MovedInv, Done, Busy
  <2>6. OthersKept'
    BY <2>1 DEF Accept, OthersKept, Linear
  <2>7. Types'
    <3>1. /\ flash' = flash /\ before' = flash /\ work' = work /\ buf' = data /\ loop' = NoLoop
          /\ sector' = [n |-> page, off |-> 0, left |-> len, at |-> 0]
          /\ call' = [op |-> op, page |-> page, off |-> 0, len |-> len]
      BY <2>1 DEF Accept, Sectors
    <3>2. NoLoop \in [page : Nat, off : InPage, left : Nat, at : Nat, mem : {"user", "work"}]
      BY Sizes DEF NoLoop, InPage
    <3>3. page \in Nat /\ 0 \in 0..(W - 1) /\ len \in 0..MaxLen /\ op \in AllOps
      BY <1>3, <1>5, Sizes DEF AllOps, Sectors
    <3>. HIDE DEF len
    <3>4. /\ sector' \in [n : Nat, off : Nat, left : Nat, at : Nat]
          /\ call' \in [op : AllOps \cup {"none"}, page : 0..(W - 1), off : 0..(W - 1), len : 0..MaxLen]
      BY <1>3, <3>1, <3>3
    <3>. QED BY <2>2, <3>1, <3>2, <3>4 DEF Types, IInv
  <2>. QED BY <2>4, <2>5, <2>6, <2>7 DEF IInv
<1>8. CASE ~refused
  <2>1. Accept(op, page, 0, len, FALSE) /\ buf' = data
    BY <1>8, <1>9, <1>10 DEF Accept
  <2>2. num \in 1..N /\ page + num <= N
    BY <1>2, <1>8, Sizes
  <2>3. ~(page * P + 0 + len > N * P) /\ op \in AllOps /\ op # "write_page" /\ 0 \in 0..(W - 1)
    BY <1>6, <1>8, Sizes DEF AllOps, Sectors
  <2>4. \E k \in 1..N : len = k * P /\ page + k <= N
    BY <2>2
  <2>5. ((page + 0 \div P) % W) * P + (0 % P) + len <= N * P
    <3>1. (page + 0 \div P) % W = page /\ 0 % P = 0
      <4>1. 0 \in Nat /\ 0 < P
        BY Sizes
      <4>. QED BY <4>1, FirstIs
    <3>2. page * P \in Nat /\ N * P \in Nat
      BY Sizes
    <3>. HIDE DEF len
    <3>. QED BY <1>3, <2>3, <3>1, <3>2
  <2>. HIDE DEF len
  <2>. QED BY <1>5, <2>1, <2>3, <2>4, <2>5, AcceptStep
<1>. QED BY <1>7, <1>8

\* The byte at an address that is not the first of a page, and the one before it.
LEMMA BeforeIt ==
  ASSUME NEW off \in 0..(W - 1), off % P # 0, ~out_of_bounds(0, off, 0)
  PROVE  off \div P \in Pages
<1>. DEFINE d == off \div P
            r == off % P
<1>1. off \in Nat /\ off < W
  BY Sizes
<1>2. d \in Nat /\ r \in InPage /\ off = d * P + r /\ d * P \in Nat
  BY <1>1, Divides, Sizes
<1>3. r # 0
  OBVIOUS
<1>. HIDE DEF d, r
<1>4. r - 1 \in InPage /\ off - 1 = d * P + (r - 1) /\ off - 1 \in Nat
  BY <1>2, <1>3, Sizes DEF InPage
<1>5. (off - 1) \div P = d
  BY <1>2, <1>4, Divided
<1>6. off + 0 - 1 = off - 1 /\ (off - 1) % W = off - 1
  BY <1>1, <1>4, Sizes
<1>7. ~((0 + d) % W >= N)
  BY <1>5, <1>6 DEF out_of_bounds
<1>8. d < W
  <2>1. d * P = d + d * (P - 1) /\ d * (P - 1) \in Nat /\ r \in Nat
    BY <1>2, Sizes DEF InPage
  <2>. DEFINE m == d * (P - 1)
  <2>2. m \in Nat /\ off = d + m + r
    BY <1>2, <2>1
  <2>. HIDE DEF m
  <2>. QED BY <1>1, <1>2, <2>1, <2>2, Sizes
<1>9. (0 + d) % W = d
  BY <1>2, <1>8, Sizes
<1>. QED BY <1>2, <1>7, <1>9, Sizes DEF Pages, d

\* A call for no bytes.
LEMMA NothingStep ==
  ASSUME IInv, NEW op \in AllOps, NEW page \in 0..(W - 1), NEW off \in 0..(W - 1),
         op = "read" => page = 0, mtd_nothing(op, page, off)
  PROVE  IInv'
<1>1. /\ call' = [op |-> op, page |-> page, off |-> off, len |-> 0]
      /\ before' = flash /\ flash' = flash /\ buf' = buf /\ loop' = loop /\ sector' = sector
  BY DEF mtd_nothing
<1>2. \/ /\ pc' = "done" /\ ret' \in {"ok", "overflow"}
         /\ work' = work \/ work' = [i \in InPage |-> Zero]
      \/ /\ ~out_of_bounds(page, off, 0) /\ op = "read" /\ off % P # 0
         /\ \/ pc' = "done" /\ ret' = "ok" /\ work' = flash[off \div P]
            \/ pc' = "done" /\ ret' = "eio" /\ work' = work
      \/ pc' = "assert" /\ ret' = ret /\ work' = work
  BY DEF mtd_nothing, Return
<1>3. [i \in InPage |-> Zero] \in [InPage -> Byte]
  BY Sizes
<1>4. /\ pc' \in {"done", "assert"} /\ work' \in [InPage -> Byte]
      /\ ret' \in {"none", "ok", "eio", "overflow"}
  BY <1>2, <1>3, BeforeIt DEF IInv, Types
<1>5. call' \in [op : AllOps \cup {"none"}, page : 0..(W - 1), off : 0..(W - 1), len : 0..MaxLen]
  BY <1>1, Sizes
<1>6. Types'
  BY <1>1, <1>4, <1>5 DEF IInv, Types
<1>7. CallInv' /\ LoopInv' /\ SectorInv'
  BY <1>4 DEF CallInv, LoopInv, SectorInv, Busy
<1>8. MovedInv'
  BY <1>1, <1>4 DEF MovedInv, Busy, Done
<1>9. OthersKept'
  BY <1>1 DEF OthersKept, Linear
<1>. QED BY <1>6, <1>7, <1>8, <1>9 DEF IInv

LEMMA Starts == Init => IInv
<1>. SUFFICES ASSUME Init
              PROVE  IInv
  OBVIOUS
<1>1. 0 \in InPage /\ 0 \in 0..(W - 1) /\ 0 \in 0..MaxLen
  BY Sizes DEF InPage
<1>2. NoLoop \in [page : Nat, off : InPage, left : Nat, at : Nat, mem : {"user", "work"}]
  BY <1>1 DEF NoLoop
<1>3. NoSector \in [n : Nat, off : Nat, left : Nat, at : Nat]
  BY <1>1 DEF NoSector
<1>4. NoCall \in [op : AllOps \cup {"none"}, page : 0..(W - 1), off : 0..(W - 1), len : 0..MaxLen]
  BY <1>1 DEF NoCall
<1>5. Types
  BY <1>2, <1>3, <1>4, FreshType, Sizes DEF Types, Init
<1>6. CallInv /\ LoopInv /\ SectorInv /\ MovedInv /\ OthersKept
  BY DEF Init, CallInv, LoopInv, SectorInv, MovedInv, OthersKept, Busy, Done
<1>. QED BY <1>5, <1>6 DEF IInv

LEMMA FinishStep ==
  ASSUME IInv, Finish
  PROVE  IInv'
<1>1. 0 \in InPage /\ 0 \in 0..(W - 1) /\ 0 \in 0..MaxLen
  BY Sizes DEF InPage
<1>2. loop' \in [page : Nat, off : InPage, left : Nat, at : Nat, mem : {"user", "work"}]
  BY <1>1 DEF NoLoop, Finish
<1>3. sector' \in [n : Nat, off : Nat, left : Nat, at : Nat]
  BY <1>1 DEF NoSector, Finish
<1>4. call' \in [op : AllOps \cup {"none"}, page : 0..(W - 1), off : 0..(W - 1), len : 0..MaxLen]
  BY <1>1 DEF NoCall, Finish
<1>5. Types'
  BY <1>2, <1>3, <1>4, FreshType DEF Types, Finish, IInv
<1>6. CallInv' /\ LoopInv' /\ SectorInv' /\ MovedInv' /\ OthersKept'
  BY DEF Finish, CallInv, LoopInv, SectorInv, MovedInv, OthersKept, Busy, Done
<1>. QED BY <1>5, <1>6 DEF IInv

LEMMA Steps == IInv /\ [Next]_vars => IInv'
<1>. SUFFICES ASSUME IInv, [Next]_vars
              PROVE  IInv'
  OBVIOUS
<1>1. ASSUME NEW op \in Ops, NEW page \in Args, NEW off \in Args, Legal(op, page, off),
             \/ mtd_nothing(op, page, off)
             \/ \E len \in 1..MaxLen :
                  \/ op \in {"read", "read_page"} /\ mtd_bytes(op, page, off, len, Fresh)
                  \/ /\ op \in {"write_page_raw", "write_page"}
                     /\ \E data \in Data(len) : mtd_bytes(op, page, off, len, data)
             \/ \E num \in 1..(MaxLen \div P) :
                  \/ op = "erase_sector" /\ mtd_sectors(op, page, num, Fresh)
                  \/ /\ op = "write_sector"
                     /\ \E data \in Data(num * P) : mtd_sectors(op, page, num, data)
      PROVE  IInv'
  <2>1. op \in AllOps /\ page \in 0..(W - 1) /\ off \in 0..(W - 1)
    BY MtdAssumption DEF MtdAssumption
  <2>2. (op = "read" => page = 0) /\ (op = "write_page" => off < P)
    BY <1>1 DEF Legal
  <2>3. CASE mtd_nothing(op, page, off)
    BY <2>1, <2>2, <2>3, NothingStep
  <2>4. ASSUME NEW len \in 1..MaxLen, op \in {"read", "read_page"},
               mtd_bytes(op, page, off, len, Fresh)
        PROVE  IInv'
    BY <2>1, <2>2, <2>4, FreshType, BytesStep
  <2>5. ASSUME NEW len \in 1..MaxLen, op \in {"write_page_raw", "write_page"},
               NEW data \in Data(len), mtd_bytes(op, page, off, len, data)
        PROVE  IInv'
    BY <2>1, <2>2, <2>5, DataType, BytesStep
  <2>6. ASSUME NEW num \in 1..(MaxLen \div P), op = "erase_sector",
               mtd_sectors(op, page, num, Fresh)
        PROVE  IInv'
    BY <2>1, <2>6, FreshType, SectorsStep DEF Sectors
  <2>7. ASSUME NEW num \in 1..(MaxLen \div P), op = "write_sector",
               NEW data \in Data(num * P), mtd_sectors(op, page, num, data)
        PROVE  IInv'
    BY <2>1, <2>7, DataType, SectorsStep DEF Sectors
  <2>. QED BY <1>1, <2>3, <2>4, <2>5, <2>6, <2>7
<1>5. CASE UNCHANGED vars
  <2>1. Types'
    BY <1>5 DEF IInv, Types, vars
  <2>2. CallInv' /\ LoopInv' /\ SectorInv'
    BY <1>5 DEF IInv, CallInv, LoopInv, SectorInv, Merged, Busy, Start, First, vars
  <2>3. MovedInv' /\ OthersKept'
    BY <1>5 DEF IInv, MovedInv, OthersKept, Equal, Linear, Asked, Busy, Done, Start, First, vars
  <2>. QED BY <2>1, <2>2, <2>3 DEF IInv
<1>. QED BY <1>1, <1>5, ReadStep, WriteStep, EraseStep, SectorStep, FinishStep DEF Next, Stopped
-----------------------------------------------------------------------------
(* What holds of a device of any size.                                     *)

LEMMA MtdInvariant == Spec => []IInv
BY Starts, Steps, PTL DEF Spec

\* mtd.c: no loop over pages or sectors leaves the device, whatever page, offset and
\* length of 32 bits a call has, but for the two kinds of call whose sums wrap and that
\* out_of_bounds does not see; and no erasure leaves it.
THEOREM DeviceKept == Spec => []TypeOK
<1>1. IInv => TypeOK
  <2>. SUFFICES ASSUME IInv
                PROVE  TypeOK
    OBVIOUS
  <2>1. Types /\ CallInv /\ LoopInv /\ SectorInv
    BY DEF IInv
  <2>2. /\ flash \in [Pages -> [InPage -> Byte]] /\ work \in [InPage -> Byte]
        /\ buf \in [1..MaxLen -> Byte]
        /\ pc \in {"idle", "read", "write", "erase", "sector", "assert", "done"}
        /\ ret \in {"none", "ok", "eio", "overflow"}
        /\ loop.off \in InPage /\ loop.mem \in {"user", "work"}
    BY <2>1 DEF Types
  <2>3. pc \in {"read", "write"} =>
          \/ loop.page * P + loop.off + loop.left <= N * P
          \/ call.off + call.len > W
          \/ First > W - MaxLen
    BY <2>1, Inside DEF Place
  <2>4. ASSUME pc = "erase"
        PROVE  sector.n < N
    <3>1. Busy /\ Start + call.len <= N * P /\ call.op \in {"write_page"} \cup Sectors
      BY <2>1, <2>4 DEF Busy, CallInv, Straight, Sectors
    <3>2. CASE call.op = "write_page"
      <4>1. sector.left > 0
        BY <2>1, <2>4, <3>1, <3>2 DEF SectorInv
      <4>. QED BY <2>1, <3>1, <3>2, <4>1, SectorOn, Sizes DEF Pages
    <3>3. CASE call.op \in Sectors
      <4>1. PICK k \in 1..N : (sector.n + k) * P = Start + call.len
        BY <2>1, <2>4, <3>3 DEF SectorInv
      <4>2. N < sector.n + k => N * P + P <= (sector.n + k) * P
        BY <2>1, <4>1, PageOrder, Fields, Sizes
      <4>3. ~(N < sector.n + k)
        BY <2>1, <3>1, <4>1, <4>2, Fields, Sizes
      <4>. QED BY <2>1, <4>1, <4>3, Fields, Sizes
    <3>. QED BY <3>1, <3>2, <3>3
  <2>. QED BY <2>2, <2>3, <2>4 DEF TypeOK
<1>. QED BY <1>1, MtdInvariant, PTL

\* mtd.h: a call that returns 0 has moved all its bytes, on the device, whatever pages it
\* crosses and whatever wraps, and only what leaves the device is refused (by mtd_read
\* also what crosses a page), or a call for no bytes.
THEOREM BytesCopied == Spec => []Copied
<1>1. IInv => Copied
  <2>. SUFFICES ASSUME IInv, pc = "done"
                PROVE  /\ ret = "ok" /\ call.len > 0 =>
                            /\ Start + call.len <= N * P
                            /\ call.op # "erase_sector" =>
                                 \A i \in 0..(call.len - 1) :
                                   Linear(flash, Start + i) = buf[i + 1]
                       /\ ret = "overflow" =>
                            \/ call.page * P + call.off + call.len > N * P
                            \/ call.len = 0
                            \/ call.op = "read" /\ (call.off % P) + call.len > P
    BY DEF Copied
  <2>1. MovedInv
    BY DEF IInv
  <2>2. ASSUME ret = "ok", call.len > 0, call.op # "erase_sector"
        PROVE  Equal(call.len)
    BY <2>1, <2>2 DEF MovedInv, Done
  <2>3. ASSUME ret = "ok", call.len > 0
        PROVE  Start + call.len <= N * P
    BY <2>1, <2>3 DEF MovedInv, Done
  <2>. QED BY <2>1, <2>2, <2>3 DEF MovedInv, Equal
<1>. QED BY <1>1, MtdInvariant, PTL

\* mtd.c: no call but mtd_write_page changes a byte that it is not about, even one
\* that fails half way.
THEOREM OthersUntouched == Spec => []OthersKept
BY MtdInvariant, PTL DEF IInv
-----------------------------------------------------------------------------
(* The command line.                                                       *)

\* A place of the ring, counted on over its end.
Slot(i) == IF i < RxSize THEN i ELSE i - RxSize

\* The ring holds what is pending, from front to back; a character that is being put
\* in is stored behind it and has room, one that is being taken out is its first.
Ring ==
  /\ Len(pending) < RxSize
  /\ back = Slot(front + Len(pending))
  /\ \A i \in 1..Len(pending) : pending[i] = rx[Slot(front + i - 1)]
  /\ reader = "advance" => rx[back] = got /\ Len(pending) < RxSize - 1
  /\ process = "taken" => pending # <<>> /\ taken = Head(pending)

\* An overflow is on its way, or noted by either task, only after a loss.
Overflow ==
  "overflow" \in flags \cup old \cup seen \/ reader = "flag" => lost

CliInv == C!TypeOK /\ Ring /\ Overflow /\ C!CursorKept

\* The modulus that the code takes goes once over the end.
LEMMA Modulus ==
  ASSUME NEW n \in Nat \ {0}, NEW i \in 0..(2 * n - 1)
  PROVE  i % n = IF i < n THEN i ELSE i - n
OBVIOUS

LEMMA SlotIsModulus ==
  ASSUME C!CliAssumption, NEW i \in 0..(2 * RxSize - 1)
  PROVE  i % RxSize = Slot(i) /\ Slot(i) \in 0..(RxSize - 1)
<1>1. RxSize \in Nat \ {0}
  BY DEF C!CliAssumption
<1>2. i % RxSize = IF i < RxSize THEN i ELSE i - RxSize
  BY <1>1, Modulus
<1>3. Slot(i) \in 0..(RxSize - 1)
  BY <1>1 DEF Slot
<1>. QED BY <1>2, <1>3 DEF Slot

\* The places of the ring are apart.
LEMMA SlotsApart ==
  ASSUME C!CliAssumption, NEW f \in 0..(RxSize - 1),
         NEW i \in 0..(RxSize - 1), NEW j \in 0..(RxSize - 1), i # j
  PROVE  Slot(f + i) # Slot(f + j)
BY DEF C!CliAssumption, Slot

LEMMA CliInit ==
  ASSUME C!CliAssumption, C!Init
  PROVE  CliInv
<1>1. C!Cleared \in Chars
  BY DEF C!CliAssumption, C!Cleared
<1>2. C!TypeOK
  <2>1. 0 \in C!Sizes /\ 0 \in 0..(RxSize - 1) /\ pending \in Seq(Chars)
    BY DEF C!CliAssumption, C!Init, C!Sizes
  <2>2. rx \in [0..(RxSize - 1) -> Chars]
    BY <1>1 DEF C!Init
  <2>. QED BY <1>1, <2>1, <2>2 DEF C!Init, C!TypeOK
<1>3. Ring
  <2>1. Len(pending) = 0
    BY DEF C!Init
  <2>2. 0 < RxSize /\ Slot(0) = 0
    BY DEF C!CliAssumption, Slot
  <2>. QED BY <2>1, <2>2 DEF C!Init, Ring
<1>. QED BY <1>2, <1>3 DEF C!Init, CliInv, Overflow, C!CursorKept, C!CursorInCommand

\* A step that takes nothing from the ring and puts nothing in.
LEMMA RingKept ==
  ASSUME Ring, UNCHANGED <<C!ring, pending, reader, got>>,
         process' = "taken" => UNCHANGED <<process, taken>>
  PROVE  Ring'
BY DEF Ring, Slot, C!ring

\* cli_io_read_task.
LEMMA CliRead ==
  ASSUME C!CliAssumption, CliInv, C!Read
  PROVE  CliInv'
<1>a. C!TypeOK /\ Ring /\ Overflow /\ C!CursorKept
  BY DEF CliInv
<1>b. /\ RxSize \in Nat \ {0, 1} /\ front \in 0..(RxSize - 1) /\ back \in 0..(RxSize - 1)
      /\ rx \in [0..(RxSize - 1) -> Chars] /\ pending \in Seq(Chars) /\ got \in Chars
      /\ Len(pending) \in 0..(RxSize - 1)
  BY <1>a DEF C!CliAssumption, C!TypeOK, Ring
<1>c. (back + 1) % RxSize = Slot(back + 1) /\ Slot(back + 1) \in 0..(RxSize - 1)
  BY <1>b, SlotIsModulus
<1>d. C!line' = C!line /\ UNCHANGED <<front, process, taken, seen>> /\ (lost => lost')
  BY DEF C!Read, C!Receive, C!Push, C!Advance, C!SetOverflow, C!ring
<1>e. C!CursorKept'
  BY <1>a, <1>d DEF C!CursorKept, C!CursorInCommand, C!line
<1>1. CASE \E c \in Chars : C!Receive(c)
  <2>1. C!TypeOK' /\ Overflow'
    BY <1>a, <1>1 DEF C!Receive, C!TypeOK, C!ring, C!line, Overflow
  <2>2. Ring'
    BY <1>a, <1>1 DEF C!Receive, C!ring, Ring, Slot
  <2>. QED BY <1>e, <2>1, <2>2 DEF CliInv
<1>2. CASE C!Push
  <2>1. CASE (back + 1) % RxSize # front /\ rx' = [rx EXCEPT ![back] = got]
             /\ reader' = "advance" /\ UNCHANGED <<old, lost>>
    <3>1. C!TypeOK' /\ Overflow'
      BY <1>a, <1>2, <2>1 DEF C!Push, C!TypeOK, C!line, Overflow
    <3>2. Len(pending) < RxSize - 1
      <4>1. Slot(back + 1) # front /\ back = Slot(front + Len(pending))
        BY <1>a, <1>c, <2>1 DEF Ring
      <4>. QED BY <1>b, <4>1 DEF Slot
    <3>3. ASSUME NEW i \in 1..Len(pending)
          PROVE  Slot(front + i - 1) \in 0..(RxSize - 1) /\ Slot(front + i - 1) # back
      BY <1>a, <1>b, <3>2 DEF Ring, Slot
    <3>4. \A i \in 1..Len(pending) : pending[i] = rx'[Slot(front + i - 1)]
      BY <1>a, <1>b, <2>1, <3>3 DEF Ring
    <3>5. rx'[back] = got
      BY <1>b, <2>1
    <3>. QED BY <1>a, <1>2, <1>e, <2>1, <3>1, <3>2, <3>4, <3>5 DEF C!Push, Ring, Slot, CliInv
  <2>2. CASE lost' = TRUE /\ old' = flags /\ reader' = "flag" /\ UNCHANGED rx
    <3>1. C!TypeOK' /\ Overflow'
      BY <1>a, <1>2, <2>2 DEF C!Push, C!TypeOK, C!line, Overflow
    <3>2. Ring'
      BY <1>a, <1>2, <2>2 DEF C!Push, Ring, Slot
    <3>. QED BY <1>e, <3>1, <3>2 DEF CliInv
  <2>. QED BY <1>2, <2>1, <2>2 DEF C!Push
<1>3. CASE C!Advance
  <2>1. /\ back' = Slot(back + 1) /\ pending' = Append(pending, got)
        /\ reader = "advance" /\ reader' = "idle" /\ UNCHANGED <<rx, front, process, taken, got>>
    BY <1>3, <1>c DEF C!Advance
  <2>2. C!TypeOK' /\ Overflow'
    BY <1>a, <1>b, <1>c, <1>3, <2>1 DEF C!Advance, C!TypeOK, C!line, Overflow
  <2>3. Len(pending') = Len(pending) + 1 /\ Len(pending) < RxSize - 1
    BY <1>a, <1>b, <2>1 DEF Ring
  <2>4. back' = Slot(front + Len(pending'))
    BY <1>a, <1>b, <2>1, <2>3 DEF Ring, Slot
  <2>5. ASSUME NEW i \in 1..Len(pending')
        PROVE  pending'[i] = rx[Slot(front + i - 1)]
    <3>1. CASE i = Len(pending) + 1
      <4>1. front + i - 1 = front + Len(pending) /\ pending'[i] = got
        BY <1>b, <2>1, <3>1
      <4>. QED BY <1>a, <2>1, <4>1 DEF Ring
    <3>2. CASE i # Len(pending) + 1
      <4>1. i \in 1..Len(pending) /\ pending'[i] = pending[i]
        BY <1>b, <2>1, <2>3, <3>2
      <4>. QED BY <1>a, <4>1 DEF Ring
    <3>. QED BY <3>1, <3>2
  <2>6. process = "taken" => pending' # <<>> /\ taken = Head(pending')
    BY <1>a, <1>b, <2>1 DEF Ring
  <2>7. Ring'
    BY <1>b, <2>1, <2>3, <2>4, <2>5, <2>6 DEF Ring, Slot
  <2>. QED BY <1>e, <2>2, <2>7 DEF CliInv
<1>4. CASE C!SetOverflow
  <2>1. C!TypeOK' /\ Overflow'
    BY <1>a, <1>4 DEF C!SetOverflow, C!TypeOK, C!line, C!ring, C!Flags, Overflow
  <2>2. Ring'
    BY <1>a, <1>4 DEF C!SetOverflow, C!ring, Ring, Slot
  <2>. QED BY <1>e, <2>1, <2>2 DEF CliInv
<1>. QED BY <1>1, <1>2, <1>3, <1>4 DEF C!Read

\* cli_process_task and the ring.
LEMMA CliTake ==
  ASSUME C!CliAssumption, CliInv, C!Take \/ C!Pop
  PROVE  CliInv'
<1>a. C!TypeOK /\ Ring /\ Overflow /\ C!CursorKept
  BY DEF CliInv
<1>b. /\ RxSize \in Nat \ {0, 1} /\ front \in 0..(RxSize - 1) /\ back \in 0..(RxSize - 1)
      /\ rx \in [0..(RxSize - 1) -> Chars] /\ pending \in Seq(Chars)
      /\ Len(pending) \in 0..(RxSize - 1)
  BY <1>a DEF C!CliAssumption, C!TypeOK, Ring
<1>c. C!line' = C!line /\ UNCHANGED <<rx, back, flags, reader, got, old, seen, lost>>
  BY DEF C!Take, C!Pop, C!ring, C!receiver
<1>d. Overflow' /\ C!CursorKept'
  BY <1>a, <1>c DEF Overflow, C!CursorKept, C!CursorInCommand, C!line
<1>1. CASE C!Take
  <2>1. C!TypeOK'
    BY <1>a, <1>b, <1>c, <1>1 DEF C!Take, C!TypeOK, C!ring, C!line, C!receiver, C!Goto
  <2>2. front # back => pending # <<>> /\ rx[front] = Head(pending)
    <3>. SUFFICES ASSUME front # back
                  PROVE  pending # <<>> /\ rx[front] = Head(pending)
      OBVIOUS
    <3>1. Len(pending) # 0
      BY <1>a, <1>b DEF Ring, Slot
    <3>2. 1 \in 1..Len(pending) /\ Slot(front + 1 - 1) = front
      BY <1>b, <3>1 DEF Slot
    <3>3. pending[1] = rx[front]
      BY <1>a, <3>2 DEF Ring
    <3>. QED BY <1>b, <3>1, <3>3
  <2>3. UNCHANGED <<front, pending>> /\ (process' = "taken" => taken' = rx[front] /\ front # back)
    BY <1>1 DEF C!Take, C!ring, C!Goto
  <2>4. Ring'
    BY <1>a, <1>c, <2>2, <2>3 DEF Ring, Slot
  <2>. QED BY <1>d, <2>1, <2>4 DEF CliInv
<1>2. CASE C!Pop
  <2>1. /\ front' = Slot(front + 1) /\ front' \in 0..(RxSize - 1)
        /\ pending' = Tail(pending) /\ process' = "edit" /\ taken' = taken
        /\ pending # <<>>
    BY <1>a, <1>b, <1>2, SlotIsModulus DEF C!Pop, C!Goto, Ring
  <2>2. /\ Len(pending') = Len(pending) - 1 /\ pending' \in Seq(Chars)
        /\ \A i \in 1..Len(pending') : pending'[i] = pending[i + 1]
    BY <1>b, <2>1
  <2>3. C!TypeOK'
    BY <1>a, <1>c, <2>1, <2>2 DEF C!TypeOK, C!line
  <2>4. ASSUME NEW i \in 1..Len(pending')
        PROVE  pending'[i] = rx[Slot(front' + i - 1)]
    <3>1. i + 1 \in 1..Len(pending) /\ pending'[i] = pending[i + 1]
      BY <1>b, <2>2
    <3>2. pending[i + 1] = rx[Slot(front + (i + 1) - 1)]
      BY <1>a, <3>1 DEF Ring
    <3>3. Slot(front + (i + 1) - 1) = Slot(front' + i - 1)
      BY <1>b, <2>1, <3>1 DEF Slot
    <3>. QED BY <3>1, <3>2, <3>3
  <2>5. back = Slot(front' + Len(pending'))
    BY <1>a, <1>b, <2>1, <2>2 DEF Ring, Slot
  <2>6. Len(pending') < RxSize - 1
    BY <1>b, <2>2
  <2>7. Ring'
    BY <1>a, <1>b, <1>c, <2>1, <2>4, <2>5, <2>6 DEF Ring, Slot
  <2>. QED BY <1>d, <2>3, <2>7 DEF CliInv
<1>. QED BY <1>1, <1>2

\* cli_process_task and the flags.
LEMMA CliFlags ==
  ASSUME C!CliAssumption, CliInv, C!Escape \/ C!Start \/ C!Run \/ C!Discard
  PROVE  CliInv'
<1>. USE DEF C!ring, C!line, C!receiver, C!Goto, C!ReadFlags, C!WriteFlags
<1>a. C!TypeOK /\ Ring /\ Overflow /\ C!CursorKept
  BY DEF CliInv
<1>b. /\ UNCHANGED <<rx, front, back, cmdSize, cursorPos, lastEsc, reader, got, old, pending, lost>>
      /\ process' # "taken" /\ taken' = taken
  BY DEF C!Escape, C!Start, C!Run, C!Discard
<1>1. Ring'
  BY <1>a, <1>b, RingKept
<1>2. flags' \subseteq C!Flags /\ seen' \subseteq C!Flags
  BY <1>a DEF C!Escape, C!Start, C!Run, C!Discard, C!TypeOK, C!Flags
<1>3. C!TypeOK'
  BY <1>a, <1>b, <1>2 DEF C!Escape, C!Start, C!Run, C!Discard, C!TypeOK
<1>4. Overflow'
  BY <1>a, <1>b DEF C!Escape, C!Start, C!Run, C!Discard, Overflow
<1>. QED BY <1>a, <1>b, <1>1, <1>3, <1>4 DEF CliInv, C!CursorKept, C!CursorInCommand

\* cli_process_task and the line.
LEMMA CliLine ==
  ASSUME C!CliAssumption, CliInv, C!Edit \/ C!Escaped \/ C!Enter \/ C!Ran \/ C!Check
  PROVE  CliInv'
<1>. USE DEF C!ring, C!line, C!receiver, C!Goto, C!ReadFlags, C!WriteFlags
<1>a. C!TypeOK /\ Ring /\ Overflow /\ C!CursorKept
  BY DEF CliInv
<1>b. /\ UNCHANGED <<rx, front, back, reader, got, old, pending, taken, lost>>
      /\ process' # "taken"
  BY DEF C!Edit, C!InSequence, C!BeginSequence, C!EditLine, C!Escaped, C!Enter, C!Ran, C!Check
<1>1. Ring'
  BY <1>a, <1>b, RingKept
<1>2. /\ flags' \subseteq C!Flags /\ seen' \subseteq C!Flags /\ lastEsc' \in BOOLEAN
      /\ process' \in {"loop", "escaped", "escape", "enter", "start", "discard"}
      /\ "overflow" \in flags' \cup seen' => "overflow" \in flags \cup seen
  BY <1>a DEF C!Edit, C!InSequence, C!BeginSequence, C!EditLine, C!Escaped, C!Enter, C!Ran,
              C!Check, C!TypeOK, C!Flags
<1>3. cmdSize \in 0..(CmdMax - 2) /\ cursorPos \in 0..(CmdMax - 2) /\ CmdMax \in Nat
  BY <1>a DEF C!TypeOK, C!Sizes, C!CliAssumption
<1>c. C!SetLine(0) => cmdSize' = 0 /\ cursorPos' = 0
  BY DEF C!SetLine
<1>4. /\ cmdSize' \in 0..(CmdMax - 2) /\ cursorPos' \in 0..(CmdMax - 2)
      /\ cursorPos <= cmdSize /\ "overflow" \notin flags => cursorPos' <= cmdSize'
  <2>1. CASE UNCHANGED <<cmdSize, cursorPos>>
    BY <1>3, <2>1
  <2>2. ASSUME NEW n \in C!Sizes, C!SetLine(n)
        PROVE  cmdSize' \in 0..(CmdMax - 2) /\ cursorPos' \in 0..(CmdMax - 2) /\ cursorPos' <= cmdSize'
    BY <1>3, <2>2 DEF C!SetLine, C!Sizes
  <2>3. CASE C!onCharInput
    BY <1>3, <2>3 DEF C!onCharInput
  <2>4. CASE C!onBackspace
    BY <1>3, <2>4 DEF C!onBackspace
  <2>5. ASSUME NEW kind, C!onEscapedInput(kind)
        PROVE  \/ \E n \in C!Sizes : C!SetLine(n)
               \/ /\ cmdSize' = cmdSize /\ cursorPos' \in 0..(CmdMax - 2)
                  /\ cursorPos <= cmdSize => cursorPos' <= cmdSize'
    BY <1>3, <2>5 DEF C!onEscapedInput
  <2>6. CASE "overflow" \in flags /\ cmdSize' = 0 /\ cursorPos' = cursorPos
    BY <1>3, <2>6
  <2>7. 0 \in C!Sizes
    BY <1>3 DEF C!Sizes, C!CliAssumption
  <2>8. CASE C!Edit
    BY <2>1, <2>2, <2>3, <2>4, <2>8
       DEF C!Edit, C!InSequence, C!BeginSequence, C!EditLine, C!onAutocompleteRequest
  <2>9. CASE C!Escaped
    BY <1>3, <2>2, <2>5, <2>9 DEF C!Escaped
  <2>10. CASE C!Enter \/ C!Ran \/ C!Check
    BY <2>1, <2>2, <2>6, <2>7, <2>10 DEF C!Enter, C!Ran, C!Check
  <2>. QED BY <2>8, <2>9, <2>10
<1>5. C!TypeOK'
  BY <1>a, <1>b, <1>2, <1>4 DEF C!TypeOK, C!Sizes
<1>6. Overflow' /\ C!CursorKept'
  BY <1>a, <1>b, <1>2, <1>4 DEF Overflow, C!CursorKept, C!CursorInCommand
<1>. QED BY <1>1, <1>5, <1>6 DEF CliInv

LEMMA CliStep ==
  ASSUME C!CliAssumption, CliInv, [C!Next]_(C!vars)
  PROVE  CliInv'
<1>1. CASE C!Next
  BY <1>1, CliRead, CliTake, CliFlags, CliLine DEF C!Next, C!Process
<1>2. CASE UNCHANGED C!vars
  BY <1>2 DEF C!vars, C!ring, C!line, C!receiver, CliInv, C!TypeOK, Ring, Slot, Overflow,
              C!CursorKept, C!CursorInCommand
<1>. QED BY <1>1, <1>2

LEMMA CliInvariance == DevicesSpec => [](which = "cli" => CliInv)
<1>1. DevicesInit => (which = "cli" => CliInv)
  BY DevicesAssumption, CliInit DEF DevicesInit
<1>2. ASSUME [DevicesNext]_<<which, vars, cliVars, pathVars>>
      PROVE  which' = which /\ (which = "cli" => [C!Next]_(C!vars))
  <2>1. UNCHANGED cliVars => UNCHANGED C!vars
    BY DEF cliVars, C!vars, C!ring, C!line, C!receiver
  <2>. QED BY <1>2, <2>1 DEF DevicesNext, StepMtd, StepCli, StepPaths
<1>3. (which = "cli" => CliInv) /\ [DevicesNext]_<<which, vars, cliVars, pathVars>>
        => (which = "cli" => CliInv)'
  BY <1>2, DevicesAssumption, CliStep
<1>. QED BY <1>1, <1>3, PTL DEF DevicesSpec

\* embedded_cli.h: without a lock between its two tasks the ring keeps every character
\* that it takes, in order, for a ring of any size and any line.
THEOREM CharactersInOrder == DevicesSpec => []InOrder
<1>1. CliInv => C!TypeOK /\ C!InOrder
  <2>. SUFFICES ASSUME CliInv PROVE C!TypeOK /\ C!InOrder
    OBVIOUS
  <2>1. /\ RxSize \in Nat \ {0, 1} /\ front \in 0..(RxSize - 1) /\ back \in 0..(RxSize - 1)
        /\ Len(pending) \in 0..(RxSize - 1) /\ Ring /\ C!TypeOK
    BY DevicesAssumption DEF C!CliAssumption, C!TypeOK, Ring, CliInv
  <2>2. Len(pending) = (back + RxSize - front) % RxSize
    <3>1. (back + RxSize - front) % RxSize = Slot(back + RxSize - front)
      BY <2>1, DevicesAssumption, SlotIsModulus
    <3>2. Len(pending) = Slot(back + RxSize - front)
      BY <2>1 DEF Ring, Slot
    <3>. QED BY <3>1, <3>2
  <2>3. ASSUME NEW i \in 1..Len(pending)
        PROVE  (front + i - 1) % RxSize = Slot(front + i - 1)
    BY <2>1, DevicesAssumption, SlotIsModulus
  <2>. QED BY <2>1, <2>2, <2>3 DEF Ring, C!InOrder
<1>2. (which = "cli" => CliInv) => InOrder
  BY <1>1 DEF InOrder
<1>. QED BY <1>2, CliInvariance, PTL

\* embedded_cli.h: the cursor lies in the line until a character is lost, for a line
\* of any size and whatever keys move, complete or replace it.
THEOREM CursorInLine == DevicesSpec => []CursorKept
<1>1. (which = "cli" => CliInv) => CursorKept
  BY DEF CliInv, CursorKept
<1>. QED BY <1>1, CliInvariance, PTL
-----------------------------------------------------------------------------
(* Sequences and folds over them, one element after the other.             *)

\* Induction: a set of numbers with 0 and the next of each has them all.
LEMMA Numbers ==
  ASSUME NEW D \in SUBSET Nat, 0 \in D, \A n \in D : n + 1 \in D
  PROVE  D = Nat
<1>. SUFFICES ASSUME Nat \ D # {} PROVE FALSE
  OBVIOUS
<1>1. IsWellFoundedOn(OpToRel(<, Nat), Nat)
  BY NatLessThanWellFounded
<1>2. \E x \in Nat \ D : \A y \in Nat \ D : ~(<<y, x>> \in OpToRel(<, Nat))
  <2>. DEFINE B == OpToRel(<, Nat)
  <2>. HIDE DEF B
  <2>. QED BY <1>1, WFMin
<1>3. \A x, y \in Nat : <<y, x>> \in OpToRel(<, Nat) <=> y < x
  BY DEF OpToRel
<1>4. PICK x \in Nat \ D : \A y \in Nat \ D : ~(y < x)
  BY <1>2, <1>3
<1>5. x # 0 /\ x - 1 \in Nat /\ x - 1 < x
  BY <1>4
<1>6. x - 1 \in D
  BY <1>4, <1>5
<1>. QED BY <1>4, <1>5, <1>6

-----------------------------------------------------------------------------
(* Folds over sequences.                                                   *)

\* Sequences, one element after the other.
LEMMA LastOff ==
  ASSUME NEW T, NEW s \in Seq(T), s # <<>>
  PROVE  \E f \in Seq(T), x \in T : Len(s) = Len(f) + 1 /\ s = Append(f, x)
<1>. DEFINE n == Len(s) - 1
            f == SubSeq(s, 1, n)
<1>0. n \in Nat /\ Len(s) = n + 1
  OBVIOUS
<1>. HIDE DEF n
<1>1. f \in Seq(T) /\ Len(f) = n /\ s[n + 1] \in T
  BY <1>0
<1>2. Append(f, s[n + 1]) = s
  <2>1. Append(f, s[n + 1]) \in Seq(T) /\ Len(Append(f, s[n + 1])) = n + 1
    BY <1>0, <1>1
  <2>2. \A i \in 1..(n + 1) : Append(f, s[n + 1])[i] = s[i]
    BY <1>0, <1>1
  <2>. QED BY <1>0, <2>1, <2>2, SeqEqual
<1>. QED BY <1>0, <1>1, <1>2

\* Induction: a set of sequences with <<>> and all that are one longer has them all.
LEMMA Sequences ==
  ASSUME NEW T, NEW D \in SUBSET Seq(T), <<>> \in D, \A s \in D, x \in T : Append(s, x) \in D
  PROVE  D = Seq(T)
<1>. DEFINE B == {n \in Nat : \A s \in Seq(T) : Len(s) = n => s \in D}
<1>1. 0 \in B
  OBVIOUS
<1>2. ASSUME NEW n \in B PROVE n + 1 \in B
  <2>. n \in Nat
    OBVIOUS
  <2>1. ASSUME NEW s \in Seq(T), Len(s) = n + 1 PROVE s \in D
    <3>. HIDE DEF B
    <3>1. s # <<>>
      BY <2>1
    <3>2. PICK f \in Seq(T), x \in T : Len(s) = Len(f) + 1 /\ s = Append(f, x)
      BY <3>1, LastOff
    <3>3. Len(f) = n
      BY <2>1, <3>2
    <3>. QED BY <1>2, <3>2, <3>3 DEF B
  <2>. QED BY <2>1
<1>3. B = Nat
  <2>. HIDE DEF B
  <2>1. B \in SUBSET Nat
    BY DEF B
  <2>. QED BY <1>1, <1>2, <2>1, Numbers
<1>4. \A s \in Seq(T) : Len(s) \in Nat
  OBVIOUS
<1>. QED BY <1>3, <1>4

\* What Max and Min of FiniteSetsExt choose.
LEMMA MaxIs ==
  ASSUME NEW n \in Int, NEW s \in SUBSET Int, n \in s, \A i \in s : i <= n
  PROVE  A!Max(s) = n
<1>1. \E x \in s : \A y \in s : x >= y
  OBVIOUS
<1>2. A!Max(s) \in s /\ \A y \in s : A!Max(s) >= y
  BY <1>1 DEF A!Max
<1>3. A!Max(s) \in Int /\ A!Max(s) >= n /\ A!Max(s) <= n
  BY <1>2
<1>. QED BY <1>3

LEMMA MinIs ==
  ASSUME NEW n \in Int, NEW s \in SUBSET Int, n \in s, \A i \in s : n <= i
  PROVE  A!Min(s) = n
<1>1. \E x \in s : \A y \in s : x <= y
  OBVIOUS
<1>2. A!Min(s) \in s /\ \A y \in s : A!Min(s) <= y
  BY <1>1 DEF A!Min
<1>3. A!Min(s) \in Int /\ A!Min(s) >= n /\ A!Min(s) <= n
  BY <1>2
<1>. QED BY <1>3

LEMMA MaxIn ==
  ASSUME NEW n \in Nat, NEW s \in SUBSET (1..n), s # {}
  PROVE  A!Max(s) \in s /\ \A i \in s : i <= A!Max(s)
<1>. DEFINE D == {m \in Nat : \A u \in SUBSET (1..m) : u # {} => \E x \in u : \A i \in u : i <= x}
<1>1. 0 \in D
  <2>1. 1..0 = {}
    OBVIOUS
  <2>. QED BY <2>1
<1>2. ASSUME NEW m \in D PROVE m + 1 \in D
  <2>1. ASSUME NEW u \in SUBSET (1..(m + 1)), u # {} PROVE \E x \in u : \A i \in u : i <= x
    <3>1. CASE m + 1 \in u
      BY <3>1
    <3>2. CASE m + 1 \notin u
      <4>1. u \in SUBSET (1..m)
        BY <3>2
      <4>. QED BY <1>2, <2>1, <4>1
    <3>. QED BY <3>1, <3>2
  <2>. QED BY <2>1
<1>3. D = Nat
  <2>. HIDE DEF D
  <2>1. D \in SUBSET Nat
    BY DEF D
  <2>. QED BY <1>1, <1>2, <2>1, Numbers
<1>4. PICK x \in s : \A i \in s : i <= x
  BY <1>3
<1>. QED BY <1>4, MaxIs

\* FoldLeft is a function on sets of places.
Folds(g, b, s, h) ==
  g = [u \in SUBSET DOMAIN s |->
         IF u = {} THEN b ELSE h[g[u \ {A!Max(u)}]][s[A!Max(u)]]]

\* The step of a fold as a function of what is folded and the element.
IsStep(h, S, T) == h \in [S -> [T -> S]]

\* What a place says of the set without the last place it says of the whole set.
LEMMA PlaceByPlace ==
  ASSUME NEW n \in Nat, NEW G \in SUBSET SUBSET (1..n), {} \in G,
         \A u \in SUBSET (1..n) : u # {} /\ u \ {A!Max(u)} \in G => u \in G
  PROVE  G = SUBSET (1..n)
<1>. DEFINE D == {m \in Nat : \A u \in SUBSET (1..n) : u \in SUBSET (1..m) => u \in G}
<1>1. 0 \in D
  <2>1. \A u \in SUBSET (1..0) : u = {}
    OBVIOUS
  <2>. QED BY <2>1
<1>2. ASSUME NEW m \in D PROVE m + 1 \in D
  <2>. m \in Nat
    OBVIOUS
  <2>1. ASSUME NEW u \in SUBSET (1..n), u \in SUBSET (1..(m + 1)) PROVE u \in G
    <3>1. CASE u = {}
      BY <3>1
    <3>2. CASE u # {}
      <4>1. A!Max(u) \in u /\ \A i \in u : i <= A!Max(u)
        BY <3>2, MaxIn
      <4>2. u \ {A!Max(u)} \in SUBSET (1..m)
        <5>. HIDE DEF D
        <5>1. ASSUME NEW i \in u, i # A!Max(u) PROVE i \in 1..m
          <6>1. i \in 1..(m + 1) /\ A!Max(u) \in 1..(m + 1) /\ i <= A!Max(u)
            BY <2>1, <4>1
          <6>. QED BY <5>1, <6>1
        <5>. QED BY <5>1
      <4>3. u \ {A!Max(u)} \in G
        BY <1>2, <4>2
      <4>. QED BY <3>2, <4>3
    <3>. QED BY <3>1, <3>2
  <2>. QED BY <2>1
<1>3. D = Nat
  <2>. HIDE DEF D
  <2>1. D \in SUBSET Nat
    BY DEF D
  <2>. QED BY <1>1, <1>2, <2>1, Numbers
<1>. QED BY <1>3

LEMMA LastPlace ==
  ASSUME NEW T, NEW s \in Seq(T), NEW u \in SUBSET DOMAIN s, u # {}
  PROVE  /\ A!Max(u) \in DOMAIN s /\ s[A!Max(u)] \in T
         /\ u \ {A!Max(u)} \in SUBSET DOMAIN s
<1>1. Len(s) \in Nat /\ DOMAIN s = 1..Len(s)
  OBVIOUS
<1>2. A!Max(u) \in u
  BY <1>1, MaxIn
<1>. QED BY <1>1, <1>2

\* What the steps of a fold keep holds of its value at every set of places.
LEMMA FoldTyped ==
  ASSUME NEW S, NEW T, NEW s \in Seq(T), NEW g, g[{}] \in S,
         \A u \in SUBSET DOMAIN s : u # {} /\ g[u \ {A!Max(u)}] \in S => g[u] \in S
  PROVE  \A u \in SUBSET DOMAIN s : g[u] \in S
<1>. DEFINE G == {u \in SUBSET DOMAIN s : g[u] \in S}
<1>1. Len(s) \in Nat /\ DOMAIN s = 1..Len(s)
  OBVIOUS
<1>2. \A u \in SUBSET DOMAIN s : u # {} /\ u \ {A!Max(u)} \in G => u \in G
  OBVIOUS
<1>3. {} \in G /\ G \in SUBSET SUBSET DOMAIN s
  OBVIOUS
<1>4. G = SUBSET DOMAIN s
  <2>. HIDE DEF G
  <2>. QED BY <1>1, <1>2, <1>3, PlaceByPlace
<1>. QED BY <1>4

\* Two folds agree on the places where their sequences do.
LEMMA FoldUnique ==
  ASSUME NEW T, NEW s \in Seq(T), NEW r \in Seq(T), NEW b, NEW h, NEW g, NEW k,
         Folds(g, b, s, h), Folds(k, b, r, h),
         Len(s) <= Len(r), \A i \in DOMAIN s : s[i] = r[i]
  PROVE  \A u \in SUBSET DOMAIN s : g[u] = k[u]
<1>. DEFINE G == {u \in SUBSET DOMAIN s : g[u] = k[u]}
<1>1. Len(s) \in Nat /\ DOMAIN s = 1..Len(s) /\ DOMAIN s \subseteq DOMAIN r
  OBVIOUS
<1>2. ASSUME NEW u \in SUBSET DOMAIN s, u # {}, u \ {A!Max(u)} \in G PROVE u \in G
  <2>1. A!Max(u) \in DOMAIN s
    BY <1>2, LastPlace
  <2>2. g[u] = h[g[u \ {A!Max(u)}]][s[A!Max(u)]]
    BY <1>2 DEF Folds
  <2>3. k[u] = h[k[u \ {A!Max(u)}]][r[A!Max(u)]]
    BY <1>1, <1>2 DEF Folds
  <2>. QED BY <1>2, <2>1, <2>2, <2>3
<1>3. {} \in G /\ G \in SUBSET SUBSET DOMAIN s
  <2>1. g[{}] = b /\ k[{}] = b
    BY <1>1 DEF Folds
  <2>. QED BY <2>1
<1>4. G = SUBSET DOMAIN s
  <2>. HIDE DEF G
  <2>. QED BY <1>1, <1>2, <1>3, PlaceByPlace
<1>. QED BY <1>4

\* A fold over a sequence, carried on to one more element.
LEMMA FoldLonger ==
  ASSUME NEW T, NEW b, NEW h,
         NEW s \in Seq(T), NEW x \in T, NEW g, Folds(g, b, s, h),
         NEW k, k = [u \in SUBSET DOMAIN Append(s, x) |->
                      IF Len(s) + 1 \in u THEN h[g[u \ {Len(s) + 1}]][x] ELSE g[u]]
  PROVE  Folds(k, b, Append(s, x), h)
<1>. DEFINE n == Len(s)
            r == Append(s, x)
            K(u) == IF u = {} THEN b ELSE h[k[u \ {A!Max(u)}]][r[A!Max(u)]]
<1>1. n \in Nat /\ DOMAIN s = 1..n /\ DOMAIN r = 1..(n + 1) /\ r[n + 1] = x
  OBVIOUS
<1>2. \A i \in 1..n : r[i] = s[i]
  OBVIOUS
<1>3. ASSUME NEW u \in SUBSET DOMAIN r PROVE k[u] = K(u)
  <2>. HIDE DEF n, r
  <2>1. CASE n + 1 \in u
    <3>1. A!Max(u) = n + 1
      <4>1. u \in SUBSET Int /\ \A i \in u : i <= n + 1
        BY <1>1
      <4>. QED BY <1>1, <2>1, <4>1, MaxIs
    <3>2. k[u] = h[g[u \ {n + 1}]][x]
      BY <2>1 DEF n, r
    <3>3. k[u \ {n + 1}] = g[u \ {n + 1}]
      BY DEF n, r
    <3>. QED BY <1>1, <2>1, <3>1, <3>2, <3>3
  <2>2. CASE n + 1 \notin u /\ u # {}
    <3>1. u \in SUBSET DOMAIN s
      BY <1>1, <2>2
    <3>2. A!Max(u) \in 1..n
      BY <1>1, <2>2, <3>1, LastPlace
    <3>3. k[u] = g[u] /\ k[u \ {A!Max(u)}] = g[u \ {A!Max(u)}]
      BY <2>2 DEF n, r
    <3>4. g[u] = h[g[u \ {A!Max(u)}]][s[A!Max(u)]]
      BY <2>2, <3>1 DEF Folds
    <3>. QED BY <1>2, <2>2, <3>2, <3>3, <3>4
  <2>3. CASE u = {}
    <3>1. k[u] = g[u]
      BY <2>3 DEF n, r
    <3>2. g[u] = b
      BY <1>1, <2>3 DEF Folds
    <3>. QED BY <2>3, <3>1, <3>2
  <2>. QED BY <2>1, <2>2, <2>3
<1>4. k = [u \in SUBSET DOMAIN r |-> K(u)]
  <2>1. k = [u \in SUBSET DOMAIN r |-> k[u]]
    OBVIOUS
  <2>. HIDE DEF r, K
  <2>. QED BY <1>3, <2>1
<1>. QED BY <1>4 DEF Folds

LEMMA FoldExists ==
  ASSUME NEW T, NEW b, NEW h, NEW s \in Seq(T)
  PROVE  \E g : Folds(g, b, s, h)
<1>. DEFINE D == {r \in Seq(T) : \E g : Folds(g, b, r, h)}
<1>1. <<>> \in D
  <2>1. DOMAIN <<>> = {}
    OBVIOUS
  <2>2. Folds([u \in SUBSET DOMAIN <<>> |-> b], b, <<>>, h)
    BY <2>1 DEF Folds
  <2>. QED BY <2>2
<1>2. ASSUME NEW r \in D, NEW x \in T PROVE Append(r, x) \in D
  <2>1. PICK g : Folds(g, b, r, h)
    BY <1>2
  <2>2. \E k : Folds(k, b, Append(r, x), h)
    BY <2>1, FoldLonger
  <2>. QED BY <2>2
<1>3. D = Seq(T)
  <2>. HIDE DEF D
  <2>1. D \in SUBSET Seq(T)
    BY DEF D
  <2>. QED BY <1>1, <1>2, <2>1, Sequences
<1>. QED BY <1>3

\* What a fold gives.
Fold(b, s, h) == (CHOOSE g : Folds(g, b, s, h))[DOMAIN s]

\* FoldLeft of SequencesExt, with its own CHOOSE, is this fold.
LEMMA FoldIs ==
  ASSUME NEW T, NEW s \in Seq(T), NEW b, NEW h, NEW g, Folds(g, b, s, h)
  PROVE  Fold(b, s, h) = g[DOMAIN s]
<1>. DEFINE k == CHOOSE k : Folds(k, b, s, h)
<1>1. Folds(k, b, s, h)
  OBVIOUS
<1>2. Len(s) <= Len(s)
  OBVIOUS
<1>. HIDE DEF k
<1>3. \A u \in SUBSET DOMAIN s : g[u] = k[u]
  BY <1>1, <1>2, FoldUnique
<1>4. g[DOMAIN s] = k[DOMAIN s]
  BY <1>3
<1>. QED BY <1>4 DEF Fold, k

\* The two equations that define a fold.
LEMMA FoldEmpty ==
  ASSUME NEW T, NEW b, NEW h
  PROVE  Fold(b, <<>>, h) = b
<1>1. <<>> \in Seq(T) /\ DOMAIN <<>> = {}
  OBVIOUS
<1>2. PICK g : Folds(g, b, <<>>, h)
  BY <1>1, FoldExists
<1>3. g[{}] = b
  BY <1>1, <1>2 DEF Folds
<1>. QED BY <1>1, <1>2, <1>3, FoldIs

LEMMA FoldAppend ==
  ASSUME NEW T, NEW b, NEW h, NEW s \in Seq(T), NEW x \in T
  PROVE  Fold(b, Append(s, x), h) = h[Fold(b, s, h)][x]
<1>1. PICK g : Folds(g, b, s, h)
  BY FoldExists
<1>. DEFINE k == [u \in SUBSET DOMAIN Append(s, x) |->
                      IF Len(s) + 1 \in u THEN h[g[u \ {Len(s) + 1}]][x] ELSE g[u]]
<1>2. Folds(k, b, Append(s, x), h)
  BY <1>1, FoldLonger
<1>3. Append(s, x) \in Seq(T)
  OBVIOUS
<1>4. k[DOMAIN Append(s, x)] = h[g[DOMAIN s]][x]
  <2>1. DOMAIN Append(s, x) = 1..(Len(s) + 1) /\ DOMAIN s = 1..Len(s) /\ Len(s) \in Nat
    OBVIOUS
  <2>2. (1..(Len(s) + 1)) \ {Len(s) + 1} = 1..Len(s) /\ Len(s) + 1 \in 1..(Len(s) + 1)
    BY <2>1
  <2>3. k[DOMAIN Append(s, x)] = h[g[DOMAIN Append(s, x) \ {Len(s) + 1}]][x]
    BY <2>1, <2>2
  <2>. QED BY <2>1, <2>2, <2>3
<1>. HIDE DEF k
<1>5. Fold(b, s, h) = g[DOMAIN s]
  BY <1>1, FoldIs
<1>6. Fold(b, Append(s, x), h) = k[DOMAIN Append(s, x)]
  BY <1>2, <1>3, FoldIs
<1>. QED BY <1>4, <1>5, <1>6

LEMMA FoldTypeStep ==
  ASSUME NEW S, NEW T, NEW b \in S, NEW h, IsStep(h, S, T), NEW s \in Seq(T), NEW x \in T,
         Fold(b, s, h) \in S
  PROVE  Fold(b, Append(s, x), h) \in S
<1>1. Fold(b, Append(s, x), h) = h[Fold(b, s, h)][x]
  BY FoldAppend
<1>. QED BY <1>1 DEF IsStep

\* The value of a fold is of its type.
LEMMA FoldType ==
  ASSUME NEW S, NEW T, NEW b \in S, NEW h, IsStep(h, S, T), NEW s \in Seq(T)
  PROVE  Fold(b, s, h) \in S
<1>. DEFINE D == {r \in Seq(T) : Fold(b, r, h) \in S}
<1>1. <<>> \in D
  <2>1. Fold(b, <<>>, h) = b
    BY FoldEmpty
  <2>. QED BY <2>1
<1>2. ASSUME NEW r \in D, NEW x \in T PROVE Append(r, x) \in D
  <2>1. r \in Seq(T) /\ Fold(b, r, h) \in S /\ Append(r, x) \in Seq(T)
    OBVIOUS
  <2>. HIDE DEF D
  <2>2. Fold(b, Append(r, x), h) \in S
    BY <2>1, FoldTypeStep
  <2>. QED BY <2>1, <2>2 DEF D
<1>3. D = Seq(T)
  <2>. HIDE DEF D
  <2>1. D \in SUBSET Seq(T)
    BY DEF D
  <2>. QED BY <1>1, <1>2, <2>1, Sequences
<1>. QED BY <1>3

\* The values of a fold are of its type.
LEMMA FoldsTyped ==
  ASSUME NEW S, NEW T, NEW b \in S, NEW h, IsStep(h, S, T), NEW s \in Seq(T), NEW g, Folds(g,
         b, s, h)
  PROVE  \A u \in SUBSET DOMAIN s : g[u] \in S
<1>1. g[{}] = b
  BY DEF Folds
<1>2. ASSUME NEW u \in SUBSET DOMAIN s, u # {}, g[u \ {A!Max(u)}] \in S PROVE g[u] \in S
  <2>1. A!Max(u) \in DOMAIN s /\ s[A!Max(u)] \in T
    BY <1>2, LastPlace
  <2>2. g[u] = h[g[u \ {A!Max(u)}]][s[A!Max(u)]]
    BY <1>2 DEF Folds
  <2>. QED BY <1>2, <2>1, <2>2 DEF IsStep
<1>. QED BY <1>1, <1>2, FoldTyped

LEMMA MinIn ==
  ASSUME NEW s \in SUBSET Nat, s # {}
  PROVE  A!Min(s) \in s /\ \A i \in s : A!Min(s) <= i
<1>1. \E x \in s : \A y \in s : ~(<<y, x>> \in OpToRel(<, Nat))
  <2>. DEFINE B == OpToRel(<, Nat)
  <2>1. IsWellFoundedOn(B, Nat)
    BY NatLessThanWellFounded
  <2>. HIDE DEF B
  <2>2. \E x \in s : \A y \in s : ~(<<y, x>> \in B)
    BY <2>1, WFMin
  <2>. QED BY <2>2 DEF B
<1>2. \A x, y \in Nat : <<y, x>> \in OpToRel(<, Nat) <=> y < x
  BY DEF OpToRel
<1>3. PICK x \in s : \A y \in s : ~(y < x)
  BY <1>1, <1>2
<1>. QED BY <1>3, MinIs

-----------------------------------------------------------------------------
(* The folds of Texts, one element after the other.                        *)

Names == Seq(A!Symbols \ {"/"})
Words == Names \ {<<>>}
FieldLists == Seq(Names) \ {<<>>}
Texts == Seq(A!Symbols)
WordLists == Seq(Words)
ReadField(fs, c) == IF c = "/" THEN Append(fs, <<>>) ELSE Append(A!Front(fs), Append(A!Last(fs), c))
Fill(names, f) == IF f = <<>> THEN names ELSE Append(names, f)
Join(p, f) == p \o <<"/">> \o f

LEMMA FieldType ==
  ASSUME NEW fs \in FieldLists, NEW c \in A!Symbols
  PROVE  ReadField(fs, c) \in FieldLists
<1>1. fs \in Seq(Names) /\ fs # <<>> /\ Len(fs) \in Nat /\ Len(fs) # 0
  BY DEF FieldLists
<1>2. A!Front(fs) \in Seq(Names) /\ A!Last(fs) \in Names
  BY <1>1 DEF A!Front, A!Last
<1>3. CASE c = "/"
  <2>1. <<>> \in Names
    BY DEF Names
  <2>2. Append(fs, <<>>) \in Seq(Names) /\ Len(Append(fs, <<>>)) = Len(fs) + 1
    BY <1>1, <2>1, AppendProperties
  <2>3. Append(fs, <<>>) # <<>>
    BY <1>1, <2>2
  <2>. QED BY <1>3, <2>2, <2>3 DEF ReadField, FieldLists
<1>4. CASE c # "/"
  <2>. DEFINE g == Append(A!Last(fs), c)
  <2>1. g \in Names
    BY <1>2, <1>4 DEF Names
  <2>. HIDE DEF g
  <2>2. /\ Append(A!Front(fs), g) \in Seq(Names)
        /\ Len(Append(A!Front(fs), g)) = Len(A!Front(fs)) + 1 /\ Len(A!Front(fs)) \in Nat
    BY <1>2, <2>1, AppendProperties
  <2>3. Append(A!Front(fs), g) # <<>>
    BY <2>2
  <2>4. ReadField(fs, c) = Append(A!Front(fs), g)
    BY <1>4 DEF ReadField, g
  <2>. QED BY <2>2, <2>3, <2>4 DEF FieldLists
<1>. QED BY <1>3, <1>4

LEMMA FillType ==
  ASSUME NEW names \in WordLists, NEW f \in Names
  PROVE  Fill(names, f) \in WordLists
BY DEF Fill, WordLists, Words

LEMMA FollowType ==
  ASSUME NEW dir \in WordLists, NEW f \in Words
  PROVE  A!Follow(dir, f) \in WordLists
BY DEF A!Follow, WordLists

LEMMA JoinType ==
  ASSUME NEW p \in Texts, NEW f \in Words
  PROVE  Join(p, f) \in Texts
<1>1. f \in Seq(A!Symbols) /\ <<"/">> \in Seq(A!Symbols)
  BY DEF Words, Names, A!Symbols
<1>. QED BY <1>1 DEF Join, Texts

\* Each of the four folds of the meaning is a fold of the section above, and so has
\* its equations.
LEMMA FieldsFold ==
  ASSUME NEW p \in Seq(A!Symbols)
  PROVE  A!Fields(p) =
           Fold(<< <<>> >>, p, [t \in FieldLists |-> [c \in A!Symbols |-> ReadField(t, c)]])
<1>. DEFINE b == << <<>> >>
            h == [t \in FieldLists |-> [c \in A!Symbols |-> ReadField(t, c)]]
            Is(g) == g = [u \in SUBSET DOMAIN p |->
                            IF u = {} THEN b ELSE ReadField(g[u \ {A!Max(u)}], p[A!Max(u)])]
            iter == CHOOSE g : Is(g)
<1>1. b \in FieldLists
  BY DEF FieldLists, Names
<1>2. IsStep(h, FieldLists, A!Symbols)
  BY FieldType DEF IsStep
<1>3. \A u \in SUBSET DOMAIN p : u # {} =>
        p[A!Max(u)] \in A!Symbols /\ u \ {A!Max(u)} \in SUBSET DOMAIN p
  BY LastPlace
<1>4. \A t \in FieldLists, c \in A!Symbols : h[t][c] =
        ReadField(t, c) /\ ReadField(t, c) \in FieldLists
  BY FieldType
<1>. HIDE DEF b, h
<1>5. PICK g : Folds(g, b, p, h)
  BY FoldExists
<1>6. \A u \in SUBSET DOMAIN p : g[u] \in FieldLists
  BY <1>1, <1>2, <1>5, FoldsTyped
<1>7. Is(g)
  BY <1>3, <1>4, <1>5, <1>6 DEF Folds
<1>8. Is(iter)
  BY <1>7
<1>. HIDE DEF iter
<1>9. \A u \in SUBSET DOMAIN p : iter[u] \in FieldLists
  <2>1. iter[{}] \in FieldLists
    BY <1>1, <1>8
  <2>2. \A u \in SUBSET DOMAIN p : u # {} /\ iter[u \ {A!Max(u)}] \in FieldLists =>
          iter[u] \in FieldLists
    BY <1>3, <1>4, <1>8
  <2>. QED BY <2>1, <2>2, FoldTyped
<1>10. Folds(iter, b, p, h)
  BY <1>3, <1>4, <1>8, <1>9 DEF Folds
<1>11. Fold(b, p, h) = iter[DOMAIN p]
  BY <1>10, FoldIs
<1>12. A!Fields(p) = iter[DOMAIN p]
  BY SMT DEF A!Fields, A!FoldLeft, A!MapThenFoldSet, iter, b, ReadField
<1>. QED BY <1>11, <1>12 DEF b, h

LEMMA FieldsIs ==
  /\ A!Fields(<<>>) = << <<>> >>
  /\ \A p \in Seq(A!Symbols) : /\ A!Fields(p) \in FieldLists
                               /\ \A c \in A!Symbols : A!Fields(Append(p, c)) =
                                  ReadField(A!Fields(p), c)
<1>. DEFINE b == << <<>> >>
            h == [t \in FieldLists |-> [c \in A!Symbols |-> ReadField(t, c)]]
<1>1. b \in FieldLists
  BY DEF FieldLists, Names
<1>2. IsStep(h, FieldLists, A!Symbols)
  BY FieldType DEF IsStep
<1>3. \A p \in Seq(A!Symbols) : A!Fields(p) = Fold(b, p, h)
  BY FieldsFold
<1>4. \A t \in FieldLists, c \in A!Symbols : h[t][c] = ReadField(t, c)
  OBVIOUS
<1>. HIDE DEF b, h
<1>5. A!Fields(<<>>) = b
  <2>1. <<>> \in Seq(A!Symbols)
    OBVIOUS
  <2>. QED BY <1>3, <2>1, FoldEmpty
<1>6. ASSUME NEW p \in Seq(A!Symbols) PROVE A!Fields(p) \in FieldLists
  <2>1. Fold(b, p, h) \in FieldLists
    BY <1>1, <1>2, FoldType
  <2>. QED BY <1>3, <2>1
<1>7. ASSUME NEW p \in Seq(A!Symbols), NEW c \in A!Symbols
      PROVE  A!Fields(Append(p, c)) = ReadField(A!Fields(p), c)
  <2>1. Append(p, c) \in Seq(A!Symbols)
    OBVIOUS
  <2>2. Fold(b, Append(p, c), h) = h[Fold(b, p, h)][c]
    BY FoldAppend
  <2>. QED BY <1>3, <1>4, <1>6, <2>1, <2>2
<1>. QED BY <1>5, <1>6, <1>7 DEF b

LEMMA FilledFold ==
  ASSUME NEW fs \in Seq(Names)
  PROVE  A!Filled(fs) = Fold(<<>>, fs, [t \in WordLists |-> [c \in Names |-> Fill(t, c)]])
<1>. DEFINE b == <<>>
            h == [t \in WordLists |-> [c \in Names |-> Fill(t, c)]]
            Is(g) == g = [u \in SUBSET DOMAIN fs |->
                            IF u = {} THEN b ELSE Fill(g[u \ {A!Max(u)}], fs[A!Max(u)])]
            iter == CHOOSE g : Is(g)
<1>1. b \in WordLists
  BY DEF WordLists
<1>2. IsStep(h, WordLists, Names)
  BY FillType DEF IsStep
<1>3. \A u \in SUBSET DOMAIN fs : u # {} =>
        fs[A!Max(u)] \in Names /\ u \ {A!Max(u)} \in SUBSET DOMAIN fs
  BY LastPlace
<1>4. \A t \in WordLists, c \in Names : h[t][c] = Fill(t, c) /\ Fill(t, c) \in WordLists
  BY FillType
<1>. HIDE DEF b, h
<1>5. PICK g : Folds(g, b, fs, h)
  BY FoldExists
<1>6. \A u \in SUBSET DOMAIN fs : g[u] \in WordLists
  BY <1>1, <1>2, <1>5, FoldsTyped
<1>7. Is(g)
  BY <1>3, <1>4, <1>5, <1>6 DEF Folds
<1>8. Is(iter)
  BY <1>7
<1>. HIDE DEF iter
<1>9. \A u \in SUBSET DOMAIN fs : iter[u] \in WordLists
  <2>1. iter[{}] \in WordLists
    BY <1>1, <1>8
  <2>2. \A u \in SUBSET DOMAIN fs : u # {} /\ iter[u \ {A!Max(u)}] \in WordLists =>
          iter[u] \in WordLists
    BY <1>3, <1>4, <1>8
  <2>. QED BY <2>1, <2>2, FoldTyped
<1>10. Folds(iter, b, fs, h)
  BY <1>3, <1>4, <1>8, <1>9 DEF Folds
<1>11. Fold(b, fs, h) = iter[DOMAIN fs]
  BY <1>10, FoldIs
<1>12. A!Filled(fs) = iter[DOMAIN fs]
  BY SMT DEF A!Filled, A!FoldLeft, A!MapThenFoldSet, iter, b, Fill
<1>. QED BY <1>11, <1>12 DEF b, h

LEMMA FilledIs ==
  /\ A!Filled(<<>>) = <<>>
  /\ \A fs \in Seq(Names) : /\ A!Filled(fs) \in WordLists
                            /\ \A c \in Names : A!Filled(Append(fs, c)) = Fill(A!Filled(fs), c)
<1>. DEFINE b == <<>>
            h == [t \in WordLists |-> [c \in Names |-> Fill(t, c)]]
<1>1. b \in WordLists
  BY DEF WordLists
<1>2. IsStep(h, WordLists, Names)
  BY FillType DEF IsStep
<1>3. \A fs \in Seq(Names) : A!Filled(fs) = Fold(b, fs, h)
  BY FilledFold
<1>4. \A t \in WordLists, c \in Names : h[t][c] = Fill(t, c)
  OBVIOUS
<1>. HIDE DEF b, h
<1>5. A!Filled(<<>>) = b
  <2>1. <<>> \in Seq(Names)
    OBVIOUS
  <2>. QED BY <1>3, <2>1, FoldEmpty
<1>6. ASSUME NEW fs \in Seq(Names) PROVE A!Filled(fs) \in WordLists
  <2>1. Fold(b, fs, h) \in WordLists
    BY <1>1, <1>2, FoldType
  <2>. QED BY <1>3, <2>1
<1>7. ASSUME NEW fs \in Seq(Names), NEW c \in Names
      PROVE  A!Filled(Append(fs, c)) = Fill(A!Filled(fs), c)
  <2>1. Append(fs, c) \in Seq(Names)
    OBVIOUS
  <2>2. Fold(b, Append(fs, c), h) = h[Fold(b, fs, h)][c]
    BY FoldAppend
  <2>. QED BY <1>3, <1>4, <1>6, <2>1, <2>2
<1>. QED BY <1>5, <1>6, <1>7 DEF b

LEMMA ReachedFold ==
  ASSUME NEW names \in Seq(Words)
  PROVE  A!Reached(names) =
           Fold(<<>>, names, [t \in WordLists |-> [c \in Words |-> A!Follow(t, c)]])
<1>. DEFINE b == <<>>
            h == [t \in WordLists |-> [c \in Words |-> A!Follow(t, c)]]
            Is(g) == g = [u \in SUBSET DOMAIN names |->
                            IF u = {} THEN b ELSE A!Follow(g[u \ {A!Max(u)}], names[A!Max(u)])]
            iter == CHOOSE g : Is(g)
<1>1. b \in WordLists
  BY DEF WordLists
<1>2. IsStep(h, WordLists, Words)
  BY FollowType DEF IsStep
<1>3. \A u \in SUBSET DOMAIN names : u # {} =>
        names[A!Max(u)] \in Words /\ u \ {A!Max(u)} \in SUBSET DOMAIN names
  BY LastPlace
<1>4. \A t \in WordLists, c \in Words : h[t][c] = A!Follow(t, c) /\ A!Follow(t, c) \in WordLists
  BY FollowType
<1>. HIDE DEF b, h
<1>5. PICK g : Folds(g, b, names, h)
  BY FoldExists
<1>6. \A u \in SUBSET DOMAIN names : g[u] \in WordLists
  BY <1>1, <1>2, <1>5, FoldsTyped
<1>7. Is(g)
  BY <1>3, <1>4, <1>5, <1>6 DEF Folds
<1>8. Is(iter)
  BY <1>7
<1>. HIDE DEF iter
<1>9. \A u \in SUBSET DOMAIN names : iter[u] \in WordLists
  <2>1. iter[{}] \in WordLists
    BY <1>1, <1>8
  <2>2. \A u \in SUBSET DOMAIN names : u # {} /\ iter[u \ {A!Max(u)}] \in WordLists =>
          iter[u] \in WordLists
    BY <1>3, <1>4, <1>8
  <2>. QED BY <2>1, <2>2, FoldTyped
<1>10. Folds(iter, b, names, h)
  BY <1>3, <1>4, <1>8, <1>9 DEF Folds
<1>11. Fold(b, names, h) = iter[DOMAIN names]
  BY <1>10, FoldIs
<1>12. A!Reached(names) = iter[DOMAIN names]
  BY SMT DEF A!Reached, A!FoldLeft, A!MapThenFoldSet, iter, b
<1>. QED BY <1>11, <1>12 DEF b, h

LEMMA ReachedIs ==
  /\ A!Reached(<<>>) = <<>>
  /\ \A names \in Seq(Words) : /\ A!Reached(names) \in WordLists
                               /\ \A c \in Words : A!Reached(Append(names, c)) =
                                    A!Follow(A!Reached(names), c)
<1>. DEFINE b == <<>>
            h == [t \in WordLists |-> [c \in Words |-> A!Follow(t, c)]]
<1>1. b \in WordLists
  BY DEF WordLists
<1>2. IsStep(h, WordLists, Words)
  BY FollowType DEF IsStep
<1>3. \A names \in Seq(Words) : A!Reached(names) = Fold(b, names, h)
  BY ReachedFold
<1>4. \A t \in WordLists, c \in Words : h[t][c] = A!Follow(t, c)
  OBVIOUS
<1>. HIDE DEF b, h
<1>5. A!Reached(<<>>) = b
  <2>1. <<>> \in Seq(Words)
    OBVIOUS
  <2>. QED BY <1>3, <2>1, FoldEmpty
<1>6. ASSUME NEW names \in Seq(Words) PROVE A!Reached(names) \in WordLists
  <2>1. Fold(b, names, h) \in WordLists
    BY <1>1, <1>2, FoldType
  <2>. QED BY <1>3, <2>1
<1>7. ASSUME NEW names \in Seq(Words), NEW c \in Words
      PROVE  A!Reached(Append(names, c)) = A!Follow(A!Reached(names), c)
  <2>1. Append(names, c) \in Seq(Words)
    OBVIOUS
  <2>2. Fold(b, Append(names, c), h) = h[Fold(b, names, h)][c]
    BY FoldAppend
  <2>. QED BY <1>3, <1>4, <1>6, <2>1, <2>2
<1>. QED BY <1>5, <1>6, <1>7 DEF b

LEMMA JoinedFold ==
  ASSUME NEW dir \in Seq(Words)
  PROVE  A!Joined(dir) = Fold(<<>>, dir, [t \in Texts |-> [c \in Words |-> Join(t, c)]])
<1>. DEFINE b == <<>>
            h == [t \in Texts |-> [c \in Words |-> Join(t, c)]]
            Is(g) == g = [u \in SUBSET DOMAIN dir |->
                            IF u = {} THEN b ELSE Join(g[u \ {A!Max(u)}], dir[A!Max(u)])]
            iter == CHOOSE g : Is(g)
<1>1. b \in Texts
  BY DEF Texts
<1>2. IsStep(h, Texts, Words)
  BY JoinType DEF IsStep
<1>3. \A u \in SUBSET DOMAIN dir : u # {} =>
        dir[A!Max(u)] \in Words /\ u \ {A!Max(u)} \in SUBSET DOMAIN dir
  BY LastPlace
<1>4. \A t \in Texts, c \in Words : h[t][c] = Join(t, c) /\ Join(t, c) \in Texts
  BY JoinType
<1>. HIDE DEF b, h
<1>5. PICK g : Folds(g, b, dir, h)
  BY FoldExists
<1>6. \A u \in SUBSET DOMAIN dir : g[u] \in Texts
  BY <1>1, <1>2, <1>5, FoldsTyped
<1>7. Is(g)
  BY <1>3, <1>4, <1>5, <1>6 DEF Folds
<1>8. Is(iter)
  BY <1>7
<1>. HIDE DEF iter
<1>9. \A u \in SUBSET DOMAIN dir : iter[u] \in Texts
  <2>1. iter[{}] \in Texts
    BY <1>1, <1>8
  <2>2. \A u \in SUBSET DOMAIN dir : u # {} /\ iter[u \ {A!Max(u)}] \in Texts => iter[u] \in Texts
    BY <1>3, <1>4, <1>8
  <2>. QED BY <2>1, <2>2, FoldTyped
<1>10. Folds(iter, b, dir, h)
  BY <1>3, <1>4, <1>8, <1>9 DEF Folds
<1>11. Fold(b, dir, h) = iter[DOMAIN dir]
  BY <1>10, FoldIs
<1>12. A!Joined(dir) = iter[DOMAIN dir]
  BY SMT DEF A!Joined, A!FoldLeft, A!MapThenFoldSet, iter, b, Join
<1>. QED BY <1>11, <1>12 DEF b, h

LEMMA JoinedIs ==
  /\ A!Joined(<<>>) = <<>>
  /\ \A dir \in Seq(Words) : /\ A!Joined(dir) \in Texts
                             /\ \A c \in Words : A!Joined(Append(dir, c)) = Join(A!Joined(dir), c)
<1>. DEFINE b == <<>>
            h == [t \in Texts |-> [c \in Words |-> Join(t, c)]]
<1>1. b \in Texts
  BY DEF Texts
<1>2. IsStep(h, Texts, Words)
  BY JoinType DEF IsStep
<1>3. \A dir \in Seq(Words) : A!Joined(dir) = Fold(b, dir, h)
  BY JoinedFold
<1>4. \A t \in Texts, c \in Words : h[t][c] = Join(t, c)
  OBVIOUS
<1>. HIDE DEF b, h
<1>5. A!Joined(<<>>) = b
  <2>1. <<>> \in Seq(Words)
    OBVIOUS
  <2>. QED BY <1>3, <2>1, FoldEmpty
<1>6. ASSUME NEW dir \in Seq(Words) PROVE A!Joined(dir) \in Texts
  <2>1. Fold(b, dir, h) \in Texts
    BY <1>1, <1>2, FoldType
  <2>. QED BY <1>3, <2>1
<1>7. ASSUME NEW dir \in Seq(Words), NEW c \in Words
      PROVE  A!Joined(Append(dir, c)) = Join(A!Joined(dir), c)
  <2>1. Append(dir, c) \in Seq(Words)
    OBVIOUS
  <2>2. Fold(b, Append(dir, c), h) = h[Fold(b, dir, h)][c]
    BY FoldAppend
  <2>. QED BY <1>3, <1>4, <1>6, <2>1, <2>2
<1>. QED BY <1>5, <1>6, <1>7 DEF b

-----------------------------------------------------------------------------
(* The states of the loops.                                                *)

LEMMA BackIn ==
  ASSUME NEW w, NEW i \in Nat
  PROVE  /\ A!Back(w, i) \in Nat /\ A!Back(w, i) > 0
         /\ (i > 1 => A!Back(w, i) < i) /\ (i <= 1 => A!Back(w, i) = 1)
<1>. DEFINE s == {1} \cup {k \in 1..(i - 1) : w[k] = "/"}
            m == IF i > 1 THEN i - 1 ELSE 1
<1>1. m \in Nat /\ s \in SUBSET (1..m) /\ s # {}
  OBVIOUS
<1>. HIDE DEF s
<1>2. A!Max(s) \in s
  BY <1>1, MaxIn
<1>3. A!Max(s) \in 1..m
  BY <1>1, <1>2
<1>. QED BY <1>3 DEF A!Back, s

DotStates == [w : Texts, slash : BOOLEAN, one : BOOLEAN, two : BOOLEAN]
SlashStates == [w : Texts, slash : BOOLEAN]

LEMMA CutType ==
  ASSUME NEW x \in Texts, x # <<>>
  PROVE  A!dot(x) \in Texts /\ A!dot_dot(x) \in Texts
<1>. DEFINE i == A!Back(x, Len(x))
            j == A!Back(x, i)
<1>1. Len(x) \in Nat /\ Len(x) > 0
  BY DEF Texts
<1>2. i \in Nat /\ i > 0 /\ i <= Len(x)
  BY <1>1, BackIn
<1>. HIDE DEF i
<1>3. j \in Nat /\ j > 0 /\ j <= Len(x)
  BY <1>1, <1>2, BackIn
<1>. HIDE DEF j
<1>4. \A k \in Nat : k <= Len(x) => SubSeq(x, 1, k) \in Texts
  BY DEF Texts
<1>. QED BY <1>2, <1>3, <1>4 DEF A!dot, A!dot_dot, i, j

LEMMA DotsType ==
  ASSUME NEW s \in DotStates, NEW c \in A!Symbols
  PROVE  A!ReadDots(s, c) \in DotStates
<1>. DEFINE w == Append(s.w, c)
<1>1. w \in Texts /\ w # <<>>
  BY DEF DotStates, Texts
<1>2. A!dot(w) \in Texts /\ A!dot_dot(w) \in Texts
  BY <1>1, CutType
<1>. HIDE DEF w
<1>3. CASE c = "."
  BY <1>1, <1>3 DEF A!ReadDots, DotStates, w
<1>4. CASE c = "/"
  BY <1>1, <1>2, <1>4 DEF A!ReadDots, DotStates, w
<1>5. CASE c \notin {".", "/"}
  BY <1>1, <1>5 DEF A!ReadDots, DotStates, w
<1>. QED BY <1>3, <1>4, <1>5

LEMMA SlashesType ==
  ASSUME NEW s \in SlashStates, NEW c \in A!Symbols
  PROVE  A!ReadSlashes(s, c) \in SlashStates
<1>. DEFINE w == Append(s.w, c)
<1>1. w \in Texts /\ w # <<>>
  BY DEF SlashStates, Texts
<1>2. A!dot(w) \in Texts
  BY <1>1, CutType
<1>. HIDE DEF w
<1>. QED BY <1>1, <1>2 DEF A!ReadSlashes, SlashStates, w

\* Both searches find a place, and it is the first.
LEMMA PastSlashesIn ==
  ASSUME NEW p \in Texts, NEW i \in 1..(Len(p) + 1)
  PROVE  /\ A!PastSlashes(p, i) \in i..(Len(p) + 1) /\ A!At(p, A!PastSlashes(p, i)) # "/"
         /\ \A k \in i..(A!PastSlashes(p, i) - 1) : A!At(p, k) = "/"
<1>. DEFINE s == {k \in i..(Len(p) + 1) : A!At(p, k) # "/"}
<1>1. Len(p) \in Nat /\ A!At(p, Len(p) + 1) = "end"
  BY DEF A!At, Texts
<1>2. s \in SUBSET Nat /\ s # {}
  BY <1>1
<1>3. \A k \in i..(Len(p) + 1) : k \notin s => A!At(p, k) = "/"
  OBVIOUS
<1>4. \A k \in s : k \in i..(Len(p) + 1) /\ A!At(p, k) # "/"
  OBVIOUS
<1>. HIDE DEF s
<1>5. A!Min(s) \in s /\ \A k \in s : A!Min(s) <= k
  BY <1>2, MinIn
<1>6. \A k \in i..(A!Min(s) - 1) : k \in i..(Len(p) + 1) /\ k \notin s
  BY <1>1, <1>4, <1>5
<1>7. A!PastSlashes(p, i) = A!Min(s)
  BY DEF A!PastSlashes, s
<1>. QED BY <1>3, <1>4, <1>5, <1>6, <1>7

LEMMA NameEndIn ==
  ASSUME NEW p \in Texts, NEW i \in 1..(Len(p) + 1)
  PROVE  /\ A!NameEnd(p, i) \in i..(Len(p) + 1) /\ A!Ends(p, A!NameEnd(p, i))
         /\ \A k \in i..(A!NameEnd(p, i) - 1) : ~A!Ends(p, k)
<1>. DEFINE s == {k \in i..(Len(p) + 1) : A!Ends(p, k)}
<1>1. Len(p) \in Nat /\ A!Ends(p, Len(p) + 1)
  BY DEF A!At, Texts, A!Ends
<1>2. s \in SUBSET Nat /\ s # {}
  BY <1>1
<1>3. \A k \in i..(Len(p) + 1) : k \notin s => ~A!Ends(p, k)
  OBVIOUS
<1>4. \A k \in s : k \in i..(Len(p) + 1) /\ A!Ends(p, k)
  OBVIOUS
<1>. HIDE DEF s
<1>5. A!Min(s) \in s /\ \A k \in s : A!Min(s) <= k
  BY <1>2, MinIn
<1>6. \A k \in i..(A!Min(s) - 1) : k \in i..(Len(p) + 1) /\ k \notin s
  BY <1>1, <1>4, <1>5
<1>7. A!NameEnd(p, i) = A!Min(s)
  BY DEF A!NameEnd, s
<1>. QED BY <1>3, <1>4, <1>5, <1>6, <1>7

\* The buffer of vfs_normalize_path may hold the mark of an error.
Marked == Seq(A!Symbols \cup {"error"})
Loops(p) == [at : 1..(Len(p) + 1), buf : Marked, n : Int]
Segments(p) == [at : 1..(Len(p) + 1), done : Texts]

LEMMA UpType ==
  ASSUME NEW y \in Marked
  PROVE  A!Up(y) \in Marked
<1>. DEFINE s == {0} \cup {k \in DOMAIN y : y[k] = "/"}
<1>1. Len(y) \in Nat /\ s \in SUBSET Int /\ s # {} /\ \A k \in s : k <= Len(y)
  BY DEF Marked
<1>2. CASE s = {0}
  <2>1. \A i \in s : i <= 0
    BY <1>2
  <2>2. A!Max(s) = 0
    BY <1>1, <1>2, <2>1, MaxIs
  <2>3. A!Up(y) = SubSeq(y, 1, A!Max(s) - 1)
    BY DEF A!Up
  <2>. HIDE DEF s
  <2>. QED BY <2>2, <2>3 DEF Marked
<1>3. CASE s # {0}
  <2>. DEFINE u == s \ {0}
  <2>1. u \in SUBSET (1..Len(y)) /\ u # {} /\ \A k \in s : k = 0 \/ k \in u
    BY <1>1, <1>3 DEF Marked
  <2>. HIDE DEF u
  <2>2. A!Max(u) \in u /\ \A k \in u : k <= A!Max(u)
    BY <1>1, <2>1, MaxIn
  <2>3. A!Max(u) \in s /\ A!Max(u) \in 1..Len(y) /\ \A k \in s : k <= A!Max(u)
    <3>. HIDE DEF s
    <3>1. A!Max(u) \in 1..Len(y)
      BY <2>1, <2>2
    <3>2. A!Max(u) \in s
      BY <2>2 DEF u
    <3>. QED BY <1>1, <2>1, <2>2, <3>1, <3>2
  <2>. HIDE DEF s
  <2>4. A!Max(s) = A!Max(u)
    BY <1>1, <2>3, MaxIs
  <2>5. A!Up(y) = SubSeq(y, 1, A!Max(u) - 1)
    BY <2>4 DEF A!Up, s
  <2>. QED BY <1>1, <2>3, <2>5 DEF Marked
<1>. QED BY <1>2, <1>3

LEMMA LoopType ==
  ASSUME NEW p \in Texts, NEW s \in Loops(p)
  PROVE  A!NextComponent(p, s) \in Loops(p)
<1>. DEFINE j == A!PastSlashes(p, s.at)
            k == IF A!At(p, j) = "." THEN j + 1 ELSE j
            e == A!NameEnd(p, k)
            b == Append(s.buf, "/") \o SubSeq(p, k, e - 1)
<1>1. Len(p) \in Nat /\ s.at \in 1..(Len(p) + 1) /\ s.buf \in Marked /\ s.n \in Int
  BY DEF Loops, Texts
<1>2. j \in 1..(Len(p) + 1)
  BY <1>1, PastSlashesIn
<1>. HIDE DEF j
<1>3. k \in 1..(Len(p) + 1)
  BY <1>1, <1>2 DEF A!At
<1>. HIDE DEF k
<1>4. e \in k..(Len(p) + 1)
  BY <1>1, <1>3, NameEndIn
<1>. HIDE DEF e
<1>5. Append(s.buf, "/") \in Marked /\ b \in Marked /\ A!Up(s.buf) \in Marked
  <2>1. SubSeq(p, k, e - 1) \in Marked
    BY <1>1, <1>3, <1>4 DEF Texts, Marked
  <2>2. Append(s.buf, "/") \in Marked
    BY <1>1 DEF Marked, A!Symbols
  <2>. QED BY <1>1, <2>1, <2>2, UpType DEF Marked
<1>. HIDE DEF b
<1>6. A!Refused(p) \in Loops(p)
  BY <1>1 DEF A!Refused, Loops, A!Error, Marked
<1>7. CASE A!At(p, s.at) = "end"
  BY <1>7 DEF A!NextComponent
<1>8. CASE A!At(p, s.at) # "end" /\ k > j /\ A!Ends(p, k)
  <2>1. A!NextComponent(p, s) = [s EXCEPT !.at = k]
    BY <1>8, SMTT(60) DEF A!NextComponent, j, k, A!Ends
  <2>. QED BY <1>3, <2>1 DEF Loops
<1>9. CASE A!At(p, s.at) # "end" /\ k > j /\ ~A!Ends(p, k) /\ A!At(p, k) = "." /\ A!Ends(p, k + 1)
  <2>1. A!NextComponent(p, s) = IF s.buf = <<>> THEN A!Refused(p)
                               ELSE [at |-> k + 1, buf |-> A!Up(s.buf), n |-> s.n - 1]
    BY <1>9 DEF A!NextComponent, j, k
  <2>2. k + 1 \in 1..(Len(p) + 1)
    BY <1>1, <1>3, <1>9 DEF A!At
  <2>. QED BY <1>1, <1>5, <1>6, <2>1, <2>2 DEF Loops
<1>10. CASE /\ A!At(p, s.at) # "end" /\ ~(k > j /\ A!Ends(p, k))
            /\ ~(k > j /\ A!At(p, k) = "." /\ A!Ends(p, k + 1))
  <2>1. \/ A!NextComponent(p, s) = A!Refused(p)
        \/ A!NextComponent(p, s) = [s EXCEPT !.at = k, !.buf = Append(s.buf, "/")]
        \/ A!NextComponent(p, s) = [at |-> e, buf |-> b, n |-> s.n + 1]
    BY <1>10 DEF A!NextComponent, j, k, e, b
  <2>2. [s EXCEPT !.at = k, !.buf = Append(s.buf, "/")] \in Loops(p)
    BY <1>1, <1>3, <1>5 DEF Loops
  <2>3. [at |-> e, buf |-> b, n |-> s.n + 1] \in Loops(p)
    BY <1>1, <1>3, <1>4, <1>5 DEF Loops
  <2>. QED BY <1>6, <2>1, <2>2, <2>3
<1>. QED BY <1>7, <1>8, <1>9, <1>10

LEMMA SegmentType ==
  ASSUME NEW p \in Texts, NEW s \in Segments(p)
  PROVE  A!NextSegment(p, s) \in Segments(p)
<1>. DEFINE b == A!PastSlashes(p, s.at)
            e == A!NameEnd(p, b)
            d == s.done \o SubSeq(p, b, e - 1) \o (IF e > Len(p) THEN <<>> ELSE <<"/">>)
<1>1. Len(p) \in Nat /\ s.at \in 1..(Len(p) + 1) /\ s.done \in Texts
  BY DEF Segments, Texts
<1>2. b \in 1..(Len(p) + 1)
  BY <1>1, PastSlashesIn
<1>. HIDE DEF b
<1>3. e \in b..(Len(p) + 1)
  BY <1>2, NameEndIn
<1>. HIDE DEF e
<1>4. d \in Texts
  <2>1. SubSeq(p, b, e - 1) \in Texts
    BY <1>1, <1>2, <1>3 DEF Texts
  <2>2. <<>> \in Texts /\ <<"/">> \in Texts
    BY DEF Texts, A!Symbols
  <2>. QED BY <1>1, <2>1, <2>2 DEF Texts
<1>. HIDE DEF d
<1>5. A!NextSegment(p, s) = IF b > Len(p) THEN [s EXCEPT !.at = b] ELSE [at |-> e, done |-> d]
  BY DEF A!NextSegment, b, e, d
<1>6. [s EXCEPT !.at = b] \in Segments(p) /\ [at |-> e, done |-> d] \in Segments(p)
  BY <1>1, <1>2, <1>3, <1>4 DEF Segments
<1>. QED BY <1>5, <1>6

\* The loops, over a beginning of their path.
SlashesOf(w, slash) == A!FoldLeft(A!ReadSlashes, [w |-> <<>>, slash |-> slash], w)
ListLoop(p, q) ==
  A!FoldLeft(LAMBDA t, c : A!NextComponent(p, t), [at |-> 1, buf |-> <<>>, n |-> 0], q)
SegmentLoop(p, q) == A!FoldLeft(LAMBDA t, c : A!NextSegment(p, t), [at |-> 1, done |-> <<"/">>], q)

\* Each loop is a fold, and so has its equations.
LEMMA DotsFold ==
  ASSUME NEW w \in Seq(A!Symbols)
  PROVE  A!Dots(w) =
           Fold([w |-> <<>>, slash |-> FALSE, one |-> FALSE, two |-> FALSE], w,
                [t \in DotStates |-> [c \in A!Symbols |-> A!ReadDots(t, c)]])
<1>. DEFINE b == [w |-> <<>>, slash |-> FALSE, one |-> FALSE, two |-> FALSE]
            h == [t \in DotStates |-> [c \in A!Symbols |-> A!ReadDots(t, c)]]
            Is(g) == g = [u \in SUBSET DOMAIN w |->
                            IF u = {} THEN b ELSE A!ReadDots(g[u \ {A!Max(u)}], w[A!Max(u)])]
            iter == CHOOSE g : Is(g)
<1>1. b \in DotStates
  BY DEF DotStates, Texts
<1>2. IsStep(h, DotStates, A!Symbols)
  BY DotsType DEF IsStep
<1>3. \A u \in SUBSET DOMAIN w : u # {} =>
        w[A!Max(u)] \in A!Symbols /\ u \ {A!Max(u)} \in SUBSET DOMAIN w
  BY LastPlace
<1>4. \A t \in DotStates, c \in A!Symbols : h[t][c] =
        A!ReadDots(t, c) /\ A!ReadDots(t, c) \in DotStates
  BY DotsType
<1>. HIDE DEF b, h
<1>5. PICK g : Folds(g, b, w, h)
  BY FoldExists
<1>6. \A u \in SUBSET DOMAIN w : g[u] \in DotStates
  BY <1>1, <1>2, <1>5, FoldsTyped
<1>7. Is(g)
  BY <1>3, <1>4, <1>5, <1>6 DEF Folds
<1>8. Is(iter)
  BY <1>7
<1>. HIDE DEF iter
<1>9. \A u \in SUBSET DOMAIN w : iter[u] \in DotStates
  <2>1. iter[{}] \in DotStates
    BY <1>1, <1>8
  <2>2. \A u \in SUBSET DOMAIN w : u # {} /\ iter[u \ {A!Max(u)}] \in DotStates =>
          iter[u] \in DotStates
    BY <1>3, <1>4, <1>8
  <2>. QED BY <2>1, <2>2, FoldTyped
<1>10. Folds(iter, b, w, h)
  BY <1>3, <1>4, <1>8, <1>9 DEF Folds
<1>11. Fold(b, w, h) = iter[DOMAIN w]
  BY <1>10, FoldIs
<1>12. A!Dots(w) = iter[DOMAIN w]
  BY SMT DEF A!Dots, A!FoldLeft, A!MapThenFoldSet, iter, b
<1>. QED BY <1>11, <1>12 DEF b, h

LEMMA DotsIs ==
  /\ A!Dots(<<>>) = [w |-> <<>>, slash |-> FALSE, one |-> FALSE, two |-> FALSE]
  /\ \A w \in Seq(A!Symbols) : /\ A!Dots(w) \in DotStates
                               /\ \A c \in A!Symbols : A!Dots(Append(w, c)) = A!ReadDots(A!Dots(w), c)
<1>. DEFINE b == [w |-> <<>>, slash |-> FALSE, one |-> FALSE, two |-> FALSE]
            h == [t \in DotStates |-> [c \in A!Symbols |-> A!ReadDots(t, c)]]
<1>1. b \in DotStates
  BY DEF DotStates, Texts
<1>2. IsStep(h, DotStates, A!Symbols)
  BY DotsType DEF IsStep
<1>3. \A w \in Seq(A!Symbols) : A!Dots(w) = Fold(b, w, h)
  BY DotsFold
<1>4. \A t \in DotStates, c \in A!Symbols : h[t][c] = A!ReadDots(t, c)
  OBVIOUS
<1>. HIDE DEF b, h
<1>5. A!Dots(<<>>) = b
  <2>1. <<>> \in Seq(A!Symbols)
    OBVIOUS
  <2>. QED BY <1>3, <2>1, FoldEmpty
<1>6. ASSUME NEW w \in Seq(A!Symbols) PROVE A!Dots(w) \in DotStates
  <2>1. Fold(b, w, h) \in DotStates
    BY <1>1, <1>2, FoldType
  <2>. QED BY <1>3, <2>1
<1>7. ASSUME NEW w \in Seq(A!Symbols), NEW c \in A!Symbols
      PROVE  A!Dots(Append(w, c)) = A!ReadDots(A!Dots(w), c)
  <2>1. Append(w, c) \in Seq(A!Symbols)
    OBVIOUS
  <2>2. Fold(b, Append(w, c), h) = h[Fold(b, w, h)][c]
    BY FoldAppend
  <2>. QED BY <1>3, <1>4, <1>6, <2>1, <2>2
<1>. QED BY <1>5, <1>6, <1>7 DEF b

LEMMA SlashesFold ==
  ASSUME NEW slash \in BOOLEAN, NEW w \in Seq(A!Symbols)
  PROVE  SlashesOf(w, slash) =
           Fold([w |-> <<>>, slash |-> slash], w,
                [t \in SlashStates |-> [c \in A!Symbols |-> A!ReadSlashes(t, c)]])
<1>. DEFINE b == [w |-> <<>>, slash |-> slash]
            h == [t \in SlashStates |-> [c \in A!Symbols |-> A!ReadSlashes(t, c)]]
            Is(g) == g = [u \in SUBSET DOMAIN w |->
                            IF u = {} THEN b ELSE A!ReadSlashes(g[u \ {A!Max(u)}], w[A!Max(u)])]
            iter == CHOOSE g : Is(g)
<1>1. b \in SlashStates
  BY DEF SlashStates, Texts
<1>2. IsStep(h, SlashStates, A!Symbols)
  BY SlashesType DEF IsStep
<1>3. \A u \in SUBSET DOMAIN w : u # {} =>
        w[A!Max(u)] \in A!Symbols /\ u \ {A!Max(u)} \in SUBSET DOMAIN w
  BY LastPlace
<1>4. \A t \in SlashStates, c \in A!Symbols : h[t][c] =
        A!ReadSlashes(t, c) /\ A!ReadSlashes(t, c) \in SlashStates
  BY SlashesType
<1>. HIDE DEF b, h
<1>5. PICK g : Folds(g, b, w, h)
  BY FoldExists
<1>6. \A u \in SUBSET DOMAIN w : g[u] \in SlashStates
  BY <1>1, <1>2, <1>5, FoldsTyped
<1>7. Is(g)
  BY <1>3, <1>4, <1>5, <1>6 DEF Folds
<1>8. Is(iter)
  BY <1>7
<1>. HIDE DEF iter
<1>9. \A u \in SUBSET DOMAIN w : iter[u] \in SlashStates
  <2>1. iter[{}] \in SlashStates
    BY <1>1, <1>8
  <2>2. \A u \in SUBSET DOMAIN w : u # {} /\ iter[u \ {A!Max(u)}] \in SlashStates =>
          iter[u] \in SlashStates
    BY <1>3, <1>4, <1>8
  <2>. QED BY <2>1, <2>2, FoldTyped
<1>10. Folds(iter, b, w, h)
  BY <1>3, <1>4, <1>8, <1>9 DEF Folds
<1>11. Fold(b, w, h) = iter[DOMAIN w]
  BY <1>10, FoldIs
<1>12. SlashesOf(w, slash) = iter[DOMAIN w]
  BY SMT DEF SlashesOf, A!FoldLeft, A!MapThenFoldSet, iter, b
<1>. QED BY <1>11, <1>12 DEF b, h

LEMMA SlashesIs ==
  ASSUME NEW slash \in BOOLEAN
  PROVE  /\ SlashesOf(<<>>, slash) = [w |-> <<>>, slash |-> slash]
         /\ \A w \in Seq(A!Symbols) : /\ SlashesOf(w, slash) \in SlashStates
                                      /\ \A c \in A!Symbols : SlashesOf(Append(w, c), slash) =
                                         A!ReadSlashes(SlashesOf(w, slash), c)
<1>. DEFINE b == [w |-> <<>>, slash |-> slash]
            h == [t \in SlashStates |-> [c \in A!Symbols |-> A!ReadSlashes(t, c)]]
<1>1. b \in SlashStates
  BY DEF SlashStates, Texts
<1>2. IsStep(h, SlashStates, A!Symbols)
  BY SlashesType DEF IsStep
<1>3. \A w \in Seq(A!Symbols) : SlashesOf(w, slash) = Fold(b, w, h)
  BY SlashesFold
<1>4. \A t \in SlashStates, c \in A!Symbols : h[t][c] = A!ReadSlashes(t, c)
  OBVIOUS
<1>. HIDE DEF b, h
<1>5. SlashesOf(<<>>, slash) = b
  <2>1. <<>> \in Seq(A!Symbols)
    OBVIOUS
  <2>. QED BY <1>3, <2>1, FoldEmpty
<1>6. ASSUME NEW w \in Seq(A!Symbols) PROVE SlashesOf(w, slash) \in SlashStates
  <2>1. Fold(b, w, h) \in SlashStates
    BY <1>1, <1>2, FoldType
  <2>. QED BY <1>3, <2>1
<1>7. ASSUME NEW w \in Seq(A!Symbols), NEW c \in A!Symbols
      PROVE  SlashesOf(Append(w, c), slash) = A!ReadSlashes(SlashesOf(w, slash), c)
  <2>1. Append(w, c) \in Seq(A!Symbols)
    OBVIOUS
  <2>2. Fold(b, Append(w, c), h) = h[Fold(b, w, h)][c]
    BY FoldAppend
  <2>. QED BY <1>3, <1>4, <1>6, <2>1, <2>2
<1>. QED BY <1>5, <1>6, <1>7 DEF b

LEMMA LoopFold ==
  ASSUME NEW p \in Texts, NEW q \in Seq(A!Symbols)
  PROVE  ListLoop(p, q) =
           Fold([at |-> 1, buf |-> <<>>, n |-> 0], q,
                [t \in Loops(p) |-> [c \in A!Symbols |-> A!NextComponent(p, t)]])
<1>. DEFINE b == [at |-> 1, buf |-> <<>>, n |-> 0]
            h == [t \in Loops(p) |-> [c \in A!Symbols |-> A!NextComponent(p, t)]]
            Is(g) == g = [u \in SUBSET DOMAIN q |->
                            IF u = {} THEN b ELSE A!NextComponent(p, g[u \ {A!Max(u)}])]
            iter == CHOOSE g : Is(g)
<1>1. b \in Loops(p)
  BY DEF Loops, Texts, Marked
<1>2. IsStep(h, Loops(p), A!Symbols)
  BY LoopType DEF IsStep
<1>3. \A u \in SUBSET DOMAIN q : u # {} =>
        q[A!Max(u)] \in A!Symbols /\ u \ {A!Max(u)} \in SUBSET DOMAIN q
  BY LastPlace
<1>4. \A t \in Loops(p), c \in A!Symbols : h[t][c] =
        A!NextComponent(p, t) /\ A!NextComponent(p, t) \in Loops(p)
  BY LoopType
<1>. HIDE DEF b, h
<1>5. PICK g : Folds(g, b, q, h)
  BY FoldExists
<1>6. \A u \in SUBSET DOMAIN q : g[u] \in Loops(p)
  BY <1>1, <1>2, <1>5, FoldsTyped
<1>7. Is(g)
  BY <1>3, <1>4, <1>5, <1>6 DEF Folds
<1>8. Is(iter)
  BY <1>7
<1>. HIDE DEF iter
<1>9. \A u \in SUBSET DOMAIN q : iter[u] \in Loops(p)
  <2>1. iter[{}] \in Loops(p)
    BY <1>1, <1>8
  <2>2. \A u \in SUBSET DOMAIN q : u # {} /\ iter[u \ {A!Max(u)}] \in Loops(p) =>
          iter[u] \in Loops(p)
    BY <1>3, <1>4, <1>8
  <2>. QED BY <2>1, <2>2, FoldTyped
<1>10. Folds(iter, b, q, h)
  BY <1>3, <1>4, <1>8, <1>9 DEF Folds
<1>11. Fold(b, q, h) = iter[DOMAIN q]
  BY <1>10, FoldIs
<1>12. ListLoop(p, q) = iter[DOMAIN q]
  BY SMT DEF ListLoop, A!FoldLeft, A!MapThenFoldSet, iter, b
<1>. QED BY <1>11, <1>12 DEF b, h

LEMMA ListLoopIs ==
  ASSUME NEW p \in Texts
  PROVE  /\ ListLoop(p, <<>>) = [at |-> 1, buf |-> <<>>, n |-> 0]
         /\ \A q \in Seq(A!Symbols) : /\ ListLoop(p, q) \in Loops(p)
                                      /\ \A c \in A!Symbols : ListLoop(p, Append(q, c)) =
                                         A!NextComponent(p, ListLoop(p, q))
<1>. DEFINE b == [at |-> 1, buf |-> <<>>, n |-> 0]
            h == [t \in Loops(p) |-> [c \in A!Symbols |-> A!NextComponent(p, t)]]
<1>1. b \in Loops(p)
  BY DEF Loops, Texts, Marked
<1>2. IsStep(h, Loops(p), A!Symbols)
  BY LoopType DEF IsStep
<1>3. \A q \in Seq(A!Symbols) : ListLoop(p, q) = Fold(b, q, h)
  BY LoopFold
<1>4. \A t \in Loops(p), c \in A!Symbols : h[t][c] = A!NextComponent(p, t)
  OBVIOUS
<1>. HIDE DEF b, h
<1>5. ListLoop(p, <<>>) = b
  <2>1. <<>> \in Seq(A!Symbols)
    OBVIOUS
  <2>. QED BY <1>3, <2>1, FoldEmpty
<1>6. ASSUME NEW q \in Seq(A!Symbols) PROVE ListLoop(p, q) \in Loops(p)
  <2>1. Fold(b, q, h) \in Loops(p)
    BY <1>1, <1>2, FoldType
  <2>. QED BY <1>3, <2>1
<1>7. ASSUME NEW q \in Seq(A!Symbols), NEW c \in A!Symbols
      PROVE  ListLoop(p, Append(q, c)) = A!NextComponent(p, ListLoop(p, q))
  <2>1. Append(q, c) \in Seq(A!Symbols)
    OBVIOUS
  <2>2. Fold(b, Append(q, c), h) = h[Fold(b, q, h)][c]
    BY FoldAppend
  <2>. QED BY <1>3, <1>4, <1>6, <2>1, <2>2
<1>. QED BY <1>5, <1>6, <1>7 DEF b

LEMMA SegmentFold ==
  ASSUME NEW p \in Texts, NEW q \in Seq(A!Symbols)
  PROVE  SegmentLoop(p, q) =
           Fold([at |-> 1, done |-> <<"/">>], q,
                [t \in Segments(p) |-> [c \in A!Symbols |-> A!NextSegment(p, t)]])
<1>. DEFINE b == [at |-> 1, done |-> <<"/">>]
            h == [t \in Segments(p) |-> [c \in A!Symbols |-> A!NextSegment(p, t)]]
            Is(g) == g = [u \in SUBSET DOMAIN q |->
                            IF u = {} THEN b ELSE A!NextSegment(p, g[u \ {A!Max(u)}])]
            iter == CHOOSE g : Is(g)
<1>1. b \in Segments(p)
  BY DEF Segments, Texts, A!Symbols
<1>2. IsStep(h, Segments(p), A!Symbols)
  BY SegmentType DEF IsStep
<1>3. \A u \in SUBSET DOMAIN q : u # {} =>
        q[A!Max(u)] \in A!Symbols /\ u \ {A!Max(u)} \in SUBSET DOMAIN q
  BY LastPlace
<1>4. \A t \in Segments(p), c \in A!Symbols : h[t][c] =
        A!NextSegment(p, t) /\ A!NextSegment(p, t) \in Segments(p)
  BY SegmentType
<1>. HIDE DEF b, h
<1>5. PICK g : Folds(g, b, q, h)
  BY FoldExists
<1>6. \A u \in SUBSET DOMAIN q : g[u] \in Segments(p)
  BY <1>1, <1>2, <1>5, FoldsTyped
<1>7. Is(g)
  BY <1>3, <1>4, <1>5, <1>6 DEF Folds
<1>8. Is(iter)
  BY <1>7
<1>. HIDE DEF iter
<1>9. \A u \in SUBSET DOMAIN q : iter[u] \in Segments(p)
  <2>1. iter[{}] \in Segments(p)
    BY <1>1, <1>8
  <2>2. \A u \in SUBSET DOMAIN q : u # {} /\ iter[u \ {A!Max(u)}] \in Segments(p) =>
          iter[u] \in Segments(p)
    BY <1>3, <1>4, <1>8
  <2>. QED BY <2>1, <2>2, FoldTyped
<1>10. Folds(iter, b, q, h)
  BY <1>3, <1>4, <1>8, <1>9 DEF Folds
<1>11. Fold(b, q, h) = iter[DOMAIN q]
  BY <1>10, FoldIs
<1>12. SegmentLoop(p, q) = iter[DOMAIN q]
  BY SMT DEF SegmentLoop, A!FoldLeft, A!MapThenFoldSet, iter, b
<1>. QED BY <1>11, <1>12 DEF b, h

LEMMA SegmentIs ==
  ASSUME NEW p \in Texts
  PROVE  /\ SegmentLoop(p, <<>>) = [at |-> 1, done |-> <<"/">>]
         /\ \A q \in Seq(A!Symbols) : /\ SegmentLoop(p, q) \in Segments(p)
                                      /\ \A c \in A!Symbols : SegmentLoop(p, Append(q, c)) =
                                         A!NextSegment(p, SegmentLoop(p, q))
<1>. DEFINE b == [at |-> 1, done |-> <<"/">>]
            h == [t \in Segments(p) |-> [c \in A!Symbols |-> A!NextSegment(p, t)]]
<1>1. b \in Segments(p)
  BY DEF Segments, Texts, A!Symbols
<1>2. IsStep(h, Segments(p), A!Symbols)
  BY SegmentType DEF IsStep
<1>3. \A q \in Seq(A!Symbols) : SegmentLoop(p, q) = Fold(b, q, h)
  BY SegmentFold
<1>4. \A t \in Segments(p), c \in A!Symbols : h[t][c] = A!NextSegment(p, t)
  OBVIOUS
<1>. HIDE DEF b, h
<1>5. SegmentLoop(p, <<>>) = b
  <2>1. <<>> \in Seq(A!Symbols)
    OBVIOUS
  <2>. QED BY <1>3, <2>1, FoldEmpty
<1>6. ASSUME NEW q \in Seq(A!Symbols) PROVE SegmentLoop(p, q) \in Segments(p)
  <2>1. Fold(b, q, h) \in Segments(p)
    BY <1>1, <1>2, FoldType
  <2>. QED BY <1>3, <2>1
<1>7. ASSUME NEW q \in Seq(A!Symbols), NEW c \in A!Symbols
      PROVE  SegmentLoop(p, Append(q, c)) = A!NextSegment(p, SegmentLoop(p, q))
  <2>1. Append(q, c) \in Seq(A!Symbols)
    OBVIOUS
  <2>2. Fold(b, Append(q, c), h) = h[Fold(b, q, h)][c]
    BY FoldAppend
  <2>. QED BY <1>3, <1>4, <1>6, <2>1, <2>2
<1>. QED BY <1>5, <1>6, <1>7 DEF b

-----------------------------------------------------------------------------
(* A path, one character after the other.                                  *)

Past(p) == A!Front(A!Fields(p))   \* the fields in front of its last slash
Cur(p) == A!Last(A!Fields(p))     \* what stands behind it
NamesPast(p) == A!Filled(Past(p))

\* Front and Last take Append apart.
LEMMA FrontLast ==
  ASSUME NEW T, NEW s \in Seq(T), s # <<>>
  PROVE  /\ A!Front(s) \in Seq(T) /\ A!Last(s) \in T /\ s = Append(A!Front(s), A!Last(s))
         /\ Len(A!Front(s)) = Len(s) - 1
<1>1. PICK f \in Seq(T), x \in T : Len(s) = Len(f) + 1 /\ s = Append(f, x)
  BY LastOff
<1>2. A!Last(s) = x
  BY <1>1 DEF A!Last
<1>3. A!Front(s) = f
  <2>1. /\ A!Front(s) \in Seq(T) /\ Len(A!Front(s)) = Len(f)
        /\ \A i \in 1..Len(f) : A!Front(s)[i] = f[i]
    BY <1>1 DEF A!Front
  <2>. QED BY <2>1, SeqEqual
<1>. QED BY <1>1, <1>2, <1>3

LEMMA FrontAppend ==
  ASSUME NEW T, NEW f \in Seq(T), NEW x \in T
  PROVE  A!Front(Append(f, x)) = f /\ A!Last(Append(f, x)) = x
<1>2. A!Last(Append(f, x)) = x
  BY DEF A!Last
<1>3. A!Front(Append(f, x)) \in Seq(T) /\ Len(A!Front(Append(f, x))) = Len(f)
        /\ \A i \in 1..Len(f) : A!Front(Append(f, x))[i] = f[i]
  BY DEF A!Front
<1>4. A!Front(Append(f, x)) = f
  BY <1>3, SeqEqual
<1>. QED BY <1>2, <1>4

\* The components of a path are those in front of its last slash and what is behind it.
LEMMA FieldParts ==
  ASSUME NEW p \in Texts
  PROVE  /\ Past(p) \in Seq(Names) /\ Cur(p) \in Names
         /\ A!Fields(p) = Append(Past(p), Cur(p))
         /\ NamesPast(p) \in WordLists /\ A!Components(p) \in WordLists
         /\ A!Components(p) = Fill(NamesPast(p), Cur(p))
<1>1. A!Fields(p) \in Seq(Names) /\ A!Fields(p) # <<>>
  BY FieldsIs DEF FieldLists, Texts
<1>2. Past(p) \in Seq(Names) /\ Cur(p) \in Names /\ A!Fields(p) = Append(Past(p), Cur(p))
  BY <1>1, FrontLast DEF Past, Cur
<1>3. NamesPast(p) \in WordLists /\ A!Filled(Append(Past(p), Cur(p))) = Fill(NamesPast(p), Cur(p))
  BY <1>2, FilledIs DEF NamesPast
<1>4. A!Components(p) \in WordLists
  BY <1>1, FilledIs DEF A!Components
<1>. QED BY <1>2, <1>3, <1>4 DEF A!Components

LEMMA Nothing ==
  Past(<<>>) = <<>> /\ Cur(<<>>) = <<>> /\ NamesPast(<<>>) = <<>> /\ A!Components(<<>>) = <<>>
<1>1. <<>> \in Seq(Names) /\ <<>> \in Names /\ <<>> \in Texts
  BY DEF Names, Texts
<1>2. << <<>> >> = Append(<<>>, <<>>)
  OBVIOUS
<1>3. A!Fields(<<>>) = Append(<<>>, <<>>)
  BY <1>2, FieldsIs
<1>4. Past(<<>>) = <<>> /\ Cur(<<>>) = <<>>
  BY <1>1, <1>3, FrontAppend DEF Past, Cur
<1>5. NamesPast(<<>>) = <<>>
  BY <1>4, FilledIs DEF NamesPast
<1>. QED BY <1>1, <1>4, <1>5, FieldParts DEF Fill

\* A slash ends the field that is read; any other character is added to it.
LEMMA SlashRead ==
  ASSUME NEW p \in Texts
  PROVE  /\ Append(p, "/") \in Texts
         /\ Past(Append(p, "/")) = Append(Past(p), Cur(p)) /\ Cur(Append(p, "/")) = <<>>
         /\ NamesPast(Append(p, "/")) = A!Components(p)
         /\ A!Components(Append(p, "/")) = A!Components(p)
<1>1. "/" \in A!Symbols /\ <<>> \in Names /\ A!Fields(p) \in Seq(Names)
  BY FieldsIs DEF A!Symbols, Names, Texts, FieldLists
<1>2. Append(p, "/") \in Texts
  BY <1>1 DEF Texts
<1>3. A!Fields(Append(p, "/")) = Append(A!Fields(p), <<>>)
  BY <1>1, FieldsIs DEF ReadField, Texts
<1>4. Past(Append(p, "/")) = A!Fields(p) /\ Cur(Append(p, "/")) = <<>>
  <2>1. A!Front(Append(A!Fields(p), <<>>)) = A!Fields(p) /\ A!Last(Append(A!Fields(p), <<>>)) = <<>>
    BY <1>1, FrontAppend
  <2>. QED BY <1>3, <2>1 DEF Past, Cur
<1>5. NamesPast(Append(p, "/")) = A!Components(p)
  BY <1>4 DEF NamesPast, A!Components
<1>. QED BY <1>2, <1>4, <1>5, FieldParts DEF Fill

LEMMA CharRead ==
  ASSUME NEW p \in Texts, NEW c \in A!Symbols, c # "/"
  PROVE  /\ Append(p, c) \in Texts
         /\ Past(Append(p, c)) = Past(p) /\ Cur(Append(p, c)) = Append(Cur(p), c)
         /\ NamesPast(Append(p, c)) = NamesPast(p)
<1>1. Past(p) \in Seq(Names) /\ Cur(p) \in Names /\ Append(Cur(p), c) \in Names
  BY FieldParts DEF Names
<1>2. Append(p, c) \in Texts
  BY DEF Texts
<1>3. A!Fields(Append(p, c)) = Append(Past(p), Append(Cur(p), c))
  BY FieldsIs DEF ReadField, Texts, Past, Cur
<1>4. Past(Append(p, c)) = Past(p) /\ Cur(Append(p, c)) = Append(Cur(p), c)
  <2>. DEFINE f == Past(p)
              g == Append(Cur(p), c)
  <2>. HIDE DEF f, g
  <2>1. A!Front(Append(f, g)) = f /\ A!Last(Append(f, g)) = g
    BY <1>1, FrontAppend DEF f, g
  <2>2. A!Fields(Append(p, c)) = Append(f, g)
    BY <1>3 DEF f, g
  <2>3. Past(Append(p, c)) = f /\ Cur(Append(p, c)) = g
    BY <2>1, <2>2 DEF Past, Cur
  <2>. QED BY <2>3 DEF f, g
<1>. QED BY <1>2, <1>4 DEF NamesPast

LEMMA AppendConcat ==
  ASSUME NEW T, NEW p \in Seq(T), NEW f \in Seq(T), NEW c \in T
  PROVE  p \o Append(f, c) = Append(p \o f, c)
<1>1. p \o Append(f, c) \in Seq(T) /\ Append(p \o f, c) \in Seq(T)
  OBVIOUS
<1>2. Len(p \o Append(f, c)) = Len(Append(p \o f, c))
  OBVIOUS
<1>3. \A i \in 1..Len(p \o Append(f, c)) : (p \o Append(f, c))[i] = Append(p \o f, c)[i]
  OBVIOUS
<1>. QED BY <1>1, <1>2, <1>3, SeqEqual

LEMMA OneConcat ==
  ASSUME NEW T, NEW p \in Seq(T), NEW c \in T
  PROVE  p \o <<c>> = Append(p, c)
<1>1. p \o <<c>> \in Seq(T) /\ Append(p, c) \in Seq(T)
  OBVIOUS
<1>2. Len(p \o <<c>>) = Len(Append(p, c))
  OBVIOUS
<1>3. \A i \in 1..Len(p \o <<c>>) : (p \o <<c>>)[i] = Append(p, c)[i]
  OBVIOUS
<1>. QED BY <1>1, <1>2, <1>3, SeqEqual

LEMMA NameType ==
  ASSUME NEW f \in Names
  PROVE  f \in Texts
BY DEF Names, Texts, A!Symbols

\* The same for a whole name, and for a slash and a name.
LEMMA NameRead ==
  ASSUME NEW p \in Texts, NEW f \in Names
  PROVE  /\ p \o f \in Texts
         /\ Past(p \o f) = Past(p) /\ Cur(p \o f) = Cur(p) \o f /\ NamesPast(p \o f) = NamesPast(p)
<1>. DEFINE T == A!Symbols \ {"/"}
            Holds(g) == /\ p \o g \in Texts
                        /\ Past(p \o g) = Past(p) /\ Cur(p \o g) = Cur(p) \o g
                        /\ NamesPast(p \o g) = NamesPast(p)
            D == {g \in Seq(T) : Holds(g)}
<1>1. Cur(p) \in Seq(T) /\ T \subseteq A!Symbols
  BY FieldParts DEF Names
<1>2. <<>> \in D
  <2>1. p \o <<>> = p
    BY ConcatEmptySeq DEF Texts
  <2>2. Cur(p) \o <<>> = Cur(p)
    BY <1>1, ConcatEmptySeq
  <2>3. <<>> \in Seq(T)
    OBVIOUS
  <2>4. Holds(<<>>)
    BY <2>1, <2>2
  <2>. HIDE DEF Holds, T
  <2>. QED BY <2>3, <2>4
<1>3. ASSUME NEW g \in D, NEW c \in T PROVE Append(g, c) \in D
  <2>1. g \in Seq(T) /\ Append(g, c) \in Seq(T) /\ Holds(g)
    OBVIOUS
  <2>2. g \in Seq(A!Symbols)
    BY <2>1, <1>1
  <2>3. p \o Append(g, c) = Append(p \o g, c)
    BY <1>1, <2>2, AppendConcat DEF Texts
  <2>4. Cur(p) \o Append(g, c) = Append(Cur(p) \o g, c)
    BY <1>1, <2>1, AppendConcat
  <2>5. c \in A!Symbols /\ c # "/"
    BY <1>1
  <2>6. Holds(Append(g, c))
    BY <2>1, <2>3, <2>4, <2>5, CharRead
  <2>. QED BY <2>1, <2>6
<1>4. D = Seq(T)
  <2>1. D \in SUBSET Seq(T)
    OBVIOUS
  <2>. HIDE DEF D
  <2>. QED BY <1>2, <1>3, <2>1, Sequences
<1>. QED BY <1>4 DEF Names

LEMMA FieldRead ==
  ASSUME NEW p \in Texts, NEW f \in Names
  PROVE  /\ p \o <<"/">> \o f \in Texts /\ Past(p \o <<"/">> \o f) = Append(Past(p), Cur(p))
         /\ Cur(p \o <<"/">> \o f) = f /\ NamesPast(p \o <<"/">> \o f) = A!Components(p)
         /\ A!Components(p \o <<"/">> \o f) = Fill(A!Components(p), f)
<1>1. p \o <<"/">> = Append(p, "/")
  BY OneConcat DEF Texts, A!Symbols
<1>2. /\ p \o <<"/">> \in Texts /\ Past(p \o <<"/">>) = Append(Past(p), Cur(p))
      /\ Cur(p \o <<"/">>) = <<>> /\ NamesPast(p \o <<"/">>) = A!Components(p)
  BY <1>1, SlashRead
<1>3. <<>> \o f = f
  BY ConcatEmptySeq DEF Names
<1>4. /\ (p \o <<"/">>) \o f \in Texts /\ Past((p \o <<"/">>) \o f) = Append(Past(p), Cur(p))
      /\ Cur((p \o <<"/">>) \o f) = f /\ NamesPast((p \o <<"/">>) \o f) = A!Components(p)
  BY <1>2, <1>3, NameRead
<1>. QED BY <1>4, FieldParts

\* A path is what stands in front of its last slash, the slash and the rest.
LEMMA LastSlash ==
  ASSUME NEW w \in Texts, Past(w) # <<>>
  PROVE  \E v \in Texts : w = v \o <<"/">> \o Cur(w) /\ A!Fields(v) = Past(w)
<1>. DEFINE Holds(q) ==
              Past(q) # <<>> => \E v \in Texts : q = v \o <<"/">> \o Cur(q) /\ A!Fields(v) = Past(q)
            D == {q \in Seq(A!Symbols) : Holds(q)}
<1>1. <<>> \in D
  BY Nothing
<1>2. ASSUME NEW q \in D, NEW c \in A!Symbols PROVE Append(q, c) \in D
  <2>1. q \in Texts /\ Append(q, c) \in Texts /\ Holds(q)
    BY DEF Texts
  <2>2. CASE c = "/"
    <3>1. /\ Append(q, c) = q \o <<"/">> /\ Cur(Append(q, c)) = <<>>
          /\ Past(Append(q, c)) = A!Fields(q)
      BY <2>1, <2>2, OneConcat, SlashRead, FieldParts DEF Texts, A!Symbols
    <3>2. (q \o <<"/">>) \o <<>> = q \o <<"/">>
      BY <2>1, <3>1, ConcatEmptySeq DEF Texts
    <3>3. Holds(Append(q, c))
      BY <2>1, <3>1, <3>2
    <3>. QED BY <2>1, <3>3 DEF Texts
  <2>3. CASE c # "/"
    <3>1. Cur(Append(q, c)) = Append(Cur(q), c) /\ Past(Append(q, c)) = Past(q)
      BY <2>1, <2>3, CharRead
    <3>2. ASSUME Past(q) # <<>>
          PROVE  \E v \in Texts : Append(q, c) =
                   v \o <<"/">> \o Append(Cur(q), c) /\ A!Fields(v) = Past(q)
      <4>1. PICK v \in Texts : q = v \o <<"/">> \o Cur(q) /\ A!Fields(v) = Past(q)
        BY <2>1, <3>2
      <4>2. v \o <<"/">> \in Seq(A!Symbols) /\ Cur(q) \in Seq(A!Symbols)
        BY <2>1, FieldParts, NameType DEF Texts, A!Symbols
      <4>3. (v \o <<"/">>) \o Append(Cur(q), c) = Append((v \o <<"/">>) \o Cur(q), c)
        BY <4>2, AppendConcat
      <4>4. Append(q, c) = v \o <<"/">> \o Append(Cur(q), c)
        BY <4>1, <4>3
      <4>. QED BY <4>1, <4>4
    <3>3. Holds(Append(q, c))
      BY <3>1, <3>2
    <3>. QED BY <2>1, <3>3 DEF Texts
  <2>. QED BY <2>2, <2>3
<1>3. D = Seq(A!Symbols)
  <2>1. D \in SUBSET Seq(A!Symbols)
    OBVIOUS
  <2>. HIDE DEF D
  <2>. QED BY <1>1, <1>2, <2>1, Sequences
<1>. QED BY <1>3 DEF Texts

\* The first field of an absolute path is the empty one in front of its first slash.
LEMMA AbsolutePast ==
  ASSUME NEW p \in Texts, A!Absolute(p)
  PROVE  Past(p) # <<>> /\ Past(p)[1] = <<>>
<1>. DEFINE Holds(q) == A!Absolute(q) => Past(q) # <<>> /\ Past(q)[1] = <<>>
            D == {q \in Seq(A!Symbols) : Holds(q)}
<1>1. <<>> \in D
  BY DEF A!Absolute
<1>2. ASSUME NEW q \in D, NEW c \in A!Symbols PROVE Append(q, c) \in D
  <2>1. q \in Texts /\ Append(q, c) \in Texts /\ Holds(q)
    BY DEF Texts
  <2>2. Past(q) \in Seq(Names) /\ Cur(q) \in Names
    BY <2>1, FieldParts
  <2>3. CASE q = <<>>
    <3>1. Append(q, c)[1] = c
      BY <2>3
    <3>2. CASE c = "/"
      <4>1. Past(Append(q, c)) = Append(<<>>, <<>>)
        BY <2>1, <2>3, <3>2, SlashRead, Nothing
      <4>2. Append(<<>>, <<>>) # <<>> /\ Append(<<>>, <<>>)[1] = <<>>
        OBVIOUS
      <4>3. Holds(Append(q, c))
        BY <4>1, <4>2
      <4>. QED BY <2>1, <4>3 DEF Texts
    <3>3. CASE c # "/"
      <4>1. Holds(Append(q, c))
        BY <3>1, <3>3 DEF A!Absolute
      <4>. QED BY <2>1, <4>1 DEF Texts
    <3>. QED BY <3>2, <3>3
  <2>4. CASE q # <<>>
    <3>1. Append(q, c)[1] = q[1]
      BY <2>1, <2>4 DEF Texts
    <3>2. ASSUME A!Absolute(q) PROVE Past(Append(q, c)) # <<>> /\ Past(Append(q, c))[1] = <<>>
      <4>1. Past(q) # <<>> /\ Past(q)[1] = <<>>
        BY <2>1, <3>2
      <4>2. CASE c = "/"
        <5>1. Past(Append(q, c)) = Append(Past(q), Cur(q))
          BY <2>1, <4>2, SlashRead
        <5>2. Append(Past(q), Cur(q))[1] = Past(q)[1] /\ Append(Past(q), Cur(q)) # <<>>
          BY <2>2, <4>1
        <5>. QED BY <4>1, <5>1, <5>2
      <4>3. CASE c # "/"
        <5>1. Past(Append(q, c)) = Past(q)
          BY <2>1, <4>3, CharRead
        <5>. QED BY <4>1, <5>1
      <4>. QED BY <4>2, <4>3
    <3>3. A!Absolute(Append(q, c)) => A!Absolute(q)
      BY <2>4, <3>1 DEF A!Absolute
    <3>4. Holds(Append(q, c))
      BY <3>2, <3>3
    <3>. QED BY <2>1, <3>4 DEF Texts
  <2>. QED BY <2>3, <2>4
<1>3. D = Seq(A!Symbols)
  <2>1. D \in SUBSET Seq(A!Symbols)
    OBVIOUS
  <2>. HIDE DEF D
  <2>. QED BY <1>1, <1>2, <2>1, Sequences
<1>. QED BY <1>3 DEF Texts

-----------------------------------------------------------------------------
(* cwd.c: what is cut for "." and for "..".                                *)

\* cpath goes back to the last slash in front of it.
LEMMA BackIs ==
  ASSUME NEW w, NEW i \in Nat, NEW j \in Nat, 0 < j, j < i, w[j] = "/",
         \A k \in (j + 1)..(i - 1) : w[k] # "/"
  PROVE  A!Back(w, i) = j
<1>. DEFINE s == {1} \cup {k \in 1..(i - 1) : w[k] = "/"}
<1>1. s \in SUBSET Int /\ j \in s
  OBVIOUS
<1>2. \A k \in s : k <= j
  OBVIOUS
<1>. HIDE DEF s
<1>3. A!Max(s) = j
  BY <1>1, <1>2, MaxIs
<1>. QED BY <1>3 DEF A!Back, s

\* The last slash of a path is found from behind it.
LEMMA BackFinds ==
  ASSUME NEW w, NEW v \in Texts, NEW f \in Names, NEW i \in Nat, i = Len(v) + 2 + Len(f),
         \A k \in 1..(i - 1) : w[k] = (v \o <<"/">> \o f)[k]
  PROVE  A!Back(w, i) = Len(v) + 1 /\ SubSeq(w, 1, Len(v) + 1) = v \o <<"/">>
<1>. DEFINE j == Len(v) + 1
            z == v \o <<"/">>
            y == v \o <<"/">> \o f
<1>1. /\ v \in Seq(A!Symbols) /\ f \in Seq(A!Symbols) /\ <<"/">> \in Seq(A!Symbols) /\ Len(v) \in Nat
      /\ Len(f) \in Nat
  BY NameType DEF Texts, A!Symbols
<1>2. \A k \in 1..Len(f) : f[k] # "/"
  BY DEF Names
<1>3. y[j] = "/"
  BY <1>1
<1>4. \A k \in (j + 1)..(i - 1) : y[k] # "/"
  <2>1. ASSUME NEW k \in (j + 1)..(i - 1) PROVE y[k] # "/"
    <3>1. k - j \in 1..Len(f) /\ y[k] = f[k - j]
      BY <1>1
    <3>. QED BY <1>2, <3>1
  <2>. QED BY <2>1
<1>5. \A k \in 1..j : y[k] = z[k] /\ z[k] \in A!Symbols
  BY <1>1
<1>6. j \in Nat /\ 0 < j /\ j < i
  BY <1>1
<1>7. v \o <<"/">> \in Seq(A!Symbols) /\ Len(v \o <<"/">>) = j
  BY <1>1
<1>0. \A k \in 1..(i - 1) : w[k] = y[k]
  OBVIOUS
<1>. HIDE DEF j, y, z
<1>8. w[j] = "/" /\ \A k \in (j + 1)..(i - 1) : w[k] # "/"
  <2>1. j \in 1..(i - 1)
    BY <1>6
  <2>2. w[j] = "/"
    BY <1>0, <1>3, <2>1
  <2>3. ASSUME NEW k \in (j + 1)..(i - 1) PROVE w[k] # "/"
    <3>1. k \in 1..(i - 1)
      BY <1>6
    <3>. QED BY <1>0, <1>4, <3>1
  <2>. QED BY <2>2, <2>3
<1>9. A!Back(w, i) = j
  BY <1>6, <1>8, BackIs
<1>10. \A k \in 1..j : w[k] = (v \o <<"/">>)[k] /\ w[k] \in A!Symbols
  <2>1. \A k \in 1..j : y[k] = z[k] /\ z[k] \in A!Symbols
    BY <1>5
  <2>2. \A k \in 1..j : w[k] = z[k] /\ w[k] \in A!Symbols
    BY <1>0, <1>6, <2>1
  <2>. QED BY <2>2 DEF z
<1>11. SubSeq(w, 1, j) = v \o <<"/">>
  <2>1. /\ SubSeq(w, 1, j) \in Seq(A!Symbols) /\ Len(SubSeq(w, 1, j)) = j
        /\ \A k \in 1..j : SubSeq(w, 1, j)[k] = w[k]
    BY <1>6, <1>10, SubSeqProperties
  <2>. QED BY <1>7, <1>10, <2>1, SeqEqual
<1>. QED BY <1>9, <1>11 DEF j

\* dot cuts the component that is read, dot_dot that and the one before.
LEMMA CutAt ==
  ASSUME NEW v \in Texts, NEW f \in Names, NEW c
  PROVE  /\ A!Back(Append(v \o <<"/">> \o f, c), Len(Append(v \o <<"/">> \o f, c))) = Len(v) + 1
         /\ A!dot(Append(v \o <<"/">> \o f, c)) = v \o <<"/">>
<1>. DEFINE y == v \o <<"/">> \o f
            x == Append(y, c)
            i == Len(x)
<1>1. /\ v \in Seq(A!Symbols) /\ f \in Seq(A!Symbols) /\ <<"/">> \in Seq(A!Symbols) /\ Len(v) \in Nat
      /\ Len(f) \in Nat
  BY NameType DEF Texts, A!Symbols
<1>2. y \in Seq(A!Symbols) /\ Len(y) = Len(v) + 1 + Len(f)
  BY <1>1
<1>. HIDE DEF y
<1>3. i \in Nat /\ i = Len(v) + 2 + Len(f) /\ \A k \in 1..(i - 1) : x[k] = y[k]
  BY <1>1, <1>2
<1>. HIDE DEF x, i
<1>4. A!Back(x, i) = Len(v) + 1 /\ SubSeq(x, 1, Len(v) + 1) = v \o <<"/">>
  BY <1>3, BackFinds DEF y
<1>. QED BY <1>4 DEF x, y, i, A!dot

LEMMA DotCuts ==
  ASSUME NEW w \in Texts, A!Absolute(w), NEW c
  PROVE  /\ A!dot(Append(w, c)) \in Texts /\ A!Absolute(A!dot(Append(w, c)))
         /\ Past(A!dot(Append(w, c))) = Past(w) /\ Cur(A!dot(Append(w, c))) = <<>>
<1>1. PICK v \in Texts : w = v \o <<"/">> \o Cur(w) /\ A!Fields(v) = Past(w)
  BY AbsolutePast, LastSlash
<1>2. A!dot(Append(w, c)) = v \o <<"/">>
  BY <1>1, CutAt, FieldParts
<1>3. v \o <<"/">> = Append(v, "/")
  BY OneConcat DEF Texts, A!Symbols
<1>4. Append(v, "/") \in Texts /\ Past(Append(v, "/")) = A!Fields(v) /\ Cur(Append(v, "/")) = <<>>
  BY SlashRead, FieldParts
<1>5. A!Absolute(Append(v, "/"))
  <2>1. CASE v = <<>>
    BY <2>1 DEF A!Absolute
  <2>2. CASE v # <<>>
    <3>1. Cur(w) \in Seq(A!Symbols) /\ v \in Seq(A!Symbols) /\ <<"/">> \in Seq(A!Symbols)
      BY FieldParts, NameType DEF Texts, A!Symbols
    <3>2. w[1] = v[1] /\ Append(v, "/")[1] = v[1] /\ Append(v, "/") # <<>>
      BY <1>1, <2>2, <3>1
    <3>. QED BY <3>2 DEF A!Absolute
  <2>. QED BY <2>1, <2>2
<1>. QED BY <1>1, <1>2, <1>3, <1>4, <1>5

LEMMA DotDotCuts ==
  ASSUME NEW w \in Texts, A!Absolute(w), NEW c
  PROVE  /\ A!dot_dot(Append(w, c)) \in Texts /\ A!Absolute(A!dot_dot(Append(w, c)))
         /\ Cur(A!dot_dot(Append(w, c))) = <<>>
         /\ Past(A!dot_dot(Append(w, c))) = IF Len(Past(w)) = 1 THEN Past(w) ELSE A!Front(Past(w))
<1>. DEFINE x == Append(w, c)
<1>1. PICK v \in Texts : w = v \o <<"/">> \o Cur(w) /\ A!Fields(v) = Past(w)
  BY AbsolutePast, LastSlash
<1>2. A!Back(x, Len(x)) = Len(v) + 1
  BY <1>1, CutAt, FieldParts
<1>3. /\ Cur(w) \in Seq(A!Symbols) /\ v \in Seq(A!Symbols) /\ <<"/">> \in Seq(A!Symbols)
      /\ w \in Seq(A!Symbols)
  BY FieldParts, NameType DEF Texts, A!Symbols
<1>4. Len(v) \in Nat /\ Len(w) \in Nat /\ Len(v) < Len(w) /\ \A k \in 1..Len(v) : w[k] = v[k]
  BY <1>1, <1>3
<1>5. \A k \in 1..Len(w) : x[k] = w[k]
  BY <1>3
<1>6. A!dot_dot(x) = SubSeq(x, 1, A!Back(x, Len(v) + 1))
  BY <1>2 DEF A!dot_dot
<1>7. \A k \in 1..Len(v) : x[k] = v[k]
  BY <1>4, <1>5
<1>8. CASE v = <<>>
  <2>1. A!Back(x, Len(v) + 1) = 1
    BY <1>4, <1>8, BackIn
  <2>2. x[1] = "/"
    BY <1>4, <1>5 DEF A!Absolute
  <2>. HIDE DEF x
  <2>3. SubSeq(x, 1, 1) = Append(<<>>, "/")
    <3>1. SubSeq(x, 1, 1) \in Seq({"/"}) /\ Len(SubSeq(x, 1, 1)) = 1 /\ SubSeq(x, 1, 1)[1] = "/"
      BY <2>2
    <3>2. <<>> \in Seq({"/"}) /\ "/" \in {"/"}
      OBVIOUS
    <3>3. /\ Append(<<>>, "/") \in Seq({"/"}) /\ Len(Append(<<>>, "/")) = 1
          /\ Append(<<>>, "/")[1] = "/"
      BY <3>2
    <3>4. \A i \in 1..1 : SubSeq(x, 1, 1)[i] = Append(<<>>, "/")[i]
      BY <3>1, <3>3
    <3>. QED BY <3>1, <3>3, <3>4, SeqEqual
  <2>4. <<>> \in Texts
    BY DEF Texts
  <2>5. /\ Append(<<>>, "/") \in Texts /\ Past(Append(<<>>, "/")) = A!Fields(<<>>)
        /\ Cur(Append(<<>>, "/")) = <<>>
    BY <2>4, SlashRead, FieldParts
  <2>6. A!Absolute(Append(<<>>, "/"))
    BY DEF A!Absolute
  <2>7. Len(Past(w)) = 1
    BY <1>1, <1>8, FieldsIs
  <2>. QED BY <1>1, <1>6, <1>8, <2>1, <2>3, <2>5, <2>6, <2>7 DEF x
<1>9. CASE v # <<>>
  <2>1. A!Absolute(v)
    BY <1>4, <1>9, <1>3 DEF A!Absolute
  <2>2. PICK t \in Texts : v = t \o <<"/">> \o Cur(v) /\ A!Fields(t) = Past(v)
    BY <2>1, AbsolutePast, LastSlash
  <2>3. Cur(v) \in Names /\ Cur(v) \in Seq(A!Symbols) /\ t \in Seq(A!Symbols)
    BY FieldParts, NameType DEF Texts
  <2>4. Len(v) + 1 = Len(t) + 2 + Len(Cur(v)) /\ Len(v) + 1 \in Nat /\ Len(t) \in Nat
    <3>. DEFINE g == Cur(v)
    <3>1. g \in Seq(A!Symbols) /\ v = t \o <<"/">> \o g
      BY <2>2, <2>3
    <3>. HIDE DEF x, g
    <3>2. Len(v) = Len(t) + 1 + Len(g) /\ Len(t) \in Nat /\ Len(g) \in Nat
      BY <1>3, <2>3, <3>1
    <3>3. Len(v) + 1 = Len(t) + 2 + Len(g) /\ Len(v) + 1 \in Nat /\ Len(t) \in Nat
      BY <3>2
    <3>. QED BY <3>3 DEF g
  <2>. HIDE DEF x
  <2>5. \A k \in 1..((Len(v) + 1) - 1) : x[k] = (t \o <<"/">> \o Cur(v))[k]
    BY <1>4, <1>7, <2>2
  <2>6. A!Back(x, Len(v) + 1) = Len(t) + 1 /\ SubSeq(x, 1, Len(t) + 1) = t \o <<"/">>
    BY <2>3, <2>4, <2>5, BackFinds
  <2>7. t \o <<"/">> = Append(t, "/")
    BY <2>3, OneConcat DEF A!Symbols
  <2>8. Append(t, "/") \in Texts /\ Past(Append(t, "/")) = A!Fields(t) /\ Cur(Append(t, "/")) = <<>>
    BY SlashRead, FieldParts
  <2>9. A!Absolute(Append(t, "/"))
    <3>1. CASE t = <<>>
      BY <3>1 DEF A!Absolute
    <3>2. CASE t # <<>>
      <4>1. v[1] = t[1] /\ Append(t, "/")[1] = t[1] /\ Append(t, "/") # <<>>
        BY <1>3, <2>2, <2>3, <3>2
      <4>. QED BY <2>1, <4>1 DEF A!Absolute
    <3>. QED BY <3>1, <3>2
  <2>10. Past(w) = Append(Past(v), Cur(v)) /\ Past(v) \in Seq(Names) /\ Past(v) # <<>>
    BY <1>1, <2>1, FieldParts, AbsolutePast
  <2>11. A!Front(Past(w)) = Past(v) /\ Len(Past(w)) # 1
    <3>1. A!Front(Append(Past(v), Cur(v))) = Past(v)
      BY <2>3, <2>10, FrontAppend
    <3>2. /\ Len(Append(Past(v), Cur(v))) = Len(Past(v)) + 1 /\ Len(Past(v)) \in Nat
          /\ Len(Past(v)) > 0
      BY <2>10
    <3>. QED BY <2>10, <3>1, <3>2
  <2>. QED BY <1>6, <2>2, <2>6, <2>7, <2>8, <2>9, <2>11 DEF x
<1>. QED BY <1>8, <1>9

-----------------------------------------------------------------------------
(* The first loop of normalize_path.                                       *)

\* No empty field behind the first.
Clean(fs) == \A i \in 2..Len(fs) : fs[i] # <<>>

\* What Misread excludes.
Readable(fs) == \A j \in DOMAIN fs : /\ ~(Len(fs[j]) > 2 /\ A!Range(fs[j]) = {"."})
                                     /\ fs[j] = A!DotDot => \A i \in 2..(j - 1) : fs[i] # <<>>

\* A field that is read as dots only is "", "." or "..".
OnlyDots(f) == \A i \in DOMAIN f : f[i] = "."

LEMMA ReadableFront ==
  ASSUME NEW fs \in Seq(Names), NEW f \in Names, Readable(Append(fs, f))
  PROVE  Readable(fs) /\ ~(Len(f) > 2 /\ A!Range(f) = {"."}) /\ (f = A!DotDot => Clean(fs))
<1>. DEFINE gs == Append(fs, f)
<1>1. /\ Len(fs) \in Nat /\ DOMAIN fs = 1..Len(fs) /\ DOMAIN gs = 1..(Len(fs) + 1)
      /\ gs[Len(fs) + 1] = f /\ \A i \in 1..Len(fs) : gs[i] = fs[i]
  OBVIOUS
<1>2. Len(fs) + 1 \in DOMAIN gs
  BY <1>1
<1>. HIDE DEF gs
<1>3. Readable(gs)
  BY DEF gs
<1>4. ~(Len(f) > 2 /\ A!Range(f) = {"."})
  BY <1>1, <1>2, <1>3 DEF Readable
<1>5. f = A!DotDot => Clean(fs)
  <2>1. f = A!DotDot => \A i \in 2..((Len(fs) + 1) - 1) : gs[i] # <<>>
    BY <1>1, <1>2, <1>3 DEF Readable
  <2>. QED BY <1>1, <2>1 DEF Clean
<1>6. ASSUME NEW j \in DOMAIN fs
      PROVE  /\ ~(Len(fs[j]) > 2 /\ A!Range(fs[j]) = {"."})
             /\ fs[j] = A!DotDot => \A i \in 2..(j - 1) : fs[i] # <<>>
  <2>1. j \in DOMAIN gs /\ gs[j] = fs[j] /\ \A i \in 2..(j - 1) : gs[i] = fs[i]
    BY <1>1
  <2>. QED BY <1>3, <2>1 DEF Readable
<1>. QED BY <1>4, <1>5, <1>6 DEF Readable

LEMMA CleanFront ==
  ASSUME NEW fs \in Seq(Names), NEW f \in Names, fs # <<>>
  PROVE  Clean(Append(fs, f)) <=> Clean(fs) /\ f # <<>>
<1>. DEFINE gs == Append(fs, f)
<1>1. /\ Len(fs) \in Nat /\ Len(fs) > 0 /\ Len(gs) = Len(fs) + 1
      /\ gs[Len(fs) + 1] = f /\ \A i \in 1..Len(fs) : gs[i] = fs[i]
  OBVIOUS
<1>. HIDE DEF gs
<1>2. Clean(gs) <=> Clean(fs) /\ f # <<>>
  BY <1>1 DEF Clean
<1>. QED BY <1>2 DEF gs

LEMMA FewDots ==
  ASSUME NEW f \in Names, OnlyDots(f), ~(Len(f) > 2 /\ A!Range(f) = {"."})
  PROVE  f \in {<<>>, A!Dot, A!DotDot}
<1>1. f \in Seq(A!Symbols) /\ Len(f) \in Nat /\ DOMAIN f = 1..Len(f)
  BY NameType DEF Texts
<1>2. CASE Len(f) > 2
  <2>1. A!Range(f) = {"."}
    <3>1. 1 \in DOMAIN f
      BY <1>1, <1>2
    <3>. QED BY <3>1 DEF A!Range, OnlyDots
  <2>. QED BY <1>2, <2>1
<1>3. CASE Len(f) <= 2
  <2>1. Len(f) = 0 => f = <<>>
    BY <1>1
  <2>2. Len(f) = 1 => f = A!Dot
    <3>1. A!Dot \in Seq({"."}) /\ Len(A!Dot) = 1 /\ A!Dot[1] = "."
      BY DEF A!Dot
    <3>2. Len(f) = 1 => f \in Seq({"."}) /\ \A i \in 1..1 : f[i] = A!Dot[i]
      BY <1>1, <3>1 DEF OnlyDots
    <3>. QED BY <3>1, <3>2, SeqEqual
  <2>3. Len(f) = 2 => f = A!DotDot
    <3>1. A!DotDot \in Seq({"."}) /\ Len(A!DotDot) = 2 /\ A!DotDot[1] = "." /\ A!DotDot[2] = "."
      BY DEF A!DotDot
    <3>2. Len(f) = 2 => f \in Seq({"."}) /\ \A i \in 1..2 : f[i] = A!DotDot[i]
      BY <1>1, <3>1 DEF OnlyDots
    <3>. QED BY <3>1, <3>2, SeqEqual
  <2>. QED BY <1>1, <1>3, <2>1, <2>2, <2>3
<1>. QED BY <1>1, <1>2, <1>3

\* "." and ".." are names.
LEMMA DotNames ==
  /\ A!Dot \in Names /\ A!DotDot \in Names /\ A!Dot # <<>> /\ A!DotDot # <<>> /\ A!Dot # A!DotDot
  /\ Len(A!Dot) = 1 /\ Len(A!DotDot) = 2 /\ OnlyDots(A!Dot) /\ OnlyDots(A!DotDot) /\ OnlyDots(<<>>)
BY DEF A!Dot, A!DotDot, Names, A!Symbols, OnlyDots

\* What the loop has made of p.
DotsOf(p, s) ==
  /\ s.w \in Texts /\ A!Absolute(s.w)
  /\ Cur(s.w) = Cur(p) /\ NamesPast(s.w) = A!Reached(NamesPast(p))
  /\ Clean(Past(p)) => Clean(Past(s.w))
  /\ s.slash <=> OnlyDots(Cur(p))
  /\ ~s.slash => ~s.one /\ ~s.two
  /\ Len(Cur(p)) <= 2 => (s.one <=> Cur(p) = A!Dot) /\ (s.two <=> Cur(p) = A!DotDot)

\* The flags tell which of the three it is.
LEMMA FlagsOf ==
  ASSUME NEW p \in Texts, NEW s \in DotStates, DotsOf(p, s), Readable(A!Fields(p))
  PROVE  (s.one <=> Cur(p) = A!Dot) /\ (s.two <=> Cur(p) = A!DotDot)
<1>1. Past(p) \in Seq(Names) /\ Cur(p) \in Names /\ Readable(Append(Past(p), Cur(p)))
  BY FieldParts
<1>2. ~(Len(Cur(p)) > 2 /\ A!Range(Cur(p)) = {"."})
  BY <1>1, ReadableFront
<1>3. CASE OnlyDots(Cur(p))
  <2>1. Cur(p) \in {<<>>, A!Dot, A!DotDot}
    BY <1>1, <1>2, <1>3, FewDots
  <2>2. Len(Cur(p)) <= 2
    <3>1. Len(<<>>) <= 2 /\ Len(A!Dot) <= 2 /\ Len(A!DotDot) <= 2
      BY DotNames
    <3>. QED BY <2>1, <3>1
  <2>. QED BY <2>2 DEF DotsOf
<1>4. CASE ~OnlyDots(Cur(p))
  <2>1. ~s.one /\ ~s.two
    BY <1>4 DEF DotsOf
  <2>. QED BY <1>4, <2>1, DotNames
<1>. QED BY <1>3, <1>4

\* What a slash cuts is what the component means.
LEMMA DotsCut ==
  ASSUME NEW p \in Texts, NEW s \in DotStates, DotsOf(p, s), Readable(A!Fields(p)), NEW c,
         Cur(p) \in {A!Dot, A!DotDot},
         NEW u, u = IF Cur(p) = A!DotDot THEN A!dot_dot(Append(s.w, c)) ELSE A!dot(Append(s.w, c))
  PROVE  /\ u \in Texts /\ A!Absolute(u) /\ Cur(u) = <<>> /\ NamesPast(u) = A!Reached(A!Components(p))
         /\ Clean(A!Fields(p)) => Clean(Past(u))
<1>. DEFINE w == s.w
<1>1. w \in Texts /\ A!Absolute(w) /\ Cur(w) = Cur(p) /\ NamesPast(w) = A!Reached(NamesPast(p))
        /\ (Clean(Past(p)) => Clean(Past(w)))
  BY DEF DotsOf
<1>2. /\ Past(p) \in Seq(Names) /\ Cur(p) \in Names /\ A!Fields(p) = Append(Past(p), Cur(p))
      /\ NamesPast(p) \in WordLists
  BY FieldParts
<1>3. Past(w) \in Seq(Names) /\ Past(w) # <<>> /\ Past(w)[1] = <<>>
  BY <1>1, FieldParts, AbsolutePast
<1>4. A!Reached(A!Components(p)) = A!Follow(A!Reached(NamesPast(p)), Cur(p))
  <2>1. A!Components(p) = Append(NamesPast(p), Cur(p))
    BY FieldParts, DotNames DEF Fill
  <2>2. Cur(p) \in Words
    BY DotNames DEF Words
  <2>. QED BY <1>2, <2>1, <2>2, ReachedIs DEF WordLists
<1>. HIDE DEF w
<1>5. CASE Cur(p) = A!Dot
  <2>1. u = A!dot(Append(w, c))
    BY <1>5, DotNames DEF w
  <2>2. u \in Texts /\ A!Absolute(u) /\ Past(u) = Past(w) /\ Cur(u) = <<>>
    BY <1>1, <2>1, DotCuts
  <2>3. NamesPast(u) = A!Reached(A!Components(p))
    BY <1>1, <1>4, <1>5, <2>2 DEF NamesPast, A!Follow
  <2>4. Clean(A!Fields(p)) => Clean(Past(p))
    <3>1. CASE Past(p) = <<>>
      BY <3>1 DEF Clean
    <3>2. CASE Past(p) # <<>>
      BY <1>2, <3>2, CleanFront
    <3>. QED BY <3>1, <3>2
  <2>. QED BY <1>1, <2>2, <2>3, <2>4
<1>6. CASE Cur(p) = A!DotDot
  <2>1. u = A!dot_dot(Append(w, c))
    BY <1>6 DEF w
  <2>2. u \in Texts /\ A!Absolute(u) /\ Cur(u) = <<>>
        /\ Past(u) = IF Len(Past(w)) = 1 THEN Past(w) ELSE A!Front(Past(w))
    BY <1>1, <2>1, DotDotCuts
  <2>3. Clean(Past(w))
    <3>1. Clean(Past(p))
      BY <1>2, <1>6, ReadableFront
    <3>. QED BY <1>1, <3>1
  <2>4. A!Reached(A!Components(p)) = SubSeq(NamesPast(w), 1, Len(NamesPast(w)) - 1)
    BY <1>1, <1>4, <1>6, DotNames DEF A!Follow
  <2>5. CASE Len(Past(w)) = 1
    <3>1. Past(w) = Append(<<>>, <<>>)
      <4>1. <<>> \in Seq(Names) /\ <<>> \in Names
        BY DEF Names
      <4>2. /\ Append(<<>>, <<>>) \in Seq(Names) /\ Len(Append(<<>>, <<>>)) = 1
            /\ Append(<<>>, <<>>)[1] = <<>>
        BY <4>1
      <4>3. \A i \in 1..1 : Past(w)[i] = Append(<<>>, <<>>)[i]
        BY <1>3, <4>2
      <4>. QED BY <1>3, <2>5, <4>2, <4>3, SeqEqual
    <3>2. A!Filled(Append(<<>>, <<>>)) = <<>>
      <4>1. <<>> \in Seq(Names) /\ <<>> \in Names
        BY DEF Names
      <4>. QED BY <4>1, FilledIs DEF Fill
    <3>3. NamesPast(w) = <<>>
      BY <3>1, <3>2 DEF NamesPast
    <3>4. NamesPast(u) = A!Reached(A!Components(p))
      <4>1. Past(u) = Past(w)
        BY <2>2, <2>5
      <4>2. NamesPast(u) = <<>>
        BY <3>3, <4>1 DEF NamesPast
      <4>3. SubSeq(<<>>, 1, Len(<<>>) - 1) = <<>>
        BY SubSeqEmpty
      <4>. QED BY <2>4, <3>3, <4>2, <4>3
    <3>. QED BY <2>2, <2>3, <2>5, <3>4
  <2>6. CASE Len(Past(w)) # 1
    <3>. DEFINE fs == A!Front(Past(w))
                f == A!Last(Past(w))
    <3>1. fs \in Seq(Names) /\ f \in Names /\ Past(w) = Append(fs, f) /\ Len(fs) = Len(Past(w)) - 1
      BY <1>3, FrontLast
    <3>2. fs # <<>>
      BY <1>3, <2>6, <3>1
    <3>. HIDE DEF fs, f
    <3>3. Clean(fs) /\ f # <<>>
      BY <2>3, <3>1, <3>2, CleanFront
    <3>4. A!Filled(fs) \in WordLists /\ NamesPast(w) = Append(A!Filled(fs), f)
      <4>1. A!Filled(fs) \in WordLists /\ A!Filled(Append(fs, f)) = Fill(A!Filled(fs), f)
        BY <3>1, FilledIs
      <4>. QED BY <3>1, <3>3, <4>1 DEF NamesPast, Fill
    <3>5. A!Front(Append(A!Filled(fs), f)) = A!Filled(fs)
      <4>1. f \in Words
        BY <3>1, <3>3 DEF Words
      <4>. QED BY <3>4, <4>1, FrontAppend DEF WordLists
    <3>6. A!Reached(A!Components(p)) = A!Filled(fs)
      BY <2>4, <3>4, <3>5 DEF A!Front
    <3>7. Past(u) = fs
      BY <2>2, <2>6 DEF fs
    <3>. QED BY <2>2, <3>3, <3>6, <3>7 DEF NamesPast
  <2>. QED BY <2>5, <2>6
<1>. QED BY <1>5, <1>6

LEMMA DotAppended ==
  ASSUME NEW f \in Names, NEW c \in A!Symbols
  PROVE  /\ OnlyDots(Append(f, c)) <=> OnlyDots(f) /\ c = "."
         /\ Len(Append(f, c)) = Len(f) + 1 /\ Len(f) \in Nat
         /\ Append(f, ".") = A!Dot <=> f = <<>>
         /\ Append(f, ".") = A!DotDot <=> f = A!Dot
<1>1. f \in Seq(A!Symbols) /\ Len(f) \in Nat /\ "." \in A!Symbols
  BY NameType DEF Texts, A!Symbols
<1>2. Len(Append(f, c)) = Len(f) + 1
  BY <1>1
<1>3. OnlyDots(Append(f, c)) <=> OnlyDots(f) /\ c = "."
  <2>. DEFINE g == Append(f, c)
  <2>1. /\ DOMAIN g = 1..(Len(f) + 1) /\ DOMAIN f = 1..Len(f) /\ g[Len(f) + 1] = c
        /\ \A i \in 1..Len(f) : g[i] = f[i]
    BY <1>1
  <2>. HIDE DEF g
  <2>2. OnlyDots(g) <=> OnlyDots(f) /\ c = "."
    BY <1>1, <2>1 DEF OnlyDots
  <2>. QED BY <2>2 DEF g
<1>4. Append(<<>>, ".") = A!Dot
  <2>1. <<>> \in Seq({"."}) /\ A!Dot \in Seq({"."}) /\ Len(A!Dot) = 1 /\ A!Dot[1] = "."
    BY DEF A!Dot
  <2>2. Append(<<>>, ".") \in Seq({"."}) /\ Len(Append(<<>>, ".")) = 1 /\ Append(<<>>, ".")[1] = "."
    BY <2>1
  <2>3. \A i \in 1..1 : Append(<<>>, ".")[i] = A!Dot[i]
    BY <2>1, <2>2
  <2>. QED BY <2>1, <2>2, <2>3, SeqEqual
<1>5. Append(A!Dot, ".") = A!DotDot
  <2>1. A!Dot \in Seq({"."}) /\ Len(A!Dot) = 1 /\ A!Dot[1] = "."
    BY DEF A!Dot
  <2>2. A!DotDot \in Seq({"."}) /\ Len(A!DotDot) = 2 /\ A!DotDot[1] = "." /\ A!DotDot[2] = "."
    BY DEF A!DotDot
  <2>. DEFINE d == A!Dot
  <2>. HIDE DEF d
  <2>0. d \in Seq({"."}) /\ Len(d) = 1 /\ d[1] = "." /\ "." \in {"."}
    BY <2>1 DEF d
  <2>3. Append(A!Dot, ".") \in Seq({"."}) /\ Len(Append(A!Dot, ".")) = 2
        /\ Append(A!Dot, ".")[1] = "." /\ Append(A!Dot, ".")[2] = "."
    <3>1. Append(d, ".") \in Seq({"."})
      BY <2>0
    <3>4. Len(Append(d, ".")) = Len(d) + 1
      BY <2>0, AppendProperties
    <3>2. Len(Append(d, ".")) = 2
      BY <2>0, <3>4
    <3>3. \A i \in 1..2 : Append(d, ".")[i] \in {"."}
      BY <3>1, <3>2, ElementOfSeq
    <3>. QED BY <3>1, <3>2, <3>3 DEF d
  <2>4. \A i \in 1..2 : Append(A!Dot, ".")[i] = A!DotDot[i]
    BY <2>2, <2>3
  <2>. QED BY <2>2, <2>3, <2>4, SeqEqual
<1>6. A!Front(Append(f, ".")) = f
  BY <1>1, FrontAppend
<1>7. A!Front(Append(<<>>, ".")) = <<>> /\ A!Front(Append(A!Dot, ".")) = A!Dot
  <2>1. <<>> \in Seq(A!Symbols) /\ A!Dot \in Seq(A!Symbols)
    BY <1>1 DEF A!Dot
  <2>2. A!Front(Append(<<>>, ".")) = <<>>
    BY <1>1, <2>1, FrontAppend
  <2>3. A!Front(Append(A!Dot, ".")) = A!Dot
    BY <1>1, <2>1, FrontAppend
  <2>. QED BY <2>2, <2>3
<1>8. Append(f, ".") = A!Dot <=> f = <<>>
  BY <1>4, <1>6, <1>7
<1>9. Append(f, ".") = A!DotDot <=> f = A!Dot
  BY <1>5, <1>6, <1>7
<1>. QED BY <1>1, <1>2, <1>3, <1>8, <1>9

LEMMA AbsoluteAppend ==
  ASSUME NEW w \in Texts, NEW c \in A!Symbols
  PROVE  /\ Append(w, c) \in Texts
         /\ A!Absolute(w) => A!Absolute(Append(w, c))
         /\ w # <<>> => (A!Absolute(Append(w, c)) <=> A!Absolute(w))
         /\ w = <<>> => (A!Absolute(Append(w, c)) <=> c = "/")
<1>1. Append(w, c) \in Texts /\ Append(w, c) # <<>>
  <2>1. Append(w, c) \in Seq(A!Symbols) /\ Len(Append(w, c)) = Len(w) + 1 /\ Len(w) \in Nat
    BY DEF Texts
  <2>. QED BY <2>1 DEF Texts
<1>2. w # <<>> => Append(w, c)[1] = w[1]
  BY DEF Texts
<1>3. w = <<>> => Append(w, c)[1] = c
  BY DEF Texts
<1>. QED BY <1>1, <1>2, <1>3 DEF A!Absolute

\* Each character that is no slash, and each slash, keeps the invariant.
LEMMA DotsChar ==
  ASSUME NEW p \in Texts, NEW s \in DotStates, NEW c \in A!Symbols, DotsOf(p, s), c # "/"
  PROVE  DotsOf(Append(p, c), A!ReadDots(s, c))
<1>. DEFINE f == Cur(p)
            t == A!ReadDots(s, c)
            g == Append(f, c)
<1>1. s.w \in Texts /\ A!Absolute(s.w) /\ Cur(s.w) = f
  BY DEF DotsOf
<1>2. f \in Names
  BY FieldParts
<1>3. /\ Past(Append(p, c)) = Past(p) /\ Cur(Append(p, c)) = g
      /\ NamesPast(Append(p, c)) = NamesPast(p)
  BY CharRead
<1>4. /\ Past(Append(s.w, c)) = Past(s.w) /\ Cur(Append(s.w, c)) = g
      /\ NamesPast(Append(s.w, c)) = NamesPast(s.w)
  BY <1>1, CharRead
<1>5. Append(s.w, c) \in Texts /\ A!Absolute(Append(s.w, c))
  BY <1>1, AbsoluteAppend
<1>. HIDE DEF f, g, t
<1>6. CASE c = "."
  <2>1. /\ t.w = Append(s.w, c) /\ (t.slash <=> s.slash)
        /\ (t.one <=> s.slash /\ ~s.one) /\ (t.two <=> s.slash /\ s.one)
    BY <1>6 DEF A!ReadDots, t
  <2>2. OnlyDots(g) <=> OnlyDots(f)
    BY <1>2, <1>6, DotAppended DEF g
  <2>3. /\ Len(g) = Len(f) + 1 /\ Len(f) \in Nat /\ (g = A!Dot <=> f = <<>>)
        /\ (g = A!DotDot <=> f = A!Dot)
    BY <1>2, <1>6, DotAppended DEF g
  <2>4. s.slash <=> OnlyDots(f)
    BY DEF DotsOf, f
  <2>5. Len(f) <= 1 => (s.one <=> f = A!Dot)
    BY <2>3 DEF DotsOf, f
  <2>6. Len(f) <= 1 => (t.one <=> g = A!Dot) /\ (t.two <=> g = A!DotDot)
    <3>1. CASE f = <<>>
      BY <2>1, <2>3, <2>4, <2>5, <3>1, DotNames
    <3>2. CASE f # <<>> /\ Len(f) <= 1
      <4>1. OnlyDots(f) => f = A!Dot
        <5>1. ~(Len(f) > 2)
          BY <3>2
        <5>2. OnlyDots(f) => f \in {<<>>, A!Dot, A!DotDot}
          BY <1>2, <5>1, FewDots
        <5>. QED BY <3>2, <5>2, DotNames
      <4>. QED BY <2>1, <2>3, <2>4, <2>5, <3>2, <4>1, DotNames
    <3>. QED BY <3>1, <3>2
  <2>7. Len(g) <= 2 => (t.one <=> g = A!Dot) /\ (t.two <=> g = A!DotDot)
    BY <2>3, <2>6
  <2>8. ~t.slash => ~t.one /\ ~t.two
    BY <2>1
  <2>9. t.slash <=> OnlyDots(g)
    BY <2>1, <2>2, <2>4
  <2>10. /\ NamesPast(t.w) = A!Reached(NamesPast(Append(p, c)))
         /\ (Clean(Past(Append(p, c))) => Clean(Past(t.w)))
    BY <1>3, <1>4, <2>1 DEF DotsOf
  <2>. QED BY <1>3, <1>4, <1>5, <2>1, <2>7, <2>8, <2>9, <2>10 DEF DotsOf, t
<1>7. CASE c # "."
  <2>1. t.w = Append(s.w, c) /\ ~t.slash /\ ~t.one /\ ~t.two
    BY <1>7 DEF A!ReadDots, t
  <2>2. ~OnlyDots(g)
    BY <1>2, <1>7, DotAppended DEF g
  <2>3. g # A!Dot /\ g # A!DotDot
    BY <2>2, DotNames
  <2>10. /\ NamesPast(t.w) = A!Reached(NamesPast(Append(p, c)))
         /\ (Clean(Past(Append(p, c))) => Clean(Past(t.w)))
    BY <1>3, <1>4, <2>1 DEF DotsOf
  <2>. QED BY <1>3, <1>4, <1>5, <2>1, <2>2, <2>3, <2>10 DEF DotsOf, t
<1>. QED BY <1>6, <1>7

LEMMA DotsSlash ==
  ASSUME NEW p \in Texts, NEW s \in DotStates, DotsOf(p, s), A!Absolute(p), Readable(A!Fields(p))
  PROVE  DotsOf(Append(p, "/"), A!ReadDots(s, "/"))
<1>. DEFINE f == Cur(p)
            t == A!ReadDots(s, "/")
            w == Append(s.w, "/")
<1>1. s.w \in Texts /\ A!Absolute(s.w) /\ Cur(s.w) = f /\ NamesPast(s.w) = A!Reached(NamesPast(p))
        /\ (Clean(Past(p)) => Clean(Past(s.w)))
  BY DEF DotsOf
<1>2. f \in Names /\ Past(p) \in Seq(Names) /\ NamesPast(p) \in WordLists
  BY FieldParts
<1>3. /\ Past(Append(p, "/")) = A!Fields(p) /\ Cur(Append(p, "/")) = <<>>
      /\ NamesPast(Append(p, "/")) = A!Components(p)
  BY SlashRead, FieldParts
<1>4. (s.one <=> f = A!Dot) /\ (s.two <=> f = A!DotDot)
  BY FlagsOf
<1>5. /\ t.slash /\ ~t.one /\ ~t.two
      /\ t.w = IF s.two THEN A!dot_dot(w) ELSE IF s.one THEN A!dot(w) ELSE w
  BY DEF A!ReadDots
<1>6. OnlyDots(<<>>) /\ <<>> # A!Dot /\ <<>> # A!DotDot
  BY DotNames
<1>7. t.w \in Texts /\ A!Absolute(t.w) /\ Cur(t.w) = <<>> /\ NamesPast(t.w) = A!Reached(A!Components(p))
        /\ (Clean(A!Fields(p)) => Clean(Past(t.w)))
  <2>1. CASE f \in {A!Dot, A!DotDot}
    <3>1. t.w = IF f = A!DotDot THEN A!dot_dot(Append(s.w, "/")) ELSE A!dot(Append(s.w, "/"))
      BY <1>4, <1>5, <2>1, DotNames
    <3>. HIDE DEF t, w
    <3>. QED BY <2>1, <3>1, DotsCut
  <2>2. CASE f \notin {A!Dot, A!DotDot}
    <3>1. t.w = w
      BY <1>4, <1>5, <2>2
    <3>2. /\ w \in Texts /\ Past(w) = Append(Past(s.w), Cur(s.w)) /\ Cur(w) = <<>>
          /\ NamesPast(w) = A!Components(s.w)
      BY <1>1, SlashRead
    <3>3. A!Absolute(w)
      BY <1>1, AbsoluteAppend DEF A!Symbols
    <3>4. NamesPast(w) = A!Reached(A!Components(p))
      <4>1. A!Components(s.w) = Fill(NamesPast(s.w), f) /\ A!Components(p) = Fill(NamesPast(p), f)
        BY <1>1, FieldParts
      <4>2. CASE f = <<>>
        BY <1>1, <3>2, <4>1, <4>2 DEF Fill
      <4>3. CASE f # <<>>
        <5>1. f \in Words
          BY <1>2, <4>3 DEF Words
        <5>2. A!Reached(Append(NamesPast(p), f)) = A!Follow(A!Reached(NamesPast(p)), f)
          BY <1>2, <5>1, ReachedIs DEF WordLists
        <5>3. A!Follow(A!Reached(NamesPast(p)), f) = Append(A!Reached(NamesPast(p)), f)
          BY <2>2 DEF A!Follow
        <5>. QED BY <1>1, <3>2, <4>1, <4>3, <5>2, <5>3 DEF Fill
      <4>. QED BY <4>2, <4>3
    <3>5. Clean(A!Fields(p)) => Clean(Past(w))
      <4>1. Past(p) # <<>> /\ Past(s.w) # <<>> /\ Past(s.w) \in Seq(Names)
        BY <1>1, AbsolutePast, FieldParts
      <4>2. A!Fields(p) = Append(Past(p), f)
        BY FieldParts
      <4>3. Clean(A!Fields(p)) => Clean(Past(p)) /\ f # <<>>
        BY <1>2, <4>1, <4>2, CleanFront
      <4>4. Clean(Past(s.w)) /\ f # <<>> => Clean(Append(Past(s.w), f))
        BY <1>2, <4>1, CleanFront
      <4>. QED BY <1>1, <3>2, <4>3, <4>4
    <3>. HIDE DEF t, w, f
    <3>. QED BY <3>1, <3>2, <3>3, <3>4, <3>5
  <2>. QED BY <2>1, <2>2
<1>. HIDE DEF t
<1>. QED BY <1>3, <1>5, <1>6, <1>7 DEF DotsOf, t

LEMMA DotsFirst == DotsOf(Append(<<>>, "/"), A!ReadDots(A!Dots(<<>>), "/"))
<1>. DEFINE s == [w |-> <<>>, slash |-> FALSE, one |-> FALSE, two |-> FALSE]
            t == A!ReadDots(s, "/")
            p == Append(<<>>, "/")
<1>1. t.w = p /\ t.slash /\ ~t.one /\ ~t.two
  BY DEF A!ReadDots
<1>2. <<>> \in Texts /\ "/" \in A!Symbols
  BY DEF Texts, A!Symbols
<1>3. p \in Texts /\ A!Absolute(p)
  BY <1>2, AbsoluteAppend
<1>4. Cur(p) = <<>> /\ NamesPast(p) = <<>>
  BY <1>2, SlashRead, Nothing
<1>5. A!Reached(<<>>) = <<>>
  BY ReachedIs
<1>. HIDE DEF s, t, p
<1>6. DotsOf(p, t)
  BY <1>1, <1>3, <1>4, <1>5, DotNames DEF DotsOf
<1>7. A!Dots(<<>>) = s
  BY DotsIs DEF s
<1>. QED BY <1>6, <1>7 DEF t, p

LEMMA DotsStep ==
  ASSUME NEW p \in Texts, NEW c \in A!Symbols, A!Absolute(Append(p, c)), Readable(Past(Append(p, c))),
         A!Absolute(p) /\ Readable(Past(p)) => DotsOf(p, A!Dots(p))
  PROVE  DotsOf(Append(p, c), A!Dots(Append(p, c)))
<1>1. A!Dots(Append(p, c)) = A!ReadDots(A!Dots(p), c) /\ A!Dots(p) \in DotStates
  BY DotsIs DEF Texts
<1>2. Past(p) \in Seq(Names) /\ Cur(p) \in Names /\ A!Fields(p) = Append(Past(p), Cur(p))
  BY FieldParts
<1>3. CASE p = <<>>
  <2>1. c = "/"
    BY <1>3, AbsoluteAppend
  <2>. QED BY <1>1, <1>3, <2>1, DotsFirst
<1>4. CASE p # <<>> /\ c = "/"
  <2>1. A!Absolute(p)
    BY <1>4, AbsoluteAppend
  <2>2. Readable(A!Fields(p))
    BY <1>2, <1>4, SlashRead
  <2>3. Readable(Past(p))
    BY <1>2, <2>2, ReadableFront
  <2>4. DotsOf(p, A!Dots(p))
    BY <2>1, <2>3
  <2>. QED BY <1>1, <1>4, <2>1, <2>2, <2>4, DotsSlash
<1>5. CASE p # <<>> /\ c # "/"
  <2>1. A!Absolute(p)
    BY <1>5, AbsoluteAppend
  <2>2. Readable(Past(p))
    BY <1>5, CharRead
  <2>3. DotsOf(p, A!Dots(p))
    BY <2>1, <2>2
  <2>. QED BY <1>1, <1>5, <2>3, DotsChar
<1>. QED BY <1>3, <1>4, <1>5

\* The invariant holds of every absolute path that cwd.c does not misread.
LEMMA DotsInvariant ==
  ASSUME NEW p \in Texts, A!Absolute(p), Readable(Past(p))
  PROVE  DotsOf(p, A!Dots(p))
<1>. DEFINE D == {q \in Seq(A!Symbols) : A!Absolute(q) /\ Readable(Past(q)) => DotsOf(q, A!Dots(q))}
<1>1. <<>> \in D
  BY DEF A!Absolute
<1>2. ASSUME NEW q \in D, NEW c \in A!Symbols PROVE Append(q, c) \in D
  <2>1. /\ q \in Texts /\ Append(q, c) \in Seq(A!Symbols)
        /\ (A!Absolute(q) /\ Readable(Past(q)) => DotsOf(q, A!Dots(q)))
    BY DEF Texts
  <2>. HIDE DEF D
  <2>2. A!Absolute(Append(q, c)) /\ Readable(Past(Append(q, c))) =>
          DotsOf(Append(q, c), A!Dots(Append(q, c)))
    BY <2>1, DotsStep
  <2>. QED BY <2>1, <2>2 DEF D
<1>3. D = Seq(A!Symbols)
  <2>1. D \in SUBSET Seq(A!Symbols)
    OBVIOUS
  <2>. HIDE DEF D
  <2>. QED BY <1>1, <1>2, <2>1, Sequences
<1>. QED BY <1>3 DEF Texts

\* After the first loop the path has the components that it means.
LEMMA DotsTidied ==
  ASSUME NEW p \in Texts, A!Absolute(p), Readable(A!Fields(p))
  PROVE  /\ A!LastDots(A!Dots(p)) \in Texts /\ A!Absolute(A!LastDots(A!Dots(p)))
         /\ A!Components(A!LastDots(A!Dots(p))) = A!Meaning(p)
<1>. DEFINE s == A!Dots(p)
            f == Cur(p)
            u == A!LastDots(s)
<1>1. /\ Past(p) \in Seq(Names) /\ f \in Names /\ A!Fields(p) = Append(Past(p), f)
      /\ NamesPast(p) \in WordLists
  BY FieldParts
<1>2. Readable(Past(p))
  BY <1>1, ReadableFront
<1>3. DotsOf(p, s) /\ s \in DotStates
  BY <1>2, DotsInvariant, DotsIs DEF Texts
<1>. HIDE DEF s, f
<1>4. (s.one <=> f = A!Dot) /\ (s.two <=> f = A!DotDot)
  BY <1>3, FlagsOf DEF f
<1>5. u =
        IF s.two THEN A!dot_dot(Append(s.w, "end")) ELSE IF s.one THEN A!dot(Append(s.w, "end")) ELSE s.w
  BY DEF A!LastDots
<1>. HIDE DEF u
<1>6. CASE f \in {A!Dot, A!DotDot}
  <2>1. u = IF f = A!DotDot THEN A!dot_dot(Append(s.w, "end")) ELSE A!dot(Append(s.w, "end"))
    BY <1>4, <1>5, <1>6, DotNames
  <2>2. u \in Texts /\ A!Absolute(u) /\ Cur(u) = <<>> /\ NamesPast(u) = A!Reached(A!Components(p))
    BY <1>3, <1>6, <2>1, DotsCut DEF f
  <2>3. A!Components(u) = NamesPast(u)
    BY <2>2, FieldParts DEF Fill
  <2>. QED BY <2>2, <2>3 DEF A!Meaning, u, s
<1>7. CASE f \notin {A!Dot, A!DotDot}
  <2>1. u = s.w
    BY <1>4, <1>5, <1>7
  <2>2. u \in Texts /\ A!Absolute(u) /\ Cur(u) = f /\ NamesPast(u) = A!Reached(NamesPast(p))
    BY <1>3, <2>1 DEF DotsOf, f
  <2>3. A!Components(u) = Fill(NamesPast(u), f) /\ A!Components(p) = Fill(NamesPast(p), f)
    BY <2>2, FieldParts DEF f
  <2>4. A!Components(u) = A!Reached(A!Components(p))
    <3>1. CASE f = <<>>
      BY <2>2, <2>3, <3>1 DEF Fill
    <3>2. CASE f # <<>>
      <4>1. f \in Words
        BY <1>1, <3>2 DEF Words
      <4>2. A!Reached(Append(NamesPast(p), f)) = A!Follow(A!Reached(NamesPast(p)), f)
        BY <1>1, <4>1, ReachedIs DEF WordLists
      <4>3. A!Follow(A!Reached(NamesPast(p)), f) = Append(A!Reached(NamesPast(p)), f)
        BY <1>7 DEF A!Follow
      <4>. QED BY <2>2, <2>3, <3>2, <4>2, <4>3 DEF Fill
    <3>. QED BY <3>1, <3>2
  <2>. QED BY <2>2, <2>4 DEF A!Meaning, u, s
<1>. QED BY <1>6, <1>7

-----------------------------------------------------------------------------
(* A path from its components.                                             *)

LEMMA JoinedAppend ==
  ASSUME NEW dir \in WordLists, NEW f \in Words
  PROVE  /\ Append(dir, f) \in WordLists
         /\ A!Joined(dir) \in Texts /\ A!Joined(Append(dir, f)) = A!Joined(dir) \o <<"/">> \o f
         /\ A!Joined(Append(dir, f)) \in Texts
<1>1. Append(dir, f) \in Seq(Words)
  BY DEF WordLists
<1>. QED BY <1>1, JoinedIs DEF WordLists, Join

LEMMA WordShape ==
  ASSUME NEW f \in Words
  PROVE  /\ f \in Names /\ f # <<>> /\ f \in Seq(A!Symbols) /\ Len(f) \in Nat /\ Len(f) > 0
         /\ A!Last(f) = f[Len(f)] /\ \A i \in 1..Len(f) : f[i] \in A!Symbols /\ f[i] # "/"
<1>1. f \in Names /\ f # <<>> /\ f \in Seq(A!Symbols)
  BY NameType DEF Words, Texts
<1>2. Len(f) \in Nat /\ Len(f) > 0
  BY <1>1
<1>3. \A i \in 1..Len(f) : f[i] \in A!Symbols /\ f[i] # "/"
  BY <1>1 DEF Names
<1>. QED BY <1>1, <1>2, <1>3 DEF A!Last

LEMMA ConcatShape ==
  ASSUME NEW v \in Texts, NEW f \in Words
  PROVE  /\ v \o <<"/">> \o f \in Texts /\ Len(v \o <<"/">> \o f) = Len(v) + 1 + Len(f) /\ Len(v) \in Nat
         /\ \A i \in 1..Len(v) : (v \o <<"/">> \o f)[i] = v[i]
         /\ (v \o <<"/">> \o f)[Len(v) + 1] = "/"
         /\ \A i \in 1..Len(f) : (v \o <<"/">> \o f)[Len(v) + 1 + i] = f[i]
         /\ A!Last(v \o <<"/">> \o f) # "/"
<1>1. /\ v \in Seq(A!Symbols) /\ <<"/">> \in Seq(A!Symbols) /\ f \in Seq(A!Symbols) /\ Len(f) \in Nat
      /\ Len(f) > 0 /\ Len(v) \in Nat
  BY WordShape DEF Texts, A!Symbols
<1>. DEFINE y == v \o <<"/">> \o f
<1>2. y \in Seq(A!Symbols) /\ Len(y) = Len(v) + 1 + Len(f)
  BY <1>1
<1>3. \A i \in 1..Len(v) : y[i] = v[i]
  BY <1>1
<1>4. y[Len(v) + 1] = "/"
  BY <1>1
<1>5. \A i \in 1..Len(f) : y[Len(v) + 1 + i] = f[i]
  BY <1>1
<1>. HIDE DEF y
<1>6. A!Last(y) = f[Len(f)]
  BY <1>1, <1>2, <1>5 DEF A!Last
<1>7. f[Len(f)] # "/"
  BY <1>1, WordShape
<1>. QED BY <1>1, <1>2, <1>3, <1>4, <1>5, <1>6, <1>7 DEF y, Texts

\* A written path is absolute, and ends with the last of its names.
LEMMA JoinedShape ==
  ASSUME NEW dir \in WordLists
  PROVE  /\ A!Joined(dir) \in Texts /\ A!Joined(<<>>) = <<>>
         /\ dir # <<>> => /\ A!Absolute(A!Joined(dir)) /\ A!Last(A!Joined(dir)) # "/"
                          /\ Len(A!Joined(dir)) > 1 /\ A!Joined(dir) # <<>>
<1>1. A!Joined(<<>>) = <<>> /\ A!Joined(dir) \in Texts
  BY JoinedIs DEF WordLists
<1>. DEFINE Holds(d) == d # <<>> => /\ A!Absolute(A!Joined(d)) /\ A!Last(A!Joined(d)) # "/"
                                    /\ Len(A!Joined(d)) > 1 /\ A!Joined(d) # <<>>
            D == {d \in Seq(Words) : Holds(d)}
<1>2. <<>> \in D
  OBVIOUS
<1>3. ASSUME NEW d \in D, NEW f \in Words PROVE Append(d, f) \in D
  <2>1. d \in WordLists /\ Append(d, f) \in Seq(Words) /\ Holds(d)
    BY DEF WordLists
  <2>. DEFINE v == A!Joined(d)
              y == v \o <<"/">> \o f
  <2>2. v \in Texts /\ A!Joined(Append(d, f)) = y
    BY <2>1, JoinedAppend
  <2>3. Len(f) \in Nat /\ Len(f) > 0
    BY WordShape
  <2>4. /\ y \in Texts /\ Len(y) = Len(v) + 1 + Len(f) /\ Len(v) \in Nat
        /\ (\A i \in 1..Len(v) : y[i] = v[i]) /\ y[Len(v) + 1] = "/" /\ A!Last(y) # "/"
    BY <2>2, ConcatShape
  <2>. HIDE DEF y, v
  <2>5. Len(y) > 1 /\ y # <<>>
    BY <2>3, <2>4 DEF Texts
  <2>6. y[1] = "/"
    <3>1. CASE d = <<>>
      <4>1. Len(v) = 0
        BY <1>1, <3>1 DEF v
      <4>. QED BY <2>4, <4>1
    <3>2. CASE d # <<>>
      <4>1. v[1] = "/" /\ v # <<>>
        BY <2>1, <3>2 DEF v, A!Absolute
      <4>2. Len(v) >= 1
        BY <2>2, <2>4, <4>1 DEF Texts
      <4>. QED BY <2>4, <4>1, <4>2
    <3>. QED BY <3>1, <3>2
  <2>7. Holds(Append(d, f))
    BY <2>2, <2>4, <2>5, <2>6 DEF A!Absolute
  <2>. QED BY <2>1, <2>7
<1>4. D = Seq(Words)
  <2>1. D \in SUBSET Seq(Words)
    OBVIOUS
  <2>. HIDE DEF D
  <2>. QED BY <1>2, <1>3, <2>1, Sequences
<1>. QED BY <1>1, <1>4 DEF WordLists

-----------------------------------------------------------------------------
(* The second loop of normalize_path.                                      *)

\* The invariant of the second loop: what is read is written with single slashes.
SlashesDone(p, s) == /\ s.w = A!Joined(NamesPast(p)) \o <<"/">> \o Cur(p)
                     /\ s.slash <=> Cur(p) = <<>>

LEMMA RootJoined == A!Joined(<<>>) \o <<"/">> \o <<>> = Append(<<>>, "/")
<1>1. A!Joined(<<>>) = <<>>
  BY JoinedIs
<1>2. <<>> \in Seq(A!Symbols) /\ "/" \in A!Symbols /\ <<"/">> \in Seq(A!Symbols)
  BY DEF A!Symbols
<1>3. <<>> \o <<"/">> = Append(<<>>, "/")
  BY <1>2, OneConcat
<1>4. (<<>> \o <<"/">>) \o <<>> = <<>> \o <<"/">>
  <2>1. <<>> \o <<"/">> \in Seq(A!Symbols)
    BY <1>2
  <2>. QED BY <2>1, ConcatEmptySeq
<1>. QED BY <1>1, <1>3, <1>4

LEMMA SlashesFirst ==
  ASSUME NEW slash \in BOOLEAN
  PROVE  SlashesDone(Append(<<>>, "/"), A!ReadSlashes(SlashesOf(<<>>, slash), "/"))
<1>. DEFINE x == Append(<<>>, "/")
            s == [w |-> <<>>, slash |-> slash]
            t == A!ReadSlashes(s, "/")
<1>1. x \in Seq({"/"}) /\ Len(x) = 1 /\ x[1] = "/"
  <2>1. <<>> \in Seq({"/"}) /\ "/" \in {"/"}
    OBVIOUS
  <2>. QED BY <2>1
<1>2. A!dot(x) = x
  <2>. HIDE DEF x
  <2>1. A!Back(x, Len(x)) = 1
    BY <1>1, BackIn
  <2>2. SubSeq(x, 1, Len(x)) = x
    BY <1>1, SubSeqFull
  <2>. QED BY <1>1, <2>1, <2>2 DEF A!dot
<1>3. t.w = x /\ t.slash
  BY <1>2 DEF A!ReadSlashes
<1>4. SlashesOf(<<>>, slash) = s
  BY SlashesIs
<1>5. Cur(x) = <<>> /\ NamesPast(x) = <<>>
  <2>1. <<>> \in Texts
    BY DEF Texts
  <2>. QED BY <2>1, SlashRead, Nothing
<1>6. t.w = A!Joined(NamesPast(x)) \o <<"/">> \o Cur(x)
  BY <1>3, <1>5, RootJoined
<1>. HIDE DEF s, t, x
<1>7. SlashesDone(x, t)
  BY <1>3, <1>5, <1>6 DEF SlashesDone
<1>. QED BY <1>4, <1>7 DEF t, x

LEMMA SlashesStep ==
  ASSUME NEW p \in Texts, NEW s \in SlashStates, NEW c \in A!Symbols, SlashesDone(p, s)
  PROVE  SlashesDone(Append(p, c), A!ReadSlashes(s, c))
<1>. DEFINE f == Cur(p)
            dir == NamesPast(p)
            v == A!Joined(dir)
            t == A!ReadSlashes(s, c)
<1>1. s.w = v \o <<"/">> \o f /\ (s.slash <=> f = <<>>)
  BY DEF SlashesDone
<1>2. f \in Names /\ f \in Seq(A!Symbols) /\ dir \in WordLists /\ A!Components(p) = Fill(dir, f)
  BY FieldParts, NameType DEF Texts
<1>3. v \in Texts /\ v \in Seq(A!Symbols) /\ <<"/">> \in Seq(A!Symbols) /\ "/" \in A!Symbols
  BY <1>2, JoinedShape DEF Texts, A!Symbols
<1>4. v \o <<"/">> \in Seq(A!Symbols)
  BY <1>3
<1>5. t.slash <=> c = "/"
  BY DEF A!ReadSlashes
<1>6. t.w = IF c = "/" /\ s.slash THEN A!dot(Append(s.w, c)) ELSE Append(s.w, c)
  BY DEF A!ReadSlashes
<1>. HIDE DEF f, dir, v, t
<1>7. CASE c # "/"
  <2>1. Cur(Append(p, c)) = Append(f, c) /\ NamesPast(Append(p, c)) = dir
    BY <1>7, CharRead DEF f, dir
  <2>2. (v \o <<"/">>) \o Append(f, c) = Append((v \o <<"/">>) \o f, c)
    BY <1>2, <1>4, AppendConcat
  <2>3. Append(f, c) # <<>>
    <3>1. Len(Append(f, c)) = Len(f) + 1 /\ Len(f) \in Nat
      BY <1>2
    <3>. QED BY <3>1
  <2>4. t.w = v \o <<"/">> \o Append(f, c)
    BY <1>1, <1>6, <1>7, <2>2
  <2>. QED BY <1>5, <1>7, <2>1, <2>3, <2>4 DEF SlashesDone, v, t
<1>8. CASE c = "/"
  <2>1. Cur(Append(p, c)) = <<>> /\ NamesPast(Append(p, c)) = A!Components(p)
    BY <1>8, SlashRead
  <2>2. CASE f = <<>>
    <3>1. NamesPast(Append(p, c)) = dir
      BY <1>2, <2>1, <2>2 DEF Fill
    <3>2. t.w = v \o <<"/">>
      BY <1>1, <1>2, <1>3, <1>6, <1>8, <2>2, CutAt
    <3>3. (v \o <<"/">>) \o <<>> = v \o <<"/">>
      BY <1>4, ConcatEmptySeq
    <3>. QED BY <1>5, <1>8, <2>1, <3>1, <3>2, <3>3 DEF SlashesDone, v, t
  <2>3. CASE f # <<>>
    <3>1. f \in Words /\ NamesPast(Append(p, c)) = Append(dir, f)
      BY <1>2, <2>1, <2>3 DEF Fill, Words
    <3>2. A!Joined(Append(dir, f)) = v \o <<"/">> \o f /\ A!Joined(Append(dir, f)) \in Texts
      BY <1>2, <3>1, JoinedAppend DEF v
    <3>. DEFINE y == v \o <<"/">> \o f
    <3>3. y \in Seq(A!Symbols) /\ A!Joined(Append(dir, f)) = y /\ s.w = y
      BY <1>1, <3>2 DEF Texts
    <3>. HIDE DEF y
    <3>4. t.w = Append(y, "/")
      BY <1>1, <1>6, <1>8, <2>3, <3>3
    <3>5. y \o <<"/">> = Append(y, "/") /\ y \o <<"/">> \in Seq(A!Symbols)
      BY <1>3, <3>3, OneConcat
    <3>6. (y \o <<"/">>) \o <<>> = y \o <<"/">>
      BY <3>5, ConcatEmptySeq
    <3>7. t.w = A!Joined(Append(dir, f)) \o <<"/">> \o <<>>
      BY <3>3, <3>4, <3>5, <3>6
    <3>. QED BY <1>5, <1>8, <2>1, <3>1, <3>7 DEF SlashesDone, t
  <2>. QED BY <2>2, <2>3
<1>. QED BY <1>7, <1>8

LEMMA SlashesInvariant ==
  ASSUME NEW slash \in BOOLEAN, NEW p \in Texts, A!Absolute(p)
  PROVE  SlashesDone(p, SlashesOf(p, slash))
<1>. DEFINE Holds(q) == A!Absolute(q) => SlashesDone(q, SlashesOf(q, slash))
            D == {q \in Seq(A!Symbols) : Holds(q)}
<1>1. <<>> \in D
  BY DEF A!Absolute
<1>2. ASSUME NEW q \in D, NEW c \in A!Symbols PROVE Append(q, c) \in D
  <2>1. q \in Texts /\ Append(q, c) \in Seq(A!Symbols) /\ Holds(q)
    BY DEF Texts
  <2>2. /\ SlashesOf(Append(q, c), slash) = A!ReadSlashes(SlashesOf(q, slash), c)
        /\ SlashesOf(q, slash) \in SlashStates
    BY <2>1, SlashesIs DEF Texts
  <2>3. Holds(Append(q, c))
    <3>1. CASE q = <<>>
      <4>1. A!Absolute(Append(q, c)) => c = "/"
        BY <2>1, <3>1, AbsoluteAppend
      <4>2. SlashesDone(Append(<<>>, "/"), A!ReadSlashes(SlashesOf(<<>>, slash), "/"))
        BY SlashesFirst
      <4>. QED BY <2>2, <3>1, <4>1, <4>2
    <3>2. CASE q # <<>>
      <4>1. A!Absolute(Append(q, c)) => A!Absolute(q)
        BY <2>1, <3>2, AbsoluteAppend
      <4>2. SlashesDone(q, SlashesOf(q, slash)) =>
              SlashesDone(Append(q, c), A!ReadSlashes(SlashesOf(q, slash), c))
        BY <2>1, <2>2, SlashesStep
      <4>. QED BY <2>1, <2>2, <4>1, <4>2
    <3>. QED BY <3>1, <3>2
  <2>. HIDE DEF Holds
  <2>. QED BY <2>1, <2>3
<1>3. D = Seq(A!Symbols)
  <2>1. D \in SUBSET Seq(A!Symbols)
    OBVIOUS
  <2>. HIDE DEF D
  <2>. QED BY <1>1, <1>2, <2>1, Sequences
<1>. QED BY <1>3 DEF Texts

\* The second loop and the slash that is cut at last write the components.
LEMMA SlashesTidied ==
  ASSUME NEW slash \in BOOLEAN, NEW p \in Texts, A!Absolute(p), NEW s, s = A!Slashes(p, slash)
  PROVE  (IF Len(s) > 1 /\ A!Last(s) = "/" THEN A!Front(s) ELSE s) = A!Written(A!Components(p))
<1>. DEFINE f == Cur(p)
            dir == NamesPast(p)
            v == A!Joined(dir)
<1>1. s = v \o <<"/">> \o f
  <2>1. s = SlashesOf(p, slash).w
    BY DEF A!Slashes, SlashesOf
  <2>. QED BY <2>1, SlashesInvariant DEF SlashesDone
<1>2. f \in Names /\ dir \in WordLists /\ A!Components(p) = Fill(dir, f)
  BY FieldParts
<1>3. v \in Seq(A!Symbols) /\ v \in Texts /\ "/" \in A!Symbols /\ <<"/">> \in Seq(A!Symbols)
  BY <1>2, JoinedShape DEF Texts, A!Symbols
<1>. HIDE DEF f, dir
<1>4. CASE f = <<>>
  <2>1. v \o <<"/">> = Append(v, "/") /\ v \o <<"/">> \in Seq(A!Symbols)
    BY <1>3, OneConcat
  <2>2. s = Append(v, "/")
    BY <1>1, <1>4, <2>1, ConcatEmptySeq
  <2>3. A!Front(s) = v /\ A!Last(s) = "/"
    BY <1>3, <2>2, FrontAppend
  <2>4. Len(s) = Len(v) + 1 /\ Len(v) \in Nat
    BY <1>3, <2>2
  <2>5. A!Components(p) = dir
    BY <1>2, <1>4 DEF Fill
  <2>6. CASE dir = <<>>
    <3>1. v = <<>>
      BY <1>2, <2>6, JoinedShape
    <3>2. s = Append(<<>>, "/") /\ Len(s) = 1
      BY <2>2, <2>4, <3>1
    <3>3. Append(<<>>, "/") = <<"/">>
      <4>1. <<>> \in Seq(A!Symbols)
        OBVIOUS
      <4>2. <<>> \o <<"/">> = Append(<<>>, "/")
        BY <1>3, <4>1, OneConcat
      <4>3. <<>> \o <<"/">> = <<"/">>
        BY <1>3, ConcatEmptySeq
      <4>. QED BY <4>2, <4>3
    <3>. QED BY <2>5, <2>6, <3>2, <3>3 DEF A!Written
  <2>7. CASE dir # <<>>
    <3>1. Len(v) > 1
      BY <1>2, <2>7, JoinedShape
    <3>2. Len(s) > 1
      BY <2>4, <3>1
    <3>. QED BY <2>3, <2>5, <2>7, <3>2 DEF A!Written
  <2>. QED BY <2>6, <2>7
<1>5. CASE f # <<>>
  <2>1. f \in Words /\ A!Components(p) = Append(dir, f)
    BY <1>2, <1>5 DEF Fill, Words
  <2>2. s = A!Joined(Append(dir, f))
    BY <1>1, <1>2, <2>1, JoinedAppend
  <2>3. A!Last(s) # "/"
    BY <1>1, <1>3, <2>1, ConcatShape
  <2>4. Append(dir, f) # <<>>
    <3>. HIDE DEF v
    <3>1. dir \in Seq(Words) /\ f \in Words
      BY <1>2, <2>1 DEF WordLists
    <3>2. Len(Append(dir, f)) = Len(dir) + 1 /\ Len(dir) \in Nat
      BY <3>1
    <3>3. Len(Append(dir, f)) # 0
      BY <3>2
    <3>4. Len(<<>>) = 0
      OBVIOUS
    <3>. QED BY <3>3, <3>4, Zenon
  <2>. QED BY <2>1, <2>2, <2>3, <2>4 DEF A!Written
<1>. QED BY <1>4, <1>5

PathsInv == path \in Texts /\ cwd \in Cwds /\ prev \in A!Symbols

\* The start is the path from the working directory, and readable if not misread.
LEMMA ReadableIs ==
  ASSUME ~A!Misread
  PROVE  Readable(A!Fields(A!FromCwd(path)))
<1>. DEFINE fs == A!Fields(A!FromCwd(path))
<1>1. /\ ~\E f \in A!Range(fs) : Len(f) > 2 /\ A!Range(f) = {"."}
      /\ ~\E j \in DOMAIN fs : \E i \in 2..(j - 1) : fs[i] = <<>> /\ fs[j] = A!DotDot
  BY DEF A!Misread
<1>. HIDE DEF fs
<1>2. \A j \in DOMAIN fs : fs[j] \in A!Range(fs)
  BY DEF A!Range
<1>3. Readable(fs)
  BY <1>1, <1>2 DEF Readable
<1>. QED BY <1>3 DEF fs

LEMMA StartIs ==
  ASSUME A!PathsAssumption, PathsInv, ~A!Misread
  PROVE  /\ A!FromCwd(path) \in Texts /\ A!Absolute(A!FromCwd(path))
         /\ A!FromCwd(path) =
              IF path # <<>> /\ path[1] = "/" THEN path
              ELSE cwd
                     \o (IF (IF cwd = <<>> THEN prev ELSE A!Last(cwd)) = "/" THEN <<>> ELSE <<"/">>) \o path
<1>1. path \in Seq(A!Symbols) /\ <<"/">> \in Seq(A!Symbols) /\ <<>> \in Seq(A!Symbols)
  BY DEF PathsInv, Texts, A!Symbols
<1>2. cwd \in Seq(A!Symbols) /\ (cwd # <<>> => cwd[1] = "/" /\ A!Last(cwd) # "/")
  BY <1>1 DEF PathsInv, A!PathsAssumption
<1>3. CASE A!Absolute(path)
  BY <1>1, <1>3 DEF A!FromCwd, A!Absolute, Texts
<1>4. CASE ~A!Absolute(path)
  <2>1. A!FromCwd(path) = cwd \o <<"/">> \o path
    BY <1>4 DEF A!FromCwd
  <2>2. cwd = <<>> => prev # "/"
    BY <1>4 DEF A!Misread
  <2>3. (IF cwd = <<>> THEN prev ELSE A!Last(cwd)) # "/"
    BY <1>2, <2>2
  <2>4. A!FromCwd(path) \in Seq(A!Symbols) /\ Len(A!FromCwd(path)) = Len(cwd) + 1 + Len(path)
    BY <1>1, <1>2, <2>1
  <2>5. (cwd \o <<"/">> \o path)[1] = "/"
    <3>1. CASE cwd = <<>>
      <4>1. (<<>> \o <<"/">>) = <<"/">>
        BY <1>1, ConcatEmptySeq
      <4>2. (<<"/">> \o path)[1] = "/"
        BY <1>1
      <4>. QED BY <3>1, <4>1, <4>2
    <3>2. CASE cwd # <<>>
      <4>1. (cwd \o <<"/">> \o path)[1] = cwd[1]
        BY <1>1, <1>2, <3>2
      <4>. QED BY <1>2, <3>2, <4>1
    <3>. QED BY <3>1, <3>2
  <2>6. Len(cwd) \in Nat /\ Len(path) \in Nat
    BY <1>1, <1>2
  <2>7. A!FromCwd(path) # <<>>
    <3>1. Len(A!FromCwd(path)) # 0
      BY <2>4, <2>6
    <3>. QED BY <3>1
  <2>8. A!Absolute(A!FromCwd(path))
    BY <2>1, <2>5, <2>7 DEF A!Absolute
  <2>9. ~(path # <<>> /\ path[1] = "/")
    BY <1>4 DEF A!Absolute
  <2>. QED BY <2>1, <2>3, <2>4, <2>8, <2>9 DEF Texts
<1>. QED BY <1>3, <1>4

\* chdir goes where the path leads.
LEMMA CwdGoes ==
  ASSUME A!PathsAssumption, PathsInv
  PROVE  A!CwdMeant
<1>. SUFFICES ASSUME ~A!Misread
              PROVE  A!normalize_path(path, cwd, prev) =
                       IF Len(A!Written(A!Meaning(A!FromCwd(path)))) > NAME_MAX THEN A!Error
                       ELSE A!Written(A!Meaning(A!FromCwd(path)))
  BY DEF A!CwdMeant
<1>. DEFINE p == A!FromCwd(path)
            d == A!Dots(p)
            q == A!LastDots(d)
            s == A!Slashes(q, d.slash)
            w == IF Len(s) > 1 /\ A!Last(s) = "/" THEN A!Front(s) ELSE s
<1>1. p \in Texts /\ A!Absolute(p) /\ Readable(A!Fields(p))
  BY StartIs, ReadableIs
<1>2. p = IF path # <<>> /\ path[1] = "/" THEN path
          ELSE cwd
                 \o (IF (IF cwd = <<>> THEN prev ELSE A!Last(cwd)) = "/" THEN <<>> ELSE <<"/">>) \o path
  BY StartIs
<1>3. A!normalize_path(path, cwd, prev) = IF Len(w) > NAME_MAX THEN A!Error ELSE w
  <2>. HIDE DEF p
  <2>. QED BY <1>2 DEF A!normalize_path
<1>. HIDE DEF p
<1>4. q \in Texts /\ A!Absolute(q) /\ A!Components(q) = A!Meaning(p)
  BY <1>1, DotsTidied
<1>5. d.slash \in BOOLEAN
  <2>1. d \in DotStates
    BY <1>1, DotsIs DEF Texts
  <2>. HIDE DEF d
  <2>. QED BY <2>1 DEF DotStates
<1>. HIDE DEF d, q
<1>6. w = A!Written(A!Components(q))
  BY <1>4, <1>5, SlashesTidied
<1>. HIDE DEF w
<1>. QED BY <1>3, <1>4, <1>6 DEF p

-----------------------------------------------------------------------------
(* The loops that go from name to name.                                    *)

LEMMA AtIs ==
  ASSUME A!PathsAssumption, NEW p \in Texts, NEW k \in 1..Len(p)
  PROVE  A!At(p, k) = p[k] /\ p[k] \in A!Symbols /\ p[k] # "end" /\ (A!Ends(p, k) <=> p[k] = "/")
<1>1. p[k] \in A!Symbols /\ Len(p) \in Nat
  BY DEF Texts
<1>2. A!At(p, k) = p[k]
  BY <1>1 DEF A!At
<1>3. p[k] # "end"
  BY <1>1 DEF A!Symbols, A!PathsAssumption
<1>. QED BY <1>1, <1>2, <1>3 DEF A!Ends

LEMMA AtEnd ==
  ASSUME NEW p \in Texts
  PROVE  A!At(p, Len(p) + 1) = "end" /\ A!Ends(p, Len(p) + 1)
BY DEF A!At, A!Ends, Texts

\* Slashes in a row read nothing.
LEMMA SlashRun ==
  ASSUME NEW p \in Texts, NEW z \in Seq({"/"}), z # <<>>
  PROVE  p \o z \in Texts /\ NamesPast(p \o z) = A!Components(p) /\ Cur(p \o z) = <<>>
<1>. DEFINE Holds(y) == /\ p \o y \in Texts
                        /\ y = <<>> => p \o y = p
                        /\ y # <<>> => NamesPast(p \o y) = A!Components(p) /\ Cur(p \o y) = <<>>
            D == {y \in Seq({"/"}) : Holds(y)}
<1>1. <<>> \in D
  <2>1. p \o <<>> = p
    BY ConcatEmptySeq DEF Texts
  <2>2. <<>> \in Seq({"/"})
    OBVIOUS
  <2>3. Holds(<<>>)
    BY <2>1
  <2>. HIDE DEF Holds
  <2>. QED BY <2>2, <2>3
<1>2. ASSUME NEW y \in D, NEW c \in {"/"} PROVE Append(y, c) \in D
  <2>1. y \in Seq({"/"}) /\ Append(y, "/") \in Seq({"/"}) /\ Holds(y) /\ c = "/"
    OBVIOUS
  <2>2. Append(y, "/") # <<>>
    <3>1. Len(Append(y, "/")) = Len(y) + 1 /\ Len(y) \in Nat
      BY <2>1
    <3>2. Len(Append(y, "/")) # 0
      BY <3>1
    <3>. QED BY <3>2
  <2>3. p \o Append(y, "/") = Append(p \o y, "/")
    <3>1. p \in Seq(A!Symbols) /\ y \in Seq(A!Symbols) /\ "/" \in A!Symbols
      BY <2>1 DEF Texts, A!Symbols
    <3>. QED BY <3>1, AppendConcat
  <2>4. /\ Append(p \o y, "/") \in Texts /\ NamesPast(Append(p \o y, "/")) = A!Components(p \o y)
        /\ Cur(Append(p \o y, "/")) = <<>>
    BY <2>1, SlashRead
  <2>5. A!Components(p \o y) = A!Components(p)
    <3>1. CASE y = <<>>
      BY <2>1, <3>1
    <3>2. CASE y # <<>>
      <4>1. A!Components(p \o y) = Fill(NamesPast(p \o y), Cur(p \o y))
        BY <2>1, FieldParts
      <4>. QED BY <2>1, <3>2, <4>1 DEF Fill
    <3>. QED BY <3>1, <3>2
  <2>6. Holds(Append(y, "/"))
    BY <2>2, <2>3, <2>4, <2>5
  <2>. HIDE DEF Holds
  <2>. QED BY <2>1, <2>6
<1>3. D = Seq({"/"})
  <2>1. D \in SUBSET Seq({"/"})
    OBVIOUS
  <2>. HIDE DEF D
  <2>. QED BY <1>1, <1>2, <2>1, Sequences
<1>. QED BY <1>3

\* A part of a path, and a part behind it.
LEMMA PartOf ==
  ASSUME NEW T, NEW p \in Seq(T), NEW m \in Nat, NEW n \in Nat, m <= n, n <= Len(p)
  PROVE  /\ SubSeq(p, 1, n) = SubSeq(p, 1, m) \o SubSeq(p, m + 1, n)
         /\ SubSeq(p, 1, n) \in Seq(T) /\ SubSeq(p, m + 1, n) \in Seq(T)
         /\ Len(SubSeq(p, 1, n)) = n /\ Len(SubSeq(p, m + 1, n)) = n - m
         /\ \A i \in 1..(n - m) : SubSeq(p, m + 1, n)[i] = p[m + i]
         /\ \A i \in 1..n : SubSeq(p, 1, n)[i] = p[i]
<1>. DEFINE a == SubSeq(p, 1, m)
            b == SubSeq(p, m + 1, n)
            c == SubSeq(p, 1, n)
<1>1. a \in Seq(T) /\ Len(a) = m /\ \A i \in 1..m : a[i] = p[i]
  OBVIOUS
<1>2. b \in Seq(T) /\ Len(b) = n - m /\ \A i \in 1..(n - m) : b[i] = p[m + i]
  OBVIOUS
<1>3. c \in Seq(T) /\ Len(c) = n /\ \A i \in 1..n : c[i] = p[i]
  OBVIOUS
<1>. HIDE DEF a, b, c
<1>4. a \o b \in Seq(T) /\ Len(a \o b) = n
  <2>0. a \in Seq(T) /\ b \in Seq(T)
    BY <1>1, <1>2
  <2>1. a \o b \in Seq(T) /\ Len(a \o b) = Len(a) + Len(b)
    BY <2>0, ConcatProperties
  <2>2. m + (n - m) = n
    OBVIOUS
  <2>. QED BY <1>1, <1>2, <2>1, <2>2
<1>5. \A i \in 1..n : (a \o b)[i] = p[i]
  <2>1. ASSUME NEW i \in 1..n PROVE (a \o b)[i] = p[i]
    <3>1. CASE i <= m
      <4>1. (a \o b)[i] = a[i]
        BY <1>1, <1>2, <3>1
      <4>. QED BY <1>1, <3>1, <4>1
    <3>2. CASE ~(i <= m)
      <4>1. (a \o b)[i] = b[i - m]
        BY <1>1, <1>2, <3>2
      <4>2. i - m \in 1..(n - m) /\ m + (i - m) = i
        BY <3>2
      <4>3. b[i - m] = p[m + (i - m)]
        BY <1>2, <4>2
      <4>. QED BY <4>1, <4>2, <4>3
    <3>. QED BY <3>1, <3>2
  <2>. QED BY <2>1
<1>6. c = a \o b
  BY <1>3, <1>4, <1>5, SeqEqual
<1>. QED BY <1>2, <1>3, <1>6 DEF a, b, c

LEMMA NameOf ==
  ASSUME NEW f \in Seq(A!Symbols), \A i \in 1..Len(f) : f[i] # "/"
  PROVE  f \in Names
BY DEF Names

\* The next name, from j to e, or nothing behind the last slash.
WordAt(p, at, j, e, f, q) ==
  /\ j = A!PastSlashes(p, at) /\ e = A!NameEnd(p, j)
  /\ f = SubSeq(p, j, e - 1) /\ q = SubSeq(p, 1, at - 1)

\* Between the two lie only slashes and the name, whose end is the end of a component.
LEMMA NextWord ==
  ASSUME A!PathsAssumption, NEW p \in Texts, NEW at \in 1..Len(p), p[at] = "/",
         NEW j, NEW e, NEW f, NEW q, WordAt(p, at, j, e, f, q)
  PROVE  /\ j \in (at + 1)..(Len(p) + 1) /\ e \in j..(Len(p) + 1) /\ A!Ends(p, e)
         /\ f \in Names /\ Len(f) = e - j /\ (f = <<>> <=> j = Len(p) + 1)
         /\ \A i \in 1..(e - j) : f[i] = p[j + i - 1]
         /\ q \in Texts /\ SubSeq(p, 1, e - 1) \in Texts
         /\ A!Components(SubSeq(p, 1, e - 1)) = Fill(A!Components(q), f)
<1>. USE DEF WordAt
<1>1. p \in Seq(A!Symbols) /\ Len(p) \in Nat /\ at \in 1..(Len(p) + 1)
  BY DEF Texts
<1>2. /\ j \in at..(Len(p) + 1) /\ A!At(p, j) # "/"
      /\ \A k \in at..(j - 1) : A!At(p, k) = "/"
  BY <1>1, PastSlashesIn
<1>3. j \in (at + 1)..(Len(p) + 1)
  <2>1. A!At(p, at) = "/"
    BY <1>1, AtIs
  <2>. QED BY <1>1, <1>2, <2>1
<1>4. e \in j..(Len(p) + 1) /\ A!Ends(p, e) /\ \A k \in j..(e - 1) : ~A!Ends(p, k)
  <2>1. j \in 1..(Len(p) + 1)
    BY <1>1, <1>3
  <2>. QED BY <2>1, NameEndIn
<1>5. f = <<>> <=> j = Len(p) + 1
  <2>1. CASE j = Len(p) + 1
    <3>1. e - 1 < j
      BY <1>1, <1>4, <2>1
    <3>2. f = <<>>
      BY <1>1, <1>4, <2>1, <3>1, SubSeqEmpty
    <3>. QED BY <2>1, <3>2
  <2>2. CASE j # Len(p) + 1
    <3>1. j \in 1..Len(p)
      BY <1>1, <1>3, <2>2
    <3>2. ~A!Ends(p, j)
      BY <1>2, <3>1, AtIs
    <3>3. e > j
      BY <1>1, <1>4, <3>1, <3>2
    <3>4. Len(f) = e - j
      BY <1>1, <1>4, <3>1
    <3>5. Len(f) # 0
      BY <1>1, <1>4, <3>1, <3>3, <3>4
    <3>6. f # <<>>
      BY <3>5
    <3>. QED BY <2>2, <3>6
  <2>. QED BY <2>1, <2>2
<1>. DEFINE m == at - 1
            n == j - 1
            o == e - 1
            z == SubSeq(p, m + 1, n)
<1>6. /\ m \in Nat /\ n \in Nat /\ o \in Nat /\ m <= n /\ n <= o /\ o <= Len(p) /\ m + 1 = at
      /\ n + 1 = j /\ o + 1 = e /\ n <= Len(p)
  BY <1>1, <1>3, <1>4
<1>. HIDE DEF m, n, o
<1>7. /\ SubSeq(p, 1, n) = SubSeq(p, 1, m) \o z /\ Len(z) = n - m /\ z \in Seq(A!Symbols)
      /\ \A i \in 1..(n - m) : z[i] = p[m + i]
  <2>1. p \in Seq(A!Symbols) /\ m \in Nat /\ n \in Nat /\ m <= n /\ n <= Len(p)
    BY <1>1, <1>6
  <2>. QED BY <2>1, PartOf
<1>8. /\ SubSeq(p, 1, o) = SubSeq(p, 1, n) \o SubSeq(p, n + 1, o)
      /\ SubSeq(p, 1, o) \in Seq(A!Symbols) /\ SubSeq(p, n + 1, o) \in Seq(A!Symbols)
      /\ Len(SubSeq(p, n + 1, o)) = o - n
      /\ \A i \in 1..(o - n) : SubSeq(p, n + 1, o)[i] = p[n + i]
  <2>1. p \in Seq(A!Symbols) /\ o \in Nat /\ n \in Nat /\ n <= o /\ o <= Len(p)
    BY <1>1, <1>6
  <2>. QED BY <2>1, PartOf
<1>9. f = SubSeq(p, n + 1, o)
  BY <1>6 DEF o
<1>10. q = SubSeq(p, 1, m) /\ q \in Texts
  <2>1. q = SubSeq(p, 1, m)
    BY DEF m
  <2>2. SubSeq(p, 1, m) \in Seq(A!Symbols)
    BY <1>1, <1>6
  <2>. QED BY <2>1, <2>2 DEF Texts
<1>11. o - n = e - j
  BY <1>3, <1>4 DEF o, n
<1>. HIDE DEF z
<1>12. z \in Seq({"/"}) /\ z # <<>>
  <2>1. ASSUME NEW i \in 1..Len(z) PROVE z[i] \in {"/"}
    <3>0. i \in 1..(n - m)
      BY <1>7
    <3>1. i \in 1..(n - m) /\ m + i \in at..(j - 1) /\ m + i \in 1..Len(p)
      <4>1. m \in Nat /\ n \in Nat /\ Len(p) \in Nat /\ n <= Len(p) /\ m + 1 = at /\ n + 1 = j
        BY <1>1, <1>6
      <4>. QED BY <3>0, <4>1
    <3>2. A!At(p, m + i) = "/" /\ A!At(p, m + i) = p[m + i]
      BY <1>2, <3>1, AtIs
    <3>. QED BY <1>7, <3>1, <3>2
  <2>2. z \in Seq({"/"})
    BY <1>7, <2>1
  <2>3. Len(z) # 0
    BY <1>3, <1>6, <1>7
  <2>. QED BY <2>2, <2>3
<1>13. f \in Names
  <2>1. ASSUME NEW i \in 1..Len(f) PROVE f[i] # "/"
    <3>1. i \in 1..(o - n)
      BY <1>8, <1>9
    <3>3. n + i \in j..(e - 1) /\ n + i \in 1..Len(p)
      <4>1. n \in Nat /\ o \in Nat /\ Len(p) \in Nat /\ o <= Len(p) /\ n + 1 = j /\ o + 1 = e
        BY <1>1, <1>6
      <4>. QED BY <3>1, <4>1
    <3>2. ~A!Ends(p, n + i) /\ f[i] = p[n + i]
      BY <1>4, <1>8, <1>9, <3>1, <3>3
    <3>4. p[n + i] \in A!Symbols /\ p[n + i] # "/"
      BY <3>2, <3>3, AtIs
    <3>. QED BY <3>2, <3>4
  <2>2. f \in Seq(A!Symbols)
    BY <1>8, <1>9
  <2>. QED BY <2>1, <2>2, NameOf
<1>14. SubSeq(p, 1, n) \in Texts /\ A!Components(SubSeq(p, 1, n)) = A!Components(q)
        /\ NamesPast(SubSeq(p, 1, n)) = A!Components(q) /\ Cur(SubSeq(p, 1, n)) = <<>>
  <2>1. q \o z \in Texts /\ NamesPast(q \o z) = A!Components(q) /\ Cur(q \o z) = <<>>
    BY <1>10, <1>12, SlashRun
  <2>2. SubSeq(p, 1, n) = q \o z
    BY <1>7, <1>10
  <2>. QED BY <2>1, <2>2, FieldParts DEF Fill
<1>15. SubSeq(p, 1, o) \in Texts /\ A!Components(SubSeq(p, 1, o)) = Fill(A!Components(q), f)
  <2>. DEFINE y == SubSeq(p, 1, n)
  <2>1. y \in Texts /\ NamesPast(y) = A!Components(q) /\ Cur(y) = <<>>
    BY <1>14
  <2>2. SubSeq(p, 1, o) = y \o f
    BY <1>8, <1>9
  <2>. HIDE DEF y
  <2>3. y \o f \in Texts /\ Cur(y \o f) = Cur(y) \o f /\ NamesPast(y \o f) = NamesPast(y)
    BY <1>13, <2>1, NameRead
  <2>4. <<>> \o f = f
    BY <1>13, ConcatEmptySeq DEF Names
  <2>. QED BY <2>1, <2>2, <2>3, <2>4, FieldParts
<1>16. Len(f) = e - j /\ \A i \in 1..(e - j) : f[i] = p[j + i - 1]
  <2>1. ASSUME NEW i \in 1..(e - j) PROVE f[i] = p[j + i - 1]
    <3>1. n + i = j + i - 1
      BY <1>3 DEF n
    <3>. QED BY <1>8, <1>9, <1>11, <3>1
  <2>. QED BY <1>8, <1>9, <1>11, <2>1
<1>. QED BY <1>3, <1>4, <1>5, <1>10, <1>13, <1>15, <1>16 DEF o

\* What is written with single slashes has them single, and means what was written.
LEMMA NoDoubleJoined ==
  ASSUME NEW dir \in WordLists
  PROVE  A!NoDouble(A!Joined(dir)) /\ A!NoDouble(A!Joined(dir) \o <<"/">>)
<1>. DEFINE D == {d \in Seq(Words) : A!NoDouble(A!Joined(d))}
<1>1. <<>> \in D
  <2>1. A!Joined(<<>>) = <<>> /\ <<>> \in Seq(Words)
    BY JoinedIs
  <2>2. \A i \in 2..Len(<<>>) : FALSE
    OBVIOUS
  <2>3. A!NoDouble(<<>>)
    BY <2>2 DEF A!NoDouble
  <2>. QED BY <2>1, <2>3
<1>2. ASSUME NEW d \in D, NEW f \in Words PROVE Append(d, f) \in D
  <2>1. d \in WordLists /\ Append(d, f) \in Seq(Words) /\ A!NoDouble(A!Joined(d))
    BY DEF WordLists
  <2>. DEFINE v == A!Joined(d)
              y == v \o <<"/">> \o f
  <2>2. v \in Texts /\ A!Joined(Append(d, f)) = y /\ A!NoDouble(v)
    BY <2>1, JoinedAppend
  <2>3. Len(f) \in Nat /\ \A i \in 1..Len(f) : f[i] # "/"
    BY WordShape
  <2>4. /\ Len(y) = Len(v) + 1 + Len(f) /\ Len(v) \in Nat
        /\ (\A i \in 1..Len(v) : y[i] = v[i]) /\ y[Len(v) + 1] = "/"
        /\ \A i \in 1..Len(f) : y[Len(v) + 1 + i] = f[i]
    BY <2>2, ConcatShape
  <2>5. Len(v) > 0 => v[Len(v)] # "/"
    <3>1. d # <<>> => A!Last(v) # "/"
      BY <2>1, JoinedShape
    <3>2. d = <<>> => Len(v) = 0
      BY <2>1, JoinedShape
    <3>. QED BY <3>1, <3>2 DEF A!Last
  <2>. HIDE DEF y, v
  <2>6. ASSUME NEW i \in 2..Len(y) PROVE ~(y[i - 1] = "/" /\ y[i] = "/")
    <3>1. CASE i <= Len(v)
      <4>1. i \in 2..Len(v) /\ i \in 1..Len(v) /\ i - 1 \in 1..Len(v)
        BY <2>4, <3>1
      <4>2. y[i] = v[i] /\ y[i - 1] = v[i - 1]
        BY <2>4, <4>1
      <4>. QED BY <2>2, <4>1, <4>2 DEF A!NoDouble
    <3>2. CASE i = Len(v) + 1
      <4>1. i - 1 = Len(v) /\ Len(v) \in 1..Len(v) /\ Len(v) > 0
        BY <2>4, <3>2
      <4>. QED BY <2>4, <2>5, <4>1
    <3>3. CASE i > Len(v) + 1
      <4>. DEFINE k == i - (Len(v) + 1)
      <4>1. k \in 1..Len(f) /\ Len(v) + 1 + k = i
        BY <2>3, <2>4, <3>3
      <4>. HIDE DEF k
      <4>2. y[Len(v) + 1 + k] = f[k] /\ f[k] # "/"
        BY <2>3, <2>4, <4>1
      <4>. QED BY <4>1, <4>2
    <3>. QED BY <2>4, <3>1, <3>2, <3>3
  <2>7. A!NoDouble(y)
    BY <2>6 DEF A!NoDouble
  <2>. QED BY <2>1, <2>2, <2>7
<1>3. D = Seq(Words)
  <2>1. D \in SUBSET Seq(Words)
    OBVIOUS
  <2>. HIDE DEF D
  <2>. QED BY <1>1, <1>2, <2>1, Sequences
<1>4. A!NoDouble(A!Joined(dir))
  BY <1>3 DEF WordLists
<1>. DEFINE v == A!Joined(dir)
            y == v \o <<"/">>
<1>5. v \in Seq(A!Symbols) /\ <<"/">> \in Seq(A!Symbols)
  BY JoinedShape DEF Texts, A!Symbols
<1>6. Len(y) = Len(v) + 1 /\ Len(v) \in Nat /\ \A i \in 1..Len(v) : y[i] = v[i]
  BY <1>5
<1>7. Len(v) > 0 => v[Len(v)] # "/"
  <2>1. dir # <<>> => A!Last(v) # "/"
    BY JoinedShape
  <2>2. dir = <<>> => Len(v) = 0
    BY JoinedShape
  <2>. QED BY <2>1, <2>2 DEF A!Last
<1>8. A!NoDouble(v)
  BY <1>4
<1>. HIDE DEF y, v
<1>9. ASSUME NEW i \in 2..Len(y) PROVE ~(y[i - 1] = "/" /\ y[i] = "/")
  <2>1. CASE i <= Len(v)
    <3>1. i \in 2..Len(v) /\ i \in 1..Len(v) /\ i - 1 \in 1..Len(v)
      BY <1>6, <2>1
    <3>2. y[i] = v[i] /\ y[i - 1] = v[i - 1]
      BY <1>6, <3>1
    <3>. QED BY <1>8, <3>1, <3>2 DEF A!NoDouble
  <2>2. CASE i = Len(v) + 1
    <3>1. i - 1 = Len(v) /\ Len(v) \in 1..Len(v) /\ Len(v) > 0
      BY <1>6, <2>2
    <3>. QED BY <1>6, <1>7, <3>1
  <2>. QED BY <1>6, <2>1, <2>2
<1>10. A!NoDouble(y)
  BY <1>9 DEF A!NoDouble
<1>. QED BY <1>4, <1>10 DEF y, v

LEMMA JoinedMeans ==
  ASSUME NEW dir \in WordLists
  PROVE  A!Components(A!Joined(dir)) = dir /\ A!Components(A!Joined(dir) \o <<"/">>) = dir
<1>. DEFINE D == {d \in Seq(Words) : A!Components(A!Joined(d)) = d}
<1>1. <<>> \in D
  BY JoinedIs, Nothing
<1>2. ASSUME NEW d \in D, NEW f \in Words PROVE Append(d, f) \in D
  <2>1. d \in WordLists /\ Append(d, f) \in Seq(Words) /\ A!Components(A!Joined(d)) = d
    BY DEF WordLists
  <2>2. A!Joined(d) \in Texts /\ A!Joined(Append(d, f)) = A!Joined(d) \o <<"/">> \o f
    BY <2>1, JoinedAppend
  <2>3. f \in Names /\ f # <<>>
    BY DEF Words
  <2>4. A!Components(A!Joined(d) \o <<"/">> \o f) = Fill(A!Components(A!Joined(d)), f)
    BY <2>2, <2>3, FieldRead
  <2>5. A!Components(A!Joined(Append(d, f))) = Append(d, f)
    BY <2>1, <2>2, <2>3, <2>4 DEF Fill
  <2>. QED BY <2>1, <2>5
<1>3. D = Seq(Words)
  <2>1. D \in SUBSET Seq(Words)
    OBVIOUS
  <2>. HIDE DEF D
  <2>. QED BY <1>1, <1>2, <2>1, Sequences
<1>4. A!Components(A!Joined(dir)) = dir
  BY <1>3 DEF WordLists
<1>5. A!Joined(dir) \in Texts
  BY JoinedShape
<1>6. A!Joined(dir) \o <<"/">> = Append(A!Joined(dir), "/")
  BY <1>5, OneConcat DEF Texts, A!Symbols
<1>7. A!Components(Append(A!Joined(dir), "/")) = A!Components(A!Joined(dir))
  BY <1>5, SlashRead
<1>. QED BY <1>4, <1>6, <1>7

LEMMA SlashLast ==
  ASSUME NEW v \in Texts
  PROVE  /\ A!Last(v \o <<"/">>) = "/" /\ v \o <<"/">> \in Texts /\ Len(v \o <<"/">>) = Len(v) + 1
         /\ Len(v) \in Nat
<1>1. v \in Seq(A!Symbols) /\ "/" \in A!Symbols /\ v \o <<"/">> = Append(v, "/")
  BY OneConcat DEF Texts, A!Symbols
<1>2. A!Last(Append(v, "/")) = "/"
  BY <1>1, FrontAppend
<1>3. Append(v, "/") \in Texts /\ Len(Append(v, "/")) = Len(v) + 1 /\ Len(v) \in Nat
  BY <1>1 DEF Texts
<1>. QED BY <1>1, <1>2, <1>3

-----------------------------------------------------------------------------
(* _vfs_prepare_path.                                                      *)

Passed(p, at) == SubSeq(p, 1, at - 1)   \* what lies in front of a position

\* The invariant of its loop: what is done is the names up to the position.
SegmentsDone(p, s) ==
  LET dir == A!Components(Passed(p, s.at))
  IN /\ s.at \in 1..(Len(p) + 1) /\ A!Ends(p, s.at)
     /\ s.at <= Len(p) => s.done = A!Joined(dir) \o <<"/">>
     /\ s.at = Len(p) + 1 => \/ A!Last(p) = "/" /\ s.done = A!Joined(dir) \o <<"/">>
                             \/ A!Last(p) # "/" /\ dir # <<>> /\ s.done = A!Joined(dir)

LEMMA ReadType ==
  ASSUME NEW p \in Texts, NEW at \in 1..(Len(p) + 1)
  PROVE  /\ Passed(p, at) \in Texts /\ A!Components(Passed(p, at)) \in WordLists
         /\ Passed(p, 1) = <<>> /\ Passed(p, Len(p) + 1) = p
<1>1. p \in Seq(A!Symbols) /\ Len(p) \in Nat
  BY DEF Texts
<1>2. Passed(p, at) \in Texts
  BY <1>1 DEF Passed, Texts
<1>3. A!Components(Passed(p, at)) \in WordLists
  BY <1>2, FieldParts
<1>4. Passed(p, 1) = <<>>
  BY <1>1, SubSeqEmpty DEF Passed
<1>5. (Len(p) + 1) - 1 = Len(p)
  BY <1>1
<1>6. Passed(p, Len(p) + 1) = p
  BY <1>1, <1>5, SubSeqFull DEF Passed
<1>. QED BY <1>2, <1>3, <1>4, <1>6

LEMMA SegmentFirst ==
  ASSUME A!PathsAssumption, NEW p \in Texts, A!Absolute(p)
  PROVE  SegmentsDone(p, [at |-> 1, done |-> <<"/">>])
<1>1. Len(p) \in Nat /\ Len(p) > 0 /\ p[1] = "/"
  BY DEF A!Absolute, Texts
<1>2. 1 \in 1..Len(p) /\ 1 \in 1..(Len(p) + 1) /\ 1 # Len(p) + 1
  BY <1>1
<1>3. A!Ends(p, 1)
  BY <1>1, <1>2, AtIs
<1>4. A!Components(Passed(p, 1)) = <<>>
  BY <1>2, ReadType, Nothing
<1>5. A!Joined(<<>>) \o <<"/">> = <<"/">>
  <2>1. A!Joined(<<>>) = <<>> /\ <<"/">> \in Seq(A!Symbols)
    BY JoinedIs DEF A!Symbols
  <2>. QED BY <2>1, ConcatEmptySeq
<1>. QED BY <1>2, <1>3, <1>4, <1>5 DEF SegmentsDone

LEMMA SegmentStep ==
  ASSUME A!PathsAssumption, NEW p \in Texts, NEW s \in Segments(p), SegmentsDone(p, s)
  PROVE  LET t == A!NextSegment(p, s)
         IN SegmentsDone(p, t) /\ (t.at > s.at \/ t.at = Len(p) + 1)
<1>. DEFINE t == A!NextSegment(p, s)
            at == s.at
            q == Passed(p, at)
            dir == A!Components(q)
            b == A!PastSlashes(p, at)
            e == A!NameEnd(p, b)
            f == SubSeq(p, b, e - 1)
<1>1. p \in Seq(A!Symbols) /\ Len(p) \in Nat /\ at \in 1..(Len(p) + 1) /\ A!Ends(p, at)
  BY DEF SegmentsDone, Texts
<1>2. t = IF b > Len(p) THEN [s EXCEPT !.at = b]
          ELSE [at |-> e, done |-> s.done \o f \o (IF e > Len(p) THEN <<>> ELSE <<"/">>)]
  BY DEF A!NextSegment
<1>3. s = [at |-> at, done |-> s.done] /\ s.done \in Seq(A!Symbols)
  BY DEF Segments, Texts
<1>. HIDE DEF t, at, b, e
<1>4. CASE at = Len(p) + 1
  <2>1. b = Len(p) + 1
    BY <1>1, <1>4, PastSlashesIn DEF b
  <2>2. t = s
    BY <1>1, <1>2, <1>3, <1>4, <2>1
  <2>. QED BY <1>4, <2>2 DEF at, t
<1>5. CASE at # Len(p) + 1
  <2>1. at \in 1..Len(p) /\ p[at] = "/"
    <3>1. at \in 1..Len(p)
      BY <1>1, <1>5
    <3>. QED BY <1>1, <3>1, AtIs
  <2>2. s.done = A!Joined(dir) \o <<"/">>
    BY <2>1 DEF SegmentsDone, at
  <2>3. q = SubSeq(p, 1, at - 1)
    BY DEF Passed
  <2>4. /\ b \in (at + 1)..(Len(p) + 1) /\ e \in b..(Len(p) + 1) /\ A!Ends(p, e)
        /\ f \in Names /\ Len(f) = e - b /\ (f = <<>> <=> b = Len(p) + 1)
        /\ \A i \in 1..(e - b) : f[i] = p[b + i - 1]
        /\ q \in Texts /\ SubSeq(p, 1, e - 1) \in Texts
        /\ A!Components(SubSeq(p, 1, e - 1)) = Fill(dir, f)
    <3>1. WordAt(p, at, b, e, f, q)
      BY <2>3 DEF b, e, WordAt
    <3>. HIDE DEF f, q, dir
    <3>2. /\ b \in (at + 1)..(Len(p) + 1) /\ e \in b..(Len(p) + 1) /\ A!Ends(p, e)
          /\ f \in Names /\ Len(f) = e - b /\ (f = <<>> <=> b = Len(p) + 1)
          /\ \A i \in 1..(e - b) : f[i] = p[b + i - 1]
          /\ q \in Texts /\ SubSeq(p, 1, e - 1) \in Texts
          /\ A!Components(SubSeq(p, 1, e - 1)) = Fill(A!Components(q), f)
      BY <2>1, <3>1, NextWord
    <3>. QED BY <3>2 DEF dir
  <2>5. dir \in WordLists /\ A!Joined(dir) \in Texts
    BY <2>4, FieldParts, JoinedShape
  <2>6. A!Components(Passed(p, e)) = Fill(dir, f)
    BY <2>4 DEF Passed
  <2>. HIDE DEF q, dir, f
  <2>7. CASE b = Len(p) + 1
    <3>1. f = <<>> /\ e = Len(p) + 1
      BY <1>1, <2>4, <2>7
    <3>2. t = [at |-> Len(p) + 1, done |-> s.done]
      BY <1>1, <1>2, <1>3, <2>7
    <3>3. A!Components(Passed(p, Len(p) + 1)) = dir
      BY <2>6, <3>1 DEF Fill
    <3>4. A!Last(p) = "/"
      <4>1. Len(p) \in at..(b - 1) /\ Len(p) \in 1..Len(p)
        BY <1>1, <2>1, <2>7
      <4>2. A!At(p, Len(p)) = "/"
        BY <1>1, <4>1, PastSlashesIn DEF b
      <4>. QED BY <4>1, <4>2, AtIs DEF A!Last
    <3>5. A!Ends(p, Len(p) + 1)
      BY AtEnd
    <3>6. t.at = Len(p) + 1 /\ t.done = A!Joined(dir) \o <<"/">>
      BY <2>2, <3>2
    <3>7. Len(p) + 1 \in 1..(Len(p) + 1) /\ ~(Len(p) + 1 <= Len(p))
      BY <1>1
    <3>8. SegmentsDone(p, t)
      BY <3>3, <3>4, <3>5, <3>6, <3>7 DEF SegmentsDone
    <3>. QED BY <3>6, <3>8 DEF t
  <2>8. CASE b # Len(p) + 1
    <3>1. f # <<>> /\ f \in Words
      BY <2>4, <2>8 DEF Words
    <3>2. ~(b > Len(p))
      BY <1>1, <2>4, <2>8
    <3>3. t.at = e /\ t.done = s.done \o f \o (IF e > Len(p) THEN <<>> ELSE <<"/">>)
      BY <1>2, <3>2
    <3>4. A!Components(Passed(p, e)) = Append(dir, f)
      BY <2>6, <3>1 DEF Fill
    <3>5. /\ A!Joined(Append(dir, f)) = A!Joined(dir) \o <<"/">> \o f
          /\ A!Joined(Append(dir, f)) \in Seq(A!Symbols)
      BY <2>5, <3>1, JoinedAppend DEF Texts
    <3>6. s.done \o f = A!Joined(Append(dir, f))
      BY <2>2, <3>5
    <3>7. e \in 1..(Len(p) + 1) /\ e > at
      BY <1>1, <2>1, <2>4
    <3>8. CASE e <= Len(p)
      <4>1. t.done = A!Joined(Append(dir, f)) \o <<"/">>
        BY <1>1, <3>3, <3>6, <3>7, <3>8
      <4>2. e # Len(p) + 1
        BY <1>1, <3>8
      <4>3. SegmentsDone(p, t)
        BY <2>4, <3>3, <3>4, <3>7, <3>8, <4>1, <4>2 DEF SegmentsDone
      <4>. QED BY <3>3, <3>7, <4>3 DEF t, at
    <3>9. CASE e = Len(p) + 1
      <4>1. t.done = A!Joined(Append(dir, f))
        <5>1. e > Len(p)
          BY <1>1, <3>9
        <5>. QED BY <3>3, <3>5, <3>6, <5>1, ConcatEmptySeq
      <4>2. A!Last(p) # "/"
        <5>1. e - b \in 1..Len(f) /\ b + (e - b) - 1 = Len(p) /\ e - b \in 1..(e - b)
          BY <1>1, <2>4, <3>2, <3>9
        <5>2. f[e - b] = p[Len(p)]
          BY <2>4, <5>1
        <5>3. f[e - b] # "/"
          BY <3>1, <5>1, WordShape
        <5>. QED BY <5>2, <5>3 DEF A!Last
      <4>3. Append(dir, f) # <<>>
        <5>1. Len(Append(dir, f)) = Len(dir) + 1 /\ Len(dir) \in Nat
          BY <2>5, <3>1 DEF WordLists
        <5>2. Len(Append(dir, f)) # 0
          BY <5>1
        <5>. QED BY <5>2
      <4>4. ~(e <= Len(p))
        BY <1>1, <3>9
      <4>5. SegmentsDone(p, t)
        BY <2>4, <3>3, <3>4, <3>7, <3>9, <4>1, <4>2, <4>3, <4>4 DEF SegmentsDone
      <4>. QED BY <3>3, <3>9, <4>5 DEF t, at
    <3>. QED BY <1>1, <3>7, <3>8, <3>9
  <2>. QED BY <2>7, <2>8
<1>. QED BY <1>4, <1>5

\* Each turn reads a character at least, so that as many turns as characters are enough.
LEMMA SegmentInvariant ==
  ASSUME A!PathsAssumption, NEW p \in Texts, A!Absolute(p), NEW q \in Texts
  PROVE  LET t == SegmentLoop(p, q)
         IN SegmentsDone(p, t) /\ (t.at > Len(q) \/ t.at = Len(p) + 1)
<1>. DEFINE Holds(r) == LET t == SegmentLoop(p, r)
                        IN SegmentsDone(p, t) /\ (t.at > Len(r) \/ t.at = Len(p) + 1)
            D == {r \in Seq(A!Symbols) : Holds(r)}
<1>1. <<>> \in D
  <2>1. SegmentLoop(p, <<>>) = [at |-> 1, done |-> <<"/">>]
    BY SegmentIs
  <2>2. [at |-> 1, done |-> <<"/">>].at > Len(<<>>)
    OBVIOUS
  <2>3. Holds(<<>>)
    BY <2>1, <2>2, SegmentFirst
  <2>. HIDE DEF Holds
  <2>. QED BY <2>3
<1>2. ASSUME NEW r \in D, NEW c \in A!Symbols PROVE Append(r, c) \in D
  <2>1. r \in Seq(A!Symbols) /\ Append(r, c) \in Seq(A!Symbols) /\ Holds(r)
    OBVIOUS
  <2>. DEFINE s == SegmentLoop(p, r)
              t == A!NextSegment(p, s)
  <2>2. SegmentLoop(p, Append(r, c)) = t /\ s \in Segments(p)
    BY <2>1, SegmentIs
  <2>3. SegmentsDone(p, s) /\ (s.at > Len(r) \/ s.at = Len(p) + 1)
    BY <2>1
  <2>. HIDE DEF s
  <2>4. SegmentsDone(p, t) /\ (t.at > s.at \/ t.at = Len(p) + 1)
    BY <2>2, <2>3, SegmentStep
  <2>. HIDE DEF t
  <2>5. t.at \in 1..(Len(p) + 1) /\ s.at \in 1..(Len(p) + 1) /\ Len(p) \in Nat
    BY <2>3, <2>4 DEF SegmentsDone, Texts
  <2>6. Len(Append(r, c)) = Len(r) + 1 /\ Len(r) \in Nat
    BY <2>1
  <2>7. t.at > Len(Append(r, c)) \/ t.at = Len(p) + 1
    BY <2>3, <2>4, <2>5, <2>6
  <2>8. Holds(Append(r, c))
    BY <2>2, <2>4, <2>7
  <2>. HIDE DEF Holds
  <2>. QED BY <2>1, <2>8
<1>3. D = Seq(A!Symbols)
  <2>1. D \in SUBSET Seq(A!Symbols)
    OBVIOUS
  <2>. HIDE DEF D
  <2>. QED BY <1>1, <1>2, <2>1, Sequences
<1>. QED BY <1>3 DEF Texts

\* rm -r gets the path with single slashes.
LEMMA SegmentsGo ==
  ASSUME A!PathsAssumption, PathsInv
  PROVE  A!SlashesOnly
<1>. SUFFICES ASSUME A!Absolute(path)
              PROVE  LET p == A!_vfs_prepare_path(path)
                     IN /\ A!Components(p) = A!Components(path)
                        /\ A!Last(p) = "/" <=> A!Last(path) = "/"
                        /\ A!NoDouble(p)
  BY DEF A!SlashesOnly
<1>. DEFINE s == SegmentLoop(path, path)
            dir == A!Components(path)
<1>1. path \in Texts /\ Len(path) \in Nat
  BY DEF PathsInv, Texts
<1>2. A!_vfs_prepare_path(path) = s.done
  BY DEF A!_vfs_prepare_path, SegmentLoop
<1>3. SegmentsDone(path, s) /\ (s.at > Len(path) \/ s.at = Len(path) + 1)
  BY <1>1, SegmentInvariant
<1>. HIDE DEF s
<1>4. s.at = Len(path) + 1
  BY <1>1, <1>3 DEF SegmentsDone
<1>5. A!Components(Passed(path, s.at)) = dir
  <2>1. 1 \in 1..(Len(path) + 1)
    BY <1>1
  <2>. QED BY <1>1, <1>4, <2>1, ReadType
<1>. HIDE DEF dir
<1>6. \/ A!Last(path) = "/" /\ s.done = A!Joined(dir) \o <<"/">>
      \/ A!Last(path) # "/" /\ dir # <<>> /\ s.done = A!Joined(dir)
  BY <1>3, <1>4, <1>5 DEF SegmentsDone
<1>7. dir \in WordLists
  BY <1>1, FieldParts DEF dir
<1>8. A!Joined(dir) \in Texts /\ (dir # <<>> => A!Last(A!Joined(dir)) # "/")
  BY <1>7, JoinedShape
<1>9. A!Last(A!Joined(dir) \o <<"/">>) = "/"
  BY <1>8, SlashLast
<1>10. A!Components(s.done) = dir /\ A!NoDouble(s.done)
  BY <1>6, <1>7, JoinedMeans, NoDoubleJoined
<1>11. A!Last(s.done) = "/" <=> A!Last(path) = "/"
  <2>1. CASE A!Last(path) = "/"
    <3>1. s.done = A!Joined(dir) \o <<"/">>
      BY <1>6, <2>1
    <3>. QED BY <1>9, <2>1, <3>1
  <2>2. CASE A!Last(path) # "/"
    <3>1. dir # <<>> /\ s.done = A!Joined(dir)
      BY <1>6, <2>2
    <3>. QED BY <1>8, <2>2, <3>1
  <2>. QED BY <2>1, <2>2
<1>. QED BY <1>2, <1>10, <1>11 DEF dir

-----------------------------------------------------------------------------
(* vfs_normalize_path.                                                     *)

\* One list of names is the beginning of another.
Begins(a, b) == Len(a) <= Len(b) /\ \A i \in 1..Len(a) : a[i] = b[i]

LEMMA BeginsFill ==
  ASSUME NEW a \in WordLists, NEW b \in WordLists, NEW f \in Names, Begins(a, b)
  PROVE  Begins(a, Fill(b, f)) /\ Begins(a, a)
<1>1. Len(a) \in Nat /\ Len(b) \in Nat /\ Len(a) <= Len(b)
  BY DEF WordLists, Begins
<1>2. CASE f = <<>>
  BY <1>1, <1>2 DEF Fill, Begins
<1>3. CASE f # <<>>
  <2>1. f \in Words /\ Fill(b, f) = Append(b, f)
    BY <1>3 DEF Fill, Words
  <2>2. Len(Append(b, f)) = Len(b) + 1 /\ \A i \in 1..Len(b) : Append(b, f)[i] = b[i]
    BY <2>1 DEF WordLists
  <2>3. \A i \in 1..Len(a) : i \in 1..Len(b)
    BY <1>1
  <2>. QED BY <1>1, <2>1, <2>2, <2>3 DEF Begins
<1>. QED BY <1>2, <1>3

\* The names in front of a slash are the first names of the path.
LEMMA BeginsDone ==
  ASSUME NEW p \in Texts, NEW r \in Texts, r # <<>>, r[1] = "/"
  PROVE  p \o r \in Texts /\ Begins(A!Components(p), A!Components(p \o r))
<1>. DEFINE Holds(q) == /\ p \o q \in Texts
                        /\ q = <<>> => p \o q = p
                        /\ q # <<>> /\ q[1] = "/" => Begins(A!Components(p), NamesPast(p \o q))
            D == {q \in Seq(A!Symbols) : Holds(q)}
<1>1. <<>> \in D
  <2>1. p \o <<>> = p
    BY ConcatEmptySeq DEF Texts
  <2>2. <<>> \in Seq(A!Symbols)
    OBVIOUS
  <2>3. Holds(<<>>)
    BY <2>1
  <2>. HIDE DEF Holds
  <2>. QED BY <2>2, <2>3
<1>2. ASSUME NEW q \in D, NEW c \in A!Symbols PROVE Append(q, c) \in D
  <2>1. q \in Seq(A!Symbols) /\ Append(q, c) \in Seq(A!Symbols) /\ Holds(q)
    OBVIOUS
  <2>2. p \o Append(q, c) = Append(p \o q, c)
    BY <2>1, AppendConcat DEF Texts
  <2>3. Append(p \o q, c) \in Texts /\ p \o q \in Texts
    BY <2>1 DEF Texts
  <2>4. Append(q, c) # <<>>
    <3>1. Len(Append(q, c)) = Len(q) + 1 /\ Len(q) \in Nat
      BY <2>1
    <3>2. Len(Append(q, c)) # 0
      BY <3>1
    <3>. QED BY <3>2
  <2>5. ASSUME Append(q, c)[1] = "/" PROVE Begins(A!Components(p), NamesPast(Append(p \o q, c)))
    <3>1. CASE q = <<>>
      <4>1. Append(<<>>, c)[1] = c
        OBVIOUS
      <4>2. c = "/" /\ p \o q = p
        BY <2>1, <2>5, <3>1, <4>1
      <4>3. NamesPast(Append(p \o q, c)) = A!Components(p)
        BY <4>2, SlashRead
      <4>. QED BY <4>3, FieldParts DEF Begins, WordLists
    <3>2. CASE q # <<>>
      <4>1. Len(q) # 0 /\ Len(q) \in Nat
        BY <2>1, <3>2
      <4>2. Append(q, c)[1] = q[1]
        BY <2>1, <4>1
      <4>3. Begins(A!Components(p), NamesPast(p \o q))
        BY <2>1, <2>5, <3>2, <4>2
      <4>4. CASE c = "/"
        <5>1. /\ A!Components(p) \in WordLists /\ NamesPast(p \o q) \in WordLists /\ Cur(p \o q) \in Names
              /\ A!Components(p \o q) = Fill(NamesPast(p \o q), Cur(p \o q))
          BY <2>3, FieldParts
        <5>2. Begins(A!Components(p), A!Components(p \o q))
          BY <4>3, <5>1, BeginsFill
        <5>3. NamesPast(Append(p \o q, "/")) = A!Components(p \o q)
          BY <2>3, SlashRead
        <5>. QED BY <4>4, <5>2, <5>3
      <4>5. CASE c # "/"
        BY <2>3, <4>3, <4>5, CharRead
      <4>. QED BY <4>4, <4>5
    <3>. QED BY <3>1, <3>2
  <2>6. Holds(Append(q, c))
    BY <2>2, <2>3, <2>4, <2>5
  <2>. HIDE DEF Holds
  <2>. QED BY <2>1, <2>6
<1>3. D = Seq(A!Symbols)
  <2>1. D \in SUBSET Seq(A!Symbols)
    OBVIOUS
  <2>. HIDE DEF D
  <2>. QED BY <1>1, <1>2, <2>1, Sequences
<1>4. p \o r \in Texts /\ Begins(A!Components(p), NamesPast(p \o r))
  BY <1>3 DEF Texts
<1>5. /\ A!Components(p) \in WordLists /\ NamesPast(p \o r) \in WordLists /\ Cur(p \o r) \in Names
      /\ A!Components(p \o r) = Fill(NamesPast(p \o r), Cur(p \o r))
  BY <1>4, FieldParts
<1>. QED BY <1>4, <1>5, BeginsFill

LEMMA BeginsRead ==
  ASSUME A!PathsAssumption, NEW p \in Texts, NEW at \in 1..(Len(p) + 1), A!Ends(p, at)
  PROVE  Begins(A!Components(Passed(p, at)), A!Components(p))
<1>1. p \in Seq(A!Symbols) /\ Len(p) \in Nat
  BY DEF Texts
<1>2. CASE at = Len(p) + 1
  <2>1. Passed(p, at) = p
    BY <1>2, ReadType
  <2>2. A!Components(p) \in WordLists
    BY FieldParts
  <2>. QED BY <2>1, <2>2 DEF Begins, WordLists
<1>3. CASE at # Len(p) + 1
  <2>. DEFINE m == at - 1
              n == Len(p)
              r == SubSeq(p, m + 1, n)
              q == SubSeq(p, 1, m)
  <2>1. /\ m \in Nat /\ n \in Nat /\ m <= n /\ n <= Len(p) /\ m + 1 = at /\ n - m > 0
        /\ at \in 1..Len(p) /\ 1 \in 1..(n - m) /\ m + 1 = at /\ m <= Len(p)
    BY <1>1, <1>3
  <2>. HIDE DEF m, n
  <2>2. /\ SubSeq(p, 1, n) = q \o r /\ r \in Seq(A!Symbols) /\ Len(r) = n - m
        /\ \A i \in 1..(n - m) : r[i] = p[m + i]
    BY <1>1, <2>1, PartOf
  <2>3. SubSeq(p, 1, n) = p
    BY <1>1, SubSeqFull DEF n
  <2>4. r[1] = "/"
    <3>. HIDE DEF r, q
    <3>0. r[1] = p[m + 1]
      BY <2>1, <2>2
    <3>1. r[1] = p[at]
      BY <2>1, <3>0
    <3>. QED BY <2>1, <3>1, AtIs
  <2>5. r # <<>>
    <3>. HIDE DEF r
    <3>1. Len(r) # 0
      BY <2>1, <2>2
    <3>. QED BY <3>1
  <2>6. q \in Seq(A!Symbols)
    BY <1>1, <2>1
  <2>. HIDE DEF q, r
  <2>7. Begins(A!Components(q), A!Components(q \o r))
    BY <2>2, <2>4, <2>5, <2>6, BeginsDone DEF Texts
  <2>8. Passed(p, at) = q
    BY <2>1 DEF Passed, q, m
  <2>. QED BY <2>2, <2>3, <2>7, <2>8
<1>. QED BY <1>2, <1>3

\* Whether the names of a list lead out of the root, which one more may do.
ClimbsIn(ns) == \E n \in DOMAIN ns : ns[n] = A!DotDot /\ A!Reached(SubSeq(ns, 1, n - 1)) = <<>>

LEMMA SameFront ==
  ASSUME NEW T, NEW a \in Seq(T), NEW b \in Seq(T), Begins(a, b), NEW n \in 0..Len(a)
  PROVE  SubSeq(a, 1, n) = SubSeq(b, 1, n)
<1>1. Len(a) \in Nat /\ Len(b) \in Nat /\ Len(a) <= Len(b) /\ \A i \in 1..Len(a) : a[i] = b[i]
  BY DEF Begins
<1>2. /\ SubSeq(a, 1, n) \in Seq(T) /\ Len(SubSeq(a, 1, n)) = n
      /\ \A i \in 1..n : SubSeq(a, 1, n)[i] = a[i]
  BY <1>1
<1>3. /\ SubSeq(b, 1, n) \in Seq(T) /\ Len(SubSeq(b, 1, n)) = n
      /\ \A i \in 1..n : SubSeq(b, 1, n)[i] = b[i]
  BY <1>1
<1>4. \A i \in 1..n : i \in 1..Len(a)
  BY <1>1
<1>. HIDE DEF Begins
<1>5. \A i \in 1..Len(SubSeq(a, 1, n)) : SubSeq(a, 1, n)[i] = SubSeq(b, 1, n)[i]
  BY <1>1, <1>2, <1>3, <1>4
<1>. QED BY <1>2, <1>3, <1>5, SeqEqual

LEMMA ClimbsBegins ==
  ASSUME NEW a \in WordLists, NEW b \in WordLists, Begins(a, b), ClimbsIn(a)
  PROVE  ClimbsIn(b)
<1>1. /\ a \in Seq(Words) /\ b \in Seq(Words) /\ Len(a) \in Nat /\ Len(b) \in Nat
      /\ DOMAIN a = 1..Len(a) /\ DOMAIN b = 1..Len(b)
  BY DEF WordLists
<1>2. PICK n \in DOMAIN a : a[n] = A!DotDot /\ A!Reached(SubSeq(a, 1, n - 1)) = <<>>
  BY DEF ClimbsIn
<1>3. n \in 1..Len(a) /\ n \in DOMAIN b /\ n - 1 \in 0..Len(a)
  BY <1>1, <1>2 DEF Begins
<1>4. b[n] = a[n]
  BY <1>3 DEF Begins
<1>5. SubSeq(a, 1, n - 1) = SubSeq(b, 1, n - 1)
  BY <1>1, <1>3, SameFront
<1>. QED BY <1>2, <1>3, <1>4, <1>5 DEF ClimbsIn

LEMMA ClimbsAppend ==
  ASSUME NEW ns \in WordLists, NEW f \in Words
  PROVE  ClimbsIn(Append(ns, f)) <=> ClimbsIn(ns) \/ (f = A!DotDot /\ A!Reached(ns) = <<>>)
<1>. DEFINE b == Append(ns, f)
            m == Len(ns) + 1
<1>1. /\ ns \in Seq(Words) /\ Len(ns) \in Nat /\ b \in Seq(Words) /\ Len(b) = m /\ m \in Nat
      /\ DOMAIN b = 1..m /\ b[m] = f /\ \A i \in 1..Len(ns) : b[i] = ns[i]
  BY DEF WordLists
<1>2. Begins(ns, b)
  BY <1>1 DEF Begins
<1>3. SubSeq(b, 1, m - 1) = ns
  <2>1. m - 1 = Len(ns) /\ Len(ns) \in 0..Len(ns)
    BY <1>1
  <2>2. SubSeq(ns, 1, Len(ns)) = SubSeq(b, 1, Len(ns))
    BY <1>1, <1>2, <2>1, SameFront
  <2>. QED BY <1>1, <2>1, <2>2, SubSeqFull
<1>. HIDE DEF b
<1>4. ClimbsIn(ns) => ClimbsIn(b)
  BY <1>1, <1>2, ClimbsBegins DEF WordLists
<1>5. f = A!DotDot /\ A!Reached(ns) = <<>> => ClimbsIn(b)
  <2>1. m \in DOMAIN b
    BY <1>1
  <2>. QED BY <1>1, <1>3, <2>1 DEF ClimbsIn
<1>6. ASSUME ClimbsIn(b) PROVE ClimbsIn(ns) \/ (f = A!DotDot /\ A!Reached(ns) = <<>>)
  <2>1. PICK n \in DOMAIN b : b[n] = A!DotDot /\ A!Reached(SubSeq(b, 1, n - 1)) = <<>>
    BY <1>6 DEF ClimbsIn
  <2>2. CASE n = m
    <3>1. b[m] = A!DotDot /\ A!Reached(SubSeq(b, 1, m - 1)) = <<>>
      BY <2>1, <2>2
    <3>. HIDE DEF m
    <3>. QED BY <1>1, <1>3, <3>1
  <2>3. CASE n # m
    <3>1. n \in 1..Len(ns) /\ n - 1 \in 0..Len(ns) /\ n \in DOMAIN ns
      BY <1>1, <2>1, <2>3
    <3>2. SubSeq(ns, 1, n - 1) = SubSeq(b, 1, n - 1) /\ ns[n] = b[n]
      BY <1>1, <1>2, <3>1, SameFront
    <3>3. ClimbsIn(ns)
      BY <2>1, <3>1, <3>2 DEF ClimbsIn
    <3>. QED BY <3>3
  <2>. QED BY <2>2, <2>3
<1>. QED BY <1>4, <1>5, <1>6 DEF b

\* Up leaves the last directory that is written.
LEMMA UpJoined ==
  ASSUME NEW dir \in WordLists, dir # <<>>
  PROVE  /\ A!Front(dir) \in WordLists /\ Len(A!Front(dir)) = Len(dir) - 1
         /\ A!Up(A!Joined(dir)) = A!Joined(A!Front(dir))
         /\ Len(A!Joined(A!Front(dir))) < Len(A!Joined(dir))
<1>. DEFINE g == A!Front(dir)
            f == A!Last(dir)
            v == A!Joined(g)
            y == v \o <<"/">> \o f
            n == Len(v) + 1
            s == {0} \cup {k \in DOMAIN y : y[k] = "/"}
<1>1. g \in WordLists /\ f \in Words /\ dir = Append(g, f) /\ Len(g) = Len(dir) - 1
  BY FrontLast DEF WordLists
<1>. HIDE DEF g, f
<1>2. v \in Texts /\ A!Joined(dir) = y
  BY <1>1, JoinedAppend
<1>3. Len(f) \in Nat /\ \A i \in 1..Len(f) : f[i] # "/"
  BY <1>1, WordShape
<1>. HIDE DEF v
<1>4. /\ y \in Texts /\ Len(y) = Len(v) + 1 + Len(f) /\ Len(v) \in Nat
      /\ (\A i \in 1..Len(v) : y[i] = v[i]) /\ y[Len(v) + 1] = "/"
      /\ \A i \in 1..Len(f) : y[Len(v) + 1 + i] = f[i]
  BY <1>1, <1>2, ConcatShape
<1>. HIDE DEF y
<1>5. DOMAIN y = 1..Len(y)
  BY <1>4 DEF Texts
<1>6. n \in s /\ s \in SUBSET Int /\ n \in Int
  BY <1>3, <1>4, <1>5
<1>7. ASSUME NEW k \in s PROVE k <= n
  <2>1. CASE k = 0
    BY <1>4, <2>1
  <2>2. CASE k # 0
    <3>1. k \in 1..Len(y) /\ y[k] = "/"
      BY <1>5, <2>2
    <3>2. ASSUME ~(k <= n) PROVE FALSE
      <4>. DEFINE i == k - n
      <4>1. i \in 1..Len(f) /\ Len(v) + 1 + i = k
        BY <1>3, <1>4, <3>1, <3>2
      <4>. HIDE DEF i
      <4>2. y[Len(v) + 1 + i] = f[i] /\ f[i] # "/"
        BY <1>3, <1>4, <4>1
      <4>. QED BY <3>1, <4>1, <4>2
    <3>. QED BY <3>2
  <2>. QED BY <2>1, <2>2
<1>. HIDE DEF s
<1>8. A!Max(s) = n
  BY <1>6, <1>7, MaxIs
<1>9. A!Up(y) = SubSeq(y, 1, n - 1)
  BY <1>8 DEF A!Up, s
<1>10. SubSeq(y, 1, n - 1) = v
  <2>1. n - 1 = Len(v) /\ Len(v) <= Len(y) /\ y \in Seq(A!Symbols) /\ v \in Seq(A!Symbols)
    BY <1>2, <1>3, <1>4 DEF Texts
  <2>2. /\ SubSeq(y, 1, Len(v)) \in Seq(A!Symbols) /\ Len(SubSeq(y, 1, Len(v))) = Len(v)
        /\ \A i \in 1..Len(v) : SubSeq(y, 1, Len(v))[i] = y[i]
    BY <1>4, <2>1
  <2>3. SubSeq(y, 1, Len(v)) = v
    BY <1>4, <2>1, <2>2, SeqEqual
  <2>. QED BY <2>1, <2>3
<1>11. Len(v) < Len(y)
  BY <1>3, <1>4
<1>. QED BY <1>1, <1>2, <1>9, <1>10, <1>11 DEF g, v

\* The names of a path that begin with a dot are "." and "..".
Plain(p) == \A f \in A!Range(A!Components(p)) : f[1] = "." => f \in {A!Dot, A!DotDot}

\* In front of the position no name leaves the root, and the buffer holds where they lead;
\* or the path leaves the root and is refused.
Reads(p, s) ==
  LET q == Passed(p, s.at)
  IN /\ s.at \in 1..(Len(p) + 1) /\ A!Ends(p, s.at)
     /\ ~ClimbsIn(A!Components(q)) /\ s.n = Len(A!Meaning(q)) /\ Len(s.buf) <= s.at - 1
     /\ \/ s.buf = A!Joined(A!Meaning(q))
        \/ s.at = Len(p) + 1 /\ s.buf = A!Joined(A!Meaning(q)) \o <<"/">>

\* The invariant of the loop.
LoopOf(p, s) == (s = A!Refused(p) /\ ClimbsIn(A!Components(p))) \/ Reads(p, s)

LEMMA LoopFirst ==
  ASSUME A!PathsAssumption, NEW p \in Texts, A!Absolute(p)
  PROVE  Reads(p, [at |-> 1, buf |-> <<>>, n |-> 0])
<1>1. Len(p) \in Nat /\ Len(p) > 0 /\ p[1] = "/"
  BY DEF A!Absolute, Texts
<1>2. 1 \in 1..Len(p) /\ 1 \in 1..(Len(p) + 1)
  BY <1>1
<1>3. A!Ends(p, 1)
  BY <1>1, <1>2, AtIs
<1>4. A!Components(Passed(p, 1)) = <<>>
  BY <1>2, ReadType, Nothing
<1>5. A!Meaning(Passed(p, 1)) = <<>>
  BY <1>4, ReachedIs DEF A!Meaning
<1>6. A!Joined(<<>>) = <<>>
  BY JoinedIs
<1>7. ~ClimbsIn(<<>>) /\ Len(<<>>) = 0
  BY DEF ClimbsIn
<1>. QED BY <1>2, <1>3, <1>4, <1>5, <1>6, <1>7 DEF Reads

\* The names up to a position are the first names of the path.
LEMMA NameInPath ==
  ASSUME A!PathsAssumption, NEW p \in Texts, NEW e \in 1..(Len(p) + 1), A!Ends(p, e),
         NEW ns \in WordLists, NEW f \in Words, A!Components(Passed(p, e)) = Append(ns, f)
  PROVE  /\ f \in A!Range(A!Components(p))
         /\ ClimbsIn(Append(ns, f)) => ClimbsIn(A!Components(p))
<1>. DEFINE a == Append(ns, f)
            b == A!Components(p)
            m == Len(ns) + 1
<1>1. Begins(a, b) /\ b \in WordLists /\ a \in WordLists
  BY BeginsRead, ReadType, FieldParts
<1>2. Len(ns) \in Nat /\ Len(a) = m /\ a[m] = f
  BY DEF WordLists
<1>3. Len(b) \in Nat /\ DOMAIN b = 1..Len(b)
  BY <1>1 DEF WordLists
<1>. HIDE DEF a, b
<1>4. m \in DOMAIN b /\ b[m] = f
  BY <1>1, <1>2, <1>3 DEF Begins
<1>5. f \in A!Range(b)
  BY <1>4 DEF A!Range
<1>6. ClimbsIn(a) => ClimbsIn(b)
  BY <1>1, ClimbsBegins
<1>. QED BY <1>5, <1>6 DEF a, b

\* What an iteration makes of the name in front of e.
Takes(p, s, e, f, t) ==
  /\ f = <<>> => t = [at |-> Len(p) + 1, buf |-> Append(s.buf, "/"), n |-> s.n]
  /\ f = A!Dot => t = [at |-> e, buf |-> s.buf, n |-> s.n]
  /\ f = A!DotDot => t = IF s.buf = <<>> THEN A!Refused(p)
                       ELSE [at |-> e, buf |-> A!Up(s.buf), n |-> s.n - 1]
  /\ f # <<>> /\ f[1] # "." =>
       t = [at |-> e, buf |-> Append(s.buf, "/") \o f, n |-> s.n + 1] /\ Len(t.buf) <= e - 1

\* It reads the next name, or nothing behind the last slash.
LEMMA NextIs ==
  ASSUME A!PathsAssumption, NEW p \in Texts, NEW s \in Loops(p), NEW at \in 1..Len(p),
         s.at = at, p[at] = "/",
         NEW j, NEW e, NEW f, NEW q, WordAt(p, at, j, e, f, q), Len(s.buf) <= at - 1
  PROVE  Takes(p, s, e, f, A!NextComponent(p, s))
<1>. DEFINE t == A!NextComponent(p, s)
            k == IF A!At(p, j) = "." THEN j + 1 ELSE j
            o == A!NameEnd(p, k)
            b == Append(s.buf, "/") \o SubSeq(p, k, o - 1)
<1>1. /\ p \in Seq(A!Symbols) /\ Len(p) \in Nat /\ at \in Nat /\ at <= Len(p) /\ s.buf \in Marked
      /\ Len(s.buf) \in Nat
  BY DEF Texts, Loops, Marked
<1>2. /\ j \in (at + 1)..(Len(p) + 1) /\ e \in j..(Len(p) + 1) /\ A!Ends(p, e)
      /\ f \in Names /\ Len(f) = e - j /\ (f = <<>> <=> j = Len(p) + 1)
      /\ \A i \in 1..(e - j) : f[i] = p[j + i - 1]
  BY NextWord
<1>3. s = [at |-> at, buf |-> s.buf, n |-> s.n]
  BY DEF Loops
<1>4. A!At(p, at) # "end"
  BY AtIs
<1>5. j = A!PastSlashes(p, at) /\ e = A!NameEnd(p, j) /\ f = SubSeq(p, j, e - 1)
  BY DEF WordAt
<1>6. t = CASE A!At(p, at) = "end" -> s
            [] A!At(p, at) # "end" /\ k > j /\ A!Ends(p, k) -> [s EXCEPT !.at = k]
            [] A!At(p, at) # "end" /\ k > j /\ A!At(p, k) = "." /\ A!Ends(p, k + 1) ->
                 IF s.buf = <<>> THEN A!Refused(p)
                 ELSE [at |-> k + 1, buf |-> A!Up(s.buf), n |-> s.n - 1]
            [] OTHER ->
                 IF ~(Len(Append(s.buf, "/")) < Len(p) + 1) THEN A!Refused(p)
                 ELSE IF A!At(p, k) = "end" THEN [s EXCEPT !.at = k, !.buf = Append(@, "/")]
                 ELSE IF ~(Len(b) < Len(p) + 1) THEN A!Refused(p)
                 ELSE [at |-> o, buf |-> b, n |-> s.n + 1]
  BY <1>5 DEF A!NextComponent
<1>7. Len(Append(s.buf, "/")) = Len(s.buf) + 1 /\ Len(s.buf) + 1 < Len(p) + 1
  BY <1>1 DEF Marked
<1>. HIDE DEF t
<1>8. ASSUME f = <<>> PROVE t = [at |-> Len(p) + 1, buf |-> Append(s.buf, "/"), n |-> s.n]
  <2>1. j = Len(p) + 1 /\ A!At(p, j) = "end"
    BY <1>2, <1>8, AtEnd
  <2>2. k = j
    BY <2>1
  <2>. HIDE DEF k, b
  <2>3. ~(k > j) /\ A!At(p, k) = "end"
    BY <1>1, <2>1, <2>2
  <2>4. t = [s EXCEPT !.at = k, !.buf = Append(@, "/")]
    BY <1>4, <1>6, <1>7, <2>3
  <2>. QED BY <1>3, <2>1, <2>2, <2>4
<1>9. ASSUME f = A!Dot PROVE t = [at |-> e, buf |-> s.buf, n |-> s.n]
  <2>1. Len(f) = 1 /\ f[1] = "."
    BY <1>9 DEF A!Dot
  <2>2. e = j + 1 /\ j \in 1..Len(p) /\ p[j] = "."
    <3>0. /\ e - j = 1 /\ j \in (at + 1)..(Len(p) + 1) /\ e \in j..(Len(p) + 1) /\ Len(p) \in Nat
          /\ at \in Nat
      BY <1>1, <1>2, <2>1
    <3>3. j \in Nat /\ e \in Nat /\ e - j = 1 /\ e <= Len(p) + 1 /\ j >= 1 /\ Len(p) \in Nat
      BY <3>0
    <3>1. e = j + 1 /\ j \in 1..Len(p) /\ 1 \in 1..(e - j) /\ (j + 1) - 1 = j
      BY <3>3
    <3>. QED BY <1>2, <2>1, <3>1
  <2>3. k = j + 1
    BY <2>2, AtIs
  <2>. HIDE DEF k, b
  <2>4. k > j /\ A!Ends(p, k)
    BY <1>2, <2>2, <2>3
  <2>5. t = [s EXCEPT !.at = k]
    BY <1>4, <1>6, <2>4 DEF A!Ends
  <2>. QED BY <1>3, <2>2, <2>3, <2>5
<1>10. ASSUME f = A!DotDot
       PROVE  t =
                IF s.buf = <<>> THEN A!Refused(p) ELSE [at |-> e, buf |-> A!Up(s.buf), n |-> s.n - 1]
  <2>1. Len(f) = 2 /\ f[1] = "." /\ f[2] = "."
    BY <1>10 DEF A!DotDot
  <2>2. e = j + 2 /\ j \in 1..Len(p) /\ p[j] = "." /\ j + 1 \in 1..Len(p) /\ p[j + 1] = "."
    <3>0. /\ e - j = 2 /\ j \in (at + 1)..(Len(p) + 1) /\ e \in j..(Len(p) + 1) /\ Len(p) \in Nat
          /\ at \in Nat
      BY <1>1, <1>2, <2>1
    <3>3. j \in Nat /\ e \in Nat /\ e - j = 2 /\ e <= Len(p) + 1 /\ j >= 1 /\ Len(p) \in Nat
      BY <3>0
    <3>4. e = j + 2 /\ j \in 1..Len(p) /\ j + 1 \in 1..Len(p)
      BY <3>3
    <3>1. /\ e = j + 2 /\ j \in 1..Len(p) /\ 1 \in 1..(e - j) /\ 2 \in 1..(e - j)
          /\ (j + 1) - 1 = j /\ (j + 2) - 1 = j + 1 /\ j + 1 \in 1..Len(p)
      BY <3>3, <3>4
    <3>2. f[1] = p[j + 1 - 1] /\ f[2] = p[j + 2 - 1]
      BY <1>2, <3>1
    <3>. QED BY <2>1, <3>1, <3>2
  <2>3. k = j + 1
    BY <2>2, AtIs
  <2>. HIDE DEF k, b
  <2>4. k > j /\ A!At(p, k) = "." /\ ~A!Ends(p, k) /\ k + 1 = e
    <3>1. A!At(p, j + 1) = "." /\ ~A!Ends(p, j + 1)
      BY <2>2, AtIs
    <3>. QED BY <1>2, <2>2, <2>3, <3>1
  <2>5. A!Ends(p, k + 1)
    BY <1>2, <2>4
  <2>6. t =
          IF s.buf = <<>> THEN A!Refused(p) ELSE [at |-> k + 1, buf |-> A!Up(s.buf), n |-> s.n - 1]
    BY <1>4, <1>6, <2>4, <2>5
  <2>. QED BY <2>4, <2>6
<1>11. ASSUME f # <<>>, f[1] # "."
       PROVE  t = [at |-> e, buf |-> Append(s.buf, "/") \o f, n |-> s.n + 1] /\ Len(t.buf) <= e - 1
  <2>1. j \in 1..Len(p) /\ Len(f) > 0
    <3>1. j # Len(p) + 1
      BY <1>2, <1>11
    <3>2. Len(f) # 0
      BY <1>2, <1>11 DEF Names
    <3>3. Len(f) \in Nat
      BY <1>2 DEF Names
    <3>. QED BY <1>1, <1>2, <3>1, <3>2, <3>3
  <2>2. p[j] # "."
    <3>1. 1 \in 1..(e - j) /\ j + 1 - 1 = j
      BY <1>1, <1>2, <2>1
    <3>2. f[1] = p[j + 1 - 1]
      BY <1>2, <3>1
    <3>. QED BY <1>11, <3>1, <3>2
  <2>3. A!At(p, j) # "." /\ A!At(p, j) # "end"
    BY <2>1, <2>2, AtIs
  <2>4. k = j
    BY <2>3
  <2>5. o = e /\ b = Append(s.buf, "/") \o f
    BY <1>5, <2>4
  <2>. HIDE DEF k, b, o
  <2>6. ~(k > j)
    BY <1>2, <2>4
  <2>7. Len(b) = Len(s.buf) + 1 + Len(f)
    <3>1. f \in Marked /\ Append(s.buf, "/") \in Marked
      BY <1>1, <1>2 DEF Names, Marked, A!Symbols
    <3>2. Len(Append(s.buf, "/") \o f) = Len(Append(s.buf, "/")) + Len(f)
      BY <3>1, ConcatProperties DEF Marked
    <3>. QED BY <1>7, <2>5, <3>2
  <2>8. Len(b) <= e - 1 /\ Len(b) < Len(p) + 1
    BY <1>1, <1>2, <2>7
  <2>9. t = [at |-> o, buf |-> b, n |-> s.n + 1]
    BY <1>4, <1>6, <1>7, <2>3, <2>4, <2>6, <2>8
  <2>10. t.buf = b
    BY <2>9
  <2>. QED BY <2>5, <2>8, <2>9, <2>10
<1>12. Takes(p, s, e, f, t)
  BY <1>8, <1>9, <1>10, <1>11 DEF Takes
<1>. QED BY <1>12 DEF t

LEMMA EndStays ==
  ASSUME NEW p \in Texts, NEW s \in Loops(p), s.at = Len(p) + 1
  PROVE  A!NextComponent(p, s) = s
<1>1. A!At(p, s.at) = "end"
  BY AtEnd
<1>. QED BY <1>1 DEF A!NextComponent

\* Where the names in front of a position lead, and one name more.
LEMMA MeaningAppend ==
  ASSUME NEW q \in Texts, NEW r \in Texts, NEW f \in Names,
         A!Components(r) = Fill(A!Components(q), f)
  PROVE  /\ A!Meaning(q) \in WordLists /\ A!Meaning(r) \in WordLists
         /\ A!Meaning(q) = A!Reached(A!Components(q))
         /\ f = <<>> => A!Components(r) = A!Components(q) /\ A!Meaning(r) = A!Meaning(q)
         /\ f # <<>> => /\ f \in Words /\ A!Components(r) = Append(A!Components(q), f)
                        /\ A!Meaning(r) = A!Follow(A!Meaning(q), f)
<1>1. A!Components(q) \in WordLists /\ A!Components(r) \in WordLists
  BY FieldParts
<1>2. A!Meaning(q) = A!Reached(A!Components(q)) /\ A!Meaning(r) = A!Reached(A!Components(r))
  BY DEF A!Meaning
<1>3. A!Meaning(q) \in WordLists /\ A!Meaning(r) \in WordLists
  BY <1>1, <1>2, ReachedIs DEF WordLists
<1>4. f = <<>> => A!Components(r) = A!Components(q) /\ A!Meaning(r) = A!Meaning(q)
  BY <1>2 DEF Fill
<1>5. ASSUME f # <<>>
      PROVE  /\ f \in Words /\ A!Components(r) = Append(A!Components(q), f)
             /\ A!Meaning(r) = A!Follow(A!Meaning(q), f)
  <2>1. f \in Words /\ A!Components(r) = Append(A!Components(q), f)
    BY <1>5 DEF Fill, Words
  <2>2. A!Reached(Append(A!Components(q), f)) = A!Follow(A!Reached(A!Components(q)), f)
    BY <1>1, <2>1, ReachedIs DEF WordLists
  <2>. QED BY <1>2, <2>1, <2>2
<1>. QED BY <1>2, <1>3, <1>4, <1>5

\* An iteration keeps the invariant and goes on.
LEMMA ReadsStep ==
  ASSUME A!PathsAssumption, NEW p \in Texts, Plain(p), NEW s \in Loops(p), Reads(p, s),
         s.at # Len(p) + 1
  PROVE  LET t == A!NextComponent(p, s)
         IN LoopOf(p, t) /\ (t.at > s.at \/ t.at = Len(p) + 1)
<1>. DEFINE t == A!NextComponent(p, s)
            at == s.at
            q == SubSeq(p, 1, at - 1)
            j == A!PastSlashes(p, at)
            e == A!NameEnd(p, j)
            f == SubSeq(p, j, e - 1)
            r == SubSeq(p, 1, e - 1)
            ns == A!Components(q)
            dir == A!Meaning(q)
<1>1. /\ p \in Seq(A!Symbols) /\ Len(p) \in Nat /\ at \in 1..Len(p) /\ A!Ends(p, at)
      /\ ~ClimbsIn(ns) /\ s.n = Len(dir) /\ Len(s.buf) <= at - 1 /\ s.buf = A!Joined(dir)
  <2>1. p \in Seq(A!Symbols) /\ Len(p) \in Nat
    BY DEF Texts
  <2>. QED BY <2>1 DEF Reads, Passed
<1>2. p[at] = "/"
  BY <1>1, AtIs
<1>3. WordAt(p, at, j, e, f, q)
  BY DEF WordAt
<1>. HIDE DEF t, at, q, j, e, f, ns, dir
<1>4. /\ j \in (at + 1)..(Len(p) + 1) /\ e \in j..(Len(p) + 1) /\ A!Ends(p, e)
      /\ f \in Names /\ Len(f) = e - j /\ (f = <<>> <=> j = Len(p) + 1)
      /\ q \in Texts /\ r \in Texts /\ A!Components(r) = Fill(A!Components(q), f)
  BY <1>1, <1>2, <1>3, NextWord
<1>5. /\ f = <<>> => t = [at |-> Len(p) + 1, buf |-> Append(s.buf, "/"), n |-> s.n]
      /\ f = A!Dot => t = [at |-> e, buf |-> s.buf, n |-> s.n]
      /\ f = A!DotDot => t = IF s.buf = <<>> THEN A!Refused(p)
                           ELSE [at |-> e, buf |-> A!Up(s.buf), n |-> s.n - 1]
      /\ f # <<>> /\ f[1] # "." =>
           t = [at |-> e, buf |-> Append(s.buf, "/") \o f, n |-> s.n + 1] /\ Len(t.buf) <= e - 1
  <2>1. s.at = at
    BY DEF at
  <2>2. /\ at \in 1..Len(p) /\ s.at = at /\ p[at] = "/" /\ WordAt(p, at, j, e, f, q)
        /\ Len(s.buf) <= at - 1
    BY <1>1, <1>2, <1>3, <2>1
  <2>3. Takes(p, s, e, f, t)
    BY <2>2, NextIs DEF t
  <2>. QED BY <2>3 DEF Takes
<1>6. r = Passed(p, e)
  BY DEF Passed
<1>. HIDE DEF r
<1>7. e \in 1..(Len(p) + 1) /\ e > at
  BY <1>1, <1>4
<1>8. /\ dir \in WordLists /\ A!Meaning(r) \in WordLists /\ ns \in WordLists /\ dir = A!Reached(ns)
      /\ f = <<>> => A!Components(r) = ns /\ A!Meaning(r) = dir
      /\ f # <<>> => f \in Words /\ A!Components(r) =
           Append(ns, f) /\ A!Meaning(r) = A!Follow(dir, f)
  BY <1>4, MeaningAppend, FieldParts DEF ns, dir
<1>9. CASE f = <<>>
  <2>1. j = Len(p) + 1 /\ e = Len(p) + 1
    BY <1>1, <1>4, <1>9
  <2>2. t.at = e /\ t.n = s.n /\ t.buf = Append(s.buf, "/")
    BY <1>5, <1>9, <2>1
  <2>3. A!Joined(dir) \in Seq(A!Symbols) /\ "/" \in A!Symbols
    BY <1>8, JoinedShape DEF Texts, A!Symbols
  <2>4. /\ Append(s.buf, "/") = A!Joined(dir) \o <<"/">>
        /\ Len(Append(s.buf, "/")) = Len(s.buf) + 1 /\ Len(s.buf) \in Nat
    BY <1>1, <2>3, OneConcat
  <2>5. Len(t.buf) <= t.at - 1
    BY <1>1, <2>1, <2>2, <2>4
  <2>6. A!Components(r) = ns /\ A!Meaning(r) = dir
    BY <1>8, <1>9
  <2>7. Reads(p, t)
    BY <1>1, <1>4, <1>6, <1>7, <2>1, <2>2, <2>4, <2>5, <2>6 DEF Reads
  <2>. QED BY <1>7, <2>2, <2>7 DEF LoopOf, t, at
<1>10. CASE f # <<>>
  <2>1. /\ f \in Words /\ A!Components(r) = Append(ns, f) /\ A!Meaning(r) = A!Follow(dir, f)
    BY <1>8, <1>10
  <2>2. f \in A!Range(A!Components(p)) /\ (ClimbsIn(Append(ns, f)) => ClimbsIn(A!Components(p)))
    BY <1>4, <1>6, <1>7, <1>8, <2>1, NameInPath
  <2>3. ClimbsIn(Append(ns, f)) <=> f = A!DotDot /\ dir = <<>>
    BY <1>1, <1>8, <2>1, ClimbsAppend
  <2>4. CASE f = A!Dot
    <3>1. t.at = e /\ t.n = s.n /\ t.buf = s.buf
      BY <1>5, <2>4
    <3>2. A!Follow(dir, f) = dir /\ A!Dot # A!DotDot
      BY <2>4 DEF A!Follow, A!Dot, A!DotDot
    <3>3. Len(t.buf) <= t.at - 1
      <4>1. Len(s.buf) \in Nat
        BY DEF Loops, Marked
      <4>. QED BY <1>1, <1>7, <3>1, <4>1
    <3>4. A!Meaning(r) = dir /\ ~ClimbsIn(A!Components(r))
      BY <2>1, <2>3, <2>4, <3>2
    <3>5. Reads(p, t)
      BY <1>1, <1>4, <1>6, <1>7, <3>1, <3>3, <3>4 DEF Reads
    <3>. QED BY <1>7, <3>1, <3>5 DEF LoopOf, t, at
  <2>5. CASE f = A!DotDot
    <3>1. CASE dir = <<>>
      <4>1. s.buf = <<>>
        BY <1>1, <3>1, JoinedIs
      <4>2. t = A!Refused(p)
        BY <1>5, <2>5, <4>1
      <4>3. ClimbsIn(A!Components(p))
        BY <2>2, <2>3, <2>5, <3>1
      <4>4. t.at = Len(p) + 1
        BY <4>2 DEF A!Refused
      <4>. QED BY <4>2, <4>3, <4>4 DEF LoopOf, t
    <3>2. CASE dir # <<>>
      <4>1. s.buf # <<>> /\ s.buf \in Seq(A!Symbols)
        BY <1>1, <1>8, <3>2, JoinedShape DEF Texts
      <4>2. t.at = e /\ t.n = s.n - 1 /\ t.buf = A!Up(s.buf)
        BY <1>5, <2>5, <4>1
      <4>3. /\ A!Front(dir) \in WordLists /\ Len(A!Front(dir)) = Len(dir) - 1
            /\ A!Up(A!Joined(dir)) = A!Joined(A!Front(dir))
            /\ Len(A!Joined(A!Front(dir))) < Len(A!Joined(dir))
        BY <1>8, <3>2, UpJoined
      <4>4. A!Follow(dir, f) = A!Front(dir)
        BY <2>5 DEF A!Follow, A!Dot, A!DotDot, A!Front
      <4>5. A!Meaning(r) = A!Front(dir) /\ ~ClimbsIn(A!Components(r))
        BY <2>1, <2>3, <3>2, <4>4
      <4>6. A!Joined(A!Front(dir)) \in Seq(A!Symbols)
        BY <4>3, JoinedShape DEF Texts
      <4>7. Len(t.buf) <= t.at - 1
        <5>1. Len(s.buf) \in Nat /\ Len(t.buf) \in Nat /\ Len(t.buf) < Len(s.buf)
          BY <1>1, <4>1, <4>2, <4>3, <4>6
        <5>. QED BY <1>1, <1>7, <4>2, <5>1
      <4>8. Reads(p, t)
        BY <1>1, <1>4, <1>6, <1>7, <4>2, <4>3, <4>5, <4>7 DEF Reads
      <4>. QED BY <1>7, <4>2, <4>8 DEF LoopOf, t, at
    <3>. QED BY <3>1, <3>2
  <2>6. CASE f \notin {A!Dot, A!DotDot}
    <3>1. f[1] # "."
      BY <2>2, <2>6 DEF Plain
    <3>2. t.at = e /\ t.n = s.n + 1 /\ t.buf = Append(s.buf, "/") \o f /\ Len(t.buf) <= e - 1
      BY <1>5, <1>10, <3>1
    <3>3. A!Follow(dir, f) = Append(dir, f)
      BY <2>6 DEF A!Follow
    <3>4. /\ A!Joined(dir) \in Seq(A!Symbols) /\ "/" \in A!Symbols
          /\ A!Joined(Append(dir, f)) = A!Joined(dir) \o <<"/">> \o f
      BY <1>8, <2>1, JoinedAppend DEF Texts, A!Symbols
    <3>5. Append(s.buf, "/") = A!Joined(dir) \o <<"/">>
      BY <1>1, <3>4, OneConcat
    <3>6. Len(Append(dir, f)) = Len(dir) + 1
      BY <1>8, <2>1 DEF WordLists
    <3>7. t.buf = A!Joined(Append(dir, f))
      BY <3>2, <3>4, <3>5
    <3>8. A!Meaning(r) = Append(dir, f) /\ ~ClimbsIn(A!Components(r))
      BY <2>1, <2>3, <2>6, <3>3
    <3>9. Reads(p, t)
      BY <1>1, <1>4, <1>6, <1>7, <3>2, <3>6, <3>7, <3>8 DEF Reads
    <3>. QED BY <1>7, <3>2, <3>9 DEF LoopOf, t, at
  <2>. QED BY <2>4, <2>5, <2>6
<1>. QED BY <1>9, <1>10

\* Each reads a character at least, so that as many as characters reach the end.
LEMMA LoopInvariant ==
  ASSUME A!PathsAssumption, NEW p \in Texts, A!Absolute(p), Plain(p), NEW q \in Texts
  PROVE  LET t == ListLoop(p, q)
         IN LoopOf(p, t) /\ (t.at > Len(q) \/ t.at = Len(p) + 1)
<1>. DEFINE Holds(r) == LET t == ListLoop(p, r)
                        IN LoopOf(p, t) /\ (t.at > Len(r) \/ t.at = Len(p) + 1)
            D == {r \in Seq(A!Symbols) : Holds(r)}
<1>1. <<>> \in D
  <2>1. ListLoop(p, <<>>) = [at |-> 1, buf |-> <<>>, n |-> 0]
    BY ListLoopIs
  <2>2. [at |-> 1, buf |-> <<>>, n |-> 0].at > Len(<<>>)
    OBVIOUS
  <2>3. Holds(<<>>)
    BY <2>1, <2>2, LoopFirst DEF LoopOf
  <2>. HIDE DEF Holds
  <2>. QED BY <2>3
<1>2. ASSUME NEW r \in D, NEW c \in A!Symbols PROVE Append(r, c) \in D
  <2>1. r \in Seq(A!Symbols) /\ Append(r, c) \in Seq(A!Symbols) /\ Holds(r)
    OBVIOUS
  <2>. DEFINE s == ListLoop(p, r)
              t == A!NextComponent(p, s)
  <2>2. ListLoop(p, Append(r, c)) = t /\ s \in Loops(p)
    BY <2>1, ListLoopIs
  <2>3. LoopOf(p, s) /\ (s.at > Len(r) \/ s.at = Len(p) + 1)
    BY <2>1
  <2>. HIDE DEF s
  <2>4. t \in Loops(p)
    BY <2>2, LoopType
  <2>5. LoopOf(p, t) /\ (t.at > s.at \/ t.at = Len(p) + 1)
    <3>1. CASE s.at = Len(p) + 1
      <4>1. t = s
        BY <2>2, <3>1, EndStays
      <4>. HIDE DEF t
      <4>. QED BY <2>3, <3>1, <4>1
    <3>2. CASE s.at # Len(p) + 1
      <4>1. Reads(p, s)
        BY <2>3, <3>2 DEF LoopOf, A!Refused
      <4>. QED BY <2>2, <3>2, <4>1, ReadsStep
    <3>. QED BY <3>1, <3>2
  <2>. HIDE DEF t
  <2>6. t.at \in 1..(Len(p) + 1) /\ s.at \in 1..(Len(p) + 1) /\ Len(p) \in Nat
    BY <2>2, <2>4 DEF Loops, Texts
  <2>7. Len(Append(r, c)) = Len(r) + 1 /\ Len(r) \in Nat
    BY <2>1
  <2>8. t.at > Len(Append(r, c)) \/ t.at = Len(p) + 1
    BY <2>3, <2>5, <2>6, <2>7
  <2>9. Holds(Append(r, c))
    BY <2>2, <2>5, <2>8
  <2>. HIDE DEF Holds
  <2>. QED BY <2>1, <2>9
<1>3. D = Seq(A!Symbols)
  <2>1. D \in SUBSET Seq(A!Symbols)
    OBVIOUS
  <2>. HIDE DEF D
  <2>. QED BY <1>1, <1>2, <2>1, Sequences
<1>. QED BY <1>3 DEF Texts

\* ls and r get a path with the same meaning, or none if it leaves the root.
LEMMA ListGoes ==
  ASSUME A!PathsAssumption, PathsInv
  PROVE  A!ListMeant
<1>. DEFINE v == A!vfs_normalize_path(path)
            s == ListLoop(path, path)
            dir == A!Meaning(path)
<1>. SUFFICES ASSUME A!Absolute(path), Plain(path)
              PROVE  IF A!Climbs(path) THEN v.buf = A!Error
                     ELSE /\ A!Components(v.buf) = dir /\ A!NoDouble(v.buf)
                          /\ v.n = IF v.buf = <<"/">> THEN 1 ELSE Len(dir)
  BY DEF A!ListMeant, Plain
<1>1. path \in Texts /\ Len(path) \in Nat
  BY DEF PathsInv, Texts
<1>2. v.buf = s.buf /\ v.n = IF s.buf # A!Error /\ Len(s.buf) = 1 THEN 1 ELSE s.n
  BY DEF A!vfs_normalize_path, ListLoop
<1>3. LoopOf(path, s) /\ (s.at > Len(path) \/ s.at = Len(path) + 1)
  BY <1>1, LoopInvariant
<1>4. A!Climbs(path) <=> ClimbsIn(A!Components(path))
  BY DEF A!Climbs, ClimbsIn
<1>5. Passed(path, Len(path) + 1) = path
  <2>1. 1 \in 1..(Len(path) + 1)
    BY <1>1
  <2>. QED BY <1>1, <2>1, ReadType
<1>. HIDE DEF v, s
<1>6. CASE s = A!Refused(path) /\ ClimbsIn(A!Components(path))
  <2>1. v.buf = A!Error
    BY <1>2, <1>6 DEF A!Refused
  <2>. QED BY <1>4, <1>6, <2>1
<1>7. CASE Reads(path, s)
  <2>1. s.at = Len(path) + 1
    BY <1>1, <1>3, <1>7 DEF Reads
  <2>2. /\ ~ClimbsIn(A!Components(path)) /\ s.n = Len(dir)
        /\ s.buf = A!Joined(dir) \/ s.buf = A!Joined(dir) \o <<"/">>
    BY <1>5, <1>7, <2>1 DEF Reads
  <2>3. dir \in WordLists
    <3>1. A!Components(path) \in Seq(Words)
      BY <1>1, FieldParts DEF WordLists
    <3>. QED BY <3>1, ReachedIs DEF A!Meaning
  <2>. HIDE DEF dir
  <2>4. A!Joined(dir) \in Texts /\ A!Joined(<<>>) = <<>> /\ (dir # <<>> => Len(A!Joined(dir)) > 1)
    BY <2>3, JoinedShape
  <2>5. /\ A!Joined(dir) \o <<"/">> \in Texts
        /\ Len(A!Joined(dir) \o <<"/">>) = Len(A!Joined(dir)) + 1 /\ Len(A!Joined(dir)) \in Nat
    BY <2>4, SlashLast
  <2>6. A!Components(s.buf) = dir /\ A!NoDouble(s.buf)
    BY <2>2, <2>3, JoinedMeans, NoDoubleJoined
  <2>7. s.buf # A!Error
    <3>1. s.buf \in Seq(A!Symbols)
      BY <2>2, <2>4, <2>5 DEF Texts
    <3>2. "error" \notin A!Symbols
      BY DEF A!Symbols, A!PathsAssumption
    <3>3. ASSUME s.buf = A!Error PROVE FALSE
      <4>1. Len(s.buf) = 1 /\ s.buf[1] = "error"
        BY <3>3 DEF A!Error
      <4>2. s.buf[1] \in A!Symbols
        BY <3>1, <4>1
      <4>. QED BY <3>2, <4>1, <4>2
    <3>. QED BY <3>3
  <2>8. Len(s.buf) = 1 <=> s.buf = <<"/">>
    <3>1. s.buf = <<"/">> => Len(s.buf) = 1
      OBVIOUS
    <3>2. CASE s.buf = A!Joined(dir)
      <4>1. CASE dir = <<>>
        BY <2>4, <3>1, <3>2, <4>1
      <4>2. CASE dir # <<>>
        <5>2. Len(A!Joined(dir)) > 1 /\ Len(A!Joined(dir)) \in Nat
          BY <2>4, <2>5, <4>2
        <5>4. \A k \in Nat : k > 1 => k # 1
          OBVIOUS
        <5>3. Len(A!Joined(dir)) # 1
          BY <5>2, <5>4, Zenon
        <5>1. Len(s.buf) # 1
          BY <3>2, <5>3
        <5>. QED BY <3>1, <5>1
      <4>. QED BY <4>1, <4>2
    <3>3. CASE s.buf = A!Joined(dir) \o <<"/">>
      <4>1. CASE dir = <<>>
        <5>1. <<>> \o <<"/">> = <<"/">>
          <6>1. <<"/">> \in Seq({"/"})
            OBVIOUS
          <6>. QED BY <6>1, ConcatEmptySeq
        <5>. QED BY <2>4, <3>1, <3>3, <4>1, <5>1
      <4>2. CASE dir # <<>>
        BY <2>4, <2>5, <3>1, <3>3, <4>2
      <4>. QED BY <4>1, <4>2
    <3>. QED BY <2>2, <3>2, <3>3
  <2>9. v.n = IF v.buf = <<"/">> THEN 1 ELSE Len(dir)
    BY <1>2, <2>2, <2>7, <2>8
  <2>. QED BY <1>2, <1>4, <2>2, <2>6, <2>9
<1>. QED BY <1>3, <1>6, <1>7 DEF LoopOf

-----------------------------------------------------------------------------
(* The three functions, in every behaviour.                                *)

LEMMA PathsInvariance == DevicesSpec => [](which = "paths" => PathsInv)
<1>1. DevicesInit => (which = "paths" => PathsInv)
  BY DEF DevicesInit, InitPaths, A!Init, PathsInv, Texts
<1>2. ASSUME which = "paths", PathsInv, [DevicesNext]_<<which, vars, cliVars, pathVars>>
      PROVE  PathsInv'
  <2>1. CASE A!Enter
    BY <1>2, <2>1 DEF A!Enter, PathsInv, Texts
  <2>2. ASSUME NEW c \in A!Symbols, A!Type(c) PROVE PathsInv'
    BY <1>2, <2>2 DEF A!Type, PathsInv, Texts
  <2>3. CASE UNCHANGED pathVars
    BY <1>2, <2>3 DEF pathVars, PathsInv, Texts
  <2>. QED BY <1>2, <2>1, <2>2, <2>3
           DEF DevicesNext, StepMtd, StepCli, StepPaths, A!Next
<1>3. [DevicesNext]_<<which, vars, cliVars, pathVars>> => which' = which
  BY DEF DevicesNext, StepMtd, StepCli, StepPaths
<1>4. (which = "paths" => PathsInv) /\ [DevicesNext]_<<which, vars, cliVars, pathVars>>
        => (which = "paths" => PathsInv)'
  BY <1>2, <1>3
<1>. QED BY <1>1, <1>4, PTL DEF DevicesSpec

\* cwd.c, vfs.c, vfs_util.c: chdir, ls and r, and rm -r go where their path leads,
\* whatever dots and slashes it has: for paths and working directories of any length,
\* over any characters, and any limit on a name.
THEOREM PathsLead == DevicesSpec => []PathsMeant
<1>1. (which = "paths" => PathsInv) => PathsMeant
  BY DevicesAssumption, CwdGoes, ListGoes, SegmentsGo DEF PathsMeant
<1>. QED BY <1>1, PathsInvariance, PTL
=============================================================================
