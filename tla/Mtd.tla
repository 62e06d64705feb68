-------------------------------- MODULE Mtd --------------------------------
(***************************************************************************)
(* The memory device layer system/mtd/mtd.c over its one driver            *)
(* system/mtd/mtd_sdcard.c: reads and writes of any bytes, split into       *)
(* pages, over a card that reads and writes whole blocks.  A page is a      *)
(* block, and a sector is a page (mtd_sdcard_init).  Calls do not overlap   *)
(* (FatFs holds its volume mutex); each step is one command to the card,    *)
(* which may fail.                                                          *)
(***************************************************************************)
EXTENDS Integers

CONSTANTS
  N,            \* pages of the device
  P,            \* bytes of a page
  W,            \* 2^32: uint32_t arithmetic is modulo W
  Byte,         \* what a byte may hold
  Zero,         \* what an erased byte holds
  Ops,          \* the functions that are called
  Args,         \* the pages, offsets and addresses they are called with
  MaxLen        \* most bytes of a call

Pages == 0..(N - 1)
InPage == 0..(P - 1)
AllOps == {"read", "read_page", "write_page_raw", "write_page", "write_sector", "erase_sector"}

ASSUME MtdAssumption ==
  /\ N \in Nat \ {0} /\ P \in Nat \ {0, 1} /\ MaxLen \in Nat \ {0}
  \* The device has fewer pages than 2^32, and a buffer is no larger than the memory.
  /\ W \in Nat /\ W > N + P + MaxLen
  /\ Zero \in Byte
  /\ Ops \subseteq AllOps /\ Args \subseteq 0..(W - 1)

VARIABLES
  flash,        \* flash[p][i]: byte i of page p
  work,         \* the driver's and the layer's one work area
  buf,          \* the caller's buffer
  call,         \* the call and its arguments
  pc, ret,
  loop,         \* the loop over pages of mtd_read_page and mtd_write_page_raw
  sector,       \* the loop over sectors of mtd_write_page and of the erasure
  before        \* history: flash when the call began

vars == <<flash, work, buf, call, pc, ret, loop, sector, before>>

NoCall == [op |-> "none", page |-> 0, off |-> 0, len |-> 0]
NoLoop == [page |-> 0, off |-> 0, left |-> 0, at |-> 0, mem |-> "user"]
NoSector == [n |-> 0, off |-> 0, left |-> 0, at |-> 0]

\* The buffer of a caller that reads.
Fresh == [i \in 1..MaxLen |-> Zero]

Least(a, b) == IF a < b THEN a ELSE b

Return(r) == pc' = "done" /\ ret' = r

\* A loop over len bytes from an offset in a page; it moves from or to place at
\* of the caller's buffer or of the work area.
Loop(page, off, len, at, mem) ==
  [page |-> (page + off \div P) % W, off |-> off % P, left |-> len, at |-> at, mem |-> mem]

\* Does the driver move whole blocks straight from or to the buffer?
Whole(l) == l.off = 0 /\ l.left % P = 0

\* Has the card the blocks that the driver asks for next?  (The HAL and the card
\* refuse others.)
OnCard(l) == l.page + (IF Whole(l) THEN l.left \div P ELSE 1) <= N

\* The byte of the device that lies i bytes behind byte off of a page.
At(f, page, i) == f[page + i \div P][i % P]
-----------------------------------------------------------------------------
(* Plausible mistakes in the steps below. *)

\* The offset in the page is kept when the loop goes on to the next page.
MovedKeepsOffset(l, k) ==
  [page |-> l.page + 1, off |-> l.off, left |-> l.left - k, at |-> l.at + k, mem |-> l.mem]

\* The page behind the last one is let through.
out_of_bounds_late(page, off, len) == (page + ((off + len - 1) % W) \div P) % W > N

\* A write of less than a page does not read the page first.
DriverWriteNoRead(ok) ==
  LET k == Least(loop.left, P - loop.off)
      from(i) == IF loop.mem = "user" THEN buf[loop.at + i + 1] ELSE work[loop.at + i]
  IN /\ ok
     /\ work' = [i \in InPage |-> IF i \in loop.off..(loop.off + k - 1)
                                    THEN from(i - loop.off) ELSE work[i]]
     /\ flash' = [flash EXCEPT ![loop.page] = work']
-----------------------------------------------------------------------------
out_of_bounds(page, off, len) ==
  (page + ((off + len - 1) % W) \div P) % W >= N

\* The loop once the driver has moved k bytes.
Moved(l, k) == [Loop(l.page, l.off + k, l.left - k, l.at + k, l.mem) EXCEPT !.mem = l.mem]

\* How many bytes it moves: all of them, or what is left of the page.
Size(l) == IF Whole(l) THEN l.left ELSE Least(l.left, P - l.off)

-----------------------------------------------------------------------------
(* The driver: mtd_sdcard_read_page, mtd_sdcard_write_page.                *)

\* Less than whole blocks go through the work area, which then holds the page.
DriverRead(ok) ==
  LET k == Size(loop)
      byte(i) == At(flash, loop.page, loop.off + i)
  IN /\ ok => OnCard(loop)
     /\ work' = IF ok /\ ~Whole(loop) THEN flash[loop.page]
                ELSE IF ok /\ loop.mem = "work" THEN [i \in InPage |-> byte(i)] ELSE work
     /\ buf' = IF ok /\ loop.mem = "user"
                 THEN [i \in 1..MaxLen |-> IF i \in (loop.at + 1)..(loop.at + k)
                                             THEN byte(i - loop.at - 1) ELSE buf[i]]
                 ELSE buf

\* Less than a page is a read, a change in the work area and a write of the page.
\* A write of several blocks that fails may have written the first ones, but one that
\* is refused has not.
DriverWrite(ok) ==
  LET k == Size(loop)
      from(i) == IF loop.mem = "user" THEN buf[loop.at + i + 1] ELSE work[loop.at + i]
  IN IF Whole(loop)
     THEN /\ \E n \in 0..(k \div P) :
               /\ ok = (n = k \div P) /\ (OnCard(loop) \/ n = 0)
               /\ flash' = [p \in Pages |->
                    IF p \in loop.page..(loop.page + n - 1)
                      THEN [i \in InPage |-> from((p - loop.page) * P + i)] ELSE flash[p]]
          /\ UNCHANGED work
     ELSE \/ /\ ok /\ OnCard(loop)
             /\ work' = [i \in InPage |->
                  IF i \in loop.off..(loop.off + k - 1) THEN from(i - loop.off)
                  ELSE flash[loop.page][i]]
             /\ flash' = [flash EXCEPT ![loop.page] = work']
          \/ /\ ~ok
             /\ \/ UNCHANGED work
                \/ OnCard(loop) /\ work' = flash[loop.page]
             /\ UNCHANGED flash
-----------------------------------------------------------------------------
(* The calls.                                                              *)

\* Calls do not overlap.  mtd_read has no page, the calls for sectors no offset; that of
\* mtd_write_page "must be smaller than the page size" (mtd.h).
Legal(op, page, off) ==
  /\ pc = "idle"
  /\ op = "read" => page = 0
  /\ op = "write_page" => off < P
  /\ op \in {"write_sector", "erase_sector"} => off = 0

Accept(op, page, off, len, refused) ==
  /\ call' = [op |-> op, page |-> page, off |-> off, len |-> len]
  /\ before' = flash
  /\ loop' = IF op \in {"read", "read_page", "write_page_raw"}
               THEN Loop(page, off, len, 0, "user") ELSE NoLoop
  /\ sector' = [n |-> page, off |-> off, left |-> len, at |-> 0]
  /\ IF refused THEN Return("overflow")
     ELSE /\ pc' = CASE op \in {"read", "read_page"} -> "read"
                     [] op = "write_page_raw" -> "write"
                     [] op = "write_page" -> "sector"
                     [] op \in {"write_sector", "erase_sector"} -> "erase"
          /\ UNCHANGED ret
  /\ UNCHANGED <<flash, work>>

\* mtd_read (whose address is an offset from page 0), mtd_read_page,
\* mtd_write_page_raw and mtd_write_page.  Of a sector that the device does not have
\* the first page that mtd_write_page reads or writes is refused in its turn.
mtd_bytes(op, page, off, len, data) ==
  /\ Accept(op, page, off, len,
            out_of_bounds(page, off, len) \/ (op = "write_page" /\ page >= N))
  /\ buf' = data

\* mtd_write_sector and mtd_erase_sector: sector + count, and its wrap.
mtd_sectors(op, page, num, data) ==
  /\ Accept(op, page, 0, num * P, (page + num) % W > N \/ (page + num) % W < page)
  /\ buf' = data

\* A call for no bytes goes through no loop.  mtd_read asks the card all the same: for
\* the block around its address, or, at the start of a page, for no blocks, which
\* sdcard_read_blocks does not expect.  An erasure has cleared the work area; the
\* write behind it is checked on its own.
mtd_nothing(op, page, off) ==
  /\ call' = [op |-> op, page |-> page, off |-> off, len |-> 0]
  /\ before' = flash
  /\ LET erases == op \in {"write_sector", "erase_sector"}
         refused == IF erases THEN page > N ELSE out_of_bounds(page, off, 0)
     IN \/ /\ refused /\ Return("overflow") /\ UNCHANGED work
        \/ /\ ~refused /\ ~erases /\ op # "read"
           /\ Return("ok") /\ UNCHANGED work
        \/ /\ ~refused /\ op = "read" /\ off % P # 0
           /\ \/ Return("ok") /\ work' = flash[off \div P]
              \/ Return("eio") /\ UNCHANGED work
        \/ /\ ~refused /\ op = "read" /\ off % P = 0
           /\ pc' = "assert" /\ UNCHANGED <<ret, work>>
        \/ /\ ~refused /\ erases
           /\ Return(IF op = "write_sector" /\ out_of_bounds(page, 0, 0) THEN "overflow" ELSE "ok")
           /\ work' = [i \in InPage |-> Zero]
  /\ UNCHANGED <<flash, buf, loop, sector>>

\* The loop of mtd_read_page, and mtd_sdcard_read, which makes one round of it.
Read ==
  /\ pc = "read"
  /\ \/ /\ DriverRead(TRUE)
        /\ loop' = Moved(loop, Size(loop))
        /\ IF call.op = "read" THEN Return(IF loop'.left = 0 THEN "ok" ELSE "overflow")
           ELSE IF loop'.left > 0 THEN UNCHANGED <<pc, ret>>
           ELSE IF call.op = "write_page" THEN pc' = "erase" /\ UNCHANGED ret
           ELSE Return("ok")
     \/ /\ DriverRead(FALSE)
        /\ Return("eio")
        /\ UNCHANGED loop
  /\ UNCHANGED <<flash, call, sector, before>>

\* The loop of mtd_write_page_raw.
Write ==
  /\ pc = "write"
  /\ \/ /\ DriverWrite(TRUE)
        /\ loop' = Moved(loop, Size(loop))
        /\ IF loop'.left > 0 THEN UNCHANGED <<pc, ret, sector>>
           ELSE IF call.op = "write_page"
           THEN LET len == Least(sector.left, P - sector.off)
                IN /\ sector' = [n |-> sector.n + 1, off |-> 0, left |-> sector.left - len,
                                 at |-> sector.at + len]
                   /\ pc' = "sector" /\ UNCHANGED ret
           ELSE Return("ok") /\ UNCHANGED sector
     \/ /\ DriverWrite(FALSE)
        /\ Return("eio")
        /\ UNCHANGED <<loop, sector>>
  /\ UNCHANGED <<buf, call, before>>

\* The loop of mtd_sdcard_erase_sector over a zeroed work area.  Behind it come
\* mtd_write_page_raw, in _write_sector with the work area, which is given the
\* new bytes first.
Erase ==
  /\ pc = "erase"
  /\ LET zeroes == [i \in InPage |-> Zero]
         len == Least(sector.left, P - sector.off)
     IN \/ /\ flash' = [flash EXCEPT ![sector.n] = zeroes]
           /\ \/ /\ call.op = "write_page"
                 /\ work' = [i \in InPage |->
                      IF i \in sector.off..(sector.off + len - 1)
                        THEN buf[sector.at + i - sector.off + 1] ELSE zeroes[i]]
                 /\ loop' = Loop(sector.n, 0, P, 0, "work")
                 /\ pc' = "write" /\ UNCHANGED <<ret, sector>>
              \/ /\ call.op # "write_page"
                 /\ work' = zeroes
                 /\ sector' = [sector EXCEPT !.n = @ + 1, !.left = @ - P]
                 /\ IF sector'.left > 0 THEN UNCHANGED <<loop, pc, ret>>
                    ELSE IF call.op = "erase_sector" THEN Return("ok") /\ UNCHANGED loop
                    ELSE /\ loop' = Loop(call.page, 0, call.len, 0, "user")
                         /\ pc' = "write" /\ UNCHANGED ret
        \/ /\ work' = zeroes
           /\ Return("eio")
           /\ UNCHANGED <<flash, loop, sector>>
  /\ UNCHANGED <<buf, call, before>>

\* The loop of mtd_write_page: _write_sector writes a whole sector from the
\* caller's buffer, and reads it first if it writes less.
Sector ==
  /\ pc = "sector"
  /\ \/ /\ sector.left = 0
        /\ Return("ok") /\ UNCHANGED loop
     \/ /\ sector.left > 0
        /\ IF sector.off = 0 /\ sector.left >= P
           THEN loop' = Loop(sector.n, 0, P, sector.at, "user") /\ pc' = "write"
           ELSE loop' = Loop(sector.n, 0, P, 0, "work") /\ pc' = "read"
        /\ UNCHANGED ret
  /\ UNCHANGED <<flash, work, buf, call, sector, before>>

Finish == /\ pc = "done"
          /\ pc' = "idle" /\ ret' = "none" /\ call' = NoCall
          /\ loop' = NoLoop /\ sector' = NoSector
          /\ buf' = Fresh /\ before' = flash
          /\ UNCHANGED <<flash, work>>
-----------------------------------------------------------------------------
Init == /\ flash \in [Pages -> [InPage -> Byte]]
        /\ work = [i \in InPage |-> Zero] /\ buf = Fresh
        /\ call = NoCall /\ pc = "idle" /\ ret = "none"
        /\ loop = NoLoop /\ sector = NoSector
        /\ before = flash

\* What a caller has to write; the rest of its buffer does not matter.
Data(len) == {d \in [1..MaxLen -> Byte] : \A i \in (len + 1)..MaxLen : d[i] = Zero}

\* An assertion that fails stops the program.
Stopped == pc = "assert" /\ UNCHANGED vars

Next == \/ \E op \in Ops, page \in Args, off \in Args :
             /\ Legal(op, page, off)
             /\ \/ mtd_nothing(op, page, off)
                \/ \E len \in 1..MaxLen :
                     \/ op \in {"read", "read_page"} /\ mtd_bytes(op, page, off, len, Fresh)
                     \/ /\ op \in {"write_page_raw", "write_page"}
                        /\ \E data \in Data(len) : mtd_bytes(op, page, off, len, data)
                \/ \E num \in 1..(MaxLen \div P) :
                     \/ op = "erase_sector" /\ mtd_sectors(op, page, num, Fresh)
                     \/ /\ op = "write_sector"
                        /\ \E data \in Data(num * P) : mtd_sectors(op, page, num, data)
        \/ Read \/ Write \/ Erase \/ Sector \/ Finish \/ Stopped

Spec == Init /\ [][Next]_vars
-----------------------------------------------------------------------------
(* Properties.                                                             *)

\* The page at which a call begins, whose number has 32 bits: one that the offset
\* carries beyond them is at the beginning of the device.  The first byte of the call,
\* counted from the start of the device, and those that it is about.
First == (call.page + call.off \div P) % W
Start == First * P + (call.off % P)
Asked(i) == i \in Start..(Start + call.len - 1)
Linear(f, i) == f[i \div P][i % P]
Bytes == 0..(N * P - 1)

\* The types; and a loop never leaves the device, nor begins outside it: but for a
\* call whose last byte has an offset that wraps, and one that begins at the very last
\* page numbers and goes on at page 0.  Those out_of_bounds lets through, and the card
\* must refuse them (mtd.c:48).
TypeOK ==
  /\ flash \in [Pages -> [InPage -> Byte]] /\ work \in [InPage -> Byte]
  /\ buf \in [1..MaxLen -> Byte]
  /\ pc \in {"idle", "read", "write", "erase", "sector", "assert", "done"}
  /\ ret \in {"none", "ok", "eio", "overflow"}
  /\ loop.off \in InPage /\ loop.mem \in {"user", "work"}
  /\ pc \in {"read", "write"} =>
       \/ loop.page * P + loop.off + loop.left <= N * P
       \/ call.off + call.len > W
       \/ First > W - MaxLen
  /\ pc = "erase" => sector.n < N

\* mtd.h: a call that returns 0 has moved all its bytes, from or to where it was
\* told, on the device, whatever pages and offsets they lie at, those that wrap
\* included; and one is refused only for bytes outside the device, however many they
\* are, but mtd_read also if they cross a page, and a call for none (mtd.c:57).
Copied ==
  pc = "done" =>
    /\ ret = "ok" /\ call.len > 0 =>
         /\ Start + call.len <= N * P
         /\ call.op # "erase_sector" =>
              \A i \in 0..(call.len - 1) : Linear(flash, Start + i) = buf[i + 1]
    /\ ret = "overflow" =>
         \/ call.page * P + call.off + call.len > N * P
         \/ call.len = 0
         \/ call.op = "read" /\ (call.off % P) + call.len > P

\* No call but mtd_write_page changes a byte that it is not about, even one that
\* fails half way.
OthersKept ==
  pc # "idle" /\ call.op # "write_page" =>
    \A i \in Bytes : ~Asked(i) => Linear(flash, i) = Linear(before, i)
=============================================================================
