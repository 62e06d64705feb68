# A formal model of F469Platform

F469Platform is firmware for an STM32F469 board: FreeRTOS, a virtual file system
with FatFs on an SD card, a console over a UART with a command line, and a real
time clock. This directory holds TLA+ models of its parts, the TLC
configurations that check them, and TLAPS proofs about those that matter
most.
Paths below are relative to `src/`; `vfs.c:597` is line 597 of
`system/vfs/vfs.c`, and so on.

    tlc -config VfsMounting.cfg MCVfs.tla       # model-check one run
    tlapm Vfs_proofs.tla                        # check the proofs of a module

`PROJECT.json` lists the runs, the source lines behind every definition, the
mistakes ("mutants") that each property has been seen to catch, the hazards of
the code and the disagreements found.

## 1. Inventory

| Component | State it keeps | Operations | Used by |
|---|---|---|---|
| VFS (`system/vfs/vfs.c`) | circular list of mounts, a count of users in each, table of descriptors, two mutexes | mount, umount, open, close, opendir, closedir, unlink/mkdir/rmdir/stat/statvfs, rename, iterate over mounts | CLI commands, libc, `sdcard_monitor` |
| Circular list (`core/lib/include/clist.h`) | pointers | push, pop, rotate, find, remove | VFS |
| FatFs driver (`system/fs/fatfs`) | descriptor with one path buffer, volume mutexes | the VFS's driver calls, disk I/O | VFS, FatFs |
| FatFs (`middleware/fatfs`), vendored | file system object, volume and system mutex, table of shared files | mount, unmount, open, close, read, write, unlink | FatFs driver |
| MTD (`system/mtd`) | one work area of a page | read, write (raw, read-modify-write, sectors), erase | disk I/O layer |
| SD block driver (`system/sdcard/sdcard.c`) | HAL handle, two semaphores, streams, pins and clocks | init, deinit, read, write, erase blocks | MTD, monitor |
| SD monitor (`system/sdcard/sdcard_monitor.c`) | a task's `is_mounted`, task notification | card-detect interrupt, debounce, mount, unmount | |
| Standard I/O (`system/stdio`) | pools and queues of buffers and characters, stdin mutex, two tasks | `stdio_write`, `stdio_read`, UART interrupts | libc, CLI |
| CLI (`system/cli` over `middleware/embedded-cli`) | queue of characters, ring, flags, line, two tasks | receive, edit, run | |
| CLI commands (`system/cli/commands`) | files and directories while they run | r, cp, rm, mkdir, cd, ls, setdate, settime and others | CLI |
| VFS utilities (`system/vfs/vfs_util.c`) | one path buffer of a call | recursive removal, is-directory | `rm -r` |
| Working directory (`system/cwd`) | current path | chdir, getcwd, path arithmetic | CLI commands |
| RTC (`system/rtc`) | date registers, tick of the last second | set, get, wake-up interrupt, calendar arithmetic | CLI, FatFs time stamps |
| Clocks, DMA and pins (`core/rcc.c`, `system/dma`, `system/gpio`) | use counts of clocks, a mutex | enable, disable | start-up hook, drivers |
| libc glue (`system/libc`) | | file calls, `gettimeofday` | programs |
| USB host, statistics, panic, version | | | |

How they interact. A program call goes down: libc, VFS, FatFs driver, FatFs, disk
I/O, MTD, SD driver, HAL; each layer has its own lock or none (the VFS locks only
its list and its table, FatFs locks a volume, MTD and the SD driver rely on
FatFs). `sdcard_monitor` runs beside all that in its own task and takes the stack
apart from the top whenever the card-detect pin says so, always by force
(`sdcard_monitor.c:242`). The console goes through two tasks and two interrupt
handlers. The start-up order is in `application/rtos_hooks.c`; `Init` predicates
are the states it reaches.

What makes the code hard:

- preemptive tasks that share the mount list and the descriptor table, with some
  reads outside the mutexes;
- reference counts that every error path has to restore;
- a card that can be pulled at any moment, during a transfer or a mount;
- interrupts that answer after a timeout, notifications that overwrite each other;
- characters that arrive faster than they are taken;
- offsets in pages, 32-bit wrap-around, the calendar;
- set-ups of several steps of which one fails;
- clocks that count the same time twice (RTC seconds and scheduler ticks), dates
  and times that are read and written one after the other;
- paths tidied in place, directories removed while they are walked.

What makes each component correct is stated as the properties of its module,
below.

## 2. Modules

| Module | Models | Kind |
|---|---|---|
| `Clist` | the list's functions over pointers, stale ones included | operators |
| `ClistOps` | every sequence of list calls beside the sequence it stands for | state machine |
| `Vfs`, `MCVfs` | mounts, descriptors and directories under concurrent calls | state machine |
| `RefCount` | what `open_files` promises | abstract specification |
| `RefCount_proofs`, `Vfs_proofs` | theorems about the VFS | proofs |
| `SdcardMonitor` | card detection, debouncing, mounting and unmounting down the stack | state machine |
| `Sdcard` | block transfers with DMA, interrupts and timeouts | state machine |
| `Mtd` | bytes, pages and sectors over the card's blocks | state machine |
| `StdioTx`, `MCStdioTx` | console output | state machine |
| `StdioRx` | console input | state machine |
| `FatVolume`, `MCFatVolume` | the locks, mount identifiers and share table of a FatFs volume under concurrent calls, mounts and unmounts | state machine |
| `FatVolume_proofs` | theorems about it | proofs |
| `Clocks` | use counts of clocks, start-up and the card driver's partly failed set-ups | state machine |
| `FileCommands` | r, cp, rm, rm -r, mkdir, cd, ls on any small tree | state machine |
| `Paths` | the three functions that tidy a path, against what a path means | functions, over all paths that can be typed |
| `Cli` | the command line's two tasks | state machine |
| `RtcTime` | reading and setting the clock while it runs | state machine |
| `Calendar`, `MCCalendar` | calendar arithmetic, RTC date, FAT time stamps | functions, and a walk through the days |
| `MCParts` | `Clocks`, `ClistOps`, `Calendar`, `SdcardMonitor`, `FileCommands`, `RtcTime` side by side | model |
| `MCDevices` | `Mtd`, `Cli` and `Paths` side by side | model |
| `Parts_proofs` | theorems about `MCParts`: its clocks, list, monitor, commands, time and calendar | proofs |
| `Mtd_proofs` | theorems about `MCDevices`: the memory device, the command line and the tidying of paths | proofs |
| `Sdcard_proofs`, `StdioRx_proofs`, `StdioTx_proofs` | theorems about these | proofs |

`Vfs` takes the list from `Clist` (INSTANCE) and is shown to implement `RefCount`
through the mapping `Holder` (the slots that refer to a mount). `SdcardMonitor`
models mounting from the monitor down; `FatVolume`, `Mtd` and `Sdcard` model the
calls that travel through that stack once it stands, each with what the layer
above asks for and the failures of the layer below; `Clocks` models what the
block driver sets up and gives back beside the start-up hook. In `Vfs` a call of a
driver succeeds or fails, in `FatVolume` the disk does.

`MCParts` and `MCDevices` are no compositions: a behaviour chooses one part, which
runs while the others stay as they begin, so that one run of TLC checks several
small parts. Their properties are those of the parts under an antecedent that
names the part, some joined: `ListRight` is `Represents` and `FindsMembers` of
`ClistOps`, `CalendarRight` all of `Calendar`'s but `DateKept`.

### Vfs

A call is a sequence of steps; a step ends wherever another task running there
could be noticed. `pc[t]` is where task `t` is; `loc[t]` holds its locals, `req[t]`
the arguments of a mounter. `list` is the pointers of the mount list,
`open_files`, `fds` and the mutexes are the code's variables, `dir[t]` is the
`vfs_DIR` of a user, `file[t][f]` (history) which descriptors `t` was given.

| Code | Actions |
|---|---|
| `_find_mount` (1073) | `FindTake`, `FindFirst`, `FindLoop` (a turn of the loop), `FindEnd`, `FindGive` |
| `vfs_open`, `_allocate_fd`, `_init_fd` | `vfs_open`, `OpenTake`, `OpenScan`, `OpenClaim`, `OpenGive`, `OpenDriver` |
| `vfs_close`, `_free_fd` | `vfs_close`, `CloseDriver` |
| `vfs_opendir`, `vfs_closedir` | `vfs_opendir`, `OpenDir`, `vfs_closedir` |
| `vfs_unlink` ... `vfs_statvfs`, `vfs_rename` | `vfs_path_op`, `vfs_rename`, `DriverCall`, `Drop`, `Drop2` |
| `vfs_iterate_mount_dirs` | `vfs_iterate_mount_dirs`, `IterHold`, `IterClose`, `IterEnd` |
| `vfs_iterate_mounts` (937) | `IterNext`, `IterFirst`; `IterNext`, `IterTail`, `IterWrap`: a step for each pointer read |
| `vfs_mount`, `clist_rpush` | `vfs_mount`, `CheckTake`, `MountFind`, `MountDriver`, `MountPush`, `MountLink`, `MountTail`: a step for each pointer written |
| `vfs_umount` | `vfs_umount`, `CheckTake`, `UmountFind`, `UmountCount`, `UmountDriver`, `UmountRemove` |

A path is the set of mount points that are its prefixes; a file system driver
succeeds or fails. Left out: `vfs_format` beyond its lock, `vfs_bind` (boot only),
and read, write, lseek, fsync, fcntl and fstat, which change no state of the VFS;
a descriptor is used only by the task that opened it.

Who works under `_mount_mutex` is seen by nobody else there, so that a turn of a loop
is one step. `vfs_iterate_mounts` takes no mutex, so each of its reads is a step (the
end of the list, that node's next; or the next of the volume reported last, the end of
the list, that node's next), in the order of the source, and so is each of the writes of
`clist_rpush` that it may see. `due[t]` (history) is what an iteration still owes: the
volumes mounted when it began and mounted since. It is let go where the code cannot keep
its promise, when a push comes between the first two reads (section 4).

Runs:

- `vfs_mounting`: two users, a mounter that mounts; open, close, path
  calls and iterations. One descriptor, so that both users want it. Two volumes `root`
  and `sd` with directory operations are enough for one path to have two prefixes, for
  the list's order to matter, and for an iteration to report one volume and
  come back for the other while it is pushed, or after. A third volume, `dev`, has no
  directory operations, so `vfs_opendir` leaks a reference there (`vfs.c:445`):
  `RefsCounted` asks for an exact count on the others and for one that is not too low on
  `dev`. `Bound` keeps that count at 2 or below, and has `dev` mounted alone or not at
  all.
- `vfs_unmounting`: open, close, opendir, closedir and rename (with two references)
  against one volume that is mounted and unmounted, by
  force or not, at any moment: `RefCount` is implemented.
- `vfs_give` shows the mutex being taken from its holder (section 4). For that
  reason `ListExclusive`, and the properties that rest on the mutex
  (`LongestFound`, `IterationComplete`), are checked without unmounting.

Bounds: a count of users above two adds no new pair of steps; `ListExclusive` and
`FdKept` speak of pairs.

### SdcardMonitor

The pin, the task notification (its value and FreeRTOS's `ucNotifyState`), the
debounce and the steps of mounting and unmounting: `MountDriver`, `MountDisk`
(`mtd_init` and `sdcard_init`), `MountFat`, `MountPush`, `UnmountVfs`,
`UnmountDisk`, `UnmountFree`. Each variable of `stack` is what a step leaves for
the next: driver pointer, semaphores, SDIO, work area, the list of mounts. `io` is
another task's transfer; a transfer whose card is pulled stays in the HAL until
the controller's own timeout.

In the run `parts`: edges anywhere, mounts that fail, transfers cut off, DMA streams
that a transfer leaves busy (`jammed`). A listed volume always has a whole stack
under it (`ListedUsable`). When the task is scheduled (`MonitorTask` in
`PartsSpec`: the monitor has a task of its own and every wait in it has a timeout
but the one for an edge) and nothing makes the pin move, the mount follows the pin
(`Settles`), with four exceptions that the code has and the history variable
`excuse` names: the last edge came while the task was busy mounting or unmounting,
and was thrown away (`lost`); the last debounce timed out or the last mount failed
(`failed`); an unmount once failed in `sdcard_deinit` (`stuck`, for good).

Bounds: `Window` is 3 samples instead of 32, `Samples` 12 instead of 500 (a timeout
and a stable pin both happen), `MaxEdges` 8: three changes with bounces. Assumed: an edge of
the pin goes with the card losing its power. A card that is pulled and put back
within a debounce keeps its mount; nothing in the code promises otherwise.

### Sdcard

A caller (FatFs's volume mutex leaves one), the HAL's state and error code, the
DMA that moves a block at a time, the completion interrupt and the binary
semaphores; aligned buffers are the DMA's target, others go through a work area
from the heap. A read starts its stream before its command is sent, and a command
that fails leaves it waiting (`armed`; `HalFails`, `stm32f4xx_hal_sd.c:1263`), so that
later reads are refused; should the answer only have been lost, the data still arrives.
A write sends its command first and starts nothing when that fails (1344-1376): the
next write may succeed. Polling the card may time out with or without a transfer in
progress. `late` (history) says whether a transfer has outlasted its call.

- `sdcard`: what is reported as done is done (`Delivered`) and no transfer or
  semaphore is left behind (`Quiet`) until a transfer outlasts its call's timeout;
  every call returns whatever the card does (`CallReturns`). Fairness: only the
  caller's steps; its timeouts are among them. Two blocks, calls of one or two, two
  work areas.
- `sdcard_late`: without the exception `Delivered` fails (section 4).

Assumed: the HAL is ready before the card reports the transfer state. The 16-bit
truncation of the block count cannot occur with FatFs's requests and is left out.

### Mtd

`mtd_read`, `mtd_read_page`, `mtd_write_page_raw`, `mtd_write_page`,
`mtd_write_sector` and `mtd_erase_sector` over the card's blocks. A page, a sector
and a block are one size, as `mtd_sdcard_init` sets them. Arithmetic is modulo
`W` (2^32 in the code, 16 here). Three pages of two bytes; calls of up to 4 bytes with
pages and offsets inside the device, at its end and at the end of `uint32_t` (`Args`),
so that they cross one or two page borders, leave the device, and let the sums of
`out_of_bounds` wrap. Calls for no bytes are `mtd_nothing`. Every command to the
card may fail, also between the blocks of one write, and the card refuses blocks that it
does not have (`OnCard`).

In the run `devices`: a successful call has moved its bytes, on the device, and nothing
on the device is refused (`Copied`), but a call for no bytes (`mtd.c:57`) and what
`mtd_read` finds across a page. A loop leaves the device only in the calls that
`out_of_bounds` lets through because a sum wrapped (`TypeOK`), and none of those
succeeds. No byte that a call is not about changes, even when it fails half way
(`OthersKept`), but under `mtd_write_page`, whose erasure zeroes the copy it is to
modify. FatFs uses neither `mtd_read` nor `mtd_write_page`.

### StdioTx and StdioRx

`StdioTx`: writers take buffers from a pool, copy pieces (split at newlines, with
carriage returns), queue them; the gate-keeper has the DMA send them. `mem` is the
pool as one array, so that an over-long piece runs on into the next buffer. `Byte`
tags what is sent with its writer and place. The order of different writers'
pieces on the line is not promised and not checked. Two writers, two buffers of
two bytes (8 of 512 in the code), so that the pool runs empty.

- `stdio_tx`: all kinds of pieces. Always: no buffer is lost or in two places
  (`TypeOK`), what a successful call has queued is its whole text (`Written`, a part
  of `Line`), and every call returns unless the gate-keeper hangs (`CallReturns`). `odd`
  (history) records pieces longer than a buffer and empty pieces. Without the
  former the line carries each writer's text whole and in order (`Line`); without
  both, everything is sent and all buffers come back (`Drained`). Fairness: the
  gate-keeper, the highest priority user of the console, the DMA, and the writers while
  the gate-keeper comes back to its waits (`Scheduled`). Once it spins in
  `error_handler` (`stdio_uart.c:630`), at priority 4 above the writers' 2 on one core,
  they stand still, and so do their calls.

The timeout of the gate-keeper is twice the time of a full buffer, so it expires
only for longer pieces. Framing and noise errors end in the designed endless
loop and are left out.

`StdioRx`: USART data register and overrun flag, the HAL's interrupt handler (which
reads SR, then DR), the read task, its queue, stdin's mutex and queue, the CLI's
queue. Interrupt handlers run atomically with respect to tasks. `haste` (history)
says whether a character came on top of the last one (`fast`) or while the handler
ran (`race`). There is one listener, the CLI.

- `stdio_rx`: characters at any moment, two readers of stdin. Order is kept, nothing
  is doubled, the queue between handler and task never holds more than one, the
  task never hangs (`Ordered`). Overruns before the handler runs never stop reception
  (`Operating`); one that comes while it runs may. At typing speed, with nobody
  reading stdin, each character reaches the CLI (`Heard`; fairness: interrupts and
  tasks, none for the person typing). Five characters overrun the register and
  fill every queue.

### FatVolume

Users make calls on paths and on one open object each; the monitor mounts and
unmounts. `vol` and `sys` are the mutexes, `SysLock` the flag by which
`unlock_volume` decides to give the system mutex, `share` the table `Files[]`,
`handle[t]` what a user has open, with the mount identifier it was opened under.

| Code | Actions |
|---|---|
| calls on a path: `mount_volume` | `PathCall`, the locks, the work |
| calls on an object: `validate` | `HandleCall` |
| `lock_volume`, `unlock_volume` (`ff.c:895`) | one step for each mutex taken, timed out or given |
| `chk_share`, `enq_share`, `inc_share`, `dec_share`, `clear_share` | operators of those names, in the work of a call |
| `f_mount`, `f_unmount` | `f_mount`, `f_unmount` |

What a call does to the disk is one step that may fail; between looking at the
object (`validate`), the locks and the work other tasks run. `f_close` takes the
volume twice, as the code does. `f_mount` must not overlap another call of the
volume (`ffconf.h:294-297`); the monitor's forced unmount does. From there on
nothing is defined, and the behaviour ends with `torn` telling what was
overlapped: every property is about what happens before.

- `volume`: two users, two files and a directory, a table of two entries (so that it
  is full), two mounts (so that objects of the first are left over in the second),
  counts up to two; users and files are symmetric.
- `volume_torn`: section 4.

The driver's other errors cannot occur in a registered volume. With one volume the
system mutex is only ever taken by the holder of the volume; two volumes are not
modelled.

### Clocks

`core/rcc.c` counts the users of each clock under `periph_mutex`: `ReadCount` and
`WriteCount` are the two halves of a step, and `Running` is about the time between
tasks' steps. The start-up hook goes through `Startup` and creates the monitor's
task after `Early` of it; the monitor goes through `Sdio` up (`sdio_init`,
`InitCard`) and down (`sdio_deinit`, `Deinited`). PLLSAI may not lock, a stream may
be busy when it is set up or given back, the card may not answer; `up` says which
way a task goes, and a failed set-up is rolled back as far as the code does that.
`hal` is the HAL's state, by which a set-up is skipped. `sdio_deinit` may return at
once, everything still set up, while a transfer that timed out keeps the HAL busy
(`sdcard.c:409`). `partial` (history) says that the last set-up ended early:
`MountedClocked` asks for every use, clock and stream of a mounted card, but not for the
transmitting stream then (section 4).

The run `parts` has the real wiring: the pins of the board by their ports, the
UART, the streams and the two users of the 48 MHz clock in the real order.

### FileCommands

One command on some tree of directories and files: every tree over two names with
depth two, every argument, files of up to two work areas, up to two mounted volumes. `readdir`
returns the entries in any order; every call may fail, since the card can be
pulled. `rm -r` is the code's walk (`path_buf`, `seg`), which keeps no stack.
`open` is what a command has open, `before` the tree it began with. Fairness: the
command's own steps; the CLI task does nothing else.

`Returns` is the liveness of that walk: every round shortens or lengthens the path,
and only the tree's shrinking bounds it.

### Paths

`normalize_path` (`cwd.c`), `vfs_normalize_path` (`vfs.c`) and `_vfs_prepare_path`
(`vfs_util.c`) are operators on sequences of the characters `/`, `.` and a letter;
`Meaning` is the sequence of names a path leads through. Each loop of the code is a
fold: those of `cwd.c` over the characters (`ReadDots`, `ReadSlashes`), with what is
tidied so far and the flags; the other two from name to name (`NextComponent`,
`NextSegment`), as many times as there are characters, which is enough because each
round reads one at least. What follows the place in the work area is left out of the
state: cutting moves it without changing it.

In the run `devices` the state types every path of up to 8 characters in three working
directories (`PathsMeant`). A name and a limit of 8 characters cover dots, double dots
and slashes at both ends and beside each other, and results that are too long.

### Cli

`cli_io_read_task` puts characters into a ring (`Receive`, `Push`, `Advance`,
`SetOverflow`), `cli_process_task` takes them out (`Take`, `Pop`), edits the line
(`Edit`, `Escape`, `Escaped`), runs it (`Enter`, `Start`, `Run`, `Ran`) and
looks for an overflow (`Check`, `Discard`). The tasks have one priority and time
slicing is on, so a tick may separate any two accesses, those to the byte of flags
included. The ring has three places and two characters; the line has room for
two. What a character means to the editor is chosen when it is edited. Of the line
its size and cursor are kept; the history and the completion may replace it by any
line, and `INIT_COMPLETE` is left out. After an overflow the next character would
go before the buffer (`embedded_cli.h:907`); the model does not go on there.

In the run `devices`: the ring keeps and orders what it takes (`InOrder`), and the
cursor stays in the line until a character is lost (`CursorKept`).

### RtcTime

Every access to a register of the RTC or a variable of the wake-up interrupt is a
step. `latch` is the shadow of the date register that reading the time freezes;
`tick` is the scheduler's, `_tick_count_previous` what the interrupt last saw. The
wake-up timer runs on its own, not with the calendar's seconds. One reader and two
setters (one of them the reader), days of two seconds, so that midnight is near, two days, and `W16`
small enough to wrap.

In the run `parts`: `TimeRead` (`Instant` and `SecondTrue` of the module) and `Set`. What the milliseconds are within a
second is not promised (section 4).

### Calendar

`rtc_utils.c` as operators; the state walks through the Gregorian calendar a day
at a time and every property compares the code's functions with it. `hw` is the
date as the RTC counts it. The day is short in the run `parts` (4 x 4 x 3 seconds
for 60 x 60 x 24), because TLC's integers have 32 bits; nothing depends on the
length but the products, and the proof has days of any length. So `W` never wraps;
`uint32_t` would in 2106.

- `parts`: 800 days each from 1970, 1971-12-30, 1999-12-01, 2023-11-30 and
  2099-06-01, which covers common and leap years and both kinds of centuries.
- `calendar_rtc`: section 4.

### ClistOps

In the run `parts`: every sequence of calls over four nodes.

## 3. What the properties say

Each is stated above its definition with the lines it is about. The most telling:

- `MountsCounted`, `RefsCounted`: every mount's count is the number of files,
  directories and calls that use it, whatever is interleaved or fails.
- `FdKept`: a descriptor stays its opener's until it is closed.
- `LongestFound`, `IterationComplete`: path resolution and iteration against the
  set of mounted volumes.
- `ListedUsable`, `Settles`: the mount and the card.
- `Delivered`, `Quiet`, `Copied`, `OthersKept`: data arrives, and nowhere else.
- `Line`, `Drained`, `Ordered`, `Heard`, `Operating`: the console.
- `Locked`, `Shares`, `OpenKept`: every way out of a FatFs call frees what it locked,
  and the share table tells which files are open.
- `Balanced`, `Running`, `MountedClocked`: what is used is clocked, and a mounted card
  has what its driver needs, whatever failed (but for the stream of section 4).
- `PathsMeant` (`CwdMeant`, `ListMeant` and `SlashesOnly` of `Paths`): a tidied path
  means what it meant.
- `NothingOpen`, `CommandsMeant` (`Removed`, `OnlyNamed` and `CopiedWhole` of
  `FileCommands`), `Returns`: commands leave nothing open, do what they report, change
  only what they name, and come back.
- `InOrder`, `CursorKept`: the command line between its two tasks.
- `TimeRead`, `Set`: the time read and set while it passes.
- `CalendarRight`: seconds, days, weekdays and file times agree with the calendar.
- `ListRight`: the list's pointers are the sequence its callers believe in.

## 4. Where code and documentation disagree

Four runs end in a counterexample; `PROJECT.json` quotes the lines.

| Run | What the code does |
|---|---|
| `vfs_give` | `vfs_umount` gives the mount mutex that it no longer holds, taking it from another holder (`vfs.c:619`) |
| `sdcard_late` | a transfer that completes after its timeout satisfies the next call's wait (`sdcard.c:122`) |
| `calendar_rtc` | the RTC's leap years are not the calendar's (`rtc.c:42`) |
| `volume_torn` | removing the card deletes the volume's mutex while a call holds it (`sdcard_monitor.c:242`, `ff.c:3679`) |

Further exceptions, met while modelling. Each is in a model as the code has it; the
property that it would break states it as an exception, or leaves the case out.

| Where | What the code does |
|---|---|
| `vfs.c:597` | an unforced `vfs_umount` decides on `open_files` without the mutex, so a volume can leave the list under a call that has just counted itself (`vfs.h:1042` promises otherwise) |
| `vfs.c:445` | `vfs_opendir` keeps its count if the file system has no `d_op` |
| `vfs.c:941` | `vfs_iterate_mounts` reads the end of the list and then that node's next. Between the two another task may push: with `root` mounted it reads `root` as the end, `sd` is pushed behind it, the next of `root` is now `sd`, `sd` is reported as the first volume, and behind it comes the first one, `root`, where the iteration ends. `root` was mounted all the time and is never reported (`vfs.h:1171-1174` guarantees that it is). `IterationComplete` leaves out such iterations (`IterFirst`) |
| `vfs.c:1038` | every descriptor carries the task id meant for boot time, as no task has a number |
| `sdcard_monitor.c:242` | the volume that an iteration reports can be unmounted, by force (`vfs.h:1175`) |
| `sdcard_monitor.c:209` | an edge during mounting or unmounting is thrown away |
| `sdcard_monitor.c:250` | a failed `sdcard_deinit` leaves `is_mounted` set for good |
| `sdcard.c:252` | n + 1 blocks are erased |
| `mtd.c:237`, `mtd_sdcard.c:159` | the erasure in `mtd_write_page` zeroes the copy that is to be modified (`mtd.h:439`) |
| `mtd_sdcard.c:202` | `mtd_read` refuses what crosses a page (`mtd.h:344`) |
| `mtd.c:57` | a call for no bytes at offset 0 of page 0 is refused, as the last byte lies at -1; an offset whose last byte wraps, or a page number that does, is let through, and only the card refuses it |
| `mtd_sdcard.c:94`, `sdcard.c:94` | `mtd_read` of no bytes at the start of a page asks the driver for no blocks, and its assertion fails (`mtd.h:341` asks for no alignment) |
| `stdio_uart.c:664` | a piece longer than a buffer runs into other buffers |
| `stdio_uart.c:174` | a newline at the start of a longer text makes an empty piece, which halts the gate-keeper |
| `stdio_uart.c:624` | an overrun in the middle of the interrupt handler ends reception (`stdio_uart.c:614` promises otherwise) |
| `stdio_uart.c:282` | a character routed to a reader that leaves stays in stdin, and the next one blocks the read task |
| `fatfs_vfs.c:480` | file times come back with half their seconds |
| `fatfs_vfs.c:56` | one path buffer per mount serves all calls, and `_fstat` answers for the path of the last call on a path, not for its descriptor (only the command task makes such calls) |
| `ff.c:4222` | an `f_close` whose `f_sync` fails leaves its entry in the share table, while `vfs_close` frees the descriptor: the file stays "open" until the next mount |
| `ff.c:944` | an open directory is not found by `f_unlink`, which looks under the parent's cluster; 256 opens for reading would read as one for writing (`MaxOpens` keeps below) |
| `ff.c:3622` | mount identifiers are 16 bits wide: after 65536 mounts an old object would be valid again (not modelled) |
| `rcc.c:404` | the count of the 48 MHz clock goes up although PLLSAI failed, so later users are told that it runs, until reset |
| `sdcard.c:297` | `HAL_SD_Init` skips the low-level set-up in the state READY: after one that failed at the transmitting stream a second `sdcard_init` succeeds, and the card is mounted with that stream not initialised (`sdcard.h:39-48`); a failed mount is never undone |
| `dma.c`, `sdcard_monitor.c:250` | a stream left busy makes `sdcard_deinit` fail with the pins and clocks already given back |
| `stm32f4xx_hal_sd.c:1263` | a read whose command fails leaves its stream armed; later reads fail until the card is set up anew (a write, 1344-1376, starts its stream behind its command) |
| `cwd.c:225` | a component of three or more dots is taken for `.`; `..` behind a double slash removes the empty component; with an empty working directory the character in front of the buffer decides |
| `vfs.c:890` | names lose a leading dot (`vfs.h:1130-1148`), `/.` has no component, `..` at the root is refused, relative paths are `ENAMETOOLONG` |
| `commands/vfs.c` | `r` and `ls` pass the length of the path as the length of the buffer, so long paths are not refused; `cp` says "Copied" before it closes the copy and after short writes; the working directory stays when its directory is removed |
| `commands/vfs.c:457` | `list_mountpoints` leaves a directory open when `statvfs` fails (`vfs.h:1183-1185` asks for closing it) |
| `vfs_util.c:248` | `rm -r` takes an error of `readdir` for the end; a trailing slash skips the test for a directory; on a mount point it empties the volume and then reports an error; a path of exactly the buffer's size leaves no room for the slash (not modelled) |
| `embedded_cli.h:907` | an overflow discards the line and keeps the cursor (`cursorPos` is described at 521-524 as a position of the line) |
| `embedded_cli.h:871` | the flags are changed by two tasks: the mark of an overflow may be lost, or the escape mode stay on; and a command whose end comes before the ring is empty runs truncated (374-377 say that it is discarded) |
| `rtc.c:305` | the interrupt between the comparison and the subtraction makes the milliseconds 65535; they restart with the wake-up timer and not with the second, so `gettimeofday` jumps back within a second, and `tv_usec` may exceed 10^6 |
| `rtc.c:236` | midnight between the writes of date and time makes the date a day late; a failed second write leaves the new date with the old time; `setdate` and `settime` lose the seconds between reading and writing |

## 5. Proofs

TLC checks small instances; the theorems below hold for every value of the constants
that the named assumption of the module allows. Each goes by an inductive invariant,
which TLC checked on the constants of the run before it was proved (`PathsLead` by
invariants of loops instead). Every invariant and refinement that a passing run checks
is proved; liveness is not.

| Theorem | of | states | for any |
|---|---|---|---|
| `TypeCorrect`, `DescriptorsKept` | `Vfs` | `TypeOK`, `FdKept` | users, mounters, mounts, names, table size; forced unmounts included |
| `MutexExcludes`, `SearchAnswers` | `Vfs` | `ListExclusive`, `LongestFound` | the same, without unmounts |
| `IterationsComplete` | `Vfs` | `IterationComplete` | the same, no two mounts under one path; but for the exemption of section 4 |
| `CountsExact` | `Vfs` | `RefsCounted` | the same, with unmounts |
| `CountsRefine` | `Vfs`, `RefCount` | `MountsCounted` | the same, with unmounts, where every file system has `d_op` |
| `TypeCorrect`, `LocksRight`, `SharesRight`, `OpensRight` | `FatVolume` | `TypeOK`, `Locked`, `Shares`, `OpenKept` | users, objects, table size, mounts |
| `ClocksTypeCorrect`, `CountsBalanced`, `ClocksRun`, `CardClocked` | `Clocks` | `TypeOK`, `Balanced`, `Running`, `MountedClocked` | wiring of clocks to users |
| `CallsDeliver`, `CallsLeaveNothing` | `Sdcard` | `Delivered`, `Quiet` | blocks, calls, work areas, data |
| `DeviceKept`, `BytesCopied`, `OthersUntouched` | `Mtd` | `TypeOK`, `Copied`, `OthersKept` | number and size of pages, lengths, width of integers, pages and offsets up to it |
| `ListStands` | `ClistOps` | `ListRight` | nodes |
| `CommandsClose`, `CommandsDo` | `FileCommands` | `NothingOpen`, `CommandsMeant` | names, depth, sizes of files, mounts |
| `CardUsable` | `SdcardMonitor` | `ListedUsable` | debounce window, samples, edges |
| `CharactersInOrder`, `CursorInLine` | `Cli` | `InOrder`, `CursorKept` | characters, size of the ring and the line |
| `PathsLead` | `Paths` | `PathsMeant` | characters, length of paths and working directories, limit on a name |
| `TimesTrue`, `ClockSet` | `RtcTime` | `TimeRead`, `Set` | readers, setters, length of a day, rate and width of the tick |
| `DatesRight` | `Calendar` | `CalendarRight` | first days and length of the walks, length of a day, width of seconds that count to their ends |
| `TypedInOrder`, `KeepsReceiving` | `StdioRx` | `Ordered`, `Operating` | readers, characters, lengths of the queues |
| `PoolKept`, `TextsWhole` | `StdioTx` | `TypeOK`, `Line` | writers, texts, buffers and their depth |

### Vfs (`Vfs_proofs`, `RefCount_proofs`)

For any finite sets of users and mounts (`VfsAssumption`), with forced unmounts at any
moment: `Spec => []IInv`, from which `TypeCorrect` and `DescriptorsKept`
follow. Neither is inductive. `IInv` adds, per task, what a call holds at each `pc`
(`CallInv`: which of `mp`, `mp2` are set), that a search never stands on a null
node (`NodeInv`, which needs `ListInv`: no member's link is null, also after an
unlocked removal), what an open directory refers to (`DirInv`), which entry a
task inside `vfs_open` or `vfs_close` owns (`FdInv`, `Opener`) and that a used
entry has one owner and a mount (`EntryInv`, which needs that the claiming task
holds `_open_mutex`). The proof has a lemma per group of actions and group of
conjuncts, so that a step is considered once for what it can disturb.

The mutex, the search and the iteration are proved where the runs check them, without
unmounts (`NoUnmounting`), because `vfs_umount` gives a mutex that it does not hold.
`ListExclusive` then is inductive together with where a mounter may be (`MutexInv`).
For the search, `SearchInv` says that the candidate is the longest match among a
set of nodes that the links lead out of only where the search stands (`Passing`), so
that at the end the set holds every member. Which nodes the links reach from the first
is defined by a walk as long as there are mounts; that nothing lies behind its end
(`MembersClosed`) is a pigeonhole argument, and what a walk reaches an induction over
numbers by the least counterexample, which `WellFoundedInduction` supplies for sets. The
iteration (`IterInv`) reads the list without the mutex, pointer by pointer: no volume that
it still owes is among those that the links pass from the first to the one it stands on
(`Visited`, `Passed`). Each write of a push keeps that (`PushedFirst`, `PushedSecond`,
`PushedThird`): the first shows nothing of the new node to who walks the list, the second
puts it behind the last one while the end is still the old one (`Pushing`), the third
moves the end; what was passed stays passed, and what is new is owed to nobody. The same
lemmas serve every place at which an iteration may be caught between two reads.
That its search comes back to the volume it reported, and to no other, needs `PathsApart`.

For the counts, each action changes `Holder` in at most two slots, as an Acquire, a
Release, a Transfer or a stutter of `RefCount`, but for a `vfs_opendir` without directory
operations, which forgets its reference (`Leaks`). So `Vfs` implements `RefCount` where
every file system has directory operations (`CountsRefine`; true of FatFs). In every case
`RefCount_proofs!CountsMove`, proved for any finite set of slots by adding, removing
and moving one slot, keeps the difference of count and holders, and a leak can only
raise it: `CountsExact`.

### FatVolume (`FatVolume_proofs`)

Under `VolumeAssumption` (finitely many users, a count below 256). `Locked` needs
`LockInv`: a task about to take or give the system mutex does so while nobody has it.
`Shares` and `OpenKept` follow from `ShareInv`, which adds that a closing or using call
works on an object of the present mount (`CallOK`; `validate` looked before the volume
was locked, so that a mount in between has to be excluded: it makes `torn` true), that
objects are not younger than the mount (`HandleOK`), that an entry counts readers or one
writer of a file that exists (`EntryOK`) and that two entries are never of one object
(`Unique`). The counting lemmas (`OpenCounts`, `CloseCounts`, `AbandonCounts`) say
what one more, one less and one lost open do to every entry.

### Clocks (`Parts_proofs`)

For lists of what is set up without repetition, any moment at which the monitor starts,
and counts wide enough for the users (`ClocksAssumption`). `Balanced` needs that a count
that was read has not changed (`Reading`, from the mutex), that what is still to be set up
is not in use and what is still to be given back is (`Setting`, `Taking`); `Running`
needs the state between a count's reading and writing (`Powered`); `MountedClocked`
needs what each place of the monitor has behind it (`Phases`), and that a set-up that
did not end early has initialised the streams it has come past (`Complete`).

### Sdcard and Mtd (`Sdcard_proofs`, `Mtd_proofs`)

`Sdcard`: as long as no transfer has outlasted its call, the HAL is ready exactly when
no transfer runs, the one that runs is the one waited for and a semaphore is given only
to who waits for it (`Agree`, `Own`); and the blocks before the loop's counter, or
before the DMA's, are the same on the card and in the buffer (`Aligned`, `Unaligned`).
Whether the answer comes before or after the time-out is decided at every step of the
wait, so that these are what a late answer would break.

`Mtd`: a loop has moved what lies before it (`MovedInv`, `LoopInv`), the work area
holds the sector as it shall be before it is written (`SectorInv`, `Merged`), and other
bytes are as before (`OthersKept`). What is needed of addresses rests on
lemmas about division: bytes of a page are a run of numbers (`PageRun`) and pages do not
overlap (`PageOrder`). The arguments are any numbers of 32 bits. What `out_of_bounds`
refuses lies outside the device or is empty (`Refuses`); what it lets through lies on the
device, or its last byte's offset or its last page's number wraps (`LetsThrough`,
`Wraps`), and then the loop asks for blocks that the card does not have.
`MtdAssumption` asks that a `uint32_t` counts the device's pages with a page and a call's
length to spare.

### FileCommands (`Parts_proofs`)

For every tree in which what lies above an entry is a directory (`Closed`, kept by
every step). `Steps` and `Opened` say what is open at each place of a command,
`Walking` that `rm -r` stays below its argument or has climbed above it with nothing
left, `Copying` that what `cp` has written, read and not written, and not read make up
the source. A successful
`rm -r` has removed everything because a directory that could be removed was empty and
in a closed tree nothing is below an empty directory.

### ClistOps (`Parts_proofs`)

`ListInv` says which sequence the pointers stand for (`StandsFor`): the head points at
its last node, each node at the next and the last at the first, none twice; of the
pointers of other nodes it says nothing. It gives what a walk, a search, a count and
`clist_find_before` return (`WalkRound`, `Walked`, `Before`), and each operation takes
it to the sequence the caller expects (`PushedRight`, `PoppedLeft`, `Rotated`,
`LinkedAround`...). A walk is a recursive function; that there is one for every length,
and what it visits, is an induction over sets of numbers (`Numbers`, `Upto`).

### Calendar (`Parts_proofs`)

Days are told by their number since the epoch (`DayNo`), the code's own leap years and
table of days: it grows from each day to the next by one (`NextDay`, over ends of months
and years) and no two dates have the same (`OneDate`). The invariant says that a walk's
day is so many days after its first and that the code's weekday is too. From the number
follow the seconds that `rtc_mktime` counts (`Mktime`), and what the loops of
`rtc_tm_normalize` and `rtc_localtime` end with: they are recursive functions, which are
shown to exist by giving one (`CarryIs`, `DownIs`) and to reach the date of the number by
induction over the days or seconds left (`OverflowIs`, `LocalIs`). Dividing by a number
of unknown size (`Units`, `Split`) makes the lengths of a minute, an hour and a day
arbitrary, so that the theorem covers 60, 60, 24 and 2^32, which TLC's integers cannot
hold. `WalksFit`: the walks begin at dates since the epoch, and end while uint32_t still
counts their seconds (2106 for the code).

### The other parts (`Parts_proofs`, `Mtd_proofs`, `StdioRx_proofs`, `StdioTx_proofs`)

`MCParts` and `MCDevices` put parts side by side for the runs. Each part is proved to
keep its invariant on its own; as a step of the whole is one of the part that runs or
leaves it alone (`PartsStep`), the properties hold of the specifications that the runs
check.

- `SdcardMonitor`: what each place of mounting has behind it and each place of
  unmounting before it (`Mounting`).
- `Cli`: the ring's places and its contents (`Ring`), what the two tasks know of a
  full ring (`Overflow`). The ring's indices wrap by comparison in the proof (`Slot`),
  which a lemma shows to be the modulus.
- `RtcTime`: who is between two registers holds the mutex, and the date register is
  frozen only there (`Holding`); what is frozen with what was read is of an instant of
  the call, and so is the calendar unless it is half set (`Noted`); between its writes a
  setter has set the date (`Halfway`).
- `StdioRx`: characters are numbered as typed; those with the receivers and in their
  queues are older than the read task's, that older than the one in its queue and that
  older than the one in the register (`Chain`, `Streams`).
  A reception is missing only while the handler or the task is on its way to arm
  one (`Served`).
- `StdioTx`: no buffer is twice in the pool, in the queue or with two writers (`Once`),
  and each is in exactly one place (`OnePlace`), from which an injection into the
  buffers (`Room`) gives that the queue never is full when a writer has one to add.
  So the time-out in `Send` never loses a buffer.
  For the line (`TextsWhole`): what is queued for a call is its text up to where the call
  is, each newline behind its carriage return (`TextOf`, with `Place` for where a byte of
  the text comes to stand). The bytes of the pieces that wait, in the order of the queue
  and with what is left of the one on the DMA, are what each writer still has due, and
  nobody else's (`Owned`, `Whole`, `Lined`). No piece outgrows its buffer, and the
  gate-keeper holds its buffer until the DMA has sent it (`Fits`), so a copy writes in no
  buffer that waits (`Apart`).
- `Paths`: the folds on both sides are functions of a sequence, so no state changes
  and the invariants are of loops: what a loop holds when it has read a part of the
  path. The tools for that come first. The library's induction takes an operator; from
  its well-foundedness of `<` follows induction for a *set* of sequences that has the
  empty one and grows by one element (`Sequences`), and from that the two equations
  of a fold (`FoldEmpty`, `FoldAppend`), although `FoldLeft` is defined by CHOOSE over
  sets of indices. With them each loop and each operator of the meaning reads a path
  one character at a time. The first loop of `cwd.c` holds a path whose names in front
  of its last slash are where the names read lead, with the name that is read behind it
  (`DotsOf`); its flags tell whether that is `.` or `..`, unless it is of three dots or
  more, and `dot_dot` leaves the right directory unless an empty name comes first
  (`Clean`): the two cases of `Misread`. The second holds what is read with single
  slashes (`SlashesDone`). `vfs_normalize_path` has written where the names in front of
  its position lead, and no `..` of them leaves the root; or some `..` does and it has
  refused the path (`LoopOf`); it never has written more than it has read, so that it
  does not run out of its buffer. `_vfs_prepare_path` has written those names
  (`SegmentsDone`).

### Only model-checked

Liveness: `Settles`, `Returns`, `CallReturns`, `Drained`, `Heard`. The prover has
neither fairness rules beyond propositional ones nor ENABLED.

## 6. Not modelled

- Vendored libraries beyond what the modules need of them: FreeRTOS (its queues,
  semaphores and mutexes are taken as documented), the HAL but for the parts of the
  UART and SD drivers named above, the USB host stack, FatFs's layout of the disk
  (clusters, directories, long names): a call's work in `FatVolume` is one step.
  They are by far the largest part of `src/`.
- One model of the whole card stack. `Vfs`, `FatVolume`, `Mtd`, `Sdcard` and
  `SdcardMonitor` meet at calls that succeed or fail; their product is out of TLC's
  reach. What is lost by that is the card pulled in the middle of a transfer
  with a reader still waiting: after the semaphores have been deleted
  (`sdcard.c:72`) nothing is defined, as after the mutex in `volume_torn`.
- Calls that change no state of the VFS (read, write, lseek, fsync, fcntl, fstat),
  `vfs_bind` and `vfs_format` beyond its lock; the translation of flags, times and
  error codes in the FatFs driver.
- Overlapping uses of static buffers (`fatfs_vfs.c:56`, `cwd.c:65`): only the command
  task makes such calls in this program.
- What commands print, the table of commands, the editor's history; registers of
  pins and oscillators; start-up before the scheduler (it is `Init`); the
  de-initialisations that the program never calls (UART, USB); panic, statistics
  and version reporting.
