---------------------------- MODULE SdcardMonitor ----------------------------
(***************************************************************************)
(* The card-detect task of system/sdcard/sdcard_monitor.c: an edge of the  *)
(* card-detect pin interrupts and notifies the task, which samples the pin *)
(* until it is stable and then mounts or unmounts the card.  Mounting and  *)
(* unmounting are modelled down the stack (vfs_mount, fatfs, mtd, sdcard), *)
(* in the order of the calls: each step leaves something behind that the   *)
(* next mount or unmount finds.  Other tasks run card transfers meanwhile. *)
(***************************************************************************)
EXTENDS Naturals

CONSTANTS
  Window,       \* equal samples that make the pin stable (32 in the code)
  Samples,      \* samples before the debounce times out (5000 ms / 10 ms)
  MaxEdges      \* bounds the edges of the pin

MonitorAssumption ==
  /\ Window \in Nat \ {0} /\ Samples \in Nat \ {0} /\ MaxEdges \in Nat

VARIABLES
  pin,          \* "in": low, the card is there; "out": high
  edges,        \* edges so far
  powered,      \* the card was initialised after it was last inserted
  notified,     \* the task's notification value is not 0
  nstate,       \* the task's ucNotifyState
  pc,           \* where the task is
  boot,         \* before the task's loop
  probe,        \* locals of wait_for_stable_cd_pin_signal
  verdict,      \* its answer
  is_mounted,   \* the task's local
  driver,       \* mtd_sdcard.base.driver and _fatfs_desc.dev are set
  semphrs,      \* the driver's semaphores exist
  disk,         \* the SDIO is initialised
  area,         \* mtd_sdcard.base.work_area: "null", "live" or "freed"
  listed,       \* the volume is in the list of mounts
  io,           \* a transfer: "none", "running", or "stalled" by a removal
  jammed,       \* a failed command has left its DMA stream busy
  excuse        \* history: what may keep the mount from following the pin:
                \* "none"; "lost" and "failed", until the next edge; "stuck"

signal == <<pin, edges, powered>>
note == <<notified, nstate>>
stack == <<driver, semphrs, disk, area, listed>>
env == <<io, jammed, excuse>>
vars == <<signal, note, pc, boot, probe, verdict, is_mounted, stack, env>>

NoProbe == [level |-> "none", streak |-> 0, taken |-> 0]

\* The inserted and removed handlers return to the task's loop.
Done == pc' = (IF boot THEN "wait" ELSE "skip") /\ boot' = FALSE

Excuse(e) == excuse' = IF excuse = "stuck" THEN "stuck" ELSE e
-----------------------------------------------------------------------------
(* Plausible mistakes in the steps below. *)

\* sdcard_deinit is called before vfs_umount.
UnmountVfsLast ==
  /\ pc = "u_vfs"
  /\ semphrs' = FALSE
  /\ disk' = FALSE
  /\ pc' = "u_disk"
  /\ UNCHANGED <<signal, note, boot, probe, verdict, is_mounted, driver, area, listed, env>>

\* The removed handler does not reset is_mounted.
UnmountForgets == /\ pc = "u_free"
                  /\ area' = "freed" /\ driver' = FALSE
                  /\ Done
                  /\ UNCHANGED <<signal, note, probe, verdict, is_mounted, semphrs, disk,
                                 listed, env>>
-----------------------------------------------------------------------------
(* The pin and its interrupt.                                              *)

\* Where a change of the pin is noticed by the debounce to come or in progress.
Watching == pc \in {"wait", "blocked", "sample"}

\* sdcard_cd_pin_exti_callback notifies the task; a transfer loses its card.
Edge ==
  /\ edges < MaxEdges
  /\ edges' = edges + 1
  /\ pin' = IF pin = "in" THEN "out" ELSE "in"
  /\ powered' = FALSE
  /\ notified' = TRUE /\ nstate' = "received"
  /\ io' = IF io = "running" THEN "stalled" ELSE io
  /\ Excuse(IF Watching THEN "none" ELSE "lost")
  /\ UNCHANGED <<pc, boot, probe, verdict, is_mounted, stack, jammed>>

\* Another task's transfer, through a file on the card.  One that the removal
\* stalled ends when the SDIO's own data timeout ends it, minutes later.
Transfer == /\ listed /\ powered /\ io = "none"
            /\ io' = "running"
            /\ UNCHANGED <<signal, note, pc, boot, probe, verdict, is_mounted, stack, jammed,
                           excuse>>

\* It may have been one whose command failed: the HAL started its stream and left it.
TransferEnd == /\ io # "none"
               /\ io' = "none"
               /\ jammed' \in {jammed, TRUE}
               /\ UNCHANGED <<signal, note, pc, boot, probe, verdict, is_mounted, stack, excuse>>
-----------------------------------------------------------------------------
(* wait_for_stable_cd_pin_signal and the loop of the task.                 *)

\* One turn of the loop.  A timeout wins over a window filled by this sample.
Sample ==
  LET streak == IF pin = probe.level THEN probe.streak + 1 ELSE 1
      taken == probe.taken + 1
      stable == streak = Window
      timedout == taken = Samples
  IN  /\ pc = "sample"
      /\ probe' = [level |-> pin, streak |-> streak, taken |-> taken]
      /\ IF stable \/ timedout
         THEN /\ pc' = "handle"
              /\ verdict' = IF timedout THEN "unstable"
                            ELSE IF pin = "in" THEN "inserted" ELSE "removed"
              /\ Excuse(IF timedout THEN "failed" ELSE excuse)
         ELSE UNCHANGED <<pc, verdict, excuse>>
      /\ UNCHANGED <<signal, note, boot, is_mounted, stack, io, jammed>>

\* The first debounce of the task only looks for a card that is there.
Handle ==
  /\ pc = "handle"
  /\ \/ /\ verdict = "inserted" /\ ~is_mounted
        /\ pc' = "m_driver" /\ UNCHANGED boot
     \/ /\ verdict = "removed" /\ is_mounted /\ ~boot
        /\ pc' = "u_vfs" /\ UNCHANGED boot
     \/ /\ verdict = "inserted" => is_mounted
        /\ verdict = "removed" => ~is_mounted \/ boot
        /\ Done
  /\ UNCHANGED <<signal, note, probe, verdict, is_mounted, stack, env>>

\* xTaskNotifyWait(0, 0, ., portMAX_DELAY) blocks unless something is pending.
Wait == /\ pc = "wait" /\ nstate # "received"
        /\ nstate' = "waiting"
        /\ pc' = "blocked"
        /\ UNCHANGED <<signal, notified, boot, probe, verdict, is_mounted, stack, env>>

\* The value is read and kept.
Woken == /\ pc \in {"wait", "blocked"} /\ nstate = "received"
         /\ nstate' = "not_waiting"
         /\ IF notified THEN pc' = "sample" /\ probe' = NoProbe
                        ELSE pc' = "skip" /\ UNCHANGED probe
         /\ UNCHANGED <<signal, notified, boot, verdict, is_mounted, stack, env>>

\* xTaskNotifyWait(0, ULONG_MAX, ., 0): clears the value only if something has
\* arrived since, and then that is lost.
SkipPending == /\ pc = "skip"
               /\ notified' = (notified /\ nstate # "received")
               /\ nstate' = "not_waiting"
               /\ pc' = "wait"
               /\ UNCHANGED <<signal, boot, probe, verdict, is_mounted, stack, env>>
-----------------------------------------------------------------------------
(* sdcard_mount: vfs_mount, _mount, f_mount, disk_initialize, mtd_init.    *)

MountDriver == /\ pc = "m_driver"
               /\ driver' = TRUE
               /\ pc' = "m_disk"
               /\ UNCHANGED <<signal, note, boot, probe, verdict, is_mounted,
                              semphrs, disk, area, listed, env>>

\* mtd_init: sdcard_init, which makes the semaphores anew, then the work area.
\* The HAL refuses to register callbacks while a transfer is on.  It sets up the
\* streams again only if the SDIO is not initialised yet.
MountDisk ==
  /\ pc = "m_disk"
  /\ semphrs' = TRUE
  /\ \/ /\ pin = "in" /\ io = "none"
        /\ disk' = TRUE /\ powered' = TRUE
        /\ area' = "live"
        /\ pc' = "m_fat" /\ UNCHANGED <<boot, excuse>>
     \/ /\ pin = "in" /\ io = "none"                        \* -ENOMEM
        /\ disk' = TRUE /\ powered' = TRUE
        /\ area' = "null"
        /\ Done /\ Excuse("failed")
     \/ /\ UNCHANGED <<disk, area, powered>>
        /\ Done /\ Excuse("failed")
  /\ jammed' = (jammed /\ disk)
  /\ UNCHANGED <<pin, edges, note, probe, verdict, is_mounted, driver, listed, io>>

\* f_mount reads the volume, if it holds a file system and is still there.
MountFat ==
  /\ pc = "m_fat"
  /\ \/ /\ powered
        /\ pc' = "m_push" /\ UNCHANGED <<boot, jammed, excuse>>
     \/ /\ Done /\ Excuse("failed")
        /\ jammed' \in {jammed, TRUE}
  /\ UNCHANGED <<signal, note, probe, verdict, is_mounted, stack, io>>

MountPush == /\ pc = "m_push"
             /\ listed' = TRUE /\ is_mounted' = TRUE
             /\ Done
             /\ UNCHANGED <<signal, note, probe, verdict, driver, semphrs, disk, area, env>>

(* sdcard_unmount: each failure returns at once, is_mounted staying true.  *)

\* vfs_umount answers -EINVAL for a volume that is not in the list.
UnmountVfs ==
  /\ pc = "u_vfs"
  /\ listed' = FALSE
  /\ IF listed THEN pc' = "u_disk" /\ UNCHANGED boot ELSE Done
  /\ UNCHANGED <<signal, note, probe, verdict, is_mounted, driver, semphrs, disk, area, env>>

\* sdcard_deinit: the HAL refuses to unregister callbacks while a transfer is on, and
\* to take down a stream that is busy, when the rest is down already.
UnmountDisk ==
  /\ pc = "u_disk"
  /\ semphrs' = FALSE
  /\ disk' = (disk /\ io # "none")
  /\ IF io = "none" /\ ~jammed THEN pc' = "u_free" /\ UNCHANGED <<boot, excuse>>
                                ELSE Done /\ Excuse("stuck")
  /\ UNCHANGED <<signal, note, probe, verdict, is_mounted, driver, area, listed, io, jammed>>

UnmountFree == /\ pc = "u_free"
               /\ area' = "freed" /\ driver' = FALSE /\ is_mounted' = FALSE
               /\ Done
               /\ UNCHANGED <<signal, note, probe, verdict, semphrs, disk, listed, env>>
-----------------------------------------------------------------------------
Init ==
  /\ pin \in {"in", "out"} /\ edges = 0 /\ powered = FALSE
  /\ notified = FALSE /\ nstate = "not_waiting"
  /\ pc = "sample" /\ boot = TRUE /\ probe = NoProbe /\ verdict = "unstable"
  /\ is_mounted = FALSE
  /\ driver = FALSE /\ semphrs = FALSE /\ disk = FALSE /\ area = "null" /\ listed = FALSE
  /\ io = "none" /\ jammed = FALSE /\ excuse = "none"

Task == \/ Sample \/ Handle \/ Wait \/ Woken \/ SkipPending
        \/ MountDriver \/ MountDisk \/ MountFat \/ MountPush
        \/ UnmountVfs \/ UnmountDisk \/ UnmountFree

Next == Edge \/ Transfer \/ TransferEnd \/ Task

Spec == Init /\ [][Next]_vars

\* The task is scheduled (configUSE_TIME_SLICING); nothing makes the pin move, or a
\* transfer end.
FairSpec == Spec /\ WF_vars(Task)
-----------------------------------------------------------------------------
(* Properties.                                                             *)

\* The type of every variable.
TypeOK ==
  /\ pin \in {"in", "out"} /\ edges \in 0..MaxEdges /\ powered \in BOOLEAN
  /\ notified \in BOOLEAN /\ nstate \in {"not_waiting", "waiting", "received"}
  /\ pc \in {"sample", "handle", "wait", "blocked", "skip", "m_driver", "m_disk",
             "m_fat", "m_push", "u_vfs", "u_disk", "u_free"}
  /\ boot \in BOOLEAN
  /\ probe \in [level : {"none", "in", "out"}, streak : 0..Window, taken : 0..Samples]
  /\ verdict \in {"inserted", "removed", "unstable"}
  /\ is_mounted \in BOOLEAN /\ driver \in BOOLEAN /\ semphrs \in BOOLEAN
  /\ disk \in BOOLEAN /\ listed \in BOOLEAN
  /\ area \in {"null", "live", "freed"}
  /\ io \in {"none", "running", "stalled"} /\ jammed \in BOOLEAN
  /\ excuse \in {"none", "lost", "failed", "stuck"}

\* A path lookup that finds the card's volume finds a device under it: driver,
\* semaphores, SDIO and work area are all there, in the middle of mounting and
\* unmounting and after mounts that failed half way (sdcard_monitor.c:219-261).
ListedUsable == listed => driver /\ semphrs /\ disk /\ area = "live"

\* sdcard_monitor.c:160: the task continuously monitors the card.  When the pin
\* comes to rest the volume is mounted if the card is in, and not if it is out;
\* whatever the edges before, unless the last one came while the task was busy, its
\* debounce timed out or the mount it led to failed, and no unmount was stuck.
Settles == /\ <>[](pin = "in" /\ excuse = "none") => <>[]listed
           /\ <>[](pin = "out" /\ excuse = "none") => <>[]~listed
=============================================================================
