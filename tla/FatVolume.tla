------------------------------ MODULE FatVolume ------------------------------
(***************************************************************************)
(* The access layer of one FatFs volume (ff.c, fs/fatfs/ffsystem.c): the   *)
(* volume and system mutexes, mount identifiers and the share table that   *)
(* every call goes through, used by fs/fatfs/fatfs_vfs.c.  Users make calls *)
(* on paths and on open objects, each user with one open object at most;   *)
(* the card monitor mounts and unmounts (fatfs_vfs.c _mount, _umount).     *)
(* The work a call does on the disk is one step, taken while it holds the  *)
(* volume.  Volume control (f_mount) is not re-entrant (ffconf.h:294-297): *)
(* when it overlaps a call nothing is defined any more, and the behaviour  *)
(* ends there, with torn telling what was overlapped.                      *)
(***************************************************************************)
EXTENDS Naturals, FiniteSets

CONSTANTS
  Users,        \* tasks that use files
  Monitor,      \* the task that mounts and unmounts
  Nobody,       \* the holder of a free mutex
  Files, Dirs,  \* objects of the volume, in a directory below the root
  Root,         \* its root directory
  Blank,        \* the object of a free entry of the share table
  FF_FS_LOCK,   \* entries of the share table
  MaxMounts,    \* bounds the mounts
  MaxOpens      \* bounds the count of an entry (at 256 it would say "writing")

ASSUME VolumeAssumption ==
  /\ IsFiniteSet(Users)
  /\ FF_FS_LOCK \in Nat /\ MaxMounts \in Nat /\ MaxOpens \in 0..255
  /\ Monitor \notin Users /\ Nobody \notin Users \cup {Monitor}
  /\ Files \cap Dirs = {} /\ Root \notin Files \cup Dirs
  /\ Blank \notin Files \cup Dirs \cup {Root}

VARIABLES
  registered,   \* FatFs[0] points at the file system object; its mutex exists
  fs,           \* fs_type # 0, and id
  Fsid,         \* the last mount id
  vol, sys,     \* holders of the volume and the system mutex
  SysLock,      \* 0: no system mutex, 1: unlocked, 2: locked
  share,        \* the table Files[]
  objs,         \* the files and directories that exist
  handle,       \* the open object of each user
  pc, call,     \* where a task is in its call
  attached,     \* f_mount succeeded and f_unmount has not been called since
  lost,         \* history: for each entry, the opens whose close failed
  torn          \* history: what f_mount overlapped, "no", "call" or "holder"

access == <<registered, fs, Fsid>>
locks == <<vol, sys, SysLock>>
table == <<share, lost, objs>>
vars == <<access, locks, table, handle, pc, call, attached, torn>>

Tasks == Users \cup {Monitor}
Objects == Files \cup Dirs
Entries == 1..FF_FS_LOCK

Writing == 256                                  \* the count of a file being written
ShareEntries == [obj : Objects \cup {Blank}, ctr : Nat]
Free == [obj |-> Blank, ctr |-> 0]

\* Calls on a path take the system mutex too; the others name an open object.
PathOps == {"open", "opendir", "unlink", "mount"}
Calls ==
  [op : {"open"}, obj : Files, acc : 0..1] \cup [op : {"opendir"}, obj : Dirs \cup {Root}, acc : {0}]
  \cup [op : {"unlink"}, obj : Objects, acc : {2}]
  \cup [op : {"none", "mount", "use", "close", "close_file", "close_dir", "done"},
        obj : {Blank}, acc : {0}]
NoCall == [op |-> "none", obj |-> Blank, acc |-> 0]
Closed == [obj |-> Blank, slot |-> 0, id |-> 0, acc |-> 0]
Handles == [obj : Objects \cup {Root}, slot : 0..FF_FS_LOCK, id : Nat, acc : 0..1]

\* validate: the object belongs to the present mount.
Valid(h) == h # Closed /\ fs.type /\ h.id = fs.id

Inside(t) == pc[t] # "idle"
-----------------------------------------------------------------------------
(* The share table: chk_share, enq_share, inc_share, dec_share.            *)

Entry(o) == {i \in Entries : share[i].obj = o}

enq_share == Entry(Blank) # {}

\* Bounds the reads of an object; the opens whose close failed count.
Countable(o) == \A i \in Entry(o) : share[i].ctr < MaxOpens

\* Whether o may be opened for reading (0), for writing (1) or deleted (2).
chk_share(o, acc) == IF Entry(o) = {} THEN enq_share \/ acc = 2
                     ELSE acc = 0 /\ \A i \in Entry(o) : share[i].ctr # Writing

\* The entry of o, or a free one (the code takes the first); 0 if there is none.
Slot(o) == IF Entry(o) # {} THEN CHOOSE i \in Entry(o) : TRUE
           ELSE IF enq_share THEN CHOOSE i \in Entry(Blank) : TRUE ELSE 0

inc_share(o, acc) ==
  [share EXCEPT ![Slot(o)] =
     [obj |-> o, ctr |-> IF acc > 0 THEN Writing ELSE IF @.obj = o THEN @.ctr + 1 ELSE 1]]

\* The last open of an object frees its entry.
dec_share(i) ==
  LET n == IF share[i].ctr \in {0, Writing} THEN 0 ELSE share[i].ctr - 1
  IN  [share EXCEPT ![i] = IF n = 0 THEN Free ELSE [@ EXCEPT !.ctr = n]]

clear_share == [i \in Entries |-> Free]
-----------------------------------------------------------------------------
(* Leaving a call. *)

Return(t) == pc' = [pc EXCEPT ![t] = "idle"] /\ call' = [call EXCEPT ![t] = NoCall]
Finish(t) == /\ pc' = [pc EXCEPT ![t] = "leave"]
             /\ call' = [call EXCEPT ![t] = [NoCall EXCEPT !.op = "done"]]

\* vfs_close and vfs_closedir forget the object although the call failed: its
\* entry of the table stays counted.
Abandon(t) ==
  IF call[t].op \in {"close", "close_file", "close_dir"}
  THEN /\ handle' = [handle EXCEPT ![t] = Closed]
       /\ lost' = IF handle[t].slot = 0 THEN lost
                  ELSE [lost EXCEPT ![handle[t].slot] = @ + 1]
  ELSE UNCHANGED <<handle, lost>>
(* f_mount: what it does to the volume that is registered, without a mutex. *)

\* What it overlaps: the task that holds the volume's mutex, or a call.
Overlap == IF vol # Nobody THEN "holder"
           ELSE IF \E t \in Tasks : Inside(t) THEN "call" ELSE torn

Unregister ==
  /\ torn' = IF registered THEN Overlap ELSE torn
  /\ share' = clear_share /\ lost' = [i \in Entries |-> 0]
  /\ fs' = [type |-> FALSE, id |-> 0]
-----------------------------------------------------------------------------
(* Plausible mistakes in the steps below. *)

\* f_unlink passes the access of a reader to chk_share.
UnlinkAsReader(t) ==
  LET o == call[t].obj
  IN  /\ call[t].op = "unlink" /\ o \in objs
      /\ o \in Files => chk_share(o, 0)
      /\ objs' = objs \ {o}
      /\ UNCHANGED <<share, lost, handle>>

\* f_closedir leaves the entry of the directory counted.
CloseDirKeeps(t) ==
  /\ call[t].op \in {"close_file", "close_dir"}
  /\ share' = IF call[t].op = "close_file" THEN dec_share(handle[t].slot) ELSE share
  /\ handle' = [handle EXCEPT ![t] = Closed]
  /\ UNCHANGED <<lost, objs>>

\* SysLock is not reset when the system mutex is given.
LeaveForgets(t) ==
  /\ pc[t] = "leave"
  /\ sys' = IF SysLock = 2 THEN Nobody ELSE sys
  /\ pc' = [pc EXCEPT ![t] = "give"]
  /\ UNCHANGED <<access, vol, SysLock, table, handle, call, attached, torn>>

\* Every f_mount makes the system mutex anew.
MountCounts ==
  /\ ~Inside(Monitor) /\ ~attached
  /\ Unregister
  /\ registered' = TRUE
  /\ SysLock' = SysLock + 1
  /\ pc' = [pc EXCEPT ![Monitor] = "vol"]
  /\ call' = [call EXCEPT ![Monitor] = [NoCall EXCEPT !.op = "mount"]]
  /\ UNCHANGED <<Fsid, vol, sys, objs, handle, attached>>
-----------------------------------------------------------------------------
(* Starting a call.                                                        *)

\* A call on a path finds FatFs[0]; without it the answer is FR_NOT_ENABLED.  The
\* caller found the volume in the list of mounts, at this or at an earlier mount.
BeginPath(t, op, o, acc) ==
  /\ ~Inside(t) /\ registered /\ Fsid > 0
  /\ op \in {"open", "opendir"} => handle[t] = Closed
  /\ pc' = [pc EXCEPT ![t] = "vol"]
  /\ call' = [call EXCEPT ![t] = [op |-> op, obj |-> o, acc |-> acc]]
  /\ UNCHANGED <<access, locks, table, handle, attached, torn>>

\* f_open, for reading or, creating the file, for writing (what the program asks
\* for), f_opendir and f_unlink (f_rename treats its source like f_unlink).
PathCall(t) ==
  \/ \E o \in Files, acc \in 0..1 : BeginPath(t, "open", o, acc)
  \/ \E o \in Dirs \cup {Root} : BeginPath(t, "opendir", o, 0)
  \/ \E o \in Objects : BeginPath(t, "unlink", o, 2)

\* validate looks at the object before it takes the volume.  A file left over from
\* an earlier mount is closed by vfs_close all the same.
HandleCall(t) ==
  \E op \in {"use", IF handle[t].obj \in Files THEN "close" ELSE "close_dir"} :
    /\ ~Inside(t) /\ handle[t] # Closed
    /\ IF Valid(handle[t])
       THEN /\ pc' = [pc EXCEPT ![t] = "vol"]
            /\ call' = [call EXCEPT ![t] = [NoCall EXCEPT !.op = op]]
            /\ UNCHANGED handle
       ELSE /\ handle' = IF op = "use" THEN handle ELSE [handle EXCEPT ![t] = Closed]
            /\ UNCHANGED <<pc, call>>
    /\ UNCHANGED <<access, locks, table, attached, torn>>
-----------------------------------------------------------------------------
(* lock_volume and unlock_volume.                                          *)

LockVolume(t) ==
  /\ pc[t] = "vol" /\ vol = Nobody
  /\ vol' = t
  /\ pc' = [pc EXCEPT ![t] = IF call[t].op \in PathOps THEN "sys" ELSE "work"]
  /\ UNCHANGED <<access, sys, SysLock, table, handle, call, attached, torn>>

LockSystem(t) ==
  /\ pc[t] = "sys" /\ sys = Nobody
  /\ sys' = t /\ SysLock' = 2
  /\ pc' = [pc EXCEPT ![t] = "work"]
  /\ UNCHANGED <<access, vol, table, handle, call, attached, torn>>

\* FR_TIMEOUT after FF_FS_TIMEOUT ticks; a volume already taken is given back.
LockTimeout(t) ==
  /\ pc[t] \in {"vol", "sys"}
  /\ (IF pc[t] = "vol" THEN vol ELSE sys) # Nobody
  /\ vol' = IF pc[t] = "sys" THEN Nobody ELSE vol
  /\ Abandon(t) /\ Return(t)
  /\ UNCHANGED <<access, sys, SysLock, share, objs, attached, torn>>

\* SysLock alone tells that this call has the system mutex.
Leave(t) ==
  /\ pc[t] = "leave"
  /\ SysLock' = IF SysLock = 2 THEN 1 ELSE SysLock
  /\ sys' = IF SysLock = 2 THEN Nobody ELSE sys
  /\ pc' = [pc EXCEPT ![t] = "give"]
  /\ UNCHANGED <<access, vol, table, handle, call, attached, torn>>

\* f_close goes on after its f_sync: it takes the volume a second time.
Give(t) ==
  /\ pc[t] = "give"
  /\ vol' = Nobody
  /\ IF call[t].op = "done" THEN Return(t)
                            ELSE pc' = [pc EXCEPT ![t] = "vol"] /\ UNCHANGED call
  /\ UNCHANGED <<access, sys, SysLock, table, handle, attached, torn>>
-----------------------------------------------------------------------------
(* The work of the calls, holding the volume.                              *)

\* mount_volume reads a volume that is not mounted, for any call on a path, which
\* then goes on; f_mount itself is finished.
MountVolume(t) ==
  /\ pc[t] = "work" /\ call[t].op \in PathOps /\ ~fs.type
  /\ \/ /\ Fsid < MaxMounts
        /\ Fsid' = Fsid + 1
        /\ fs' = [type |-> TRUE, id |-> Fsid']
        /\ share' = clear_share /\ lost' = [i \in Entries |-> 0]
        /\ IF t = Monitor THEN attached' = TRUE /\ Finish(t)
                          ELSE UNCHANGED <<attached, pc, call>>
     \/ /\ Finish(t)
        /\ UNCHANGED <<Fsid, fs, share, lost, attached>>
  /\ UNCHANGED <<registered, locks, objs, handle, torn>>

f_open(t) ==
  LET c == call[t]
  IN  /\ c.op = "open"
      /\ IF c.obj \in objs THEN chk_share(c.obj, c.acc) ELSE c.acc = 1 /\ enq_share
      /\ Countable(c.obj)
      /\ objs' = objs \cup {c.obj}
      /\ share' = inc_share(c.obj, c.acc)
      /\ handle' = [handle EXCEPT ![t] =
                      [obj |-> c.obj, slot |-> Slot(c.obj), id |-> fs.id, acc |-> c.acc]]
      /\ UNCHANGED lost

\* The root directory needs no entry.
f_opendir(t) ==
  LET o == call[t].obj
  IN  /\ call[t].op = "opendir"
      /\ o # Root => o \in objs /\ Slot(o) # 0 /\ Countable(o)
      /\ share' = IF o = Root THEN share ELSE inc_share(o, 0)
      /\ handle' = [handle EXCEPT ![t] =
                      [obj |-> o, slot |-> IF o = Root THEN 0 ELSE Slot(o),
                       id |-> fs.id, acc |-> 0]]
      /\ UNCHANGED <<lost, objs>>

\* An open directory has its entry under its own cluster, where f_unlink, which
\* looks under the parent's, does not find it.
f_unlink(t) ==
  LET o == call[t].obj
  IN  /\ call[t].op = "unlink" /\ o \in objs
      /\ o \in Files => chk_share(o, 2)
      /\ objs' = objs \ {o}
      /\ UNCHANGED <<share, lost, handle>>

\* f_close after its f_sync, and f_closedir.
f_close(t) ==
  /\ call[t].op \in {"close_file", "close_dir"}
  /\ share' = IF handle[t].slot = 0 THEN share ELSE dec_share(handle[t].slot)
  /\ handle' = [handle EXCEPT ![t] = Closed]
  /\ UNCHANGED <<lost, objs>>

\* f_read, f_write, f_lseek, f_sync, f_readdir: nothing that other calls see.
Use(t) == call[t].op = "use" /\ UNCHANGED <<table, handle>>

Work(t) ==
  /\ pc[t] = "work" /\ (call[t].op \in PathOps => fs.type)
  /\ \/ f_open(t) \/ f_opendir(t) \/ f_unlink(t) \/ f_close(t) \/ Use(t)
  /\ Finish(t)
  /\ UNCHANGED <<access, locks, attached, torn>>

\* The f_sync of f_close succeeded.
Synced(t) ==
  /\ pc[t] = "work" /\ call[t].op = "close"
  /\ pc' = [pc EXCEPT ![t] = "leave"]
  /\ call' = [call EXCEPT ![t].op = "close_file"]
  /\ UNCHANGED <<access, locks, table, handle, attached, torn>>

\* The disk fails, the object is missing, in use or there are too many: nothing is
\* opened or closed.  A file may have been created all the same.
Fail(t) ==
  /\ pc[t] = "work" /\ call[t].op \in {"open", "opendir", "unlink", "use", "close"}
  /\ call[t].op \in PathOps => fs.type
  /\ \/ UNCHANGED objs
     \/ /\ call[t].op = "open" /\ call[t].acc = 1 /\ enq_share
        /\ objs' = objs \cup {call[t].obj}
  /\ Abandon(t) /\ Finish(t)
  /\ UNCHANGED <<access, locks, share, attached, torn>>

\* f_mount finds that another call has mounted the volume it registered.
Attach(t) ==
  /\ pc[t] = "work" /\ call[t].op = "mount" /\ fs.type
  /\ attached' = TRUE
  /\ Finish(t)
  /\ UNCHANGED <<access, locks, table, handle, torn>>
-----------------------------------------------------------------------------
(* f_mount.                                                                *)

\* The mutexes are made, which can fail, and the volume is mounted as for a call on
\* a path.  A failed mount leaves it registered.
f_mount ==
  /\ ~Inside(Monitor) /\ ~attached
  /\ Unregister
  /\ \/ /\ registered' = TRUE
        /\ SysLock' = IF SysLock = 0 THEN 1 ELSE SysLock
        /\ pc' = [pc EXCEPT ![Monitor] = "vol"]
        /\ call' = [call EXCEPT ![Monitor] = [NoCall EXCEPT !.op = "mount"]]
     \/ /\ registered' = FALSE
        /\ UNCHANGED <<SysLock, pc, call>>
  /\ UNCHANGED <<Fsid, vol, sys, objs, handle, attached>>

f_unmount ==
  /\ ~Inside(Monitor) /\ attached
  /\ Unregister
  /\ registered' = FALSE /\ attached' = FALSE
  /\ UNCHANGED <<Fsid, locks, objs, handle, pc, call>>
-----------------------------------------------------------------------------
Init ==
  /\ registered = FALSE /\ fs = [type |-> FALSE, id |-> 0] /\ Fsid = 0
  /\ vol = Nobody /\ sys = Nobody /\ SysLock = 0
  /\ share = clear_share /\ lost = [i \in Entries |-> 0] /\ objs = Objects
  /\ handle = [t \in Users |-> Closed]
  /\ pc = [t \in Tasks |-> "idle"] /\ call = [t \in Tasks |-> NoCall]
  /\ attached = FALSE /\ torn = "no"

\* A step inside a call.
Step(t) == \/ LockVolume(t) \/ LockSystem(t) \/ LockTimeout(t)
           \/ MountVolume(t) \/ Work(t) \/ Synced(t) \/ Fail(t) \/ Attach(t)
           \/ Leave(t) \/ Give(t)

Next == /\ torn = "no"
        /\ \/ \E t \in Users : PathCall(t) \/ HandleCall(t)
           \/ \E t \in Tasks : Step(t)
           \/ f_mount \/ f_unmount

Spec == Init /\ [][Next]_vars
-----------------------------------------------------------------------------
(* Properties, of a volume whose f_mount has not overlapped a call.        *)

\* The type of every variable.
TypeOK ==
  /\ registered \in BOOLEAN /\ fs \in [type : BOOLEAN, id : 0..MaxMounts]
  /\ Fsid \in 0..MaxMounts
  /\ vol \in Tasks \cup {Nobody} /\ sys \in Tasks \cup {Nobody} /\ SysLock \in 0..2
  /\ share \in [Entries -> ShareEntries]
  /\ lost \in [Entries -> Nat] /\ objs \subseteq Objects
  /\ handle \in [Users -> Handles \cup {Closed}]
  /\ pc \in [Tasks -> {"idle", "vol", "sys", "work", "leave", "give"}]
  /\ call \in [Tasks -> Calls]
  /\ attached \in BOOLEAN /\ torn \in {"no", "call", "holder"}

\* ff.c:895-934: whatever the result of a call and whichever of its locks failed, a
\* task holds the volume from the lock to the end of its call and not otherwise,
\* only the holder of the volume has the system mutex, and the flag SysLock by which
\* unlock_volume decides to give it tells the truth.
Locked ==
  /\ \A t \in Tasks : vol = t <=> pc[t] \in {"sys", "work", "leave", "give"}
  /\ sys \in {Nobody, vol}
  /\ SysLock = 2 <=> sys # Nobody
  /\ registered => SysLock # 0

Openers(i) == {t \in Users : Valid(handle[t]) /\ handle[t].slot = i}

\* ff.c:944-1045: the share table counts the open objects of the present mount, one
\* entry for each object and nothing else, through failed opens, objects left over
\* from earlier mounts and closes in any order; but an open whose close failed stays
\* counted until the volume is mounted anew (ff.c:4222).
Shares ==
  torn = "no" => \A i \in Entries :
    /\ Cardinality(Openers(i)) + lost[i] =
         IF share[i].ctr = Writing THEN 1 ELSE share[i].ctr
    /\ share[i].obj = Blank <=> share[i].ctr = 0
    /\ \A t \in Openers(i) : handle[t].obj = share[i].obj
    /\ \A j \in Entries : share[i].obj = share[j].obj => i = j \/ share[i] = Free

\* ffconf.h:275 promises control of duplicated opens and of illegal operations on
\* open objects: an open file is not removed, and one open for writing is open once.
OpenKept ==
  torn = "no" => \A t \in Users : Valid(handle[t]) /\ handle[t].obj \in Files =>
    /\ handle[t].obj \in objs
    /\ \A u \in Users \ {t} : Valid(handle[u]) /\ handle[u].obj = handle[t].obj =>
         handle[t].acc = 0 /\ handle[u].acc = 0

\* semphr.h:1122: do not delete a mutex type semaphore if the mutex is held by a task.
DeletedFree == torn # "holder"
=============================================================================
