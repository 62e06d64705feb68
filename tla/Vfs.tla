-------------------------------- MODULE Vfs --------------------------------
(***************************************************************************)
(* The virtual file system layer, system/vfs/vfs.c: the list of mounts     *)
(* under _mount_mutex, the descriptor table under _open_mutex and, in each *)
(* mount, the atomic count open_files that vfs_umount consults.            *)
(*                                                                         *)
(* Tasks are preemptive, so a call is a sequence of steps: a step ends     *)
(* where another task running there could be noticed (taking or giving a   *)
(* mutex, an atomic operation, a read or a write of shared data).  A user  *)
(* task makes the calls that name a path or a descriptor, a mounter task   *)
(* mounts and unmounts; in the program the only mounter is sdcard_monitor. *)
(* A file system driver is external: a driver call succeeds or fails.      *)
(*                                                                         *)
(* A path is known by the mount points that are a prefix of it.  Each user *)
(* task has one vfs_DIR and closes only the descriptors it opened.         *)
(***************************************************************************)
EXTENDS Integers, FiniteSets, Sequences

CONSTANTS
  Users,        \* tasks that use files
  Mounters,     \* tasks that call vfs_mount and vfs_umount
  MountPts,     \* the vfs_mount_t objects
  Names,        \* path names
  VFS_MAX_OPEN_FILES,
  Prefixes,     \* Prefixes[n]: the mount points that are a prefix of name n
  PathLen,      \* mount_point_len of a mount point
  MountPath,    \* the name that is the path of a mount point
  DirFs,        \* the mounts whose file system has directory operations (d_op)
  Ops,          \* the calls that the users make
  ForceArgs,        \* the values of vfs_umount's argument force; {}: no unmounting
  NULL

Task == Users \cup Mounters

\* The descriptors that _allocate_fd hands out: 0, 1 and 2 are kept for stdio.
Fds == 3..(VFS_MAX_OPEN_FILES - 1)

Calls == {"open", "opendir", "path", "rename", "iterate"}

ASSUME VfsAssumption ==
  /\ IsFiniteSet(Users) /\ IsFiniteSet(MountPts)
  /\ VFS_MAX_OPEN_FILES \in Nat
  /\ NULL \notin Task \cup MountPts \cup Names
  /\ Users \cap Mounters = {}
  /\ Prefixes \in [Names -> SUBSET MountPts]
  /\ PathLen \in [MountPts -> Nat \ {0}]
  /\ MountPath \in [MountPts -> Names]
  /\ DirFs \subseteq MountPts /\ Ops \subseteq Calls /\ ForceArgs \subseteq BOOLEAN

VARIABLES
  list,         \* _vfs_mounts_list and the list_entry of every mount
  open_files,   \* mountp->open_files
  mount_mutex,  \* holder of _mount_mutex, or NULL
  open_mutex,   \* holder of _open_mutex, or NULL
  fds,          \* _vfs_open_files: task_id (0: free) and mp of every entry
  dir,          \* the vfs_DIR of every user: its mp, and what the user did with it
  file,         \* file[t][f]: the mount on which t opened f, NULL if t did not
  due,          \* mounts an iteration of the user has yet to report
  pc,           \* where each task is
  loc,          \* the locals of a user's call
  req           \* the arguments of a mounter's call

tables == <<list, open_files, fds, dir, file, due>>
mutexes == <<mount_mutex, open_mutex>>
vars == <<list, open_files, mount_mutex, open_mutex, fds, dir, file, due, pc, loc, req>>

CL == INSTANCE Clist WITH Nodes <- MountPts

Mounted == CL!Members(list)
MpOrNull == MountPts \cup {NULL}

\* The mounts that clist_rpush has linked to the list but not yet made its last.
Pushing == {req[t].mp : t \in {u \in Mounters : pc[u] = "m_tail"}}

\* mp and mp2: mounts the call has found and counted, mp2 in an iteration the next
\* mount, counted by IterHold; node, cand, longest: the locals node, mountp and
\* longest_match of _find_mount, node also the end of the list in vfs_iterate_mounts.
NoCall == [op |-> "none", name |-> NULL, mp |-> NULL, mp2 |-> NULL, fd |-> 3,
           node |-> NULL, cand |-> NULL, longest |-> 0]

Goto(t, l) == pc' = [pc EXCEPT ![t] = l]
Set(t, r) == loc' = [loc EXCEPT ![t] = r]
Count(m, k) == open_files' = [open_files EXCEPT ![m] = @ + k]

\* What is left before a call returns: a reference per mount it still counts.
Unwind(r) == IF r.mp # NULL THEN "drop" ELSE IF r.mp2 # NULL THEN "drop2" ELSE "idle"
Return(t, r) == /\ Goto(t, Unwind(r))
                /\ Set(t, IF Unwind(r) = "idle" THEN NoCall ELSE r)
-----------------------------------------------------------------------------
(* Plausible mistakes in the steps below, each to be noticed by a property. *)

\* _find_mount does not wait for the mutex.
FindTakeUnlocked(t) == /\ pc[t] = "find_take"
                       /\ mount_mutex' = t
                       /\ Goto(t, "find_first")
                       /\ UNCHANGED <<tables, open_mutex, loc, req>>

\* The loop keeps the last match instead of the longest.
FindLoopLast(t) ==
  LET it == list.link[loc[t].node] IN
  /\ pc[t] = "find_loop"
  /\ Set(t, [loc[t] EXCEPT !.node = it,
                           !.cand = IF it \in Prefixes[loc[t].name] THEN it ELSE @])
  /\ Goto(t, IF it = list.tail THEN "find_end" ELSE "find_loop")
  /\ UNCHANGED <<tables, mutexes, req>>

\* vfs_open does not wait for _open_mutex.
OpenTakeUnlocked(t) == /\ pc[t] = "open_take"
                       /\ open_mutex' = t
                       /\ Goto(t, "open_scan")
                       /\ UNCHANGED <<tables, mount_mutex, loc, req>>

\* A full table makes vfs_open return without giving back the reference.
OpenScanKeeps(t) ==
  LET f == loc[t].fd IN
  /\ pc[t] = "open_scan"
  /\ \/ /\ f \in Fds /\ fds[f].task_id = 0
        /\ Goto(t, "open_claim")
        /\ UNCHANGED <<loc, open_mutex>>
     \/ /\ f \in Fds /\ fds[f].task_id # 0
        /\ Set(t, [loc[t] EXCEPT !.fd = f + 1])
        /\ UNCHANGED <<pc, open_mutex>>
     \/ /\ f \notin Fds
        /\ open_mutex' = NULL
        /\ Return(t, NoCall)
  /\ UNCHANGED <<tables, mount_mutex, req>>

\* The task's handle is stored where its number belongs.
OpenClaimHandle(t) ==
  /\ pc[t] = "open_claim"
  /\ fds' = [fds EXCEPT ![loc[t].fd] = [task_id |-> t, mp |-> loc[t].mp]]
  /\ Set(t, [loc[t] EXCEPT !.mp = NULL])
  /\ Goto(t, "open_give")
  /\ UNCHANGED <<list, open_files, dir, file, due, mutexes, req>>

\* vfs_opendir keeps the reference when the driver's opendir fails.
OpenDirKeeps(t) ==
  LET m == loc[t].mp
      kind == IF loc[t].op = "iterate" THEN "iter" ELSE "open"
  IN  /\ pc[t] = "opendir" /\ m \in DirFs
      /\ \E k \in {kind, "closed"} : dir' = [dir EXCEPT ![t] = [mp |-> m, kind |-> k]]
      /\ due' = [due EXCEPT ![t] = @ \ {m}]
      /\ Return(t, [loc[t] EXCEPT !.mp = NULL])
      /\ UNCHANGED <<list, open_files, fds, file, mutexes, req>>

\* vfs_iterate_mounts takes the last node of the list for its end.
IterWrapEarly(t) ==
  LET next == IF loc[t].mp2 = loc[t].node THEN NULL ELSE loc[t].mp2
  IN  /\ pc[t] = "it_wrap"
      /\ Set(t, [loc[t] EXCEPT !.mp2 = next, !.node = NULL])
      /\ Goto(t, IF next = NULL THEN "it_end" ELSE "it_hold")
      /\ UNCHANGED <<tables, mutexes, req>>
-----------------------------------------------------------------------------
(* The user's calls.                                                       *)

Call(t, o, n) == /\ pc[t] = "idle" /\ o \in Ops
                 /\ Set(t, [NoCall EXCEPT !.op = o, !.name = n])
                 /\ Goto(t, "find_take")
                 /\ UNCHANGED <<tables, mutexes, req>>

vfs_open(t, n) == Call(t, "open", n)

vfs_opendir(t, n) == dir[t].kind = "closed" /\ Call(t, "opendir", n)

\* vfs_unlink, vfs_mkdir, vfs_rmdir, vfs_stat and vfs_statvfs.
vfs_path_op(t, n) == Call(t, "path", n)

vfs_rename(t, n) == Call(t, "rename", n)

\* The user zero-initialises dir to start, or passes the dir of the last call.
vfs_iterate_mount_dirs(t) ==
  /\ pc[t] = "idle" /\ "iterate" \in Ops
  /\ dir[t].kind \in {"closed", "iter"}
  /\ IF dir[t].kind = "closed"
     THEN /\ dir' = [dir EXCEPT ![t].mp = NULL]
          /\ due' = [due EXCEPT ![t] = Mounted \ Pushing]
     ELSE UNCHANGED <<dir, due>>
  /\ Set(t, [NoCall EXCEPT !.op = "iterate"])
  /\ Goto(t, "it_next")
  /\ UNCHANGED <<list, open_files, fds, file, mutexes, req>>

\* _fd_is_valid passes: the entry is in use.
vfs_close(t, f) ==
  /\ pc[t] = "idle" /\ file[t][f] # NULL
  /\ fds[f].task_id # 0
  /\ Set(t, [NoCall EXCEPT !.op = "close", !.fd = f])
  /\ Goto(t, "close_driver")
  /\ UNCHANGED <<tables, mutexes, req>>

vfs_closedir(t) ==
  /\ pc[t] = "idle" /\ dir[t].kind # "closed" /\ dir[t].mp # NULL
  /\ dir' = [dir EXCEPT ![t] = [mp |-> NULL, kind |-> "closed"]]
  /\ Count(dir[t].mp, -1)
  /\ UNCHANGED <<list, fds, file, due, mutexes, pc, loc, req>>
-----------------------------------------------------------------------------
(* _find_mount: search the list under the mutex, count, give the mutex.    *)

FindTake(t) == /\ pc[t] = "find_take" /\ mount_mutex = NULL
               /\ mount_mutex' = t
               /\ Goto(t, "find_first")
               /\ UNCHANGED <<tables, open_mutex, loc, req>>

FindFirst(t) ==
  /\ pc[t] = "find_first"
  /\ \/ /\ list.tail = NULL
        /\ mount_mutex' = NULL
        /\ Return(t, loc[t])
     \/ /\ list.tail # NULL
        /\ Set(t, [loc[t] EXCEPT !.node = list.tail])
        /\ Goto(t, "find_loop")
        /\ UNCHANGED mount_mutex
  /\ UNCHANGED <<tables, open_mutex, req>>

\* One turn of the loop: the list is read anew, the end condition included.
FindLoop(t) ==
  LET r == loc[t]
      it == list.link[r.node]
      len == PathLen[it]
      match == len >= r.longest /\ it \in Prefixes[r.name]
  IN  /\ pc[t] = "find_loop"
      /\ Set(t, [r EXCEPT !.node = it,
                          !.cand = IF match THEN it ELSE @,
                          !.longest = IF match /\ len > 1 THEN len ELSE @])
      /\ Goto(t, IF it = list.tail THEN "find_end" ELSE "find_loop")
      /\ UNCHANGED <<tables, mutexes, req>>

\* The mutex is given as FreeRTOS gives one: whoever holds it loses it.
FindEnd(t) ==
  LET r == [loc[t] EXCEPT !.node = NULL, !.cand = NULL, !.longest = 0]
      m == loc[t].cand
  IN  /\ pc[t] = "find_end"
      /\ \/ /\ m = NULL
            /\ mount_mutex' = NULL
            /\ Return(t, r)
            /\ UNCHANGED open_files
         \/ /\ m # NULL
            /\ Count(m, 1)
            /\ Set(t, IF r.op = "rename" /\ r.mp # NULL
                      THEN [r EXCEPT !.mp2 = m] ELSE [r EXCEPT !.mp = m])
            /\ Goto(t, "find_give")
            /\ UNCHANGED mount_mutex
      /\ UNCHANGED <<list, fds, dir, file, due, open_mutex, req>>

\* Back in the caller; vfs_rename looks for its second path.
FindGive(t) ==
  /\ pc[t] = "find_give"
  /\ mount_mutex' = NULL
  /\ \/ /\ loc[t].op = "rename" /\ loc[t].mp2 = NULL     \* -EROFS
        /\ Return(t, loc[t])
     \/ /\ loc[t].op = "open"
        /\ Goto(t, "open_take") /\ UNCHANGED loc
     \/ /\ loc[t].op \in {"opendir", "iterate"}
        /\ Goto(t, "opendir") /\ UNCHANGED loc
     \/ /\ loc[t].op = "path" \/ loc[t].mp2 # NULL
        /\ loc[t].op \in {"path", "rename"}
        /\ Goto(t, "driver") /\ UNCHANGED loc
     \/ /\ loc[t].op = "rename" /\ loc[t].mp2 = NULL
        /\ \E n \in Names : Set(t, [loc[t] EXCEPT !.name = n])
        /\ Goto(t, "find_take")
  /\ UNCHANGED <<tables, open_mutex, req>>

\* The driver's unlink, mkdir, rmdir, stat, statvfs or rename, or none if the
\* file system lacks it or the two paths of a rename are on two mounts.
DriverCall(t) == /\ pc[t] = "driver"
                 /\ Return(t, loc[t])
                 /\ UNCHANGED <<tables, mutexes, req>>

\* atomic_fetch_sub of a reference the call holds.
Drop(t) ==
  LET r == [loc[t] EXCEPT !.mp = NULL]
  IN  /\ pc[t] = "drop"
      /\ Count(loc[t].mp, -1)
      /\ Return(t, r)
      /\ UNCHANGED <<list, fds, dir, file, due, mutexes, req>>

Drop2(t) == /\ pc[t] = "drop2"
            /\ Count(loc[t].mp2, -1)
            /\ Return(t, NoCall)
            /\ UNCHANGED <<list, fds, dir, file, due, mutexes, req>>
-----------------------------------------------------------------------------
(* The rest of vfs_open and vfs_close: the descriptor table.               *)

OpenTake(t) == /\ pc[t] = "open_take" /\ open_mutex = NULL
               /\ open_mutex' = t
               /\ Goto(t, "open_scan")
               /\ UNCHANGED <<tables, mount_mutex, loc, req>>

\* One turn of _allocate_fd's search.
OpenScan(t) ==
  LET f == loc[t].fd IN
  /\ pc[t] = "open_scan"
  /\ \/ /\ f \in Fds /\ fds[f].task_id = 0
        /\ Goto(t, "open_claim")
        /\ UNCHANGED <<loc, open_mutex>>
     \/ /\ f \in Fds /\ fds[f].task_id # 0
        /\ Set(t, [loc[t] EXCEPT !.fd = f + 1])
        /\ UNCHANGED <<pc, open_mutex>>
     \/ /\ f \notin Fds                              \* -ENFILE
        /\ open_mutex' = NULL
        /\ Return(t, [loc[t] EXCEPT !.fd = 3])
  /\ UNCHANGED <<tables, mount_mutex, req>>

\* FreeRTOS: the number that vTaskSetTaskNumber gave the task, which the program
\* never calls.
uxTaskGetTaskNumber(t) == 0

\* _init_fd fills the entry: it now carries the reference of the call.  -1, all
\* ones in the code's uint32_t, stands for "no task yet".
OpenClaim(t) ==
  /\ pc[t] = "open_claim"
  /\ fds' = [fds EXCEPT ![loc[t].fd] = 
     [task_id |-> IF uxTaskGetTaskNumber(t) = 0 THEN -1 ELSE uxTaskGetTaskNumber(t),
      mp |-> loc[t].mp]]
  /\ Set(t, [loc[t] EXCEPT !.mp = NULL])
  /\ Goto(t, "open_give")
  /\ UNCHANGED <<list, open_files, dir, file, due, mutexes, req>>

OpenGive(t) == /\ pc[t] = "open_give"
               /\ open_mutex' = NULL
               /\ Goto(t, "open_driver")
               /\ UNCHANGED <<tables, mount_mutex, loc, req>>

\* _free_fd: the entry belongs to one task, so its two writes are one step.
FreeFd(f) == /\ Count(fds[f].mp, -1)
             /\ fds' = [fds EXCEPT ![f].task_id = 0]

OpenDriver(t) ==
  LET f == loc[t].fd IN
  /\ pc[t] = "open_driver"
  /\ \/ /\ file' = [file EXCEPT ![t][f] = fds[f].mp]
        /\ UNCHANGED <<open_files, fds>>
     \/ /\ FreeFd(f)
        /\ UNCHANGED file
  /\ Return(t, NoCall)
  /\ UNCHANGED <<list, dir, due, mutexes, req>>

\* The descriptor is freed whatever the driver's close returns.
CloseDriver(t) ==
  LET f == loc[t].fd IN
  /\ pc[t] = "close_driver"
  /\ FreeFd(f)
  /\ file' = [file EXCEPT ![t][f] = NULL]
  /\ Return(t, NoCall)
  /\ UNCHANGED <<list, dir, due, mutexes, req>>
-----------------------------------------------------------------------------
(* The rest of vfs_opendir and vfs_iterate_mount_dirs.                     *)

\* Without d_op the call returns at once; else the driver's opendir decides,
\* and dirp->mp is left set when it fails.
OpenDir(t) ==
  LET m == loc[t].mp
      kind == IF loc[t].op = "iterate" THEN "iter" ELSE "open"
  IN  /\ pc[t] = "opendir"
      /\ \/ /\ m \notin DirFs
            /\ Return(t, [loc[t] EXCEPT !.mp = NULL])
            /\ UNCHANGED <<dir, due>>
         \/ /\ m \in DirFs
            /\ dir' = [dir EXCEPT ![t] = [mp |-> m, kind |-> kind]]
            /\ due' = [due EXCEPT ![t] = @ \ {m}]
            /\ Return(t, [loc[t] EXCEPT !.mp = NULL])
         \/ /\ m \in DirFs
            /\ dir' = [dir EXCEPT ![t] = [mp |-> m, kind |-> "closed"]]
            /\ Return(t, loc[t])
            /\ UNCHANGED due
      /\ UNCHANGED <<list, open_files, fds, file, mutexes, req>>

\* vfs_iterate_mounts reads the list without the mutex, a pointer at a time: the
\* last node and its next to start, or the next of cur and then those two, to see
\* whether cur was the last.  IterNext makes the first of these reads.
IterNext(t) ==
  LET cur == dir[t].mp IN
  /\ pc[t] = "it_next"
  /\ \/ /\ cur = NULL /\ list.tail = NULL
        /\ Goto(t, "it_end") /\ UNCHANGED loc
     \/ /\ cur = NULL /\ list.tail # NULL
        /\ Set(t, [loc[t] EXCEPT !.node = list.tail])
        /\ Goto(t, "it_first")
     \/ /\ cur # NULL
        /\ Set(t, [loc[t] EXCEPT !.mp2 = list.link[cur]])
        /\ Goto(t, "it_tail")
  /\ UNCHANGED <<tables, mutexes, req>>

\* due is let go where the list has grown since the last node was read: what that
\* node points at then is the newest volume, not the first.
IterFirst(t) ==
  /\ pc[t] = "it_first"
  /\ Set(t, [loc[t] EXCEPT !.mp2 = list.link[loc[t].node], !.node = NULL])
  /\ due' = IF list.tail = loc[t].node /\ Pushing = {}
            THEN due ELSE [due EXCEPT ![t] = {}]
  /\ Goto(t, "it_hold")
  /\ UNCHANGED <<list, open_files, fds, dir, file, mutexes, req>>

IterTail(t) ==
  /\ pc[t] = "it_tail"
  /\ Set(t, [loc[t] EXCEPT !.node = list.tail])
  /\ Goto(t, "it_wrap")
  /\ UNCHANGED <<tables, mutexes, req>>

\* With an emptied list "the first mount" is read through a null pointer and
\* equals no mount.
IterWrap(t) ==
  LET past == loc[t].node # NULL /\ loc[t].mp2 = list.link[loc[t].node]
      next == IF past THEN NULL ELSE loc[t].mp2
  IN  /\ pc[t] = "it_wrap"
      /\ Set(t, [loc[t] EXCEPT !.mp2 = next, !.node = NULL])
      /\ Goto(t, IF next = NULL THEN "it_end" ELSE "it_hold")
      /\ UNCHANGED <<tables, mutexes, req>>

IterHold(t) == /\ pc[t] = "it_hold"
               /\ Count(loc[t].mp2, 1)
               /\ Goto(t, "it_close")
               /\ UNCHANGED <<list, fds, dir, file, due, mutexes, loc, req>>

\* vfs_closedir of the directory last reported; its mp is null at the start.
IterCloseDir(t) ==
  /\ IF dir[t].mp = NULL THEN UNCHANGED open_files ELSE Count(dir[t].mp, -1)
  /\ dir' = [dir EXCEPT ![t] = [mp |-> NULL, kind |-> "closed"]]

IterClose(t) ==
  /\ pc[t] = "it_close"
  /\ IterCloseDir(t)
  /\ Set(t, [loc[t] EXCEPT !.name = MountPath[loc[t].mp2]])
  /\ Goto(t, "find_take")
  /\ UNCHANGED <<list, fds, file, due, mutexes, req>>

IterEnd(t) == /\ pc[t] = "it_end"
              /\ IterCloseDir(t)
              /\ due' = [due EXCEPT ![t] = {}]
              /\ Return(t, NoCall)
              /\ UNCHANGED <<list, fds, file, mutexes, req>>
-----------------------------------------------------------------------------
(* vfs_mount and vfs_umount.                                               *)

vfs_mount(t, m) == /\ pc[t] = "idle"
                   /\ req' = [req EXCEPT ![t] = [mp |-> m, force |-> FALSE]]
                   /\ Goto(t, "m_take")
                   /\ UNCHANGED <<tables, mutexes, loc>>

vfs_umount(t, m, force) ==
  /\ pc[t] = "idle"
  /\ req' = [req EXCEPT ![t] = [mp |-> m, force |-> force]]
  /\ Goto(t, "u_take")
  /\ UNCHANGED <<tables, mutexes, loc>>

\* check_mount takes the mutex in both calls.
CheckTake(t) == /\ pc[t] \in {"m_take", "u_take"} /\ mount_mutex = NULL
                /\ mount_mutex' = t
                /\ Goto(t, IF pc[t] = "m_take" THEN "m_find" ELSE "u_find")
                /\ UNCHANGED <<tables, open_mutex, loc, req>>

AlreadyMounted(t) == CL!clist_find(list, req[t].mp) # NULL

\* check_mount of vfs_mount: -EBUSY gives the mutex back, 0 keeps it.
MountFind(t) ==
  /\ pc[t] = "m_find"
  /\ IF AlreadyMounted(t)
     THEN mount_mutex' = NULL /\ Goto(t, "idle")
     ELSE UNCHANGED mount_mutex /\ Goto(t, "m_driver")
  /\ UNCHANGED <<tables, open_mutex, loc, req>>

MountDriver(t) ==
  /\ pc[t] = "m_driver"
  /\ \/ Goto(t, "m_push") /\ UNCHANGED mount_mutex
     \/ Goto(t, "idle") /\ mount_mutex' = NULL
  /\ UNCHANGED <<tables, open_mutex, loc, req>>

\* clist_rpush writes the next of the new node, then the next of the last one, then
\* the head of the list, where a task that iterates may see each.  Into an empty
\* list there is no last one.
MountPush(t) ==
  LET m == req[t].mp IN
  /\ pc[t] = "m_push"
  /\ \/ /\ list.tail # NULL
        /\ list' = [list EXCEPT !.link[m] = list.link[list.tail]]
        /\ Goto(t, "m_link")
     \/ /\ list.tail = NULL
        /\ list' = [list EXCEPT !.link[m] = m]
        /\ Goto(t, "m_tail")
  /\ UNCHANGED <<open_files, fds, dir, file, due, mutexes, loc, req>>

MountLink(t) ==
  /\ pc[t] = "m_link"
  /\ list' = [list EXCEPT !.link[list.tail] = req[t].mp]
  /\ Goto(t, "m_tail")
  /\ UNCHANGED <<open_files, fds, dir, file, due, mutexes, loc, req>>

MountTail(t) ==
  /\ pc[t] = "m_tail"
  /\ list' = [list EXCEPT !.tail = req[t].mp]
  /\ mount_mutex' = NULL
  /\ Goto(t, "idle")
  /\ UNCHANGED <<open_files, fds, dir, file, due, open_mutex, loc, req>>

\* check_mount of vfs_umount: either answer leaves the mutex given.
UmountFind(t) == /\ pc[t] = "u_find"
                 /\ mount_mutex' = NULL
                 /\ Goto(t, IF AlreadyMounted(t) THEN "u_count" ELSE "idle")
                 /\ UNCHANGED <<tables, open_mutex, loc, req>>

\* From here on vfs_umount holds no mutex, and gives it on every way out.
UmountCount(t) ==
  /\ pc[t] = "u_count"
  /\ \/ /\ open_files[req[t].mp] > 0 /\ ~req[t].force
        /\ Goto(t, "idle") /\ mount_mutex' = NULL
     \/ /\ open_files[req[t].mp] <= 0 \/ req[t].force
        /\ Goto(t, "u_driver") /\ UNCHANGED mount_mutex
  /\ UNCHANGED <<tables, open_mutex, loc, req>>

UmountDriver(t) ==
  /\ pc[t] = "u_driver"
  /\ \/ Goto(t, "u_remove") /\ UNCHANGED mount_mutex
     \/ Goto(t, "idle") /\ mount_mutex' = NULL
  /\ UNCHANGED <<tables, open_mutex, loc, req>>

\* An unmounted volume is no longer one an iteration owes.
UmountRemove(t) ==
  /\ pc[t] = "u_remove"
  /\ list' = CL!clist_remove(list, req[t].mp)
  /\ due' = [u \in Users |-> due[u] \ {req[t].mp}]
  /\ mount_mutex' = NULL
  /\ Goto(t, "idle")
  /\ UNCHANGED <<open_files, fds, dir, file, open_mutex, loc, req>>
-----------------------------------------------------------------------------
Init ==
  /\ list = CL!EmptyList
  /\ open_files = [m \in MountPts |-> 0]
  /\ mount_mutex = NULL /\ open_mutex = NULL
  /\ fds = [f \in Fds |-> [task_id |-> 0, mp |-> NULL]]
  /\ dir = [t \in Users |-> [mp |-> NULL, kind |-> "closed"]]
  /\ file = [t \in Users |-> [f \in Fds |-> NULL]]
  /\ due = [t \in Users |-> {}]
  /\ pc = [t \in Task |-> "idle"]
  /\ loc = [t \in Users |-> NoCall]
  /\ req = [t \in Mounters |-> [mp |-> NULL, force |-> FALSE]]

UserStart(t) ==
  \/ \E n \in Names : vfs_open(t, n) \/ vfs_opendir(t, n) \/ vfs_path_op(t, n)
                      \/ vfs_rename(t, n)
  \/ vfs_iterate_mount_dirs(t)
  \/ \E f \in Fds : vfs_close(t, f)
  \/ vfs_closedir(t)

UserStep(t) ==
  \/ FindTake(t) \/ FindFirst(t) \/ FindLoop(t) \/ FindEnd(t) \/ FindGive(t)
  \/ DriverCall(t) \/ Drop(t) \/ Drop2(t)
  \/ OpenTake(t) \/ OpenScan(t) \/ OpenClaim(t) \/ OpenGive(t) \/ OpenDriver(t)
  \/ CloseDriver(t)
  \/ OpenDir(t)
  \/ IterNext(t) \/ IterFirst(t) \/ IterTail(t) \/ IterWrap(t)
  \/ IterHold(t) \/ IterClose(t) \/ IterEnd(t)

MounterStart(t) == \E m \in MountPts :
                     vfs_mount(t, m) \/ \E force \in ForceArgs : vfs_umount(t, m, force)

MounterStep(t) ==
  \/ CheckTake(t)
  \/ MountFind(t) \/ MountDriver(t) \/ MountPush(t) \/ MountLink(t) \/ MountTail(t)
  \/ UmountFind(t) \/ UmountCount(t) \/ UmountDriver(t) \/ UmountRemove(t)

Next == \/ \E t \in Users : UserStart(t) \/ UserStep(t)
        \/ \E t \in Mounters : MounterStart(t) \/ MounterStep(t)

Spec == Init /\ [][Next]_vars

-----------------------------------------------------------------------------
(* Properties.                                                             *)

UserPc == {"idle", "find_take", "find_first", "find_loop", "find_end", "find_give",
           "driver", "drop", "drop2", "open_take", "open_scan", "open_claim",
           "open_give", "open_driver", "close_driver", "opendir", "it_next",
           "it_first", "it_tail", "it_wrap", "it_hold", "it_close", "it_end"}
MounterPc == {"idle", "m_take", "m_find", "m_driver", "m_push", "m_link", "m_tail",
              "u_take", "u_find", "u_count", "u_driver", "u_remove"}

CallRecord == [op : Calls \cup {"none", "close"}, name : Names \cup {NULL},
               mp : MpOrNull, mp2 : MpOrNull, fd : Nat,
               node : MpOrNull, cand : MpOrNull, longest : Nat]

\* The type of every variable.
TypeOK ==
  /\ list \in CL!List
  /\ open_files \in [MountPts -> Int]
  /\ mount_mutex \in Task \cup {NULL} /\ open_mutex \in Users \cup {NULL}
  /\ fds \in [Fds -> [task_id : {-1, 0}, mp : MpOrNull]]
  /\ dir \in [Users -> [mp : MpOrNull, kind : {"closed", "open", "iter"}]]
  /\ file \in [Users -> [Fds -> MpOrNull]]
  /\ due \in [Users -> SUBSET MountPts]
  /\ pc \in [Task -> UserPc \cup MounterPc]
  /\ loc \in [Users -> CallRecord]
  /\ req \in [Mounters -> [mp : MpOrNull, force : BOOLEAN]]

\* The places that refer to a mount: descriptors, open directories, and the one
\* or two mounts that a call in progress has counted.
Slots == ({"fd"} \X Fds) \cup ({"dir", "call", "call2"} \X Users)
FdRef(f) == IF fds[f].task_id # 0 THEN fds[f].mp ELSE NULL
DirRef(t) == IF dir[t].kind # "closed" THEN dir[t].mp ELSE NULL
CallRef(t) == loc[t].mp
Ahead == {"it_tail", "it_wrap", "it_hold"}     \* the next mount is not yet counted
Call2Ref(t) == IF pc[t] \notin Ahead THEN loc[t].mp2 ELSE NULL
Holder == [s \in Slots |-> CASE s[1] = "fd" -> FdRef(s[2])
                              [] s[1] = "dir" -> DirRef(s[2])
                              [] s[1] = "call" -> CallRef(s[2])
                              [] s[1] = "call2" -> Call2Ref(s[2])]

RC == INSTANCE RefCount WITH Objects <- MountPts, count <- open_files, holder <- Holder

\* The mounts are reference counted: every step of every call takes, hands on or
\* gives back at most one reference and moves open_files with it, however the
\* calls interleave, on error paths too, and whatever is unmounted meanwhile.
MountsCounted == RC!Spec

\* vfs.h:390: open_files is the number of open files and directories, and of calls
\* in progress.  On a file system without directory operations vfs_opendir keeps
\* its reference (vfs.c:445), so there the count is at least that.
RefsCounted ==
  \A m \in MountPts : LET refs == Cardinality(RC!HeldBy(m))
                      IN IF m \in DirFs THEN open_files[m] = refs ELSE open_files[m] >= refs

\* A descriptor returned by vfs_open stays what it was until its owner closes it:
\* the entry is in use and carries the mount of its path, and no other vfs_open
\* was given the same number (_open_mutex around _init_fd).
FdKept == \A t \in Users, f \in Fds :
            file[t][f] # NULL => /\ fds[f].task_id # 0
                                 /\ fds[f].mp = file[t][f]
                                 /\ \A u \in Users \ {t} : file[u][f] = NULL

\* Where a task reads or changes the mount list on the strength of the mutex.
OnList == {"find_first", "find_loop", "find_end", "find_give",
           "m_find", "m_driver", "m_push", "m_link", "m_tail", "u_find"}

\* _mount_mutex excludes: a task works on the mount list exactly while it holds the
\* mutex, so no two tasks do together, and no way out of a call keeps the mutex.
ListExclusive == \A t \in Task : pc[t] \in OnList <=> mount_mutex = t

\* _find_mount (vfs.c:1073) answers with the mounted volume whose mount point is
\* the longest prefix of the name, whatever order the volumes were mounted in.
LongestFound ==
  \A t \in Users :
    LET hits == Mounted \cap Prefixes[loc[t].name]
        m == loc[t].cand
    IN  pc[t] = "find_end" =>
          IF m = NULL THEN hits = {}
          ELSE m \in hits /\ \A n \in hits : PathLen[n] <= PathLen[m]

\* vfs.h:1173: an iteration that ends because the list is exhausted has reported
\* every volume mounted when it started and mounted ever since, however its reads of
\* the list fall between the writes of clist_rpush.  Exempt is an iteration whose
\* first two reads (vfs.c:941 and 946) a push comes between: it starts at the newest
\* volume and may end there (IterFirst), against vfs.h:1173.
IterationComplete == \A t \in Users : pc[t] = "it_end" => due[t] = {}

\* tasks.c:4168, configASSERT( pxTCB == pxCurrentTCB ): a mutex is given by the
\* task that holds it, so whenever the holder loses it the holder has stepped.
GivenByHolder ==
  [][mount_mutex # NULL /\ mount_mutex' = NULL => pc'[mount_mutex] # pc[mount_mutex]]_vars
=============================================================================
