----------------------------- MODULE Vfs_proofs -----------------------------
(***************************************************************************)
(* What the VFS keeps, with volumes unmounted by force at any moment: the  *)
(* types, and descriptors that belong to one task.  The inductive          *)
(* invariant says which references a call holds at each of its places, and *)
(* that the pointers of the mount list are never null where a search       *)
(* follows them.                                                           *)
(*                                                                         *)
(* Then, as long as nothing is unmounted: the mutex of the list excludes,  *)
(* a search finds the longest mount point, an iteration misses none.  They *)
(* rest on what a walk along the next pointers reaches, which is proved by *)
(* induction over sets of numbers.                                         *)
(*                                                                         *)
(* Last, Vfs counts its references: its steps are steps of RefCount, when  *)
(* every file system has directory operations.                             *)
(***************************************************************************)
EXTENDS Vfs, FiniteSetTheorems, WellFoundedInduction, TLAPS

FindPc == {"find_take", "find_first", "find_loop", "find_end"}
ReadPc == {"it_next", "it_first", "it_tail", "it_wrap"}
IterPc == {"it_next", "it_first", "it_tail", "it_wrap", "it_hold", "it_close", "it_end"}

\* The mounts a call has counted, and the call it is, at every place.
CallInv(t) ==
  LET r == loc[t] IN
  /\ pc[t] \in {"idle", "it_next", "it_first", "it_end", "open_give", "open_driver",
                "close_driver"} => r.mp = NULL /\ r.mp2 = NULL
  /\ pc[t] \in {"it_tail", "it_wrap"} => r.mp = NULL
  /\ pc[t] \in FindPc => /\ r.name \in Names /\ r.op \in Calls
                         /\ r.op # "rename" => r.mp = NULL
                         /\ r.op = "iterate" <=> r.mp2 # NULL
  /\ pc[t] \in {"find_give", "opendir", "drop"} => r.mp # NULL
  /\ pc[t] = "find_give" => /\ r.op \in Calls
                            /\ r.op \in {"open", "opendir", "path"} => r.mp2 = NULL
  /\ pc[t] = "opendir" => r.op \in {"opendir", "iterate"}
  /\ pc[t] \in {"open_take", "open_scan", "open_claim"} => r.mp # NULL /\ r.mp2 = NULL
  /\ pc[t] \in {"drop2", "it_hold", "it_close"} => r.mp = NULL /\ r.mp2 # NULL
  /\ pc[t] \in IterPc => r.op = "iterate"

\* A search follows no null pointer, nor does an iteration that starts.
NodeInv(t) == pc[t] \in {"find_loop", "it_first"} =>
                /\ loc[t].node # NULL
                /\ list.link[loc[t].node] # NULL

\* The user's directory is closed while a call is about to open it.
DirInv(t) ==
  /\ dir[t].kind # "closed" => dir[t].mp # NULL
  /\ pc[t] \in FindPc \cup {"find_give", "opendir"} /\ loc[t].op \in {"opendir", "iterate"}
       => dir[t].kind = "closed"
  /\ pc[t] \in IterPc => (dir[t].kind = "closed" <=> dir[t].mp = NULL)

\* Task t has initialised the entry f and not yet freed it.
Opener(t, f) == \/ file[t][f] # NULL
                \/ pc[t] \in {"open_give", "open_driver"} /\ loc[t].fd = f

\* A descriptor being opened or closed is this task's.
FdInv(t) ==
  LET f == loc[t].fd IN
  /\ pc[t] \in {"open_scan", "open_claim", "open_give"} => open_mutex = t
  /\ pc[t] = "open_claim" => f \in Fds /\ fds[f].task_id = 0
  /\ pc[t] \in {"open_give", "open_driver"} =>
       f \in Fds /\ fds[f].task_id # 0 /\ file[t][f] = NULL
  /\ pc[t] = "close_driver" => f \in Fds /\ file[t][f] # NULL

\* A descriptor in use has a mount and, as long as it is in use, one opener.
EntryInv ==
  \A f \in Fds :
    /\ fds[f].task_id # 0 => fds[f].mp # NULL
    /\ \A t \in Users : Opener(t, f) => fds[f].task_id # 0
    /\ \A t, u \in Users : Opener(t, f) /\ Opener(u, f) => t = u

\* From a mounted node, next pointers lead from node to node for ever.
ListInv == /\ list.tail # NULL => list.link[list.tail] # NULL
           /\ \A m \in MountPts : list.link[m] # NULL => list.link[list.link[m]] # NULL

\* A mount being pushed leads on to a node as soon as its own next is written.
ReqInv == \A t \in Mounters :
            /\ pc[t] # "idle" => req[t].mp # NULL
            /\ pc[t] \in {"m_link", "m_tail"} => list.link[req[t].mp] # NULL

IInv == /\ TypeOK /\ FdKept /\ EntryInv /\ ListInv /\ ReqInv
        /\ \A t \in Users : CallInv(t) /\ NodeInv(t) /\ DirInv(t) /\ FdInv(t)
-----------------------------------------------------------------------------
(* What the list operations keep.                                          *)

LEMMA ListAssumptions == NULL \notin MountPts /\ NULL \notin Task /\ Users \cap Mounters = {}
BY VfsAssumption

\* A next pointer set to a node that leads on keeps them leading from node to node.
LEMMA LinkKeepsList ==
  ASSUME list \in CL!List, ListInv, NEW k \in MpOrNull, NEW m \in MountPts,
         k = m \/ list.link[m] # NULL, list' = [list EXCEPT !.link[k] = m]
  PROVE  /\ list' \in CL!List /\ ListInv'
         /\ \A n \in MountPts : list.link[n] # NULL => list'.link[n] # NULL
BY ListAssumptions DEF CL!List, CL!Pointer, ListInv, MpOrNull

\* So does a head set to such a node.
LEMMA HeadKeepsList ==
  ASSUME list \in CL!List, ListInv, NEW m \in MountPts, list.link[m] # NULL,
         list' = [list EXCEPT !.tail = m]
  PROVE  list' \in CL!List /\ ListInv' /\ list'.link = list.link
BY DEF CL!List, CL!Pointer, ListInv

LEMMA PopKeepsList ==
  ASSUME list \in CL!List, ListInv, list' = CL!clist_lpop(list)
  PROVE  /\ list' \in CL!List /\ ListInv'
         /\ \A n \in MountPts : list.link[n] # NULL => list'.link[n] # NULL
<1>1. CASE list.tail = NULL
  BY <1>1, ListAssumptions DEF CL!clist_lpop, CL!List, CL!Pointer, ListInv
<1>2. CASE list.tail # NULL
  BY <1>2, ListAssumptions DEF CL!clist_lpop, CL!List, CL!Pointer, ListInv
<1> QED BY <1>1, <1>2

\* So does clist_remove: what it redirects it redirects to a node.
LEMMA RemoveKeepsList ==
  ASSUME list \in CL!List, ListInv, NEW m \in MountPts, list' = CL!clist_remove(list, m)
  PROVE  /\ list' \in CL!List /\ ListInv'
         /\ \A n \in MountPts : list.link[n] # NULL => list'.link[n] # NULL
<1> DEFINE b == CL!clist_find_before(list, m)
<1>1. b = NULL \/ (b \in MountPts /\ list.link[b] = m)
  BY DEF CL!clist_find_before, CL!Members
<1>2. CASE list.tail = NULL
  BY <1>2 DEF CL!clist_remove, ListInv
<1>3. CASE list.tail # NULL /\ list.link[list.tail] = m
  BY <1>3, PopKeepsList DEF CL!clist_remove
<1>4. CASE list.tail # NULL /\ list.link[list.tail] # m /\ b = NULL
  BY <1>4 DEF CL!clist_remove, ListInv
<1>5. CASE list.tail # NULL /\ list.link[list.tail] # m /\ b # NULL
  <2>1. list' = [tail |-> IF m = list.tail THEN b ELSE list.tail,
                 link |-> [list.link EXCEPT ![b] = list.link[m]]]
    BY <1>5 DEF CL!clist_remove
  <2> HIDE DEF b
  <2> QED BY <1>1, <1>5, <2>1, ListAssumptions DEF CL!List, CL!Pointer, ListInv
<1> QED BY <1>2, <1>3, <1>4, <1>5
-----------------------------------------------------------------------------
(* Type correctness.                                                       *)

\* The records of calls: what the steps write in them leaves them records.
LEMMA CallRecords ==
  /\ NoCall \in CallRecord /\ NoCall.mp = NULL /\ NoCall.mp2 = NULL
  /\ \A o \in Calls, n \in Names : [NoCall EXCEPT !.op = o, !.name = n] \in CallRecord
  /\ [NoCall EXCEPT !.op = "iterate"] \in CallRecord
  /\ \A f \in Nat : [NoCall EXCEPT !.op = "close", !.fd = f] \in CallRecord
  /\ \A r \in CallRecord :
       /\ \A m \in MpOrNull : /\ [r EXCEPT !.mp = m] \in CallRecord
                              /\ [r EXCEPT !.mp2 = m] \in CallRecord
                              /\ [r EXCEPT !.node = m] \in CallRecord
       /\ \A n \in Names : [r EXCEPT !.name = n] \in CallRecord
       /\ \A f \in Nat : [r EXCEPT !.fd = f] \in CallRecord
       /\ [r EXCEPT !.node = NULL, !.cand = NULL, !.longest = 0] \in CallRecord
       /\ \A m, c \in MpOrNull, k \in Nat :
            [r EXCEPT !.node = m, !.cand = c, !.longest = k] \in CallRecord
<1>1. NoCall \in CallRecord /\ NoCall.mp = NULL /\ NoCall.mp2 = NULL
  BY DEF NoCall, CallRecord, MpOrNull
<1>2. \A o \in Calls, n \in Names : [NoCall EXCEPT !.op = o, !.name = n] \in CallRecord
  BY <1>1 DEF CallRecord
<1>3. [NoCall EXCEPT !.op = "iterate"] \in CallRecord
  BY <1>1 DEF CallRecord, Calls
<1>4. \A f \in Nat : [NoCall EXCEPT !.op = "close", !.fd = f] \in CallRecord
  BY <1>1 DEF CallRecord
<1>5. ASSUME NEW r \in CallRecord
      PROVE  /\ \A m \in MpOrNull : /\ [r EXCEPT !.mp = m] \in CallRecord
                                    /\ [r EXCEPT !.mp2 = m] \in CallRecord
                                    /\ [r EXCEPT !.node = m] \in CallRecord
             /\ \A n \in Names : [r EXCEPT !.name = n] \in CallRecord
             /\ \A f \in Nat : [r EXCEPT !.fd = f] \in CallRecord
             /\ [r EXCEPT !.node = NULL, !.cand = NULL, !.longest = 0] \in CallRecord
  BY ZenonT(60) DEF CallRecord, MpOrNull
<1>6. ASSUME NEW r \in CallRecord, NEW m \in MpOrNull, NEW c \in MpOrNull, NEW k \in Nat
      PROVE  [r EXCEPT !.node = m, !.cand = c, !.longest = k] \in CallRecord
  BY DEF CallRecord
<1> QED BY <1>1, <1>2, <1>3, <1>4, <1>5, <1>6

\* A call that returns keeps the references it still has to give back.
LEMMA Returned ==
  ASSUME TypeOK, NEW t \in Users, NEW r \in CallRecord, Return(t, r)
  PROVE  /\ pc' = [pc EXCEPT ![t] = Unwind(r)]
         /\ Unwind(r) \in {"drop", "drop2", "idle"}
         /\ pc' \in [Task -> UserPc \cup MounterPc]
         /\ loc' \in [Users -> CallRecord]
         /\ loc'[t].mp = r.mp /\ loc'[t].mp2 = r.mp2
         /\ \A u \in Users \ {t} : loc'[u] = loc[u]
<1> USE DEF TypeOK
<1>1. Unwind(r) \in {"drop", "drop2", "idle"}
  BY DEF Unwind
<1>2. pc' = [pc EXCEPT ![t] = Unwind(r)] /\ pc' \in [Task -> UserPc \cup MounterPc]
  BY <1>1 DEF Return, Goto, UserPc, Task
<1>3. NoCall \in CallRecord /\ NoCall.mp = NULL /\ NoCall.mp2 = NULL
  BY CallRecords
<1>4. Unwind(r) = "idle" => r.mp = NULL /\ r.mp2 = NULL
  BY DEF Unwind
<1>5. loc' = [loc EXCEPT ![t] = IF Unwind(r) = "idle" THEN NoCall ELSE r]
  BY DEF Return, Set
<1> HIDE DEF NoCall, Unwind
<1> QED BY <1>1, <1>2, <1>3, <1>4, <1>5

\* Counts stay integers.
LEMMA CountTyped ==
  ASSUME TypeOK, NEW m, NEW k \in Int, Count(m, k)
  PROVE  open_files' \in [MountPts -> Int]
<1>1. open_files' = [x \in MountPts |-> IF x = m THEN open_files[m] + k ELSE open_files[x]]
  BY DEF TypeOK, Count
<1>2. \A x \in MountPts : open_files[x] \in Int
  BY DEF TypeOK
<1> QED BY <1>1, <1>2

LEMMA TypeStart ==
  ASSUME TypeOK, NEW t \in Users, UserStart(t)
  PROVE  TypeOK'
<1> USE DEF TypeOK, tables, mutexes, Goto, Set, UserPc, Task
<1>1. ASSUME NEW o \in Calls, NEW n \in Names, Call(t, o, n)
      PROVE  TypeOK'
  BY <1>1, CallRecords DEF Call
<1>2. ASSUME NEW n \in Names, \/ vfs_open(t, n) \/ vfs_opendir(t, n)
                              \/ vfs_path_op(t, n) \/ vfs_rename(t, n)
      PROVE  TypeOK'
  BY <1>1, <1>2 DEF vfs_open, vfs_opendir, vfs_path_op, vfs_rename, Calls
<1>3. CASE vfs_iterate_mount_dirs(t)
  <2>1. Mounted \subseteq MountPts
    BY DEF Mounted, CL!Members
  <2>0. /\ UNCHANGED dir \/ dir' = [dir EXCEPT ![t].mp = NULL]
        /\ UNCHANGED due \/ due' = [due EXCEPT ![t] = Mounted \ Pushing]
    BY <1>3 DEF vfs_iterate_mount_dirs
  <2>2. dir' \in [Users -> [mp : MpOrNull, kind : {"closed", "open", "iter"}]]
    <3>1. dir[t].kind \in {"closed", "open", "iter"} /\ NULL \in MpOrNull
      BY DEF MpOrNull
    <3>2. [dir[t] EXCEPT !.mp = NULL] \in [mp : MpOrNull, kind : {"closed", "open", "iter"}]
      BY <3>1
    <3> QED BY <2>0, <3>2
  <2>3. due' \in [Users -> SUBSET MountPts]
    <3>1. Mounted \ Pushing \in SUBSET MountPts
      BY <2>1
    <3> QED BY <2>0, <3>1
  <2> QED BY <1>3, <2>2, <2>3, CallRecords DEF vfs_iterate_mount_dirs
<1>4. ASSUME NEW f \in Fds, vfs_close(t, f)
      PROVE  TypeOK'
  <2>1. f \in Nat
    BY VfsAssumption DEF Fds
  <2> QED BY <1>4, <2>1, CallRecords DEF vfs_close
<1>5. CASE vfs_closedir(t)
  BY <1>5, CountTyped DEF vfs_closedir, MpOrNull
<1> QED BY <1>2, <1>3, <1>4, <1>5 DEF UserStart

LEMMA TypeFind ==
  ASSUME IInv, NEW t \in Users,
         FindTake(t) \/ FindFirst(t) \/ FindLoop(t) \/ FindEnd(t) \/ FindGive(t)
  PROVE  TypeOK'
<1> USE DEF TypeOK, IInv, tables, mutexes, Goto, Set, UserPc, Task
<1>0. loc[t] \in CallRecord
  OBVIOUS
<1>1. CASE FindTake(t)
  BY <1>1 DEF FindTake
<1>2. CASE FindFirst(t)
  <2>1. list.tail \in MpOrNull
    BY DEF CL!List, CL!Pointer, MpOrNull
  <2>2. [loc[t] EXCEPT !.node = list.tail] \in CallRecord
    BY <1>0, <2>1, CallRecords
  <2>3. CASE list.tail = NULL
    BY <1>0, <1>2, <2>3, Returned DEF FindFirst
  <2>4. CASE list.tail # NULL
    BY ZenonT(60), <1>2, <2>2, <2>4 DEF FindFirst
  <2> QED BY <2>3, <2>4
<1>3. CASE FindLoop(t)
  <2> DEFINE r == loc[t]
             it == list.link[r.node]
             match == PathLen[it] >= r.longest /\ it \in Prefixes[r.name]
  <2>1. it \in MountPts
    BY <1>3, ListAssumptions DEF FindLoop, NodeInv, CL!List, CL!Pointer, CallRecord, MpOrNull
  <2>2. PathLen[it] \in Nat
    BY <2>1, VfsAssumption
  <2>3. (IF match THEN it ELSE r.cand) \in MpOrNull
    BY <1>0, <2>1 DEF MpOrNull, CallRecord
  <2>4. (IF match /\ PathLen[it] > 1 THEN PathLen[it] ELSE r.longest) \in Nat
    BY <1>0, <2>2 DEF CallRecord
  <2>5. loc' = [loc EXCEPT ![t] =
                  [r EXCEPT !.node = it, !.cand = IF match THEN it ELSE r.cand,
                            !.longest = IF match /\ PathLen[it] > 1
                                        THEN PathLen[it] ELSE r.longest]]
    BY <1>3 DEF FindLoop
  <2>6. it \in MpOrNull
    BY <2>1 DEF MpOrNull
  <2>7. loc' \in [Users -> CallRecord]
    <3> HIDE DEF it, match
    <3> QED BY <1>0, <2>3, <2>4, <2>5, <2>6, CallRecords
  <2> QED BY <1>3, <2>7 DEF FindLoop
<1>4. CASE FindEnd(t)
  <2> DEFINE r == [loc[t] EXCEPT !.node = NULL, !.cand = NULL, !.longest = 0]
  <2>1. r \in CallRecord
    BY <1>0, CallRecords
  <2>2. CASE loc[t].cand = NULL
    BY <1>4, <2>1, <2>2, Returned DEF FindEnd
  <2>3. CASE loc[t].cand # NULL
    <3>1. loc[t].cand \in MpOrNull /\ loc[t].cand \in MountPts
      BY <1>0, <2>3 DEF CallRecord, MpOrNull
    <3>2. loc' \in [Users -> CallRecord]
      <4>1. loc' = [loc EXCEPT ![t] = IF r.op = "rename" /\ r.mp # NULL
                                      THEN [r EXCEPT !.mp2 = loc[t].cand]
                                      ELSE [r EXCEPT !.mp = loc[t].cand]]
        BY <1>4, <2>3 DEF FindEnd
      <4> HIDE DEF r
      <4>2. /\ [r EXCEPT !.mp2 = loc[t].cand] \in CallRecord
            /\ [r EXCEPT !.mp = loc[t].cand] \in CallRecord
        BY <2>1, <3>1, CallRecords
      <4> QED BY <4>1, <4>2
    <3>3. open_files' \in [MountPts -> Int]
      BY <1>4, <2>3, CountTyped DEF FindEnd
    <3> QED BY <1>4, <2>3, <3>2, <3>3 DEF FindEnd
  <2> QED BY <2>2, <2>3
<1>5. CASE FindGive(t)
  <2>1. CASE UNCHANGED loc
    BY <1>5, <2>1 DEF FindGive, Return, Unwind
  <2>2. CASE Return(t, loc[t])
    BY <1>0, <1>5, <2>2, Returned DEF FindGive
  <2>3. ASSUME NEW n \in Names, Set(t, [loc[t] EXCEPT !.name = n])
        PROVE  TypeOK'
    <3>1. [loc[t] EXCEPT !.name = n] \in CallRecord
      BY <1>0, CallRecords
    <3> QED BY ZenonT(60), <1>5, <2>3, <3>1 DEF FindGive, Return, Unwind
  <2> QED BY <1>5, <2>1, <2>2, <2>3 DEF FindGive
<1> QED BY <1>1, <1>2, <1>3, <1>4, <1>5

LEMMA TypeRest ==
  ASSUME IInv, NEW t \in Users,
         \/ DriverCall(t) \/ Drop(t) \/ Drop2(t)
         \/ OpenTake(t) \/ OpenScan(t) \/ OpenClaim(t) \/ OpenGive(t) \/ OpenDriver(t)
         \/ CloseDriver(t)
  PROVE  TypeOK'
<1> USE DEF TypeOK, IInv, tables, mutexes, Goto, Set, UserPc, Task
<1>0. loc[t] \in CallRecord /\ NULL \in MpOrNull
  BY DEF MpOrNull
<1>1. CASE DriverCall(t)
  BY <1>0, <1>1, Returned DEF DriverCall
<1>2. CASE Drop(t)
  <2>1. [loc[t] EXCEPT !.mp = NULL] \in CallRecord
    BY <1>0, CallRecords
  <2> QED BY <1>2, <2>1, Returned, CountTyped DEF Drop
<1>3. CASE Drop2(t)
  <2>1. open_files' \in [MountPts -> Int]
    BY <1>3, CountTyped DEF Drop2
  <2> QED BY <1>3, <2>1, CallRecords, Returned DEF Drop2
<1>4. CASE OpenTake(t)
  BY <1>4 DEF OpenTake
<1>5. CASE OpenScan(t)
  <2>1. /\ [loc[t] EXCEPT !.fd = 3] \in CallRecord
        /\ [loc[t] EXCEPT !.fd = loc[t].fd + 1] \in CallRecord
    <3>1. loc[t].fd \in Nat /\ loc[t].fd + 1 \in Nat
      BY <1>0 DEF CallRecord
    <3> QED BY <1>0, <3>1, CallRecords
  <2>2. CASE loc[t].fd \in Fds
    BY <1>5, <2>1, <2>2 DEF OpenScan
  <2>3. CASE loc[t].fd \notin Fds
    BY <1>5, <2>1, <2>3, Returned DEF OpenScan
  <2> QED BY <2>2, <2>3
<1>6. CASE OpenClaim(t)
  <2>1. [loc[t] EXCEPT !.mp = NULL] \in CallRecord
    BY <1>0, CallRecords
  <2>2. fds' \in [Fds -> [task_id : {-1, 0}, mp : MpOrNull]]
    BY <1>0, <1>6 DEF OpenClaim, uxTaskGetTaskNumber, CallRecord
  <2> QED BY <1>6, <2>1, <2>2 DEF OpenClaim
<1>7. CASE OpenGive(t)
  BY <1>7 DEF OpenGive
<1>8. ASSUME NEW f \in Fds, FreeFd(f)
      PROVE  /\ fds' \in [Fds -> [task_id : {-1, 0}, mp : MpOrNull]]
             /\ open_files' \in [MountPts -> Int]
  BY <1>8, CountTyped DEF FreeFd
<1>9. CASE OpenDriver(t)
  <2>1. loc[t].fd \in Fds
    BY <1>9 DEF OpenDriver, FdInv
  <2>2. /\ fds' \in [Fds -> [task_id : {-1, 0}, mp : MpOrNull]]
        /\ open_files' \in [MountPts -> Int]
        /\ file' \in [Users -> [Fds -> MpOrNull]]
    <3>1. CASE FreeFd(loc[t].fd) /\ UNCHANGED file
      BY <1>8, <2>1, <3>1
    <3>2. CASE /\ file' = [file EXCEPT ![t][loc[t].fd] = fds[loc[t].fd].mp]
               /\ UNCHANGED <<open_files, fds>>
      BY <2>1, <3>2
    <3> QED BY <1>9, <3>1, <3>2 DEF OpenDriver
  <2>3. Return(t, NoCall)
    BY <1>9 DEF OpenDriver
  <2> QED BY <1>9, <2>2, <2>3, CallRecords, Returned DEF OpenDriver
<1>10. CASE CloseDriver(t)
  <2>1. loc[t].fd \in Fds
    BY <1>10 DEF CloseDriver, FdInv
  <2>2. /\ fds' \in [Fds -> [task_id : {-1, 0}, mp : MpOrNull]]
        /\ open_files' \in [MountPts -> Int]
        /\ file' \in [Users -> [Fds -> MpOrNull]]
    BY <1>0, <1>8, <1>10, <2>1 DEF CloseDriver
  <2>3. Return(t, NoCall)
    BY <1>10 DEF CloseDriver
  <2> QED BY <1>10, <2>2, <2>3, CallRecords, Returned DEF CloseDriver
<1> QED BY <1>1, <1>2, <1>3, <1>4, <1>5, <1>6, <1>7, <1>9, <1>10

\* The reads of vfs_iterate_mounts change mp2, node and the place of their task only.
IterReads(t) == IterNext(t) \/ IterFirst(t) \/ IterTail(t) \/ IterWrap(t)

LEMMA Reading ==
  ASSUME IInv, NEW t \in Users, IterReads(t)
  PROVE  /\ UNCHANGED <<list, open_files, fds, dir, file, mutexes, req>>
         /\ due' = due \/ due' = [due EXCEPT ![t] = {}]
         /\ pc[t] \in ReadPc /\ pc'[t] \in IterPc \ {"it_next", "it_close"}
         /\ pc' = [pc EXCEPT ![t] = pc'[t]] /\ loc' = [loc EXCEPT ![t] = loc'[t]]
         /\ loc'[t] \in CallRecord /\ loc'[t].op = loc[t].op /\ loc'[t].mp = loc[t].mp
         /\ loc'[t].cand = loc[t].cand /\ loc'[t].longest = loc[t].longest
<1>. USE DEF IInv, TypeOK, tables, mutexes, Goto, Set, Task
<1>0. /\ loc[t] \in CallRecord /\ NULL \in MpOrNull /\ list.tail \in MpOrNull
      /\ loc[t].mp2 \in MpOrNull /\ loc[t].node \in MpOrNull
      /\ \A m \in MountPts : list.link[m] \in MpOrNull
  BY DEF CL!List, CL!Pointer, MpOrNull, CallRecord
<1>1. ASSUME NEW x \in MpOrNull, NEW y \in MpOrNull
      PROVE  LET r == [loc[t] EXCEPT !.mp2 = x, !.node = y]
             IN  /\ r \in CallRecord /\ r.op = loc[t].op /\ r.mp = loc[t].mp
                 /\ r.cand = loc[t].cand /\ r.longest = loc[t].longest
  BY <1>0 DEF CallRecord
<1>2. \A x : /\ [loc[t] EXCEPT !.mp2 = x] = [loc[t] EXCEPT !.mp2 = x, !.node = loc[t].node]
             /\ [loc[t] EXCEPT !.node = x] = [loc[t] EXCEPT !.mp2 = loc[t].mp2, !.node = x]
  BY <1>0 DEF CallRecord
<1>3. loc[t] = [loc[t] EXCEPT !.mp2 = loc[t].mp2, !.node = loc[t].node]
  BY <1>0 DEF CallRecord
<1>4. ASSUME NEW x \in MpOrNull, NEW y \in MpOrNull,
             loc' = [loc EXCEPT ![t] = [loc[t] EXCEPT !.mp2 = x, !.node = y]]
      PROVE  /\ loc' = [loc EXCEPT ![t] = loc'[t]]
             /\ loc'[t] \in CallRecord /\ loc'[t].op = loc[t].op /\ loc'[t].mp = loc[t].mp
             /\ loc'[t].cand = loc[t].cand /\ loc'[t].longest = loc[t].longest
  <2>1. loc'[t] = [loc[t] EXCEPT !.mp2 = x, !.node = y]
    BY <1>4
  <2>. QED BY <1>1, <1>4, <2>1
<1>5. CASE IterNext(t)
  <2>1. dir[t].mp # NULL => list.link[dir[t].mp] \in MpOrNull
    BY <1>0 DEF MpOrNull
  <2>2. \/ UNCHANGED loc
        \/ loc' = [loc EXCEPT ![t] = [loc[t] EXCEPT !.node = list.tail]]
        \/ /\ dir[t].mp # NULL
           /\ loc' = [loc EXCEPT ![t] = [loc[t] EXCEPT !.mp2 = list.link[dir[t].mp]]]
    BY <1>5 DEF IterNext
  <2>3. \E x, y \in MpOrNull : loc' = [loc EXCEPT ![t] = [loc[t] EXCEPT !.mp2 = x, !.node = y]]
    <3>1. CASE UNCHANGED loc
      <4>1. loc' = [loc EXCEPT ![t] = loc[t]]
        BY <3>1
      <4>. QED BY <1>0, <1>3, <4>1
    <3>2. CASE loc' = [loc EXCEPT ![t] = [loc[t] EXCEPT !.node = list.tail]]
      BY <1>0, <1>2, <3>2
    <3>3. CASE /\ dir[t].mp # NULL
               /\ loc' = [loc EXCEPT ![t] = [loc[t] EXCEPT !.mp2 = list.link[dir[t].mp]]]
      <4>. DEFINE x == list.link[dir[t].mp]
      <4>1. /\ x \in MpOrNull /\ loc[t].node \in MpOrNull
            /\ loc' = [loc EXCEPT ![t] = [loc[t] EXCEPT !.mp2 = x]]
        BY <1>0, <2>1, <3>3
      <4>. HIDE DEF x
      <4>2. [loc[t] EXCEPT !.mp2 = x] = [loc[t] EXCEPT !.mp2 = x, !.node = loc[t].node]
        BY <1>2
      <4>3. loc' = [loc EXCEPT ![t] = [loc[t] EXCEPT !.mp2 = x, !.node = loc[t].node]]
        BY <4>1, <4>2, Zenon
      <4>. QED BY <4>1, <4>3, Zenon
    <3>. QED BY <2>2, <3>1, <3>2, <3>3
  <2>4. /\ pc[t] = "it_next" /\ UNCHANGED <<tables, mutexes, req>>
        /\ \E l \in {"it_end", "it_first", "it_tail"} : pc' = [pc EXCEPT ![t] = l]
    BY <1>5 DEF IterNext
  <2>. QED BY <1>4, <2>3, <2>4 DEF ReadPc, IterPc
<1>6. CASE IterFirst(t)
  <2>1. loc[t].node # NULL /\ pc[t] = "it_first"
    BY <1>6 DEF IterFirst, NodeInv
  <2>2. list.link[loc[t].node] \in MpOrNull
    BY <1>0, <2>1 DEF MpOrNull
  <2>3. loc' = [loc EXCEPT ![t] =
                  [loc[t] EXCEPT !.mp2 = list.link[loc[t].node], !.node = NULL]]
    BY <1>6 DEF IterFirst
  <2>. QED BY <1>0, <1>4, <1>6, <2>1, <2>2, <2>3 DEF IterFirst, ReadPc, IterPc
<1>7. CASE IterTail(t)
  <2>1. loc' = [loc EXCEPT ![t] = [loc[t] EXCEPT !.mp2 = loc[t].mp2, !.node = list.tail]]
    BY <1>2, <1>7 DEF IterTail
  <2>. QED BY <1>0, <1>4, <1>7, <2>1 DEF IterTail, ReadPc, IterPc
<1>8. CASE IterWrap(t)
  <2>1. \E x \in MpOrNull : loc' = [loc EXCEPT ![t] = [loc[t] EXCEPT !.mp2 = x, !.node = NULL]]
    BY <1>0, <1>8 DEF IterWrap
  <2>2. \E l \in {"it_end", "it_hold"} : pc' = [pc EXCEPT ![t] = l]
    BY <1>8 DEF IterWrap
  <2>. QED BY <1>0, <1>4, <1>8, <2>1, <2>2 DEF IterWrap, ReadPc, IterPc
<1>. QED BY <1>5, <1>6, <1>7, <1>8 DEF IterReads

LEMMA TypeDir ==
  ASSUME IInv, NEW t \in Users,
         OpenDir(t) \/ IterReads(t) \/ IterHold(t) \/ IterClose(t) \/ IterEnd(t)
  PROVE  TypeOK'
<1> USE DEF TypeOK, IInv, tables, mutexes, Goto, Set, UserPc, Task
<1>0. loc[t] \in CallRecord /\ NULL \in MpOrNull /\ MountPts \subseteq MpOrNull
  BY DEF MpOrNull
<1>1. CASE OpenDir(t)
  <2>1. [loc[t] EXCEPT !.mp = NULL] \in CallRecord
    BY <1>0, CallRecords
  <2>2. pc' \in [Task -> UserPc \cup MounterPc] /\ loc' \in [Users -> CallRecord]
    BY <1>0, <1>1, <2>1, Returned DEF OpenDir
  <2>3. dir' \in [Users -> [mp : MpOrNull, kind : {"closed", "open", "iter"}]]
    <3>1. loc[t].mp \in MpOrNull
      BY <1>0 DEF CallRecord
    <3>2. \/ UNCHANGED dir
          \/ \E k \in {"closed", "open", "iter"} :
               dir' = [dir EXCEPT ![t] = [mp |-> loc[t].mp, kind |-> k]]
      BY <1>1 DEF OpenDir
    <3>3. \A k \in {"closed", "open", "iter"} :
            [mp |-> loc[t].mp, kind |-> k] \in [mp : MpOrNull, kind : {"closed", "open", "iter"}]
      BY <3>1
    <3> QED BY <3>2, <3>3
  <2>4. due' \in [Users -> SUBSET MountPts]
    BY <1>1 DEF OpenDir
  <2> QED BY <1>1, <2>2, <2>3, <2>4 DEF OpenDir
<1>2. CASE IterReads(t)
  <2>1. loc' \in [Users -> CallRecord]
    <3>1. loc'[t] \in CallRecord /\ loc' = [loc EXCEPT ![t] = loc'[t]]
      BY <1>2, Reading
    <3>. QED BY <3>1
  <2>2. pc' \in [Task -> UserPc \cup MounterPc]
    <3>1. pc'[t] \in UserPc \cup MounterPc /\ pc' = [pc EXCEPT ![t] = pc'[t]]
      BY <1>2, Reading DEF IterPc
    <3>. QED BY <3>1
  <2>3. due' \in [Users -> SUBSET MountPts]
    BY <1>2, Reading
  <2> QED BY <1>2, <2>1, <2>2, <2>3, Reading
<1>3. CASE IterHold(t)
  BY <1>3, CountTyped DEF IterHold
<1>4. ASSUME IterCloseDir(t)
      PROVE  /\ dir' \in [Users -> [mp : MpOrNull, kind : {"closed", "open", "iter"}]]
             /\ open_files' \in [MountPts -> Int]
  BY <1>0, <1>4, CountTyped DEF IterCloseDir
<1>5. CASE IterClose(t)
  <2>1. loc[t].mp2 \in MountPts
    BY <1>0, <1>5 DEF IterClose, CallInv, CallRecord, MpOrNull
  <2>2. [loc[t] EXCEPT !.name = MountPath[loc[t].mp2]] \in CallRecord
    BY <1>0, <2>1, VfsAssumption, CallRecords
  <2> QED BY <1>4, <1>5, <2>2 DEF IterClose
<1>6. CASE IterEnd(t)
  <2>1. due' \in [Users -> SUBSET MountPts]
    BY <1>6 DEF IterEnd
  <2> QED BY <1>4, <1>6, <2>1, CallRecords, Returned DEF IterEnd
<1> QED BY <1>1, <1>2, <1>3, <1>5, <1>6

\* The three writes of clist_rpush keep next pointers leading from node to node.
LEMMA PushSteps ==
  ASSUME IInv, NEW t \in Mounters, MountPush(t) \/ MountLink(t) \/ MountTail(t)
  PROVE  /\ list' \in CL!List /\ ListInv'
         /\ \A n \in MountPts : list.link[n] # NULL => list'.link[n] # NULL
         /\ UNCHANGED req
         /\ pc'[t] \in {"m_link", "m_tail"} => list'.link[req[t].mp] # NULL
<1>. DEFINE m == req[t].mp
<1>0. /\ list \in CL!List /\ ListInv /\ UNCHANGED req /\ list.tail \in MpOrNull
      /\ m \in MountPts /\ m \in MpOrNull /\ pc'[t] \in {"m_link", "m_tail", "idle"}
  BY DEF MountPush, MountLink, MountTail, IInv, TypeOK, ReqInv, MpOrNull, CL!List, CL!Pointer,
         Goto, Task
<1>1. CASE MountPush(t) /\ list.tail # NULL
  <2>. DEFINE v == list.link[list.tail]
  <2>1. v \in MountPts /\ list.link[v] # NULL /\ list.tail \in MountPts
    BY <1>0, <1>1, ListAssumptions DEF ListInv, CL!List, CL!Pointer
  <2>2. list' = [list EXCEPT !.link[m] = v]
    BY <1>1 DEF MountPush
  <2>. HIDE DEF m, v
  <2>3. /\ list' \in CL!List /\ ListInv'
        /\ \A n \in MountPts : list.link[n] # NULL => list'.link[n] # NULL
    BY <1>0, <2>1, <2>2, LinkKeepsList
  <2>4. list'.link[m] # NULL
    BY <1>0, <2>1, <2>2, ListAssumptions DEF CL!List
  <2>. QED BY <1>0, <2>3, <2>4 DEF m
<1>2. CASE MountPush(t) /\ list.tail = NULL
  <2>1. list' = [list EXCEPT !.link[m] = m]
    BY <1>2 DEF MountPush
  <2>. HIDE DEF m
  <2>2. /\ list' \in CL!List /\ ListInv'
        /\ \A n \in MountPts : list.link[n] # NULL => list'.link[n] # NULL
    BY <1>0, <2>1, LinkKeepsList
  <2>3. list'.link[m] # NULL
    BY <1>0, <2>1, ListAssumptions DEF CL!List
  <2>. QED BY <1>0, <2>2, <2>3 DEF m
<1>3. CASE MountLink(t)
  <2>1. list' = [list EXCEPT !.link[list.tail] = m] /\ list.link[m] # NULL
    BY <1>3 DEF MountLink, IInv, ReqInv
  <2>. HIDE DEF m
  <2>2. /\ list' \in CL!List /\ ListInv'
        /\ \A n \in MountPts : list.link[n] # NULL => list'.link[n] # NULL
    BY <1>0, <2>1, LinkKeepsList
  <2>. QED BY <1>0, <2>1, <2>2 DEF m
<1>4. CASE MountTail(t)
  <2>1. /\ list' = [list EXCEPT !.tail = m] /\ list.link[m] # NULL
    BY <1>4 DEF MountTail, IInv, ReqInv
  <2>. HIDE DEF m
  <2>2. list' \in CL!List /\ ListInv' /\ list'.link = list.link
    BY <1>0, <2>1, HeadKeepsList
  <2>. QED BY <1>0, <2>1, <2>2 DEF m
<1>. QED BY <1>1, <1>2, <1>3, <1>4

\* A step of a mounter touches the list, the mount mutex, its own place and its
\* own request.
LEMMA TypeMounter ==
  ASSUME IInv, NEW t \in Mounters, MounterStart(t) \/ MounterStep(t)
  PROVE  TypeOK'
<1> USE DEF TypeOK, IInv, tables, mutexes, Goto, MounterPc, Task
<1>1. ASSUME NEW m \in MountPts, vfs_mount(t, m)
      PROVE  TypeOK'
  BY <1>1 DEF vfs_mount, MpOrNull
<1>2. ASSUME NEW m \in MountPts, NEW force \in ForceArgs, vfs_umount(t, m, force)
      PROVE  TypeOK'
  BY <1>2, VfsAssumption DEF vfs_umount, MpOrNull
<1>3. CASE CheckTake(t)
  BY <1>3 DEF CheckTake
<1>4. CASE MountFind(t) \/ MountDriver(t) \/ UmountFind(t) \/ UmountCount(t) \/ UmountDriver(t)
  BY <1>4 DEF MountFind, MountDriver, UmountFind, UmountCount, UmountDriver
<1>5. pc[t] # "idle" => req[t].mp \in MountPts
  BY DEF ReqInv, MpOrNull
<1>6. CASE MountPush(t) \/ MountLink(t) \/ MountTail(t)
  BY <1>6, PushSteps DEF MountPush, MountLink, MountTail
<1>7. CASE UmountRemove(t)
  <2>1. due' \in [Users -> SUBSET MountPts]
    BY <1>7 DEF UmountRemove
  <2> QED BY <1>5, <1>7, <2>1, RemoveKeepsList DEF UmountRemove
<1> QED BY <1>1, <1>2, <1>3, <1>4, <1>6, <1>7 DEF MounterStart, MounterStep
-----------------------------------------------------------------------------
(* What a step leaves alone.                                               *)

\* A user's step leaves the list and every other task's place and locals alone.
LEMMA UserFrame ==
  ASSUME TypeOK, NEW t \in Users, UserStart(t) \/ UserStep(t)
  PROVE  /\ UNCHANGED <<list, req>>
         /\ \A u \in Task \ {t} : pc'[u] = pc[u]
         /\ \A u \in Users \ {t} : loc'[u] = loc[u] /\ dir'[u] = dir[u] /\ file'[u] = file[u]
<1> USE DEF TypeOK, tables, mutexes, Goto, Set, Task
<1>1. CASE UserStart(t)
  BY <1>1 DEF UserStart, Call, vfs_open, vfs_opendir, vfs_path_op, vfs_rename,
              vfs_iterate_mount_dirs, vfs_close, vfs_closedir
<1>2. CASE FindTake(t) \/ FindFirst(t) \/ FindLoop(t) \/ FindEnd(t) \/ FindGive(t)
  BY <1>2 DEF FindTake, FindFirst, FindLoop, FindEnd, FindGive, Return
<1>3. CASE \/ DriverCall(t) \/ Drop(t) \/ Drop2(t) \/ OpenTake(t) \/ OpenScan(t)
           \/ OpenClaim(t) \/ OpenGive(t) \/ OpenDriver(t) \/ CloseDriver(t)
  BY <1>3 DEF DriverCall, Drop, Drop2, OpenTake, OpenScan, OpenClaim, OpenGive,
              OpenDriver, CloseDriver, Return
<1>4. CASE OpenDir(t) \/ IterHold(t) \/ IterClose(t) \/ IterEnd(t)
  BY <1>4 DEF OpenDir, IterHold, IterClose, IterEnd, IterCloseDir, Return
<1>5. CASE IterReads(t)
  BY <1>5 DEF IterReads, IterNext, IterFirst, IterTail, IterWrap
<1> QED BY <1>1, <1>2, <1>3, <1>4, <1>5 DEF UserStep, IterReads

\* A mounter's step leaves counts, descriptors, directories and calls alone.
LEMMA MounterFrame ==
  ASSUME TypeOK, NEW t \in Mounters, MounterStart(t) \/ MounterStep(t)
  PROVE  /\ UNCHANGED <<open_files, fds, dir, file, open_mutex, loc>>
         /\ \A u \in Task \ {t} : pc'[u] = pc[u]
         /\ \A u \in Mounters \ {t} : req'[u] = req[u]
<1> USE DEF TypeOK, tables, mutexes, Goto, Task
<1>1. CASE MounterStart(t)
  BY <1>1 DEF MounterStart, vfs_mount, vfs_umount
<1>2. CASE MounterStep(t)
  BY <1>2 DEF MounterStep, CheckTake, MountFind, MountDriver, MountPush, MountLink,
              MountTail, UmountFind, UmountCount, UmountDriver, UmountRemove
<1> QED BY <1>1, <1>2
-----------------------------------------------------------------------------
(* The places of a call.                                                   *)

LEMMA CallsStart ==
  ASSUME IInv, NEW t \in Users, UserStart(t)
  PROVE  CallInv(t)' /\ NodeInv(t)' /\ DirInv(t)'
<1> USE DEF IInv, TypeOK, Goto, Set, Task
<1>0. loc[t] \in CallRecord
  OBVIOUS
<1>1. ASSUME NEW o \in Calls, NEW n \in Names, Call(t, o, n), o # "iterate",
             UNCHANGED dir, o = "opendir" => dir[t].kind = "closed"
      PROVE  CallInv(t)' /\ NodeInv(t)' /\ DirInv(t)'
  BY <1>0, <1>1 DEF Call, NoCall, CallInv, NodeInv, DirInv, FindPc, IterPc
<1>2. ASSUME NEW n \in Names, \/ vfs_open(t, n) \/ vfs_opendir(t, n)
                              \/ vfs_path_op(t, n) \/ vfs_rename(t, n)
      PROVE  CallInv(t)' /\ NodeInv(t)' /\ DirInv(t)'
  BY <1>1, <1>2 DEF vfs_open, vfs_opendir, vfs_path_op, vfs_rename, Calls, Call, tables
<1>3. CASE vfs_iterate_mount_dirs(t)
  <2>1. /\ pc'[t] = "it_next"
        /\ loc'[t].op = "iterate" /\ loc'[t].mp = NULL /\ loc'[t].mp2 = NULL
    BY <1>3 DEF vfs_iterate_mount_dirs, NoCall
  <2>2. dir'[t].kind = dir[t].kind
    BY <1>3 DEF vfs_iterate_mount_dirs
  <2>3. dir[t].kind = "closed" => dir'[t].mp = NULL
    BY <1>3 DEF vfs_iterate_mount_dirs
  <2>4. dir[t].kind # "closed" => dir'[t].mp # NULL
    BY <1>3 DEF vfs_iterate_mount_dirs, DirInv
  <2> QED BY <2>1, <2>2, <2>3, <2>4 DEF CallInv, NodeInv, DirInv, FindPc, IterPc
<1>4. ASSUME NEW f \in Fds, vfs_close(t, f)
      PROVE  CallInv(t)' /\ NodeInv(t)' /\ DirInv(t)'
  BY <1>0, <1>4 DEF vfs_close, NoCall, CallInv, NodeInv, DirInv, FindPc, IterPc, tables
<1>5. CASE vfs_closedir(t)
  BY <1>5 DEF vfs_closedir, CallInv, NodeInv, DirInv, FindPc, IterPc
<1> QED BY <1>2, <1>3, <1>4, <1>5 DEF UserStart

\* A returning call holds what Unwind says, and is in no other place.
LEMMA CallsReturn ==
  ASSUME TypeOK, NEW t \in Users, NEW r \in CallRecord, Return(t, r),
         dir'[t].kind # "closed" => dir'[t].mp # NULL
  PROVE  CallInv(t)' /\ NodeInv(t)' /\ DirInv(t)'
<1>1. /\ pc'[t] = Unwind(r) /\ loc'[t].mp = r.mp /\ loc'[t].mp2 = r.mp2
      /\ Unwind(r) \in {"drop", "drop2", "idle"}
  BY Returned DEF TypeOK, Task
<1>2. /\ Unwind(r) = "drop" => r.mp # NULL
      /\ Unwind(r) = "drop2" => r.mp = NULL /\ r.mp2 # NULL
      /\ Unwind(r) = "idle" => r.mp = NULL /\ r.mp2 = NULL
  BY DEF Unwind
<1> QED BY <1>1, <1>2 DEF CallInv, NodeInv, DirInv, FindPc, IterPc

LEMMA CallsFind ==
  ASSUME IInv, NEW t \in Users,
         FindTake(t) \/ FindFirst(t) \/ FindLoop(t) \/ FindEnd(t) \/ FindGive(t)
  PROVE  CallInv(t)' /\ NodeInv(t)' /\ DirInv(t)'
<1> USE DEF IInv, TypeOK, Goto, Set, Task, tables, mutexes
<1>0. loc[t] \in CallRecord /\ CallInv(t) /\ NodeInv(t) /\ DirInv(t)
  OBVIOUS
<1>1. CASE FindTake(t)
  BY <1>0, <1>1 DEF FindTake, CallInv, NodeInv, DirInv, FindPc, IterPc
<1>2. CASE FindFirst(t)
  <2>1. CASE list.tail = NULL
    <3>1. Return(t, loc[t]) /\ UNCHANGED dir
      BY <1>2, <2>1 DEF FindFirst
    <3> QED BY <1>0, <3>1, CallsReturn DEF DirInv
  <2>2. CASE list.tail # NULL
    <3>1. /\ pc'[t] = "find_loop" /\ UNCHANGED <<list, dir>>
          /\ loc' = [loc EXCEPT ![t] = [loc[t] EXCEPT !.node = list.tail]]
      BY <1>2, <2>2 DEF FindFirst
    <3>2. /\ loc'[t].node = list.tail /\ loc'[t].mp = loc[t].mp /\ loc'[t].mp2 = loc[t].mp2
          /\ loc'[t].op = loc[t].op /\ loc'[t].name = loc[t].name
      BY <1>0, <3>1 DEF CallRecord
    <3>3. pc[t] = "find_first"
      BY <1>2 DEF FindFirst
    <3> QED BY <1>0, <2>2, <3>1, <3>2, <3>3 DEF ListInv, CallInv, NodeInv, DirInv, FindPc, IterPc
  <2> QED BY <2>1, <2>2
<1>3. CASE FindLoop(t)
  <2>1. /\ pc[t] = "find_loop" /\ pc'[t] \in {"find_end", "find_loop"}
        /\ UNCHANGED <<list, dir>>
    BY <1>3 DEF FindLoop
  <2>2. /\ loc'[t].node = list.link[loc[t].node]
        /\ loc'[t].mp = loc[t].mp /\ loc'[t].mp2 = loc[t].mp2
        /\ loc'[t].op = loc[t].op /\ loc'[t].name = loc[t].name
    BY <1>0, <1>3 DEF FindLoop, CallRecord
  <2>3. loc[t].node \in MountPts
    BY <1>0, <2>1 DEF NodeInv, CallRecord, MpOrNull
  <2>4. list.link[loc[t].node] # NULL /\ list.link[list.link[loc[t].node]] # NULL
    BY <1>0, <2>1, <2>3 DEF NodeInv, ListInv
  <2> QED BY <1>0, <2>1, <2>2, <2>4 DEF CallInv, NodeInv, DirInv, FindPc, IterPc
<1>4. CASE FindEnd(t)
  <2> DEFINE r == [loc[t] EXCEPT !.node = NULL, !.cand = NULL, !.longest = 0]
             m == loc[t].cand
  <2>0. /\ r \in CallRecord /\ r.op = loc[t].op /\ r.name = loc[t].name
        /\ r.mp = loc[t].mp /\ r.mp2 = loc[t].mp2
    BY <1>0, CallRecords DEF CallRecord
  <2>1. pc[t] = "find_end" /\ UNCHANGED dir
    BY <1>4 DEF FindEnd
  <2>2. CASE m = NULL
    <3>1. Return(t, r)
      BY <1>4, <2>2 DEF FindEnd
    <3> HIDE DEF r
    <3> QED BY <1>0, <2>0, <2>1, <3>1, CallsReturn DEF DirInv
  <2>3. CASE m # NULL
    <3>1. /\ pc'[t] = "find_give"
          /\ loc'[t] = IF r.op = "rename" /\ r.mp # NULL
                       THEN [r EXCEPT !.mp2 = m] ELSE [r EXCEPT !.mp = m]
      BY <1>4, <2>3 DEF FindEnd
    <3> HIDE DEF r, m
    <3>2. /\ loc'[t].op = loc[t].op
          /\ loc[t].op = "rename" /\ loc[t].mp # NULL =>
               loc'[t].mp = loc[t].mp /\ loc'[t].mp2 = m
          /\ ~ (loc[t].op = "rename" /\ loc[t].mp # NULL) =>
               loc'[t].mp = m /\ loc'[t].mp2 = loc[t].mp2
      BY <2>0, <3>1 DEF CallRecord
    <3> QED BY <1>0, <2>1, <2>3, <3>1, <3>2 DEF CallInv, NodeInv, DirInv, FindPc, IterPc
  <2> QED BY <2>2, <2>3
<1>5. CASE FindGive(t)
  <2>1. pc[t] = "find_give" /\ UNCHANGED dir
    BY <1>5 DEF FindGive
  <2>2. CASE Return(t, loc[t])
    BY <1>0, <2>1, <2>2, CallsReturn DEF DirInv
  <2>3. CASE /\ UNCHANGED loc
             /\ \/ loc[t].op = "open" /\ pc'[t] = "open_take"
                \/ loc[t].op \in {"opendir", "iterate"} /\ pc'[t] = "opendir"
                \/ pc'[t] = "driver"
    BY <1>0, <2>1, <2>3 DEF CallInv, NodeInv, DirInv, FindPc, IterPc
  <2>4. ASSUME NEW n \in Names, Set(t, [loc[t] EXCEPT !.name = n]),
               loc[t].op = "rename" /\ loc[t].mp2 = NULL, pc'[t] = "find_take"
        PROVE  CallInv(t)' /\ NodeInv(t)' /\ DirInv(t)'
    <3>1. /\ loc'[t].op = loc[t].op /\ loc'[t].name = n
          /\ loc'[t].mp = loc[t].mp /\ loc'[t].mp2 = loc[t].mp2
      BY <1>0, <2>4 DEF CallRecord
    <3> QED BY <1>0, <2>1, <2>4, <3>1 DEF CallInv, NodeInv, DirInv, FindPc, IterPc, Calls
  <2> QED BY <1>5, <2>2, <2>3, <2>4 DEF FindGive
<1> QED BY <1>1, <1>2, <1>3, <1>4, <1>5

LEMMA CallsRest ==
  ASSUME IInv, NEW t \in Users,
         \/ DriverCall(t) \/ Drop(t) \/ Drop2(t)
         \/ OpenTake(t) \/ OpenScan(t) \/ OpenClaim(t) \/ OpenGive(t) \/ OpenDriver(t)
         \/ CloseDriver(t)
  PROVE  CallInv(t)' /\ NodeInv(t)' /\ DirInv(t)'
<1> USE DEF IInv, TypeOK, Goto, Set, Task, tables, mutexes
<1>0. loc[t] \in CallRecord /\ CallInv(t) /\ NodeInv(t) /\ DirInv(t)
  OBVIOUS
<1>1. UNCHANGED dir
  BY DEF DriverCall, Drop, Drop2, OpenTake, OpenScan, OpenClaim, OpenGive, OpenDriver, CloseDriver
<1>2. ASSUME NEW r \in CallRecord, Return(t, r)
      PROVE  CallInv(t)' /\ NodeInv(t)' /\ DirInv(t)'
  BY <1>0, <1>1, <1>2, CallsReturn DEF DirInv
<1>3. CASE DriverCall(t) \/ Drop(t) \/ Drop2(t) \/ OpenDriver(t) \/ CloseDriver(t)
  <2>1. NoCall \in CallRecord /\ [loc[t] EXCEPT !.mp = NULL] \in CallRecord
    BY <1>0, CallRecords DEF MpOrNull
  <2> QED BY <1>0, <1>2, <1>3, <2>1 DEF DriverCall, Drop, Drop2, OpenDriver, CloseDriver
<1>4. CASE OpenTake(t) \/ OpenGive(t)
  BY <1>0, <1>1, <1>4 DEF OpenTake, OpenGive, CallInv, NodeInv, DirInv, FindPc, IterPc
<1>5. CASE OpenScan(t)
  <2>1. CASE loc[t].fd \in Fds
    <3>1. /\ pc[t] = "open_scan" /\ pc'[t] \in {"open_scan", "open_claim"}
          /\ loc'[t].mp = loc[t].mp /\ loc'[t].mp2 = loc[t].mp2
      BY <1>0, <1>5, <2>1 DEF OpenScan, CallRecord
    <3> QED BY <1>0, <1>1, <3>1 DEF CallInv, NodeInv, DirInv, FindPc, IterPc
  <2>2. CASE loc[t].fd \notin Fds
    <3>1. [loc[t] EXCEPT !.fd = 3] \in CallRecord
      BY <1>0, CallRecords
    <3> QED BY <1>2, <1>5, <2>2, <3>1 DEF OpenScan
  <2> QED BY <2>1, <2>2
<1>6. CASE OpenClaim(t)
  <2>1. /\ pc[t] = "open_claim" /\ pc'[t] = "open_give"
        /\ loc'[t].mp = NULL /\ loc'[t].mp2 = loc[t].mp2
    BY <1>0, <1>6 DEF OpenClaim, CallRecord
  <2> QED BY <1>0, <1>1, <2>1 DEF CallInv, NodeInv, DirInv, FindPc, IterPc
<1> QED BY <1>3, <1>4, <1>5, <1>6

LEMMA CallsDir ==
  ASSUME IInv, NEW t \in Users,
         OpenDir(t) \/ IterReads(t) \/ IterHold(t) \/ IterClose(t) \/ IterEnd(t)
  PROVE  CallInv(t)' /\ NodeInv(t)' /\ DirInv(t)'
<1> USE DEF IInv, TypeOK, Goto, Set, Task, tables, mutexes
<1>0. loc[t] \in CallRecord /\ CallInv(t) /\ NodeInv(t) /\ DirInv(t)
  OBVIOUS
<1>1. CASE OpenDir(t)
  <2>1. loc[t].mp # NULL
    BY <1>0, <1>1 DEF OpenDir, CallInv
  <2>2. dir'[t].kind # "closed" => dir'[t].mp # NULL
    BY <1>0, <1>1, <2>1 DEF OpenDir, DirInv
  <2>3. [loc[t] EXCEPT !.mp = NULL] \in CallRecord
    BY <1>0, CallRecords DEF MpOrNull
  <2> QED BY <1>0, <1>1, <2>2, <2>3, CallsReturn DEF OpenDir
<1>2. CASE IterReads(t)
  <2>1. /\ UNCHANGED <<list, dir>> /\ pc[t] \in ReadPc /\ pc'[t] \in IterPc \ {"it_next", "it_close"}
        /\ loc'[t].mp = loc[t].mp /\ loc'[t].op = loc[t].op
    BY <1>2, Reading
  <2>2. loc[t].mp = NULL /\ loc[t].op = "iterate"
    BY <1>0, <2>1 DEF CallInv, ReadPc, IterPc
  <2>3. /\ pc'[t] \in {"it_first", "it_end"} => loc'[t].mp2 = NULL
        /\ pc'[t] = "it_hold" => loc'[t].mp2 # NULL
        /\ pc'[t] = "it_first" => loc'[t].node # NULL /\ list.link[loc'[t].node] # NULL
    <3>1. CASE IterNext(t)
      BY <1>0, <3>1 DEF IterNext, CallInv, CallRecord, ListInv
    <3>2. CASE IterFirst(t)
      BY <1>0, <3>2 DEF IterFirst, NodeInv, CallRecord
    <3>3. CASE IterTail(t)
      BY <3>3 DEF IterTail
    <3>4. CASE IterWrap(t)
      BY <1>0, <3>4 DEF IterWrap, CallRecord
    <3>. QED BY <1>2, <3>1, <3>2, <3>3, <3>4 DEF IterReads
  <2>4. CallInv(t)'
    BY <2>1, <2>2, <2>3 DEF CallInv, FindPc, IterPc, ReadPc
  <2>5. NodeInv(t)' /\ DirInv(t)'
    BY <1>0, <2>1, <2>3 DEF NodeInv, DirInv, FindPc, IterPc, ReadPc
  <2> QED BY <2>4, <2>5
<1>3. CASE IterHold(t)
  BY <1>0, <1>3 DEF IterHold, CallInv, NodeInv, DirInv, FindPc, IterPc
<1>4. ASSUME IterCloseDir(t)
      PROVE  dir'[t].mp = NULL /\ dir'[t].kind = "closed"
  BY <1>4 DEF IterCloseDir
<1>5. CASE IterClose(t)
  <2>1. loc[t].mp2 \in MountPts
    BY <1>0, <1>5 DEF IterClose, CallInv, CallRecord, MpOrNull
  <2>2. MountPath[loc[t].mp2] \in Names
    BY <2>1, VfsAssumption
  <2>3. /\ pc[t] = "it_close" /\ pc'[t] = "find_take" /\ loc'[t].op = loc[t].op
        /\ loc'[t].mp = loc[t].mp /\ loc'[t].mp2 = loc[t].mp2
        /\ loc'[t].name = MountPath[loc[t].mp2]
    BY <1>0, <1>5 DEF IterClose, CallRecord
  <2> QED BY <1>0, <1>4, <1>5, <2>2, <2>3
          DEF IterClose, CallInv, NodeInv, DirInv, FindPc, IterPc, Calls
<1>6. CASE IterEnd(t)
  <2>1. Return(t, NoCall) /\ IterCloseDir(t)
    BY <1>6 DEF IterEnd
  <2> QED BY <1>4, <2>1, CallRecords, CallsReturn
<1> QED BY <1>1, <1>2, <1>3, <1>5, <1>6
-----------------------------------------------------------------------------
(* The descriptor table.                                                   *)

FdPart == EntryInv /\ FdKept /\ \A u \in Users : FdInv(u)
FdPc == {"open_scan", "open_claim", "open_give", "open_driver", "close_driver"}

\* Steps that leave the table and its mutex alone and stay out of its code.
LEMMA FdQuiet ==
  ASSUME IInv, NEW t \in Users,
         UNCHANGED <<fds, file, open_mutex>>, pc[t] \notin FdPc, pc'[t] \notin FdPc,
         \A u \in Users \ {t} : pc'[u] = pc[u] /\ loc'[u] = loc[u]
  PROVE  FdPart'
<1>1. \A u \in Users, f \in Fds : Opener(u, f)' <=> Opener(u, f)
  BY DEF Opener, FdPc
<1>2. EntryInv' /\ FdKept'
  BY <1>1 DEF IInv, EntryInv, FdKept
<1>3. \A u \in Users : FdInv(u)'
  BY DEF IInv, FdInv, FdPc
<1> QED BY <1>2, <1>3 DEF FdPart

LEMMA FdOpen ==
  ASSUME IInv, NEW t \in Users,
         OpenTake(t) \/ OpenScan(t) \/ OpenClaim(t) \/ OpenGive(t)
  PROVE  FdPart'
<1> DEFINE f == loc[t].fd
<1>0. /\ TypeOK /\ EntryInv /\ FdKept /\ t \in Task /\ t # NULL /\ loc[t] \in CallRecord
      /\ \A u \in Users : FdInv(u)
      /\ \A u \in Users \ {t} : pc'[u] = pc[u] /\ loc'[u] = loc[u]
  BY UserFrame, ListAssumptions DEF IInv, TypeOK, Task, UserStep
<1>1. CASE OpenTake(t)
  <2>1. /\ open_mutex = NULL /\ open_mutex' = t /\ pc[t] = "open_take"
        /\ pc'[t] = "open_scan" /\ UNCHANGED <<fds, file, loc>>
    BY <1>0, <1>1 DEF OpenTake, Goto, tables, TypeOK
  <2>2. \A u \in Users, g \in Fds : Opener(u, g)' <=> Opener(u, g)
    BY <1>0, <2>1 DEF Opener
  <2>3. EntryInv' /\ FdKept'
    BY <1>0, <2>1, <2>2 DEF EntryInv, FdKept
  <2>4. \A u \in Users : u # NULL
    BY ListAssumptions DEF Task
  <2>5. \A u \in Users : FdInv(u)'
    BY <1>0, <2>1, <2>4 DEF FdInv
  <2> QED BY <2>3, <2>5 DEF FdPart
<1>2. CASE OpenScan(t)
  <2>1. /\ pc[t] = "open_scan" /\ UNCHANGED <<fds, file>> /\ open_mutex = t
        /\ pc'[t] \notin {"open_give", "open_driver"}
    <3>1. /\ pc[t] = "open_scan" /\ UNCHANGED <<fds, file>>
          /\ pc'[t] \notin {"open_give", "open_driver"}
      BY <1>0, <1>2 DEF OpenScan, Goto, tables, TypeOK, Return, Unwind
    <3> QED BY <1>0, <3>1 DEF FdInv
  <2>2. \A u \in Users, g \in Fds : Opener(u, g)' <=> Opener(u, g)
    BY <1>0, <2>1 DEF Opener
  <2>3. EntryInv' /\ FdKept'
    BY <1>0, <2>1, <2>2 DEF EntryInv, FdKept
  <2>4. FdInv(t)'
    <3>1. CASE f \in Fds /\ fds[f].task_id = 0
      <4>1. pc'[t] = "open_claim" /\ UNCHANGED <<loc, open_mutex>>
        BY <1>0, <1>2, <3>1 DEF OpenScan, Goto, TypeOK
      <4> QED BY <2>1, <3>1, <4>1 DEF FdInv
    <3>2. CASE f \in Fds /\ fds[f].task_id # 0
      <4>1. UNCHANGED <<pc, open_mutex>>
        BY <1>2, <3>2 DEF OpenScan
      <4> QED BY <2>1, <4>1 DEF FdInv
    <3>3. CASE f \notin Fds
      <4>1. pc'[t] \notin FdPc
        BY <1>0, <1>2, <3>3 DEF OpenScan, Return, Goto, Unwind, TypeOK, FdPc
      <4> QED BY <4>1 DEF FdInv, FdPc
    <3> QED BY <3>1, <3>2, <3>3
  <2>5. \A u \in Users \ {t} : FdInv(u)'
    BY <1>0, <2>1 DEF FdInv
  <2> QED BY <2>3, <2>4, <2>5 DEF FdPart
<1>3. CASE OpenClaim(t)
  <2>1. /\ pc[t] = "open_claim" /\ pc'[t] = "open_give" /\ UNCHANGED <<file, open_mutex>>
        /\ open_mutex = t /\ f \in Fds /\ fds[f].task_id = 0 /\ loc[t].mp # NULL
        /\ loc'[t].fd = f
    BY <1>0, <1>3 DEF OpenClaim, Goto, Set, mutexes, TypeOK, FdInv, IInv, CallInv, CallRecord
  <2>2. /\ fds'[f].task_id # 0 /\ fds'[f].mp = loc[t].mp
        /\ \A g \in Fds \ {f} : fds'[g] = fds[g]
    BY <1>0, <1>3, <2>1 DEF OpenClaim, uxTaskGetTaskNumber, TypeOK
  <2>3. \A u \in Users : ~ Opener(u, f)
    BY <1>0, <2>1 DEF EntryInv
  <2>4. /\ \A u \in Users, g \in Fds \ {f} : Opener(u, g)' <=> Opener(u, g)
        /\ \A u \in Users : Opener(u, f)' <=> u = t
    BY <1>0, <2>1, <2>3 DEF Opener
  <2>5. EntryInv'
    BY <1>0, <2>1, <2>2, <2>4 DEF EntryInv
  <2>6. FdKept'
    BY <1>0, <2>1, <2>2, <2>3 DEF FdKept, Opener
  <2>7. FdInv(t)'
    BY <2>1, <2>2, <2>3 DEF FdInv, Opener
  <2>8. \A u \in Users \ {t} : FdInv(u)'
    BY <1>0, <2>1, <2>2 DEF FdInv
  <2> QED BY <2>5, <2>6, <2>7, <2>8 DEF FdPart
<1>4. CASE OpenGive(t)
  <2>1. /\ pc[t] = "open_give" /\ pc'[t] = "open_driver" /\ UNCHANGED <<fds, file, loc>>
        /\ open_mutex = t
    BY <1>0, <1>4 DEF OpenGive, Goto, tables, TypeOK, FdInv
  <2>2. \A u \in Users, g \in Fds : Opener(u, g)' <=> Opener(u, g)
    BY <1>0, <2>1 DEF Opener
  <2>3. EntryInv' /\ FdKept'
    BY <1>0, <2>1, <2>2 DEF EntryInv, FdKept
  <2>4. \A u \in Users : FdInv(u)'
    BY <1>0, <2>1 DEF FdInv
  <2> QED BY <2>3, <2>4 DEF FdPart
<1> QED BY <1>1, <1>2, <1>3, <1>4

\* Freeing an entry that only t has opened leaves every other entry alone.
LEMMA FdFree ==
  ASSUME IInv, NEW t \in Users, NEW f \in Fds, Opener(t, f),
         fds' = [fds EXCEPT ![f].task_id = 0], UNCHANGED open_mutex,
         ~ Opener(t, f)', \A g \in Fds \ {f} : Opener(t, g)' <=> Opener(t, g),
         \A g \in Fds \ {f} : file'[t][g] = file[t][g],
         pc'[t] \notin FdPc, file'[t][f] = NULL,
         \A u \in Users \ {t} : pc'[u] = pc[u] /\ loc'[u] = loc[u] /\ file'[u] = file[u]
  PROVE  FdPart'
<1>1. fds'[f].task_id = 0 /\ \A g \in Fds \ {f} : fds'[g] = fds[g]
  BY DEF IInv, TypeOK
<1>2. \A u \in Users \ {t} : ~ Opener(u, f)
  BY DEF IInv, EntryInv
<1>3. \A u \in Users \ {t} : \A g \in Fds : Opener(u, g)' <=> Opener(u, g)
  BY DEF Opener
<1>4. EntryInv'
  BY <1>1, <1>2, <1>3 DEF IInv, EntryInv
<1>5. FdKept'
  BY <1>1, <1>2 DEF IInv, FdKept, Opener
<1>6. FdInv(t)'
  BY DEF FdInv, FdPc
<1>7. ASSUME NEW u \in Users \ {t}
      PROVE  FdInv(u)'
  BY <1>1, <1>2, <1>7 DEF IInv, FdInv, Opener
<1> QED BY <1>4, <1>5, <1>6, <1>7 DEF FdPart

LEMMA FdDriver ==
  ASSUME IInv, NEW t \in Users, OpenDriver(t) \/ CloseDriver(t)
  PROVE  FdPart'
<1>0. /\ TypeOK /\ EntryInv /\ FdKept /\ FdInv(t) /\ t \in Task
      /\ \A u \in Users \ {t} : pc'[u] = pc[u] /\ loc'[u] = loc[u] /\ file'[u] = file[u]
  BY UserFrame DEF IInv, Task, UserStep
<1>f. PICK f \in Fds : f = loc[t].fd
  BY <1>0 DEF OpenDriver, CloseDriver, FdInv
<1>1. /\ Opener(t, f) /\ UNCHANGED open_mutex /\ pc'[t] \notin FdPc
      /\ pc[t] \in {"open_driver", "close_driver"}
  BY <1>0, <1>f DEF OpenDriver, CloseDriver, FdInv, Opener, mutexes, Return, Goto, Unwind, FdPc, TypeOK
<1>2. ASSUME FreeFd(f), file'[t][f] = NULL, \A g \in Fds \ {f} : file'[t][g] = file[t][g]
      PROVE  FdPart'
  <2>1. ~ Opener(t, f)' /\ \A g \in Fds \ {f} : Opener(t, g)' <=> Opener(t, g)
    BY <1>1, <1>2, <1>f DEF Opener, FdPc
  <2>2. fds' = [fds EXCEPT ![f].task_id = 0]
    BY <1>2 DEF FreeFd
  <2> QED BY <1>0, <1>1, <1>2, <2>1, <2>2, FdFree
<1>3. CASE CloseDriver(t)
  <2>1. FreeFd(f) /\ file' = [file EXCEPT ![t][f] = NULL]
    BY <1>3, <1>f DEF CloseDriver
  <2> QED BY <1>0, <1>1, <1>2, <2>1 DEF TypeOK
<1>4. CASE OpenDriver(t) /\ FreeFd(f) /\ UNCHANGED file
  <2>1. file[t][f] = NULL
    BY <1>0, <1>4, <1>f DEF OpenDriver, FdInv
  <2> QED BY <1>2, <1>4, <2>1
<1>5. CASE OpenDriver(t) /\ file' = [file EXCEPT ![t][f] = fds[f].mp] /\ UNCHANGED fds
  <2>1. file'[t][f] = fds[f].mp /\ \A g \in Fds \ {f} : file'[t][g] = file[t][g]
    BY <1>0, <1>1, <1>5 DEF TypeOK
  <2>2. fds[f].task_id # 0 /\ fds[f].mp # NULL
    BY <1>0, <1>1 DEF EntryInv
  <2>3. \A u \in Users, g \in Fds : Opener(u, g)' <=> Opener(u, g)
    BY <1>0, <1>1, <1>f, <2>1, <2>2 DEF Opener, FdPc
  <2>4. \A u \in Users \ {t} : file[u][f] = NULL
    BY <1>0, <1>1 DEF EntryInv, Opener
  <2>5. EntryInv'
    BY <1>0, <1>5, <2>3 DEF EntryInv
  <2>6. FdKept'
    BY <1>0, <1>5, <2>1, <2>2, <2>4 DEF FdKept
  <2>7. \A u \in Users : FdInv(u)'
    BY <1>0, <1>1, <1>5, <2>1 DEF IInv, FdInv, FdPc
  <2> QED BY <2>5, <2>6, <2>7 DEF FdPart
<1> QED BY <1>3, <1>4, <1>5, <1>f DEF OpenDriver
-----------------------------------------------------------------------------
(* The inductive invariant.                                                *)

LEMMA InvInit == Init => IInv
<1> SUFFICES ASSUME Init PROVE IInv
  OBVIOUS
<1> USE DEF Init
<1>1. TypeOK
  <2>1. list \in CL!List
    BY DEF CL!EmptyList, CL!List, CL!Pointer
  <2>2. loc \in [Users -> CallRecord]
    BY CallRecords
  <2>3. pc \in [Task -> UserPc \cup MounterPc]
    BY DEF UserPc
  <2> QED BY <2>1, <2>2, <2>3 DEF TypeOK, MpOrNull
<1>2. FdKept /\ EntryInv /\ ReqInv
  BY DEF FdKept, EntryInv, Opener, ReqInv, Task
<1>3. ListInv
  BY DEF ListInv, CL!EmptyList
<1>4. \A t \in Users : CallInv(t) /\ NodeInv(t) /\ DirInv(t) /\ FdInv(t)
  BY CallRecords DEF CallInv, NodeInv, DirInv, FdInv, FindPc, IterPc, Task
<1> QED BY <1>1, <1>2, <1>3, <1>4 DEF IInv

LEMMA InvUser ==
  ASSUME IInv, NEW t \in Users, UserStart(t) \/ UserStep(t)
  PROVE  IInv'
<1>1. TypeOK'
  BY TypeStart, TypeFind, TypeRest, TypeDir DEF UserStep, IterReads, IInv
<1>2. CallInv(t)' /\ NodeInv(t)' /\ DirInv(t)'
  BY CallsStart, CallsFind, CallsRest, CallsDir DEF UserStep, IterReads
<1>3. /\ UNCHANGED <<list, req>>
      /\ \A u \in Task \ {t} : pc'[u] = pc[u]
      /\ \A u \in Users \ {t} : loc'[u] = loc[u] /\ dir'[u] = dir[u] /\ file'[u] = file[u]
  BY UserFrame DEF IInv
<1>4. \A u \in Users \ {t} : CallInv(u)' /\ NodeInv(u)' /\ DirInv(u)'
  BY <1>3 DEF IInv, CallInv, NodeInv, DirInv, Task
<1>5. ListInv' /\ ReqInv'
  <2>1. ListInv'
    BY <1>3 DEF IInv, ListInv
  <2>2. ReqInv'
    BY <1>3, ListAssumptions DEF IInv, ReqInv, Task
  <2> QED BY <2>1, <2>2
<1>6. FdPart'
  <2>1. CASE OpenTake(t) \/ OpenScan(t) \/ OpenClaim(t) \/ OpenGive(t)
    BY <2>1, FdOpen
  <2>2. CASE OpenDriver(t) \/ CloseDriver(t)
    BY <2>2, FdDriver
  <2>3. ASSUME UNCHANGED <<fds, file, open_mutex>>, pc[t] \notin FdPc, pc'[t] \notin FdPc
        PROVE  FdPart'
    BY <1>3, <2>3, FdQuiet DEF Task
  <2>4. ASSUME NEW f \in Fds, vfs_close(t, f)
        PROVE  FdPart'
    <3>0. [NoCall EXCEPT !.op = "close", !.fd = f].fd = f
      BY DEF NoCall
    <3>1. /\ UNCHANGED <<fds, file, open_mutex>> /\ file[t][f] # NULL /\ loc'[t].fd = f
          /\ pc[t] = "idle" /\ pc'[t] = "close_driver"
      BY <2>4, <3>0 DEF vfs_close, IInv, TypeOK, tables, mutexes, Goto, Set, Task
    <3>2. \A u \in Users, g \in Fds : Opener(u, g)' <=> Opener(u, g)
      BY <1>3, <3>1 DEF Opener, Task
    <3>3. EntryInv' /\ FdKept'
      BY <3>1, <3>2 DEF IInv, EntryInv, FdKept
    <3>4. \A u \in Users : FdInv(u)'
      BY <1>3, <3>1 DEF IInv, FdInv, Task
    <3> QED BY <3>3, <3>4 DEF FdPart
  <2>5. CASE UserStart(t)
    <3>1. ASSUME NEW f \in Fds, vfs_close(t, f) PROVE FdPart'
      BY <3>1, <2>4
    <3>2. CASE vfs_closedir(t)
      BY <2>3, <3>2 DEF vfs_closedir, mutexes, FdPc
    <3>3. CASE vfs_iterate_mount_dirs(t)
      BY <2>3, <3>3 DEF vfs_iterate_mount_dirs, mutexes, FdPc, Goto, IInv, TypeOK, Task
    <3>4. ASSUME NEW o, NEW n, Call(t, o, n) PROVE FdPart'
      BY <2>3, <3>4 DEF Call, tables, mutexes, FdPc, Goto, IInv, TypeOK, Task
    <3> QED BY <2>5, <3>1, <3>2, <3>3, <3>4
            DEF UserStart, vfs_open, vfs_opendir, vfs_path_op, vfs_rename
  <2>6. CASE FindTake(t) \/ FindFirst(t) \/ FindLoop(t) \/ FindEnd(t)
    BY <2>3, <2>6 DEF FindTake, FindFirst, FindLoop, FindEnd,
         tables, mutexes, FdPc, Goto, Return, Unwind, IInv, TypeOK, Task
  <2>7. CASE FindGive(t)
    BY <2>3, <2>7 DEF FindGive, tables, mutexes, FdPc, Goto, Return, Unwind, IInv, TypeOK, Task
  <2>8. CASE DriverCall(t) \/ Drop(t) \/ Drop2(t)
    BY <2>3, <2>8 DEF DriverCall, Drop, Drop2, tables, mutexes, FdPc, Goto, Return, Unwind,
                      IInv, TypeOK, Task
  <2>9. CASE OpenDir(t) \/ IterHold(t) \/ IterClose(t) \/ IterEnd(t)
    BY <2>3, <2>9 DEF OpenDir, IterHold, IterClose, IterEnd, tables, mutexes,
                      FdPc, Goto, Return, Unwind, IInv, TypeOK, Task
  <2>10. CASE IterReads(t)
    BY <2>3, <2>10, Reading DEF mutexes, FdPc, ReadPc, IterPc
  <2> QED BY <2>1, <2>2, <2>5, <2>6, <2>7, <2>8, <2>9, <2>10 DEF UserStep, IterReads
<1> QED BY <1>1, <1>2, <1>4, <1>5, <1>6 DEF IInv, FdPart

LEMMA InvMounter ==
  ASSUME IInv, NEW t \in Mounters, MounterStart(t) \/ MounterStep(t)
  PROVE  IInv'
<1>1. TypeOK'
  BY TypeMounter
<1>2. /\ UNCHANGED <<open_files, fds, dir, file, open_mutex, loc>>
      /\ \A u \in Task \ {t} : pc'[u] = pc[u]
      /\ \A u \in Mounters \ {t} : req'[u] = req[u]
  BY MounterFrame DEF IInv
<1>3. \A u \in Users : pc'[u] = pc[u]
  BY <1>2, ListAssumptions DEF Task
<1>4. FdKept' /\ EntryInv'
  BY <1>2, <1>3 DEF IInv, FdKept, EntryInv, Opener
<1>5. \A u \in Users : CallInv(u)' /\ DirInv(u)' /\ FdInv(u)'
  BY <1>2, <1>3 DEF IInv, CallInv, DirInv, FdInv
<1>6. ListInv' /\ \A n \in MountPts : list.link[n] # NULL => list'.link[n] # NULL
  <2>1. CASE UNCHANGED list
    BY <2>1 DEF IInv, ListInv
  <2>2. pc[t] # "idle" => req[t].mp \in MountPts
    BY DEF IInv, ReqInv, TypeOK, MpOrNull
  <2>3. CASE MountPush(t) \/ MountLink(t) \/ MountTail(t)
    BY <2>3, PushSteps
  <2>4. CASE UmountRemove(t)
    BY <2>2, <2>4, RemoveKeepsList DEF UmountRemove, IInv, TypeOK
  <2> QED BY <2>1, <2>3, <2>4 DEF MounterStart, MounterStep, vfs_mount, vfs_umount, CheckTake,
                MountFind, MountDriver, UmountFind, UmountCount, UmountDriver, tables
<1>7. \A u \in Users : NodeInv(u)'
  BY <1>2, <1>3, <1>6 DEF IInv, NodeInv, TypeOK, CallRecord, MpOrNull
<1>8. ReqInv'
  <2>1. pc'[t] # "idle" => req'[t].mp # NULL
    <3>1. ASSUME NEW m \in MountPts, vfs_mount(t, m)
          PROVE  req'[t].mp # NULL
      BY <3>1, ListAssumptions DEF vfs_mount, IInv, TypeOK
    <3>2. ASSUME NEW m \in MountPts, NEW force, vfs_umount(t, m, force)
          PROVE  req'[t].mp # NULL
      BY <3>2, ListAssumptions DEF vfs_umount, IInv, TypeOK
    <3>3. CASE MounterStep(t)
      BY <3>3 DEF MounterStep, CheckTake, MountFind, MountDriver, MountPush, MountLink, MountTail,
                  UmountFind, UmountCount, UmountDriver, UmountRemove, IInv, ReqInv
    <3> QED BY <3>1, <3>2, <3>3 DEF MounterStart
  <2>2. pc'[t] \in {"m_link", "m_tail"} => list'.link[req'[t].mp] # NULL
    <3>1. CASE MountPush(t) \/ MountLink(t) \/ MountTail(t)
      BY <3>1, PushSteps
    <3>2. CASE ~(MountPush(t) \/ MountLink(t) \/ MountTail(t))
      BY <3>2 DEF MounterStart, MounterStep, vfs_mount, vfs_umount, CheckTake, MountFind,
           MountDriver, UmountFind, UmountCount, UmountDriver, UmountRemove, Goto, IInv, TypeOK, Task
    <3> QED BY <3>1, <3>2
  <2>3. ASSUME NEW u \in Mounters \ {t}
        PROVE  /\ pc'[u] # "idle" => req'[u].mp # NULL
               /\ pc'[u] \in {"m_link", "m_tail"} => list'.link[req'[u].mp] # NULL
    <3>1. pc'[u] = pc[u] /\ req'[u] = req[u]
      BY <1>2 DEF Task
    <3>2. pc[u] # "idle" => req[u].mp \in MountPts
      BY DEF IInv, ReqInv, TypeOK, MpOrNull
    <3>. QED BY <1>6, <3>1, <3>2 DEF IInv, ReqInv
  <2> QED BY <2>1, <2>2, <2>3 DEF ReqInv
<1> QED BY <1>1, <1>4, <1>5, <1>6, <1>7, <1>8 DEF IInv

LEMMA InvStep == IInv /\ [Next]_vars => IInv'
<1> SUFFICES ASSUME IInv, [Next]_vars PROVE IInv'
  OBVIOUS
<1>1. CASE UNCHANGED vars
  BY <1>1 DEF vars, IInv, TypeOK, FdKept, EntryInv, Opener, ListInv, ReqInv, CallInv, NodeInv,
              DirInv, FdInv
<1>2. CASE Next
  BY <1>2, InvUser, InvMounter DEF Next
<1> QED BY <1>1, <1>2

THEOREM Invariance == Spec => []IInv
BY InvInit, InvStep, PTL DEF Spec

\* Every variable keeps its type, for any number of tasks, mounts, names and
\* descriptors, whatever is mounted and unmounted meanwhile: in particular no
\* search of the mount list, no release and no close follows a null pointer.
THEOREM TypeCorrect == Spec => []TypeOK
<1>1. IInv => TypeOK
  BY DEF IInv
<1> QED BY <1>1, Invariance, PTL

\* A descriptor that vfs_open returned stays its opener's until vfs_close: the
\* entry keeps its mount and is given to nobody else.
THEOREM DescriptorsKept == Spec => []FdKept
<1>1. IInv => FdKept
  BY DEF IInv
<1> QED BY <1>1, Invariance, PTL
-----------------------------------------------------------------------------
(* What a walk along the next pointers reaches.                            *)

\* What holds of 0, and of n + 1 whenever it does of n, holds of every number.
LEMMA Numbers ==
  ASSUME NEW T \in SUBSET Nat, 0 \in T, \A n \in T : n + 1 \in T
  PROVE  T = Nat
<1>. SUFFICES ASSUME Nat \ T # {} PROVE FALSE
  OBVIOUS
<1>1. IsWellFoundedOn(OpToRel(<, Nat), Nat)
  BY NatLessThanWellFounded
<1>2. \E x \in Nat \ T : \A y \in Nat \ T : ~(<<y, x>> \in OpToRel(<, Nat))
  <2>. DEFINE R == OpToRel(<, Nat)
  <2>. HIDE DEF R
  <2>. QED BY <1>1, WFMin
<1>3. \A x, y \in Nat : <<y, x>> \in OpToRel(<, Nat) <=> y < x
  BY DEF OpToRel
<1>4. PICK x \in Nat \ T : \A y \in Nat \ T : ~(y < x)
  BY <1>2, <1>3
<1>5. x # 0 /\ x - 1 \in Nat /\ x - 1 < x
  BY <1>4
<1>6. x - 1 \in T
  BY <1>4, <1>5
<1>. QED BY <1>4, <1>5, <1>6

\* The walk from the first node follows the next pointers.
LEMMA Walking ==
  ASSUME NEW l
  PROVE  /\ Cardinality(MountPts) \in Nat
         /\ CL!Walk(l) = [i \in 1..Cardinality(MountPts) |->
                            IF i = 1 THEN l.link[l.tail] ELSE l.link[CL!Walk(l)[i - 1]]]
<1>. DEFINE Node(g, i) == IF i = 1 THEN l.link[l.tail] ELSE l.link[g[i - 1]]
            N == Cardinality(MountPts)
            T == {k \in Nat : \E g : g = [i \in 1..k |-> Node(g, i)]}
<1>1. 0 \in T
  <2>. DEFINE g == [i \in 1..0 |-> 0]
  <2>1. g = [i \in 1..0 |-> Node(g, i)]
    OBVIOUS
  <2>. QED BY <2>1
<1>2. ASSUME NEW k \in T PROVE k + 1 \in T
  <2>1. PICK g : g = [i \in 1..k |-> Node(g, i)]
    BY <1>2
  <2>2. k \in Nat
    OBVIOUS
  <2>. DEFINE h == [i \in 1..(k + 1) |-> IF i = k + 1 THEN Node(g, i) ELSE g[i]]
  <2>3. \A i \in 1..(k + 1) : i = 1 \/ (i - 1 \in 1..(k + 1) /\ i - 1 # k + 1)
    BY <2>2
  <2>4. \A i \in 1..(k + 1) : Node(h, i) = Node(g, i)
    BY <2>3
  <2>5. \A i \in 1..(k + 1) : i # k + 1 => i \in 1..k
    BY <2>2
  <2>6. \A i \in 1..(k + 1) : h[i] = Node(h, i)
    BY <2>1, <2>4, <2>5
  <2>. HIDE DEF Node
  <2>7. h = [i \in 1..(k + 1) |-> Node(h, i)]
    BY <2>6
  <2>8. \E f : f = [i \in 1..(k + 1) |-> Node(f, i)]
    <3>. HIDE DEF h
    <3>. QED BY <2>7
  <2>9. k + 1 \in Nat
    BY <2>2
  <2>. QED BY <2>8, <2>9
<1>3. T = Nat
  <2>. HIDE DEF T
  <2>1. T \in SUBSET Nat
    BY DEF T
  <2>2. \A n \in T : n + 1 \in T
    BY <1>2
  <2>. QED BY <1>1, <2>1, <2>2, Numbers
<1>4. N \in Nat
  BY VfsAssumption, FS_CardinalityType
<1>5. \E g : g = [i \in 1..N |-> Node(g, i)]
  BY <1>3, <1>4
<1>6. CL!Walk(l) = CHOOSE g : g = [i \in 1..N |-> Node(g, i)]
  <2>1. CL!Cardinality(MountPts) = Cardinality(MountPts)
    BY DEF CL!Cardinality, Cardinality
  <2>. QED BY <2>1 DEF CL!Walk
<1>7. CL!Walk(l) = [i \in 1..N |-> Node(CL!Walk(l), i)]
  <2>. DEFINE P(g) == g = [i \in 1..N |-> Node(g, i)]
  <2>1. (\E g : P(g)) /\ CL!Walk(l) = CHOOSE g : P(g)
    BY <1>5, <1>6
  <2>. HIDE DEF P
  <2>2. P(CHOOSE g : P(g))
    BY <2>1
  <2>3. P(CL!Walk(l))
    BY <2>1, <2>2
  <2>. QED BY <2>3 DEF P
<1>. QED BY <1>4, <1>7

\* The same from 1 to n.
LEMMA Upto ==
  ASSUME NEW n \in Nat, NEW T, 1 \in T, \A i \in 1..(n - 1) : i \in T => i + 1 \in T
  PROVE  1..n \subseteq T
<1>. DEFINE U == {k \in Nat : k = 0 \/ k \in T \/ k > n}
<1>1. 0 \in U
  OBVIOUS
<1>2. ASSUME NEW k \in U PROVE k + 1 \in U
  <2>1. k \in Nat /\ (k = 0 \/ k \in T \/ k > n)
    BY <1>2
  <2>2. CASE k = 0
    BY <2>2
  <2>3. CASE k # 0 /\ k < n
    <3>1. k \in T /\ k \in 1..(n - 1)
      BY <2>1, <2>3
    <3>. QED BY <2>1, <3>1
  <2>4. CASE k >= n
    BY <2>1, <2>4
  <2>. QED BY <2>1, <2>2, <2>3, <2>4
<1>3. U \in SUBSET Nat /\ \A k \in U : k + 1 \in U
  BY <1>2
<1>4. U = Nat
  <2>. HIDE DEF U
  <2>. QED BY <1>1, <1>3, Numbers
<1>5. ASSUME NEW i \in 1..n PROVE i \in T
  <2>1. i \in Nat /\ i # 0 /\ ~(i > n)
    OBVIOUS
  <2>2. i \in U
    BY <1>4, <2>1
  <2>. QED BY <2>1, <2>2
<1>. QED BY <1>5

\* Next pointers lead from node to node for ever.
Endless(l) == /\ l \in CL!List /\ l.tail # NULL /\ l.link[l.tail] # NULL
              /\ \A m \in MountPts : l.link[m] # NULL => l.link[l.link[m]] # NULL

\* A walk meets nodes only.
LEMMA WalkNodes ==
  ASSUME NEW l, Endless(l)
  PROVE  /\ Cardinality(MountPts) \in Nat \ {0}
         /\ CL!Walk(l) \in [1..Cardinality(MountPts) -> MountPts]
         /\ CL!Walk(l)[1] = l.link[l.tail]
         /\ \A i \in 1..(Cardinality(MountPts) - 1) : CL!Walk(l)[i + 1] = l.link[CL!Walk(l)[i]]
         /\ \A i \in 1..Cardinality(MountPts) : l.link[CL!Walk(l)[i]] \in MountPts
<1>. DEFINE N == Cardinality(MountPts)
            w == CL!Walk(l)
            T == {i \in 1..N : w[i] \in MountPts /\ l.link[w[i]] \in MountPts}
<1>1. /\ l.tail \in MountPts /\ l.link \in [MountPts -> MountPts \cup {NULL}]
      /\ l.link[l.tail] \in MountPts
      /\ \A m \in MountPts : l.link[m] \in MountPts => l.link[l.link[m]] \in MountPts
  BY ListAssumptions DEF Endless, CL!List, CL!Pointer
<1>2. N \in Nat \ {0}
  <2>1. N \in Nat /\ IsFiniteSet(MountPts)
    BY VfsAssumption, FS_CardinalityType
  <2>2. MountPts # {}
    BY <1>1
  <2>. QED BY <2>1, <2>2, FS_EmptySet
<1>3. w = [i \in 1..N |-> IF i = 1 THEN l.link[l.tail] ELSE l.link[w[i - 1]]]
  BY Walking
<1>. HIDE DEF w, N
<1>4. w[1] = l.link[l.tail]
  BY <1>2, <1>3
<1>5. ASSUME NEW i \in 1..(N - 1) PROVE w[i + 1] = l.link[w[i]]
  <2>1. i + 1 \in 1..N /\ i + 1 # 1 /\ i + 1 - 1 = i
    BY <1>2
  <2>2. \A k \in 1..N : k # 1 => w[k] = l.link[w[k - 1]]
    BY <1>3
  <2>3. w[i + 1] = l.link[w[i + 1 - 1]]
    BY <2>1, <2>2
  <2>. QED BY <2>1, <2>3
<1>6. 1 \in T
  <2>1. 1 \in 1..N
    BY <1>2
  <2>. QED BY <1>1, <1>4, <2>1
<1>7. ASSUME NEW i \in 1..(N - 1), i \in T PROVE i + 1 \in T
  <2>1. w[i] \in MountPts /\ l.link[w[i]] \in MountPts
    BY <1>7
  <2>2. i + 1 \in 1..N
    BY <1>2
  <2>. QED BY <1>1, <1>5, <2>1, <2>2
<1>8. 1..N \subseteq T
  <2>. HIDE DEF T
  <2>. QED BY <1>2, <1>6, <1>7, Upto
<1>9. w = [i \in 1..N |-> w[i]]
  BY <1>3
<1>10. w \in [1..N -> MountPts]
  BY <1>8, <1>9
<1>11. \A i \in 1..N : l.link[w[i]] \in MountPts
  BY <1>8
<1>. QED BY <1>2, <1>4, <1>5, <1>10, <1>11 DEF w, N

\* The members are the first node and what its next pointers lead to.
LEMMA MembersClosed ==
  ASSUME NEW l, Endless(l)
  PROVE  /\ CL!Members(l) \subseteq MountPts /\ l.link[l.tail] \in CL!Members(l)
         /\ \A n \in CL!Members(l) : l.link[n] \in CL!Members(l)
         /\ \A A : l.link[l.tail] \in A /\ (\A n \in A : l.link[n] \in A)
                     => CL!Members(l) \subseteq A
<1>. DEFINE N == Cardinality(MountPts)
            w == CL!Walk(l)
            M == CL!Members(l)
<1>1. /\ N \in Nat \ {0} /\ w \in [1..N -> MountPts] /\ w[1] = l.link[l.tail]
      /\ \A i \in 1..(N - 1) : w[i + 1] = l.link[w[i]]
      /\ \A i \in 1..N : l.link[w[i]] \in MountPts
  BY WalkNodes
<1>2. M = {n \in MountPts : \E i \in 1..N : w[i] = n}
  <2>1. CL!Cardinality(MountPts) = Cardinality(MountPts)
    BY DEF CL!Cardinality, Cardinality
  <2>. QED BY <2>1 DEF CL!Members, CL!Places, Endless
<1>. HIDE DEF N, w, M
<1>3. ASSUME NEW A, l.link[l.tail] \in A, \A n \in A : l.link[n] \in A
      PROVE  M \subseteq A
  <2>. DEFINE T == {i \in 1..N : w[i] \in A}
  <2>1. 1 \in T
    BY <1>1, <1>3
  <2>2. ASSUME NEW i \in 1..(N - 1), i \in T PROVE i + 1 \in T
    <3>1. i + 1 \in 1..N
      BY <1>1
    <3>. QED BY <1>1, <1>3, <2>2, <3>1
  <2>3. 1..N \subseteq T
    <3>. HIDE DEF T
    <3>. QED BY <1>1, <2>1, <2>2, Upto
  <2>. QED BY <1>2, <2>3
<1>4. ASSUME NEW n \in M PROVE l.link[n] \in M
  <2>1. CASE \E k \in 1..(N - 1) : \E j \in 1..k : w[k + 1] = w[j]
    <3>1. PICK k \in 1..(N - 1) : \E j \in 1..k : w[k + 1] = w[j]
      BY <2>1
    <3>. DEFINE A == {w[j] : j \in 1..k}
    <3>2. w[1] \in A
      BY <3>1
    <3>3. ASSUME NEW j \in 1..k PROVE l.link[w[j]] \in A
      <4>1. j \in 1..(N - 1) /\ w[j + 1] = l.link[w[j]]
        BY <1>1, <3>1
      <4>2. j < k => j + 1 \in 1..k
        OBVIOUS
      <4>3. CASE j < k
        BY <4>1, <4>2, <4>3
      <4>4. CASE j = k
        BY <3>1, <4>1, <4>4
      <4>. QED BY <4>3, <4>4
    <3>4. \A m \in A : l.link[m] \in A
      BY <3>3
    <3>5. M \subseteq A
      <4>. HIDE DEF A
      <4>. QED BY <1>1, <1>3, <3>2, <3>4
    <3>6. 1..k \subseteq 1..N
      BY <1>1, <3>1
    <3>7. A \subseteq M
      BY <1>1, <1>2, <3>6
    <3>8. l.link[n] \in A
      <4>. HIDE DEF A
      <4>. QED BY <3>4, <3>5
    <3>. QED BY <3>7, <3>8
  <2>2. CASE \A k \in 1..(N - 1) : \A j \in 1..k : w[k + 1] # w[j]
    <3>1. ASSUME NEW i \in 1..N, NEW j \in 1..N, i < j PROVE w[i] # w[j]
      <4>1. j - 1 \in 1..(N - 1) /\ i \in 1..(j - 1) /\ j - 1 + 1 = j
        BY <1>1, <3>1
      <4>. QED BY <2>2, <4>1
    <3>2. \A i, j \in 1..N : w[i] = w[j] => i = j
      BY <1>1, <3>1
    <3>3. w \in Injection(1..N, MountPts)
      BY <1>1, <3>2 DEF Injection, IsInjective
    <3>4. IsFiniteSet(MountPts) /\ Cardinality(1..N) = Cardinality(MountPts)
      BY <1>1, VfsAssumption, FS_Interval DEF N
    <3>5. w \in Surjection(1..N, MountPts)
      BY <3>3, <3>4, FS_Injection
    <3>6. M = MountPts
      BY <1>2, <3>5 DEF Surjection
    <3>. QED BY <1>1, <1>2, <3>6
  <2>. QED BY <2>1, <2>2
<1>5. l.link[l.tail] \in M
  BY <1>1, <1>2
<1>6. M \subseteq MountPts
  BY <1>2
<1>. QED BY <1>3, <1>4, <1>5, <1>6 DEF M
-----------------------------------------------------------------------------
(* The mutex and the search of the list, as long as nothing is unmounted.  *)

NoUnmounting == ForceArgs = {}

MountPc == {"idle", "m_take", "m_find", "m_driver", "m_push", "m_link", "m_tail"}

\* Nobody is in vfs_umount, which gives the mutex without holding it.
MutexInv == /\ \A t \in Users : pc[t] \in UserPc
            /\ \A t \in Mounters : pc[t] \in MountPc
            /\ ListExclusive

\* A step takes the mutex when nobody has it, gives it when the task has it, or leaves it.
LEMMA MutexStep ==
  ASSUME NoUnmounting, IInv, MutexInv, [Next]_vars
  PROVE  MutexInv'
<1>. USE ListAssumptions DEF Task, tables, mutexes, Goto
<1>0. pc \in [Task -> UserPc \cup MounterPc] /\ mount_mutex \in Task \cup {NULL}
  BY DEF IInv, TypeOK
<1>1. ASSUME NEW t \in Task, \A u \in Task \ {t} : pc'[u] = pc[u],
             t \in Users => pc'[t] \in UserPc,
             t \in Mounters => pc'[t] \in MountPc,
             \/ UNCHANGED mount_mutex /\ (pc[t] \in OnList <=> pc'[t] \in OnList)
             \/ mount_mutex = NULL /\ mount_mutex' = t /\ pc'[t] \in OnList
             \/ pc[t] \in OnList /\ mount_mutex' = NULL /\ pc'[t] \notin OnList
      PROVE  MutexInv'
  BY <1>0, <1>1 DEF MutexInv, ListExclusive
<1>2. ASSUME NEW t \in Users, UserStart(t) \/ UserStep(t)
      PROVE  MutexInv'
  <2>0. \A u \in Task \ {t} : pc'[u] = pc[u]
    BY <1>2, UserFrame DEF IInv
  <2>1. CASE UserStart(t)
    <3>1. UNCHANGED mount_mutex
      BY <2>1 DEF UserStart, Call, vfs_open, vfs_opendir, vfs_path_op, vfs_rename,
                  vfs_iterate_mount_dirs, vfs_close, vfs_closedir
    <3>2. \/ pc[t] = "idle" /\ pc'[t] \in {"find_take", "it_next", "close_driver"}
          \/ UNCHANGED pc
      BY <1>0, <2>1 DEF UserStart, Call, vfs_open, vfs_opendir, vfs_path_op, vfs_rename,
                  vfs_iterate_mount_dirs, vfs_close, vfs_closedir
    <3>. QED BY <1>1, <2>0, <3>1, <3>2 DEF OnList, UserPc, MutexInv
  <2>2. CASE FindTake(t) \/ FindFirst(t) \/ FindLoop(t) \/ FindEnd(t) \/ FindGive(t)
    BY <1>0, <1>1, <2>0, <2>2 DEF FindTake, FindFirst, FindLoop, FindEnd, FindGive, Return,
       Unwind, OnList, UserPc, MutexInv
  <2>3. CASE \/ DriverCall(t) \/ Drop(t) \/ Drop2(t) \/ OpenTake(t) \/ OpenScan(t)
             \/ OpenClaim(t) \/ OpenGive(t) \/ OpenDriver(t) \/ CloseDriver(t)
    BY <1>0, <1>1, <2>0, <2>3 DEF DriverCall, Drop, Drop2, OpenTake, OpenScan, OpenClaim,
       OpenGive, OpenDriver, CloseDriver, Return, Unwind, OnList, UserPc, MutexInv
  <2>4. CASE OpenDir(t) \/ IterHold(t) \/ IterClose(t) \/ IterEnd(t)
    BY <1>0, <1>1, <2>0, <2>4 DEF OpenDir, IterHold, IterClose, IterEnd,
       Return, Unwind, OnList, UserPc, MutexInv
  <2>5. CASE IterReads(t)
    <3>1. UNCHANGED mount_mutex /\ pc[t] \in ReadPc /\ pc'[t] \in IterPc
      BY <2>5, Reading
    <3>. QED BY <1>1, <2>0, <3>1 DEF ReadPc, IterPc, OnList, UserPc
  <2>. QED BY <1>2, <2>1, <2>2, <2>3, <2>4, <2>5 DEF UserStep, IterReads
<1>3. ASSUME NEW t \in Mounters, MounterStart(t) \/ MounterStep(t)
      PROVE  MutexInv'
  <2>0. \A u \in Task \ {t} : pc'[u] = pc[u]
    BY <1>3, MounterFrame DEF IInv
  <2>1. CASE MounterStart(t)
    BY <1>0, <1>1, <2>0, <2>1 DEF MounterStart, NoUnmounting, vfs_mount, OnList, MountPc
  <2>2. CASE CheckTake(t)
    BY <1>0, <1>1, <2>0, <2>2 DEF CheckTake, MutexInv, OnList, MountPc
  <2>3. CASE MountFind(t) \/ MountDriver(t) \/ MountPush(t) \/ MountLink(t) \/ MountTail(t)
    BY <1>0, <1>1, <2>0, <2>3
       DEF MountFind, MountDriver, MountPush, MountLink, MountTail, OnList, MountPc
  <2>4. ~(UmountFind(t) \/ UmountCount(t) \/ UmountDriver(t) \/ UmountRemove(t))
    BY DEF UmountFind, UmountCount, UmountDriver, UmountRemove, MutexInv, MountPc
  <2>. QED BY <1>3, <2>1, <2>2, <2>3, <2>4 DEF MounterStep
<1>4. CASE UNCHANGED vars
  BY <1>4 DEF vars, MutexInv, ListExclusive
<1>. QED BY <1>2, <1>3, <1>4 DEF Next

\* vfs.c:509-551, 1073-1117: a task works on the mount list exactly while it holds the
\* mutex, and no way out of a call keeps it, for any number of users and mounters, as
\* long as nothing is unmounted: vfs_umount gives the mutex without holding it.
THEOREM MutexExcludes == ASSUME NoUnmounting PROVE Spec => []ListExclusive
<1>1. Init => MutexInv
  BY ListAssumptions DEF Init, MutexInv, ListExclusive, OnList, UserPc, MountPc, Task
<1>2. IInv /\ MutexInv /\ [Next]_vars => MutexInv'
  BY MutexStep
<1>3. MutexInv => ListExclusive
  BY DEF MutexInv
<1>. QED BY <1>1, <1>2, <1>3, Invariance, PTL DEF Spec

\* The search has passed all that it would find again: the next pointers lead from the
\* first node to these, and on only where the search stands.
Passing(t, A) == /\ list.link[list.tail] \in A
                 /\ \A n \in A \ {loc[t].node} : list.link[n] \in A

\* The candidate is the longest of the prefixes among A.
Best(t, A) == \A n \in A \cap Prefixes[loc[t].name] :
                loc[t].cand # NULL /\ PathLen[n] <= PathLen[loc[t].cand]

\* A search that has not yet made a turn.
Fresh(t) == pc[t] = "find_loop" /\ loc[t].node = list.tail
InLoop(t) == pc[t] \in {"find_loop", "find_end"}

SearchInv(t) ==
  LET r == loc[t] IN
  /\ ~InLoop(t) \/ Fresh(t) => r.cand = NULL /\ r.longest = 0
  /\ InLoop(t) => list.tail # NULL /\ r.name \in Names
  /\ pc[t] = "find_end" => r.node = list.tail
  /\ InLoop(t) /\ ~Fresh(t) =>
       /\ r.node \in Mounted
       /\ r.cand # NULL => r.cand \in Mounted /\ r.cand \in Prefixes[r.name]
       /\ r.longest = IF r.cand # NULL /\ PathLen[r.cand] > 1 THEN PathLen[r.cand] ELSE 0
       /\ \E A \in SUBSET MountPts : Passing(t, A) /\ Best(t, A)

\* What MembersClosed says of the mounted volumes.
LEMMA Mountings ==
  ASSUME IInv, list.tail # NULL
  PROVE  /\ Mounted \subseteq MountPts /\ list.link[list.tail] \in Mounted
         /\ \A n \in Mounted : list.link[n] \in Mounted
         /\ \A A : list.link[list.tail] \in A /\ (\A n \in A : list.link[n] \in A)
                     => Mounted \subseteq A
<1>1. Endless(list)
  BY DEF IInv, TypeOK, ListInv, Endless
<1>. QED BY <1>1, MembersClosed DEF Mounted

\* One turn of the search.
LEMMA SearchLoop ==
  ASSUME IInv, NEW t \in Users, SearchInv(t), FindLoop(t), UNCHANGED list
  PROVE  SearchInv(t)'
<1>. DEFINE r == loc[t]
            it == list.link[r.node]
            len == PathLen[it]
            match == len >= r.longest /\ it \in Prefixes[r.name]
            s == loc'[t]
<1>1. /\ r \in CallRecord /\ pc[t] = "find_loop" /\ list.tail # NULL /\ r.name \in Names
  BY DEF IInv, TypeOK, FindLoop, SearchInv, InLoop
<1>2. /\ s = [r EXCEPT !.node = it, !.cand = IF match THEN it ELSE r.cand,
                       !.longest = IF match /\ len > 1 THEN len ELSE r.longest]
      /\ pc'[t] = IF it = list.tail THEN "find_end" ELSE "find_loop"
  BY DEF FindLoop, Set, Goto, IInv, TypeOK, Task
<1>3. /\ s.node = it /\ s.cand = IF match THEN it ELSE r.cand
      /\ s.longest = IF match /\ len > 1 THEN len ELSE r.longest
      /\ s.name = r.name
  BY <1>1, <1>2 DEF CallRecord
<1>4. it \in Mounted /\ Mounted \subseteq MountPts
  BY <1>1, Mountings DEF SearchInv, InLoop, Fresh
<1>5. /\ len \in Nat \ {0} /\ \A n \in MountPts : PathLen[n] \in Nat \ {0}
      /\ Prefixes[r.name] \subseteq MountPts /\ NULL \notin MountPts
  BY <1>1, <1>4, VfsAssumption
<1>6. \/ r.cand = NULL /\ r.longest = 0
      \/ /\ r.cand \in Mounted /\ r.cand \in Prefixes[r.name] /\ PathLen[r.cand] \in Nat \ {0}
         /\ r.longest = IF PathLen[r.cand] > 1 THEN PathLen[r.cand] ELSE 0
  BY <1>1, <1>4, <1>5 DEF SearchInv, InLoop
<1>. HIDE DEF r, it, s
<1>7. /\ s.cand # NULL => s.cand \in Mounted /\ s.cand \in Prefixes[s.name]
      /\ s.longest = IF s.cand # NULL /\ PathLen[s.cand] > 1 THEN PathLen[s.cand] ELSE 0
  <2>1. CASE match
    BY <1>3, <1>4, <1>5, <1>6, <2>1
  <2>2. CASE ~match
    BY <1>3, <1>4, <1>5, <1>6, <2>2
  <2>. QED BY <2>1, <2>2
<1>8. it \in Prefixes[r.name] => s.cand # NULL /\ len <= PathLen[s.cand]
  BY <1>3, <1>4, <1>5, <1>6
<1>9. \A n \in MountPts : r.cand # NULL /\ PathLen[n] <= PathLen[r.cand]
                            => s.cand # NULL /\ PathLen[n] <= PathLen[s.cand]
  BY <1>3, <1>4, <1>5, <1>6
<1>10. \E A \in SUBSET MountPts :
         /\ list.link[list.tail] \in A /\ \A n \in A \ {s.node} : list.link[n] \in A
         /\ \A n \in A \cap Prefixes[s.name] : s.cand # NULL /\ PathLen[n] <= PathLen[s.cand]
  <2>1. CASE Fresh(t)
    <3>1. it = list.link[list.tail]
      BY <2>1 DEF Fresh, it, r
    <3>. {it} \in SUBSET MountPts
      BY <1>4
    <3>. WITNESS {it} \in SUBSET MountPts
    <3>. QED BY <1>3, <1>4, <1>8, <3>1
  <2>2. CASE ~Fresh(t)
    <3>1. PICK A \in SUBSET MountPts : Passing(t, A) /\ Best(t, A)
      BY <1>1, <2>2 DEF SearchInv, InLoop
    <3>2. /\ list.link[list.tail] \in A /\ \A n \in A \ {r.node} : list.link[n] \in A
          /\ \A n \in A \cap Prefixes[r.name] : r.cand # NULL /\ PathLen[n] <= PathLen[r.cand]
      BY <3>1 DEF Passing, Best, r
    <3>3. \A n \in (A \cup {it}) \ {it} : list.link[n] \in A \cup {it}
      BY <3>2 DEF it
    <3>. A \cup {it} \in SUBSET MountPts
      BY <1>4
    <3>. WITNESS A \cup {it} \in SUBSET MountPts
    <3>. QED BY <1>3, <1>4, <1>8, <1>9, <3>2, <3>3
  <2>. QED BY <2>1, <2>2
<1>11. /\ ~Fresh(t)'
       /\ InLoop(t)' /\ (pc'[t] = "find_end" => s.node = list.tail)
       /\ UNCHANGED <<list.tail, Mounted>> /\ list'.tail = list.tail
  BY <1>2, <1>3 DEF Fresh, InLoop, s, Mounted
<1>12. \E A \in SUBSET MountPts : Passing(t, A)' /\ Best(t, A)'
  BY <1>10 DEF Passing, Best, s
<1>. QED BY <1>1, <1>3, <1>4, <1>7, <1>11, <1>12 DEF SearchInv, s
\* What only the searching task changes stays as it is.
LEMMA SearchKept ==
  ASSUME NEW t \in Users, SearchInv(t), UNCHANGED <<list, loc[t], pc[t]>>
  PROVE  SearchInv(t)'
<1>1. UNCHANGED <<Mounted, list.tail, list.link>>
  BY DEF Mounted
<1>2. (InLoop(t)' <=> InLoop(t)) /\ (Fresh(t)' <=> Fresh(t))
  BY DEF InLoop, Fresh
<1>3. \A A : (Passing(t, A)' <=> Passing(t, A)) /\ (Best(t, A)' <=> Best(t, A))
  BY DEF Passing, Best
<1>. QED BY <1>1, <1>2, <1>3 DEF SearchInv

\* No call takes with it what a search has left behind.
LEMMA SearchReset ==
  ASSUME NEW t \in Users, ~InLoop(t)', loc'[t].cand = NULL, loc'[t].longest = 0
  PROVE  SearchInv(t)'
BY DEF SearchInv, Fresh, InLoop

LEMMA SearchUser ==
  ASSUME IInv, NEW t \in Users, SearchInv(t), UserStart(t) \/ UserStep(t)
  PROVE  SearchInv(t)'
<1>. USE DEF tables, mutexes, Goto, Set, Task
<1>0. /\ UNCHANGED list /\ loc[t] \in CallRecord
      /\ pc \in [Task -> UserPc \cup MounterPc] /\ loc \in [Users -> CallRecord]
  BY UserFrame DEF IInv, TypeOK
<1>1. NoCall.cand = NULL /\ NoCall.longest = 0 /\ NoCall \in CallRecord
  BY CallRecords DEF NoCall
<1>2. ASSUME NEW r, r.cand = NULL, r.longest = 0, Return(t, r)
      PROVE  SearchInv(t)'
  <2>1. ~InLoop(t)'
    BY <1>0, <1>2 DEF Return, Unwind, InLoop
  <2>2. loc'[t] = NoCall \/ loc'[t] = r
    BY <1>0, <1>2 DEF Return
  <2>. QED BY <1>1, <1>2, <2>1, <2>2, SearchReset
<1>3. ~InLoop(t) => loc[t].cand = NULL /\ loc[t].longest = 0
  BY DEF SearchInv
<1>4. CASE UserStart(t)
  <2>1. ASSUME NEW o, NEW n, Call(t, o, n) PROVE SearchInv(t)'
    BY <1>0, <1>1, <2>1, SearchReset DEF Call, NoCall, InLoop
  <2>2. CASE vfs_iterate_mount_dirs(t)
    BY <1>0, <1>1, <2>2, SearchReset DEF vfs_iterate_mount_dirs, NoCall, InLoop
  <2>3. ASSUME NEW f \in Fds, vfs_close(t, f) PROVE SearchInv(t)'
    BY <1>0, <1>1, <2>3, SearchReset DEF vfs_close, NoCall, InLoop
  <2>4. CASE vfs_closedir(t)
    BY <1>0, <2>4, SearchKept DEF vfs_closedir
  <2>. QED BY <1>4, <2>1, <2>2, <2>3, <2>4 DEF UserStart, vfs_open, vfs_opendir, vfs_path_op,
                                              vfs_rename
<1>5. CASE FindTake(t)
  BY <1>0, <1>3, <1>5, SearchReset DEF FindTake, InLoop
<1>6. CASE FindFirst(t)
  <2>1. loc[t].cand = NULL /\ loc[t].longest = 0
    BY <1>3, <1>6 DEF FindFirst, InLoop
  <2>2. CASE list.tail = NULL
    BY <1>2, <1>6, <2>1, <2>2 DEF FindFirst
  <2>3. CASE list.tail # NULL
    <3>1. /\ loc'[t] = [loc[t] EXCEPT !.node = list.tail] /\ pc'[t] = "find_loop"
          /\ loc[t].name \in Names
      BY <1>0, <1>6, <2>3 DEF FindFirst, IInv, CallInv, FindPc
    <3>2. /\ loc'[t].node = list.tail /\ loc'[t].cand = NULL /\ loc'[t].longest = 0
          /\ loc'[t].name = loc[t].name
      BY <1>0, <2>1, <3>1 DEF CallRecord
    <3>3. Fresh(t)' /\ pc'[t] # "find_end"
      BY <1>0, <3>1, <3>2 DEF Fresh
    <3>. QED BY <1>0, <2>3, <3>1, <3>2, <3>3 DEF SearchInv
  <2>. QED BY <2>2, <2>3
<1>7. CASE FindLoop(t)
  BY <1>0, <1>7, SearchLoop
<1>8. CASE FindEnd(t)
  <2>. DEFINE r == [loc[t] EXCEPT !.node = NULL, !.cand = NULL, !.longest = 0]
  <2>1. r.cand = NULL /\ r.longest = 0 /\ r \in CallRecord
    BY <1>0, CallRecords DEF CallRecord
  <2>2. CASE loc[t].cand = NULL
    BY <1>2, <1>8, <2>1, <2>2 DEF FindEnd
  <2>3. CASE loc[t].cand # NULL
    <3>1. /\ pc'[t] = "find_give"
          /\ \/ loc'[t] = [r EXCEPT !.mp2 = loc[t].cand]
             \/ loc'[t] = [r EXCEPT !.mp = loc[t].cand]
      BY <1>0, <1>8, <2>3 DEF FindEnd
    <3>. HIDE DEF r
    <3>2. loc'[t].cand = NULL /\ loc'[t].longest = 0
      BY <2>1, <3>1 DEF CallRecord
    <3>. QED BY <3>1, <3>2, SearchReset DEF InLoop
  <2>. QED BY <2>2, <2>3
<1>9. CASE FindGive(t)
  <2>1. loc[t].cand = NULL /\ loc[t].longest = 0
    BY <1>3, <1>9 DEF FindGive, InLoop
  <2>2. CASE Return(t, loc[t])
    BY <1>2, <2>1, <2>2
  <2>3. CASE pc'[t] \in {"open_take", "opendir", "driver", "find_take"}
                /\ (UNCHANGED loc \/ \E n : loc' = [loc EXCEPT ![t] = [loc[t] EXCEPT !.name = n]])
    BY <1>0, <2>1, <2>3, SearchReset DEF InLoop, CallRecord
  <2>. QED BY <1>0, <1>9, <2>2, <2>3 DEF FindGive
<1>10. CASE \/ DriverCall(t) \/ Drop(t) \/ Drop2(t) \/ OpenTake(t) \/ OpenScan(t)
            \/ OpenClaim(t) \/ OpenGive(t) \/ OpenDriver(t) \/ CloseDriver(t)
  <2>1. loc[t].cand = NULL /\ loc[t].longest = 0
    BY <1>3, <1>10 DEF DriverCall, Drop, Drop2, OpenTake, OpenScan, OpenClaim, OpenGive,
                       OpenDriver, CloseDriver, InLoop
  <2>2. \A x : /\ [loc[t] EXCEPT !.mp = x].cand = NULL /\ [loc[t] EXCEPT !.mp = x].longest = 0
               /\ [loc[t] EXCEPT !.fd = x].cand = NULL /\ [loc[t] EXCEPT !.fd = x].longest = 0
    BY <1>0, <2>1 DEF CallRecord
  <2>3. \/ Return(t, loc[t]) \/ Return(t, [loc[t] EXCEPT !.mp = NULL]) \/ Return(t, NoCall)
        \/ Return(t, [loc[t] EXCEPT !.fd = 3])
        \/ /\ pc'[t] \in {"open_scan", "open_claim", "open_give", "open_driver"}
           /\ \/ UNCHANGED loc \/ loc' = [loc EXCEPT ![t] = [loc[t] EXCEPT !.fd = loc[t].fd + 1]]
              \/ loc' = [loc EXCEPT ![t] = [loc[t] EXCEPT !.mp = NULL]]
    BY <1>0, <1>10 DEF DriverCall, Drop, Drop2, OpenTake, OpenScan, OpenClaim, OpenGive,
                       OpenDriver, CloseDriver
  <2>4. CASE Return(t, loc[t]) \/ Return(t, NoCall)
    BY <1>1, <1>2, <2>1, <2>4
  <2>5. CASE Return(t, [loc[t] EXCEPT !.mp = NULL]) \/ Return(t, [loc[t] EXCEPT !.fd = 3])
    BY <1>2, <2>2, <2>5
  <2>6. CASE /\ pc'[t] \in {"open_scan", "open_claim", "open_give", "open_driver"}
           /\ \/ UNCHANGED loc \/ loc' = [loc EXCEPT ![t] = [loc[t] EXCEPT !.fd = loc[t].fd + 1]]
              \/ loc' = [loc EXCEPT ![t] = [loc[t] EXCEPT !.mp = NULL]]
    <3>1. loc'[t] = loc[t] \/ loc'[t] = [loc[t] EXCEPT !.fd = loc[t].fd + 1]
          \/ loc'[t] = [loc[t] EXCEPT !.mp = NULL]
      BY <1>0, <2>6
    <3>2. loc'[t].cand = NULL /\ loc'[t].longest = 0
      BY <2>1, <2>2, <3>1
    <3>. QED BY <2>6, <3>2, SearchReset DEF InLoop
  <2>. QED BY <1>0, <2>1, <2>2, <2>3, <2>4, <2>5, <2>6 DEF InLoop
<1>11. CASE OpenDir(t) \/ IterHold(t) \/ IterClose(t) \/ IterEnd(t)
  <2>1. loc[t].cand = NULL /\ loc[t].longest = 0
    BY <1>3, <1>11 DEF OpenDir, IterHold, IterClose, IterEnd, InLoop
  <2>2. \A x : /\ [loc[t] EXCEPT !.mp = x].cand = NULL /\ [loc[t] EXCEPT !.mp = x].longest = 0
               /\ [loc[t] EXCEPT !.name = x].cand = NULL /\ [loc[t] EXCEPT !.name = x].longest = 0
    BY <1>0, <2>1 DEF CallRecord
  <2>3. \/ Return(t, loc[t]) \/ Return(t, [loc[t] EXCEPT !.mp = NULL]) \/ Return(t, NoCall)
        \/ /\ pc'[t] \in {"it_close", "find_take"}
           /\ \/ UNCHANGED loc
              \/ \E x : loc' = [loc EXCEPT ![t] = [loc[t] EXCEPT !.name = x]]
    BY <1>0, <1>11 DEF OpenDir, IterHold, IterClose, IterEnd
  <2>4. CASE Return(t, loc[t]) \/ Return(t, NoCall)
    BY <1>1, <1>2, <2>1, <2>4
  <2>5. CASE Return(t, [loc[t] EXCEPT !.mp = NULL])
    BY <1>2, <2>2, <2>5
  <2>6. CASE /\ pc'[t] \in {"it_close", "find_take"}
           /\ \/ UNCHANGED loc
              \/ \E x : loc' = [loc EXCEPT ![t] = [loc[t] EXCEPT !.name = x]]
    <3>1. loc'[t] = loc[t] \/ \E x : loc'[t] = [loc[t] EXCEPT !.name = x]
      BY <1>0, <2>6
    <3>2. loc'[t].cand = NULL /\ loc'[t].longest = 0
      BY <2>1, <2>2, <3>1
    <3>. QED BY <2>6, <3>2, SearchReset DEF InLoop
  <2>. QED BY <1>0, <2>1, <2>2, <2>3, <2>4, <2>5, <2>6 DEF InLoop
<1>12. CASE IterReads(t)
  <2>1. loc'[t].cand = NULL /\ loc'[t].longest = 0
    BY <1>3, <1>12, Reading DEF InLoop, ReadPc
  <2>. QED BY <1>12, <2>1, Reading, SearchReset DEF InLoop, IterPc
<1>. QED BY <1>4, <1>5, <1>6, <1>7, <1>8, <1>9, <1>10, <1>11, <1>12 DEF UserStep, IterReads

\* The list grows only while nobody searches.
LEMMA SearchStep ==
  ASSUME NoUnmounting, IInv, MutexInv, \A t \in Users : SearchInv(t), [Next]_vars
  PROVE  \A t \in Users : SearchInv(t)'
<1>1. ASSUME NEW t \in Users, UserStart(t) \/ UserStep(t), NEW u \in Users
      PROVE  SearchInv(u)'
  <2>1. CASE u = t
    BY <1>1, <2>1, SearchUser
  <2>2. CASE u # t
    BY <1>1, <2>2, UserFrame, SearchKept DEF IInv, Task
  <2>. QED BY <2>1, <2>2
<1>2. ASSUME NEW t \in Mounters, MounterStart(t) \/ MounterStep(t), NEW u \in Users
      PROVE  SearchInv(u)'
  <2>1. UNCHANGED <<loc, pc[u]>>
    BY <1>2, MounterFrame, ListAssumptions DEF IInv, Task
  <2>2. CASE UNCHANGED list
    BY <2>1, <2>2, SearchKept
  <2>3. CASE MountPush(t) \/ MountLink(t) \/ MountTail(t)
    <3>1. ~InLoop(u)
      BY <2>3, ListAssumptions DEF MountPush, MountLink, MountTail, MutexInv, ListExclusive,
                                   OnList, InLoop, Task
    <3>2. ~InLoop(u)' /\ loc'[u].cand = NULL /\ loc'[u].longest = 0
      BY <2>1, <3>1 DEF SearchInv, InLoop
    <3>. QED BY <3>2, SearchReset
  <2>4. ~UmountRemove(t)
    BY DEF UmountRemove, MutexInv, MountPc
  <2>. QED BY <1>2, <2>2, <2>3, <2>4 DEF MounterStart, MounterStep, vfs_mount, vfs_umount,
              CheckTake, MountFind, MountDriver, UmountFind, UmountCount, UmountDriver, tables
<1>3. CASE UNCHANGED vars
  BY <1>3, SearchKept DEF vars
<1>. QED BY <1>1, <1>2, <1>3 DEF Next

\* When the search is back at the last node, it has passed every member.
LEMMA SearchEnds ==
  ASSUME IInv, \A t \in Users : SearchInv(t)
  PROVE  LongestFound
<1>. SUFFICES ASSUME NEW t \in Users, pc[t] = "find_end"
              PROVE  LET hits == Mounted \cap Prefixes[loc[t].name]
                         m == loc[t].cand
                     IN  IF m = NULL THEN hits = {}
                         ELSE m \in hits /\ \A n \in hits : PathLen[n] <= PathLen[m]
  BY DEF LongestFound
<1>1. InLoop(t) /\ ~Fresh(t) /\ SearchInv(t)
  BY DEF InLoop, Fresh
<1>2. PICK A \in SUBSET MountPts : Passing(t, A) /\ Best(t, A)
  BY <1>1 DEF SearchInv
<1>3. Mounted \subseteq A
  <2>1. list.tail # NULL /\ loc[t].node = list.tail
    BY <1>1 DEF SearchInv
  <2>2. list.link[list.tail] \in A /\ \A n \in A : list.link[n] \in A
    BY <1>2, <2>1 DEF Passing
  <2>. QED BY <1>1, <2>1, <2>2, Mountings
<1>. QED BY <1>1, <1>2, <1>3 DEF SearchInv, Best

\* At the start nobody searches.
LEMMA SearchInit == ASSUME Init PROVE IInv /\ MutexInv /\ \A t \in Users : SearchInv(t)
<1>1. IInv /\ MutexInv
  BY InvInit, ListAssumptions DEF Init, MutexInv, ListExclusive, OnList, UserPc, MountPc, Task
<1>2. ASSUME NEW t \in Users PROVE SearchInv(t)
  BY DEF Init, SearchInv, InLoop, Fresh, NoCall, Task
<1>. QED BY <1>1, <1>2

\* vfs.c:1073-1117: _find_mount answers with the longest mount point that is a prefix
\* of the name, and with none only when no mounted volume has the name, whatever was
\* mounted in whatever order, for any number of volumes, as long as nothing is unmounted.
THEOREM SearchAnswers == ASSUME NoUnmounting PROVE Spec => []LongestFound
<1>. DEFINE Inv == IInv /\ MutexInv /\ \A t \in Users : SearchInv(t)
<1>1. Init => Inv
  BY SearchInit
<1>2. Inv /\ [Next]_vars => Inv'
  <2>. SUFFICES ASSUME Inv, [Next]_vars PROVE Inv'
    OBVIOUS
  <2>1. IInv'
    BY InvStep
  <2>2. MutexInv'
    BY MutexStep DEF IInv
  <2>3. \A t \in Users : SearchInv(t)'
    BY SearchStep
  <2>. QED BY <2>1, <2>2, <2>3
<1>3. Inv => LongestFound
  BY SearchEnds
<1>. QED BY <1>1, <1>2, <1>3, PTL DEF Spec
-----------------------------------------------------------------------------
(* The iteration, as long as nothing is unmounted.                         *)

\* No two volumes are mounted under one path.
PathsApart ==
  \A m \in MountPts : /\ m \in Prefixes[MountPath[m]]
                      /\ \A n \in Prefixes[MountPath[m]] \ {m} : PathLen[n] < PathLen[m]

\* No two members lead to the same next one, and the last node is a member.
Apart(l) == \A p, q \in CL!Members(l) : l.link[p] = l.link[q] => p = q
Ring == list.tail # NULL => list.tail \in Mounted /\ Apart(list)

\* An iteration that got as far as the member c has d before it: behind c are the
\* members from the first node on, not the last among them.
Passed(l, c, d) ==
  \E A \in SUBSET CL!Members(l) :
    /\ l.link[l.tail] \in A /\ \A n \in A \ {c} : l.link[n] \in A
    /\ l.tail \in A => c = l.tail
    /\ A \cap d = {}

\* A mount that is not yet the last node comes first, and nothing is due behind it.
Visited(c, d) == /\ c \in Mounted
                 /\ c \in Pushing => d = {}
                 /\ Passed(list, c, d)

\* Every member is passed on the way, when nothing is due.
LEMMA PassedAll ==
  ASSUME NEW l, Endless(l), NEW c \in CL!Members(l)
  PROVE  Passed(l, c, {})
<1>. DEFINE M == CL!Members(l)
            first == l.link[l.tail]
            Way(n, A) == /\ first \in A /\ \A k \in A \ {n} : l.link[k] \in A
                         /\ l.tail \in A => n = l.tail
            S == {n \in M : \E A \in SUBSET M : Way(n, A)}
<1>1. /\ first \in M /\ \A n \in M : l.link[n] \in M
      /\ \A A : first \in A /\ (\A n \in A : l.link[n] \in A) => M \subseteq A
  BY MembersClosed
<1>. HIDE DEF M
<1>2. first \in S
  <2>1. Way(first, {first}) /\ {first} \in SUBSET M
    BY <1>1
  <2>. HIDE DEF Way, first
  <2>. QED BY <1>1, <2>1
<1>3. ASSUME NEW n \in S PROVE l.link[n] \in S
  <2>1. PICK A \in SUBSET M : Way(n, A)
    BY <1>3
  <2>2. n \in M /\ l.link[n] \in M
    BY <1>1, <1>3
  <2>3. CASE n = l.tail
    BY <1>2, <2>3
  <2>4. CASE n # l.tail
    <3>1. Way(l.link[n], A \cup {l.link[n]}) /\ A \cup {l.link[n]} \in SUBSET M
      BY <2>1, <2>2, <2>4
    <3>. HIDE DEF Way
    <3>. QED BY <2>2, <3>1
  <2>. QED BY <2>3, <2>4
<1>4. M \subseteq S
  <2>. HIDE DEF S, first
  <2>. QED BY <1>1, <1>2, <1>3
<1>5. PICK A \in SUBSET M : Way(c, A)
  BY <1>4 DEF M
<1>. QED BY <1>5 DEF Passed, M

\* Whoever got to the last node has passed all.
LEMMA PassedEnd ==
  ASSUME NEW l, Endless(l), NEW d, Passed(l, l.tail, d), d \subseteq CL!Members(l)
  PROVE  d = {}
<1>1. PICK A \in SUBSET CL!Members(l) :
        /\ l.link[l.tail] \in A /\ \A n \in A \ {l.tail} : l.link[n] \in A
        /\ A \cap d = {}
  BY DEF Passed
<1>2. \A n \in A : l.link[n] \in A
  BY <1>1
<1>3. CL!Members(l) \subseteq A
  BY <1>1, <1>2, MembersClosed
<1>. QED BY <1>1, <1>3

\* A next pointer outside the list is written.
LEMMA PushOutside ==
  ASSUME NEW l, NEW k, Endless(l), Endless(k), l.tail \in CL!Members(l), k.tail = l.tail,
         \A n \in CL!Members(l) : k.link[n] = l.link[n]
  PROVE  /\ CL!Members(k) = CL!Members(l)
         /\ \A c, d : Passed(l, c, d) => Passed(k, c, d)
<1>. DEFINE M == CL!Members(l)
            N == CL!Members(k)
            first == l.link[l.tail]
<1>1. /\ first \in M /\ \A n \in M : l.link[n] \in M
      /\ \A A : first \in A /\ (\A n \in A : l.link[n] \in A) => M \subseteq A
  BY MembersClosed
<1>2. /\ k.link[k.tail] \in N /\ \A n \in N : k.link[n] \in N
      /\ \A A : k.link[k.tail] \in A /\ (\A n \in A : k.link[n] \in A) => N \subseteq A
  BY MembersClosed
<1>3. k.link[k.tail] = first /\ \A n \in M : k.link[n] = l.link[n]
  OBVIOUS
<1>. HIDE DEF M, N, first
<1>4. N \subseteq M
  BY <1>1, <1>2, <1>3
<1>5. M \subseteq N
  <2>1. first \in M \cap N /\ \A n \in M \cap N : l.link[n] \in M \cap N
    BY <1>1, <1>2, <1>3
  <2>2. M \subseteq M \cap N
    BY <1>1, <2>1
  <2>. QED BY <2>2
<1>6. M = N
  BY <1>4, <1>5
<1>7. ASSUME NEW c, NEW d, Passed(l, c, d) PROVE Passed(k, c, d)
  <2>1. PICK A \in SUBSET M : /\ first \in A /\ \A n \in A \ {c} : l.link[n] \in A
                              /\ l.tail \in A => c = l.tail
                              /\ A \cap d = {}
    BY <1>7 DEF Passed, M, first
  <2>2. \A n \in A \ {c} : k.link[n] \in A
    BY <1>3, <2>1
  <2>3. A \in SUBSET N
    BY <1>6
  <2>. QED BY <1>3, <2>1, <2>2, <2>3 DEF Passed, N
<1>. QED BY <1>6, <1>7 DEF M, N

\* The last node is made to lead to the new one.
LEMMA PushBehind ==
  ASSUME NEW l, NEW k, Endless(l), Endless(k), l.tail \in CL!Members(l), Apart(l),
         NEW m \in MountPts, m \notin CL!Members(l), l.link[m] = l.link[l.tail],
         k = [l EXCEPT !.link[l.tail] = m]
  PROVE  /\ CL!Members(k) = CL!Members(l) \cup {m} /\ Apart(k)
         /\ k.tail = l.tail /\ \A n \in CL!Members(l) \ {l.tail} : k.link[n] = l.link[n]
         /\ \A c \in CL!Members(l) : \A d : Passed(l, c, d) /\ m \notin d => Passed(k, c, d)
<1>. DEFINE M == CL!Members(l)
            N == CL!Members(k)
            first == l.link[l.tail]
            f == l.link
            g == k.link
            last == l.tail
<1>1. /\ M \subseteq MountPts /\ first \in M /\ \A n \in M : f[n] \in M
      /\ \A A : first \in A /\ (\A n \in A : f[n] \in A) => M \subseteq A
      /\ last \in M /\ m \notin M /\ f[last] = first /\ f[m] = first
      /\ \A p, q \in M : f[p] = f[q] => p = q
  BY MembersClosed DEF Apart
<1>2. /\ k.tail = last /\ g[last] = m /\ \A n \in MountPts \ {last} : g[n] = f[n]
  BY <1>1 DEF Endless, CL!List
<1>3. /\ m \in N /\ \A n \in N : g[n] \in N
      /\ \A A : m \in A /\ (\A n \in A : g[n] \in A) => N \subseteq A
  <2>1. k.link[k.tail] = m
    BY <1>2
  <2>. QED BY <2>1, MembersClosed
<1>. HIDE DEF M, N, first, f, g, last
<1>4. g[m] = first
  BY <1>1, <1>2
<1>5. N \subseteq M \cup {m}
  <2>1. \A n \in M \cup {m} : g[n] \in M \cup {m}
    BY <1>1, <1>2, <1>4
  <2>. QED BY <1>3, <2>1
<1>6. M \subseteq N
  <2>1. first \in M \cap N
    BY <1>1, <1>3, <1>4
  <2>2. \A n \in M \cap N : f[n] \in M \cap N
    BY <1>1, <1>2, <1>3, <2>1
  <2>3. M \subseteq M \cap N
    BY <1>1, <2>1, <2>2
  <2>. QED BY <2>3
<1>7. N = M \cup {m}
  BY <1>3, <1>5, <1>6
<1>8. \A p, q \in N : g[p] = g[q] => p = q
  BY <1>1, <1>2, <1>4, <1>7
<1>9. ASSUME NEW c \in M, NEW d, Passed(l, c, d), m \notin d PROVE Passed(k, c, d)
  <2>1. PICK A \in SUBSET M : /\ first \in A /\ \A n \in A \ {c} : f[n] \in A
                              /\ last \in A => c = last
                              /\ A \cap d = {}
    BY <1>9 DEF Passed, M, first, f, last
  <2>. DEFINE B == A \cup {m}
  <2>2. B \in SUBSET N /\ m \in B /\ B \cap d = {} /\ (last \in B => c = last)
    BY <1>1, <1>7, <1>9, <2>1
  <2>3. \A n \in B \ {c} : g[n] \in B
    BY <1>1, <1>2, <1>4, <2>1
  <2>4. k.link[k.tail] = m
    BY <1>2 DEF g
  <2>. HIDE DEF B
  <2>. QED BY <1>2, <2>2, <2>3, <2>4 DEF Passed, N, g
<1>10. \A n \in M \ {last} : g[n] = f[n]
  BY <1>1, <1>2
<1>. QED BY <1>2, <1>7, <1>8, <1>9, <1>10 DEF M, N, f, g, last, Apart

\* The head is moved on to the new node.
LEMMA PushHead ==
  ASSUME NEW l, NEW k, Endless(l), Endless(k), l.tail \in CL!Members(l), Apart(l),
         k.tail = l.link[l.tail], k.link = l.link
  PROVE  /\ CL!Members(k) = CL!Members(l) /\ Apart(k) /\ k.tail \in CL!Members(k)
         /\ \A c \in CL!Members(l) \ {k.tail} : \A d : Passed(l, c, d) => Passed(k, c, d)
<1>. DEFINE M == CL!Members(l)
            N == CL!Members(k)
            m == l.link[l.tail]
            f == l.link
            last == l.tail
<1>1. /\ m \in M /\ \A n \in M : f[n] \in M
      /\ \A A : m \in A /\ (\A n \in A : f[n] \in A) => M \subseteq A
      /\ last \in M /\ f[last] = m /\ \A p, q \in M : f[p] = f[q] => p = q
  BY MembersClosed DEF Apart
<1>2. k.tail = m /\ k.link = f
  OBVIOUS
<1>3. /\ f[m] \in N /\ \A n \in N : f[n] \in N
      /\ \A A : f[m] \in A /\ (\A n \in A : f[n] \in A) => N \subseteq A
  BY <1>2, MembersClosed
<1>. HIDE DEF M, N, m, f, last
<1>4. N \subseteq M
  BY <1>1, <1>3
<1>5. M \subseteq N \cup {m}
  <2>1. \A n \in N \cup {m} : f[n] \in N \cup {m}
    BY <1>3
  <2>. QED BY <1>1, <2>1
<1>6. m \in N
  BY <1>1, <1>3, <1>5
<1>7. M = N
  BY <1>4, <1>5, <1>6
<1>8. ASSUME NEW c \in M \ {m}, NEW d, Passed(l, c, d) PROVE Passed(k, c, d)
  <2>1. PICK A \in SUBSET M : /\ m \in A /\ \A n \in A \ {c} : f[n] \in A
                              /\ last \in A => c = last
                              /\ A \cap d = {}
    BY <1>8 DEF Passed, M, m, f, last
  <2>2. f[m] # m
    <3>. SUFFICES ASSUME f[m] = m PROVE FALSE
      OBVIOUS
    <3>1. M \subseteq {m}
      BY <1>1
    <3>. QED BY <1>8, <3>1
  <2>. DEFINE B == A \ {m}
  <2>3. B \in SUBSET N /\ f[m] \in B /\ m \notin B /\ B \cap d = {}
    BY <1>7, <1>8, <2>1, <2>2
  <2>4. \A n \in B \ {c} : f[n] \in B
    BY <1>1, <2>1
  <2>. HIDE DEF B
  <2>. QED BY <1>2, <2>3, <2>4 DEF Passed, N
<1>. QED BY <1>1, <1>2, <1>6, <1>7, <1>8 DEF M, N, f, Apart

\* Every member has one before it.
LEMMA MembersLast ==
  ASSUME IInv, Ring, NEW m \in Mounted
  PROVE  list.tail # NULL /\ m \in MountPts /\ \E p \in Mounted : list.link[p] = m
<1>1. list.tail # NULL
  BY DEF Mounted, CL!Members
<1>. DEFINE A == {n \in Mounted : \E p \in Mounted : list.link[p] = n}
<1>2. list.link[list.tail] \in A
  BY <1>1, Mountings DEF Ring
<1>3. \A n \in A : list.link[n] \in A
  BY <1>1, Mountings
<1>4. Mounted \subseteq A
  <2>. HIDE DEF A
  <2>. QED BY <1>1, <1>2, <1>3, Mountings
<1>. QED BY <1>1, <1>4, Mountings

\* check_mount finds every mounted volume.
LEMMA CheckFinds ==
  ASSUME IInv, Ring, NEW t \in Mounters, ~AlreadyMounted(t)
  PROVE  req[t].mp \notin Mounted
<1>. SUFFICES ASSUME req[t].mp \in Mounted PROVE FALSE
  OBVIOUS
<1>. DEFINE n == req[t].mp
            before == {p \in Mounted : list.link[p] = n}
<1>1. before # {} /\ before \subseteq MountPts /\ n # NULL
  BY MembersLast, Mountings, ListAssumptions
<1>2. CL!clist_find_before(list, n) \in before
  BY <1>1 DEF CL!clist_find_before, Mounted
<1>3. CL!clist_find(list, n) = n
  BY <1>1, <1>2, ListAssumptions DEF CL!clist_find
<1>. QED BY <1>1, <1>3 DEF AlreadyMounted

\* A mount being pushed is not in the list until the last node leads to it.
Unlisted ==
  \A t \in Mounters :
    LET m == req[t].mp IN
    /\ pc[t] \in {"m_driver", "m_push", "m_link"} => m \notin Mounted
    /\ pc[t] = "m_link" => list.tail # NULL /\ list.link[m] = list.link[list.tail]
    /\ pc[t] = "m_tail" => list.link[IF list.tail = NULL THEN m ELSE list.tail] = m

\* The mutex keeps pushes apart.
LEMMA OnePush ==
  ASSUME IInv, MutexInv, NEW t \in Mounters, pc[t] \in OnList
  PROVE  /\ \A u \in Mounters : pc[u] \in OnList => u = t
         /\ Pushing = IF pc[t] = "m_tail" THEN {req[t].mp} ELSE {}
<1>1. \A u \in Mounters : pc[u] \in OnList => u = t
  BY DEF MutexInv, ListExclusive, Task
<1>2. {u \in Mounters : pc[u] = "m_tail"} = IF pc[t] = "m_tail" THEN {t} ELSE {}
  BY <1>1 DEF OnList
<1>. QED BY <1>1, <1>2 DEF Pushing

\* The first write of clist_rpush.
LEMMA PushedFirst ==
  ASSUME IInv, IInv', Ring, Unlisted, NEW t \in Mounters, MountPush(t), Pushing = {},
         Pushing' \subseteq {req[t].mp}, pc'[t] = "m_link" => Pushing' = {}
  PROVE  /\ Ring' /\ Mounted' = Mounted
         /\ \A n \in Mounted : list'.link[n] = list.link[n]
         /\ \A c, d : Visited(c, d) => Visited(c, d)'
<1>. DEFINE m == req[t].mp
<1>1. /\ list \in CL!List /\ pc[t] = "m_push" /\ m \notin Mounted
      /\ list'.tail = list.tail /\ \A n \in MountPts \ {m} : list'.link[n] = list.link[n]
  BY DEF MountPush, IInv, TypeOK, Unlisted, CL!List
<1>2. CASE list.tail = NULL
  BY <1>1, <1>2 DEF Ring, Mounted, CL!Members, Visited
<1>3. CASE list.tail # NULL
  <2>1. Endless(list) /\ Endless(list')
    BY <1>1, <1>3 DEF IInv, TypeOK, ListInv, Endless
  <2>2. Mounted \subseteq MountPts /\ list.tail \in Mounted
    BY <1>3, Mountings DEF Ring
  <2>3. \A n \in Mounted : list'.link[n] = list.link[n]
    BY <1>1, <2>2
  <2>4. Mounted' = Mounted /\ \A c, d : Passed(list, c, d) => Passed(list', c, d)
    BY <1>1, <2>1, <2>2, <2>3, PushOutside DEF Mounted
  <2>5. Apart(list')
    BY <1>3, <2>3, <2>4 DEF Ring, Apart, Mounted
  <2>6. pc'[t] = "m_link"
    BY <1>3 DEF MountPush, Goto, IInv, TypeOK, Task
  <2>. QED BY <1>1, <2>2, <2>3, <2>4, <2>5, <2>6 DEF Ring, Visited
<1>. QED BY <1>2, <1>3

\* The second.
LEMMA PushedSecond ==
  ASSUME IInv, IInv', Ring, Unlisted, NEW t \in Mounters, MountLink(t), Pushing' = {req[t].mp}
  PROVE  /\ Ring' /\ Mounted' = Mounted \cup {req[t].mp}
         /\ \A n \in Mounted \ {list.tail} : list'.link[n] = list.link[n]
         /\ \A c, d : d \subseteq Mounted /\ Visited(c, d) => Visited(c, d)'
<1>. DEFINE m == req[t].mp
<1>1. /\ list \in CL!List /\ pc[t] = "m_link" /\ m \notin Mounted /\ m \in MountPts
      /\ list.tail # NULL /\ list.link[m] = list.link[list.tail]
      /\ list' = [list EXCEPT !.link[list.tail] = m]
  BY DEF MountLink, IInv, TypeOK, ReqInv, MpOrNull, Unlisted
<1>2. Endless(list) /\ list.tail \in Mounted /\ Apart(list)
  BY <1>1 DEF IInv, TypeOK, ListInv, Endless, Ring
<1>3. list'.tail = list.tail
  BY <1>1 DEF CL!List
<1>4. Endless(list')
  BY <1>1, <1>3 DEF IInv, TypeOK, ListInv, Endless
<1>. HIDE DEF m
<1>5. /\ Mounted' = Mounted \cup {m} /\ Apart(list')
      /\ \A n \in Mounted \ {list.tail} : list'.link[n] = list.link[n]
      /\ \A c \in Mounted : \A d : Passed(list, c, d) /\ m \notin d => Passed(list', c, d)
  BY <1>1, <1>2, <1>4, PushBehind DEF Mounted
<1>6. ASSUME NEW c, NEW d, d \subseteq Mounted, Visited(c, d) PROVE Visited(c, d)'
  <2>1. c \in Mounted /\ c # m /\ m \notin d /\ Passed(list, c, d)
    BY <1>1, <1>6 DEF Visited
  <2>. QED BY <1>5, <2>1 DEF Visited, m
<1>. QED BY <1>2, <1>3, <1>5, <1>6 DEF Ring, m

\* The third.
LEMMA PushedThird ==
  ASSUME IInv, IInv', Ring, Unlisted, NEW t \in Mounters, MountTail(t),
         Pushing = {req[t].mp}, Pushing' = {}
  PROVE  /\ Ring' /\ Mounted \subseteq Mounted'
         /\ \A n \in Mounted : list'.link[n] = list.link[n]
         /\ \A c, d : Visited(c, d) => Visited(c, d)'
<1>. DEFINE m == req[t].mp
<1>1. /\ list \in CL!List /\ pc[t] = "m_tail" /\ m \in MountPts /\ m # NULL
      /\ list' = [list EXCEPT !.tail = m]
  BY ListAssumptions DEF MountTail, IInv, TypeOK, ReqInv, MpOrNull
<1>2. list'.tail = m /\ list'.link = list.link
  BY <1>1 DEF CL!List
<1>3. Endless(list')
  BY <1>1, <1>2 DEF IInv, TypeOK, ReqInv, ListInv, Endless
<1>4. CASE list.tail = NULL
  <2>1. Mounted = {}
    BY <1>4 DEF Mounted, CL!Members
  <2>2. list'.link[m] = m
    BY <1>1, <1>2, <1>4 DEF Unlisted
  <2>3. Mounted' = {m}
    <3>1. /\ list'.link[list'.tail] = m /\ \A n \in {m} : list'.link[n] \in {m}
      BY <1>2, <2>2
    <3>2. m \in Mounted' /\ Mounted' \subseteq {m}
      BY <1>3, <3>1, MembersClosed DEF Mounted
    <3>. QED BY <3>2
  <2>4. Ring'
    BY <1>2, <2>3 DEF Ring, Apart, Mounted
  <2>. QED BY <2>1, <2>4 DEF Visited
<1>5. CASE list.tail # NULL
  <2>1. Endless(list) /\ list.tail \in Mounted /\ Apart(list) /\ list.link[list.tail] = m
    BY <1>1, <1>5 DEF IInv, TypeOK, ListInv, Endless, Ring, Unlisted
  <2>2. /\ Mounted' = Mounted /\ Apart(list') /\ m \in Mounted'
        /\ \A c \in Mounted \ {m} : \A d : Passed(list, c, d) => Passed(list', c, d)
    <3>1. list'.tail = list.link[list.tail] /\ list'.link = list.link
      BY <1>2, <2>1
    <3>2. list.tail \in CL!Members(list)
      BY <2>1 DEF Mounted
    <3>3. /\ CL!Members(list') = CL!Members(list) /\ Apart(list')
          /\ list'.tail \in CL!Members(list')
          /\ \A c \in CL!Members(list) \ {list'.tail} : \A d : Passed(list, c, d) => Passed(list', c, d)
      BY <1>3, <2>1, <3>1, <3>2, PushHead
    <3>. QED BY <1>2, <3>3 DEF Mounted
  <2>3. ASSUME NEW c, NEW d, Visited(c, d) PROVE Visited(c, d)'
    <3>1. c \in Mounted /\ c \in Mounted' /\ (c \in Pushing => d = {}) /\ Passed(list, c, d)
      BY <2>2, <2>3 DEF Visited
    <3>2. CASE c = m
      <4>1. d = {} /\ Passed(list', c, {})
        BY <1>3, <3>1, <3>2, PassedAll DEF Mounted
      <4>. QED BY <3>1, <4>1 DEF Visited
    <3>3. CASE c # m
      BY <2>2, <3>1, <3>3 DEF Visited
    <3>. QED BY <3>2, <3>3
  <2>. QED BY <1>2, <2>2, <2>3 DEF Ring
<1>. QED BY <1>4, <1>5

\* A push, write by write, adds its node to the members, behind the others.
LEMMA Pushed ==
  ASSUME IInv, IInv', MutexInv, MutexInv', Ring, Unlisted, NEW t \in Mounters,
         MountPush(t) \/ MountLink(t) \/ MountTail(t)
  PROVE  /\ Ring' /\ Mounted \subseteq Mounted'
         /\ \A n \in Mounted \ {list.tail} : list'.link[n] = list.link[n]
         /\ \A c, d : d \subseteq Mounted /\ Visited(c, d) => Visited(c, d)'
         /\ Unlisted'
<1>0. /\ UNCHANGED req /\ list \in CL!List /\ list.tail \in MpOrNull /\ req[t].mp \in MountPts
      /\ pc[t] \in {"m_push", "m_link", "m_tail"}
      /\ \A u \in Mounters \ {t} : pc'[u] = pc[u]
  BY DEF MountPush, MountLink, MountTail, IInv, TypeOK, ReqInv, CL!List, CL!Pointer, MpOrNull,
         Goto, Task
<1>1. pc[t] \in OnList /\ \A u \in Mounters \ {t} : pc'[u] \notin OnList
  BY <1>0, OnePush DEF OnList
<1>2. /\ Pushing = IF pc[t] = "m_tail" THEN {req[t].mp} ELSE {}
      /\ Pushing' = IF pc'[t] = "m_tail" THEN {req[t].mp} ELSE {}
  <2>1. {u \in Mounters : pc'[u] = "m_tail"} = IF pc'[t] = "m_tail" THEN {t} ELSE {}
    BY <1>1 DEF OnList
  <2>. QED BY <1>0, <1>1, <2>1, OnePush DEF Pushing
<1>3. ASSUME LET m == req[t].mp
             IN  /\ pc'[t] # "m_driver" /\ pc'[t] # "m_push"
                 /\ pc'[t] = "m_link" => /\ m \notin Mounted' /\ list'.tail # NULL
                                         /\ list'.link[m] = list'.link[list'.tail]
                 /\ pc'[t] = "m_tail" => list'.link[IF list'.tail = NULL THEN m ELSE list'.tail] = m
      PROVE  Unlisted'
  BY <1>0, <1>1, <1>3 DEF Unlisted, OnList
<1>4. CASE MountPush(t)
  <2>1. /\ Ring' /\ Mounted' = Mounted
        /\ \A n \in Mounted : list'.link[n] = list.link[n]
        /\ \A c, d : Visited(c, d) => Visited(c, d)'
    BY <1>2, <1>4, PushedFirst DEF MountPush
  <2>2. pc[t] = "m_push" /\ req[t].mp \notin Mounted
    BY <1>4 DEF MountPush, Unlisted
  <2>3. CASE list.tail = NULL
    <3>1. pc'[t] = "m_tail" /\ list'.tail = NULL /\ list'.link[req[t].mp] = req[t].mp
      BY <1>0, <1>4, <2>3 DEF MountPush, Goto, IInv, TypeOK, Task, CL!List
    <3>2. Unlisted'
      BY <1>3, <3>1
    <3>. QED BY <2>1, <3>2
  <2>4. CASE list.tail # NULL
    <3>1. list.tail \in Mounted
      BY <2>4 DEF Ring
    <3>2. /\ pc'[t] = "m_link" /\ list'.tail = list.tail
          /\ list'.link[req[t].mp] = list.link[list.tail]
      BY <1>0, <1>4, <2>4 DEF MountPush, Goto, IInv, TypeOK, Task, CL!List
    <3>3. list'.link[list'.tail] = list.link[list.tail]
      BY <2>1, <3>1, <3>2
    <3>4. Unlisted'
      BY <1>3, <2>1, <2>2, <2>4, <3>2, <3>3
    <3>. QED BY <2>1, <3>4
  <2>. QED BY <2>3, <2>4
<1>5. CASE MountLink(t)
  <2>1. pc'[t] = "m_tail" /\ pc[t] = "m_link" /\ list' = [list EXCEPT !.link[list.tail] = req[t].mp]
    BY <1>5 DEF MountLink, Goto, IInv, TypeOK, Task
  <2>2. /\ Ring' /\ Mounted' = Mounted \cup {req[t].mp}
        /\ \A n \in Mounted \ {list.tail} : list'.link[n] = list.link[n]
        /\ \A c, d : d \subseteq Mounted /\ Visited(c, d) => Visited(c, d)'
    BY <1>2, <1>5, <2>1, PushedSecond
  <2>3. list.tail # NULL /\ list.tail \in MountPts
    BY <1>0, <2>1 DEF Unlisted, MpOrNull
  <2>4. list'.tail = list.tail /\ list'.link[list.tail] = req[t].mp
    BY <1>0, <2>1, <2>3 DEF CL!List
  <2>5. Unlisted'
    BY <1>3, <2>1, <2>3, <2>4
  <2>. QED BY <2>2, <2>5
<1>6. CASE MountTail(t)
  <2>1. pc'[t] = "idle" /\ pc[t] = "m_tail"
    BY <1>6 DEF MountTail, Goto, IInv, TypeOK, Task
  <2>2. /\ Ring' /\ Mounted \subseteq Mounted'
        /\ \A n \in Mounted : list'.link[n] = list.link[n]
        /\ \A c, d : Visited(c, d) => Visited(c, d)'
    BY <1>2, <1>6, <2>1, PushedThird
  <2>3. Unlisted'
    BY <1>3, <2>1
  <2>. QED BY <2>2, <2>3
<1>. QED BY <1>4, <1>5, <1>6

\* The call is between vfs_iterate_mounts and vfs_opendir of the mount that it gave.
Amid(t) == \/ pc[t] \in {"it_hold", "it_close"}
           \/ pc[t] \in FindPc \cup {"find_give", "opendir"} /\ loc[t].op = "iterate"

IterInv(t) ==
  /\ due[t] \subseteq Mounted
  /\ pc[t] = "it_end" => due[t] = {}
  /\ dir[t].kind = "iter" => Visited(dir[t].mp, due[t])
  /\ pc[t] \in IterPc => dir[t].kind # "open"
  /\ pc[t] = "it_first" => loc[t].node \in Mounted
  /\ pc[t] \in {"it_tail", "it_wrap"} =>
       /\ dir[t].kind = "iter" /\ loc[t].mp2 \in Mounted
       /\ due[t] = {} \/ loc[t].mp2 = list.link[dir[t].mp]
  /\ pc[t] = "it_wrap" => /\ loc[t].node \in Mounted
                          /\ loc[t].node = dir[t].mp => due[t] = {}
  /\ Amid(t) => Visited(loc[t].mp2, due[t] \ {loc[t].mp2})
  /\ pc[t] \in FindPc /\ loc[t].op = "iterate" => loc[t].name = MountPath[loc[t].mp2]
  /\ pc[t] \in {"find_give", "opendir"} /\ loc[t].op = "iterate" => loc[t].mp = loc[t].mp2

\* Every mounted volume is passed, when nothing is due.
LEMMA VisitAll ==
  ASSUME IInv, NEW c \in Mounted
  PROVE  Visited(c, {})
<1>1. Endless(list)
  BY DEF IInv, TypeOK, ListInv, Endless, Mounted, CL!Members
<1>. QED BY <1>1, PassedAll DEF Visited, Mounted

\* At the last volume nothing is due.
LEMMA VisitEnd ==
  ASSUME IInv, NEW d, d \subseteq Mounted, Visited(list.tail, d)
  PROVE  d = {}
<1>1. Endless(list)
  BY DEF IInv, TypeOK, ListInv, Endless, Visited, Mounted, CL!Members
<1>. QED BY <1>1, PassedEnd DEF Visited, Mounted

\* From a volume that is not the last the iteration goes on to the next.
LEMMA VisitNext ==
  ASSUME IInv, Ring, Unlisted, NEW c, NEW d, Visited(c, d), c # list.tail
  PROVE  Visited(list.link[c], d \ {list.link[c]})
<1>. DEFINE n == list.link[c]
<1>1. c \in Mounted /\ list.tail # NULL
  BY DEF Visited, Mounted, CL!Members
<1>2. n \in Mounted /\ list.tail \in Mounted /\ list.link[list.tail] # n
  BY <1>1, Mountings DEF Ring, Apart, Mounted
<1>3. n \notin Pushing
  BY <1>1, <1>2 DEF Pushing, Unlisted
<1>4. PICK A \in SUBSET Mounted :
        /\ list.link[list.tail] \in A /\ \A k \in A \ {c} : list.link[k] \in A
        /\ list.tail \in A => c = list.tail
        /\ A \cap d = {}
  BY DEF Visited, Passed, Mounted
<1>. DEFINE B == A \cup {n}
<1>5. /\ B \in SUBSET Mounted /\ list.link[list.tail] \in B
      /\ \A k \in B \ {n} : list.link[k] \in B
      /\ list.tail \in B => n = list.tail
      /\ B \cap (d \ {n}) = {}
  BY <1>2, <1>4
<1>. HIDE DEF n, B
<1>6. Passed(list, n, d \ {n})
  BY <1>5 DEF Passed, Mounted
<1>. QED BY <1>2, <1>3, <1>6 DEF Visited, n

\* The first volume is given to who has none, unless a push is under way.
LEMMA VisitFirst ==
  ASSUME IInv, Ring, NEW d, list.tail # NULL, Pushing = {}
  PROVE  Visited(list.link[list.tail], d \ {list.link[list.tail]})
<1>. DEFINE n == list.link[list.tail]
<1>1. n \in Mounted
  BY Mountings
<1>2. /\ {n} \in SUBSET Mounted /\ n \in {n} /\ \A k \in {n} \ {n} : list.link[k] \in {n}
      /\ list.tail \in {n} => n = list.tail
      /\ {n} \cap (d \ {n}) = {}
  BY <1>1
<1>. QED BY <1>1, <1>2 DEF Visited, Passed, Mounted

\* The search for the path of a volume finds that volume.
LEMMA OwnPath ==
  ASSUME PathsApart, IInv, \A u \in Users : SearchInv(u), NEW t \in Users, NEW m \in Mounted,
         pc[t] = "find_end", loc[t].name = MountPath[m]
  PROVE  loc[t].cand = m
<1>1. LongestFound
  BY SearchEnds
<1>2. m \in MountPts /\ list.tail # NULL
  <2>1. list.tail # NULL
    BY DEF Mounted, CL!Members
  <2>. QED BY <2>1, Mountings
<1>3. m \in Mounted \cap Prefixes[loc[t].name]
  BY <1>2 DEF PathsApart
<1>4. /\ loc[t].cand \in Prefixes[MountPath[m]]
      /\ PathLen[m] <= PathLen[loc[t].cand]
  BY <1>1, <1>3 DEF LongestFound
<1>5. /\ Prefixes[MountPath[m]] \subseteq MountPts
      /\ \A n \in MountPts : PathLen[n] \in Nat
  BY <1>2, VfsAssumption
<1>6. ~(PathLen[loc[t].cand] < PathLen[m])
  BY <1>2, <1>4, <1>5
<1>. QED BY <1>2, <1>4, <1>6 DEF PathsApart

\* What an iteration has behind it depends on the list and on what is being pushed.
LEMMA VisitedKept ==
  ASSUME UNCHANGED <<list, Pushing>>
  PROVE  UNCHANGED Mounted /\ \A c, d : Visited(c, d)' <=> Visited(c, d)
<1>1. UNCHANGED Mounted
  BY DEF Mounted
<1>2. \A c, d : Passed(list, c, d)' <=> Passed(list, c, d)
  BY DEF Passed
<1>. QED BY <1>1, <1>2 DEF Visited

\* No step but those of a push changes what is being pushed.
LEMMA PushingKept ==
  ASSUME UNCHANGED req, \A u \in Mounters : pc'[u] = "m_tail" <=> pc[u] = "m_tail"
  PROVE  UNCHANGED Pushing
<1>1. {u \in Mounters : pc'[u] = "m_tail"} = {u \in Mounters : pc[u] = "m_tail"}
  OBVIOUS
<1>. QED BY <1>1 DEF Pushing

\* An iteration is where it was when neither its task nor the list has moved.
LEMMA IterKept ==
  ASSUME NEW t \in Users, IterInv(t), UNCHANGED <<list, due[t], dir[t], loc[t], pc[t]>>,
         UNCHANGED Pushing
  PROVE  IterInv(t)'
<1>1. UNCHANGED Mounted /\ \A c, d : Visited(c, d)' <=> Visited(c, d)
  BY VisitedKept
<1>. QED BY <1>1 DEF IterInv, Amid

\* What is no step of an iteration leaves it where it is.
LEMMA IterQuiet ==
  ASSUME NEW t \in Users, IterInv(t), UNCHANGED <<list, due[t], dir[t]>>,
         UNCHANGED Pushing, ~Amid(t)', pc'[t] \notin IterPc
  PROVE  IterInv(t)'
<1>1. UNCHANGED Mounted /\ \A c, d : Visited(c, d)' <=> Visited(c, d)
  BY VisitedKept
<1>. QED BY <1>1 DEF IterInv, Amid, IterPc

\* A user's step leaves the iterations of the others alone.
LEMMA DueFrame ==
  ASSUME IInv, NEW t \in Users, UserStart(t) \/ UserStep(t)
  PROVE  \A u \in Users \ {t} : due'[u] = due[u]
<1>. USE DEF IInv, TypeOK, tables
<1>1. CASE UserStart(t)
  BY <1>1 DEF UserStart, Call, vfs_open, vfs_opendir, vfs_path_op, vfs_rename,
              vfs_iterate_mount_dirs, vfs_close, vfs_closedir
<1>2. CASE FindTake(t) \/ FindFirst(t) \/ FindLoop(t) \/ FindEnd(t) \/ FindGive(t)
  BY <1>2 DEF FindTake, FindFirst, FindLoop, FindEnd, FindGive
<1>3. CASE \/ DriverCall(t) \/ Drop(t) \/ Drop2(t) \/ OpenTake(t) \/ OpenScan(t)
           \/ OpenClaim(t) \/ OpenGive(t) \/ OpenDriver(t) \/ CloseDriver(t)
  BY <1>3 DEF DriverCall, Drop, Drop2, OpenTake, OpenScan, OpenClaim, OpenGive,
              OpenDriver, CloseDriver
<1>4. CASE OpenDir(t) \/ IterHold(t) \/ IterClose(t) \/ IterEnd(t)
  BY <1>4 DEF OpenDir, IterHold, IterClose, IterEnd
<1>5. CASE IterReads(t)
  BY <1>5, Reading DEF IInv
<1>. QED BY <1>1, <1>2, <1>3, <1>4, <1>5 DEF UserStep, IterReads

\* An iteration begins with every volume due but one still being pushed, or goes on.
LEMMA IterStart ==
  ASSUME IInv, NEW t \in Users, IterInv(t), UserStart(t), UNCHANGED Pushing
  PROVE  IterInv(t)'
<1>. USE DEF tables, mutexes, Goto, Set, Task
<1>0. /\ UNCHANGED list /\ pc \in [Task -> UserPc \cup MounterPc] /\ loc \in [Users -> CallRecord]
      /\ dir \in [Users -> [mp : MpOrNull, kind : {"closed", "open", "iter"}]]
      /\ due \in [Users -> SUBSET MountPts]
  BY UserFrame DEF IInv, TypeOK
<1>1. UNCHANGED Mounted /\ \A c, d : Visited(c, d)' <=> Visited(c, d)
  BY <1>0, VisitedKept
<1>2. ASSUME NEW o \in Calls \ {"iterate"}, NEW n, Call(t, o, n) PROVE IterInv(t)'
  <2>1. pc'[t] = "find_take" /\ loc'[t].op = o
    BY <1>0, <1>2 DEF Call, NoCall
  <2>2. ~Amid(t)' /\ pc'[t] \notin IterPc
    BY <2>1 DEF Amid, IterPc
  <2>3. UNCHANGED <<list, due[t], dir[t]>>
    BY <1>2 DEF Call
  <2>. QED BY <2>2, <2>3, IterQuiet
<1>3. CASE vfs_iterate_mount_dirs(t)
  <2>1. pc'[t] = "it_next" /\ ~Amid(t)'
    BY <1>0, <1>3 DEF vfs_iterate_mount_dirs, Amid, FindPc
  <2>2. CASE dir[t].kind = "closed"
    <3>1. dir'[t].kind = "closed" /\ due'[t] = Mounted \ Pushing
      BY <1>0, <1>3, <2>2 DEF vfs_iterate_mount_dirs
    <3>. QED BY <1>1, <2>1, <3>1 DEF IterInv, Amid, FindPc
  <2>3. CASE dir[t].kind # "closed"
    <3>1. UNCHANGED <<dir, due>> /\ dir[t].kind = "iter"
      BY <1>3, <2>3 DEF vfs_iterate_mount_dirs
    <3>. QED BY <1>1, <2>1, <3>1 DEF IterInv, Amid, FindPc
  <2>. QED BY <2>2, <2>3
<1>4. ASSUME NEW f \in Fds, vfs_close(t, f) PROVE IterInv(t)'
  BY <1>0, <1>4, IterQuiet DEF vfs_close, Amid, IterPc, FindPc
<1>5. CASE vfs_closedir(t)
  <2>1. /\ pc'[t] = "idle" /\ dir'[t].kind = "closed" /\ UNCHANGED due
    BY <1>0, <1>5 DEF vfs_closedir
  <2>. QED BY <1>1, <2>1 DEF IterInv, Amid, FindPc, IterPc
<1>. QED BY <1>2, <1>3, <1>4, <1>5 DEF UserStart, vfs_open, vfs_opendir, vfs_path_op, vfs_rename,
                                       Calls

\* The search for the path of the next volume finds that volume.
LEMMA IterFind ==
  ASSUME PathsApart, IInv, \A u \in Users : SearchInv(u), NEW t \in Users, IterInv(t),
         FindTake(t) \/ FindFirst(t) \/ FindLoop(t) \/ FindEnd(t) \/ FindGive(t),
         UNCHANGED Pushing
  PROVE  IterInv(t)'
<1>. USE DEF tables, mutexes, Goto, Set, Task
<1>0. /\ UNCHANGED <<list, due, dir>>
      /\ pc \in [Task -> UserPc \cup MounterPc] /\ loc \in [Users -> CallRecord]
      /\ loc[t] \in CallRecord
  BY DEF FindTake, FindFirst, FindLoop, FindEnd, FindGive, IInv, TypeOK
<1>1. UNCHANGED Mounted /\ \A c, d : Visited(c, d)' <=> Visited(c, d)
  BY <1>0, VisitedKept
<1>2. ASSUME NEW r, Return(t, r) PROVE IterInv(t)'
  <2>1. pc'[t] \in {"drop", "drop2", "idle"}
    BY <1>0, <1>2 DEF Return, Unwind
  <2>2. ~Amid(t)' /\ pc'[t] \notin IterPc
    BY <2>1 DEF Amid, FindPc, IterPc
  <2>. QED BY <1>0, <2>2, IterQuiet
<1>3. ASSUME pc[t] \in FindPc, pc'[t] \in FindPc, loc'[t].op = loc[t].op,
             loc'[t].mp2 = loc[t].mp2, loc'[t].name = loc[t].name
      PROVE  IterInv(t)'
  <2>1. Amid(t)' <=> Amid(t)
    BY <1>3 DEF Amid, FindPc
  <2>2. pc'[t] \notin IterPc /\ pc'[t] \notin {"find_give", "opendir"}
    BY <1>3 DEF FindPc, IterPc
  <2>. QED BY <1>0, <1>1, <1>3, <2>1, <2>2 DEF IterInv, IterPc
<1>4. CASE FindTake(t)
  BY <1>0, <1>3, <1>4 DEF FindTake, FindPc
<1>5. CASE FindFirst(t)
  <2>1. CASE list.tail = NULL
    BY <1>2, <1>5, <2>1 DEF FindFirst
  <2>2. CASE list.tail # NULL
    <3>1. /\ pc[t] = "find_first" /\ pc'[t] = "find_loop"
          /\ loc'[t] = [loc[t] EXCEPT !.node = list.tail]
      BY <1>0, <1>5, <2>2 DEF FindFirst
    <3>2. loc'[t].op = loc[t].op /\ loc'[t].mp2 = loc[t].mp2 /\ loc'[t].name = loc[t].name
      BY <1>0, <3>1 DEF CallRecord
    <3>. QED BY <1>3, <3>1, <3>2 DEF FindPc
  <2>. QED BY <2>1, <2>2
<1>6. CASE FindLoop(t)
  <2>1. /\ pc[t] = "find_loop" /\ pc'[t] \in {"find_loop", "find_end"}
        /\ \E c, k : loc'[t] = [loc[t] EXCEPT !.node = list.link[loc[t].node], !.cand = c,
                                             !.longest = k]
    BY <1>0, <1>6 DEF FindLoop
  <2>2. loc'[t].op = loc[t].op /\ loc'[t].mp2 = loc[t].mp2 /\ loc'[t].name = loc[t].name
    BY <1>0, <2>1 DEF CallRecord
  <2>. QED BY <1>3, <2>1, <2>2 DEF FindPc
<1>7. CASE FindEnd(t)
  <2>. DEFINE r == [loc[t] EXCEPT !.node = NULL, !.cand = NULL, !.longest = 0]
  <2>1. CASE loc[t].cand = NULL
    BY <1>2, <1>7, <2>1 DEF FindEnd
  <2>2. CASE loc[t].cand # NULL
    <3>1. /\ pc[t] = "find_end" /\ pc'[t] = "find_give"
          /\ loc'[t] = IF r.op = "rename" /\ r.mp # NULL
                       THEN [r EXCEPT !.mp2 = loc[t].cand] ELSE [r EXCEPT !.mp = loc[t].cand]
      BY <1>0, <1>7, <2>2 DEF FindEnd
    <3>2. r \in CallRecord /\ r.op = loc[t].op /\ r.mp2 = loc[t].mp2
      BY <1>0, CallRecords DEF CallRecord
    <3>. HIDE DEF r
    <3>3. loc'[t].op = loc[t].op
      BY <3>1, <3>2 DEF CallRecord
    <3>4. CASE loc[t].op = "iterate"
      <4>1. loc'[t].mp = loc[t].cand /\ loc'[t].mp2 = loc[t].mp2
        BY <3>1, <3>2, <3>4 DEF CallRecord
      <4>2. Amid(t) /\ loc[t].name = MountPath[loc[t].mp2]
        BY <3>1, <3>4 DEF Amid, FindPc, IterInv
      <4>3. Visited(loc[t].mp2, due[t] \ {loc[t].mp2})
        BY <4>2 DEF IterInv
      <4>4. loc[t].cand = loc[t].mp2
        BY <3>1, <4>2, <4>3, OwnPath DEF Visited
      <4>. QED BY <1>0, <1>1, <3>1, <3>3, <4>1, <4>3, <4>4 DEF IterInv, Amid, FindPc, IterPc
    <3>5. CASE loc[t].op # "iterate"
      BY <1>0, <3>1, <3>3, <3>5, IterQuiet DEF Amid, IterPc
    <3>. QED BY <3>4, <3>5
  <2>. QED BY <2>1, <2>2
<1>8. CASE FindGive(t)
  <2>1. CASE Return(t, loc[t])
    BY <1>2, <2>1
  <2>2. CASE pc'[t] \in {"open_take", "driver"}
    BY <1>0, <2>2, IterQuiet DEF Amid, FindPc, IterPc
  <2>3. CASE pc[t] = "find_give" /\ pc'[t] = "opendir" /\ UNCHANGED loc
    <3>1. Amid(t)' <=> Amid(t)
      BY <2>3 DEF Amid, FindPc
    <3>. QED BY <1>0, <1>1, <2>3, <3>1 DEF IterInv, IterPc, FindPc
  <2>4. CASE /\ loc[t].op = "rename" /\ pc'[t] = "find_take"
             /\ \E n \in Names : loc'[t] = [loc[t] EXCEPT !.name = n]
    <3>1. loc'[t].op = "rename"
      BY <1>0, <2>4 DEF CallRecord
    <3>. QED BY <1>0, <2>4, <3>1, IterQuiet DEF Amid, IterPc
  <2>. QED BY <1>0, <1>8, <2>1, <2>2, <2>3, <2>4 DEF FindGive
<1>. QED BY <1>4, <1>5, <1>6, <1>7, <1>8

\* The other calls.
LEMMA IterRest ==
  ASSUME IInv, NEW t \in Users, IterInv(t),
         \/ DriverCall(t) \/ Drop(t) \/ Drop2(t)
         \/ OpenTake(t) \/ OpenScan(t) \/ OpenClaim(t) \/ OpenGive(t) \/ OpenDriver(t)
         \/ CloseDriver(t),
         UNCHANGED Pushing
  PROVE  IterInv(t)'
<1>1. UNCHANGED <<list, due, dir>> /\ pc \in [Task -> UserPc \cup MounterPc]
  BY DEF DriverCall, Drop, Drop2, OpenTake, OpenScan, OpenClaim, OpenGive, OpenDriver,
         CloseDriver, tables, IInv, TypeOK
<1>2. pc'[t] \in {"drop", "drop2", "idle", "open_scan", "open_claim", "open_give", "open_driver"}
  BY <1>1 DEF DriverCall, Drop, Drop2, OpenTake, OpenScan, OpenClaim, OpenGive, OpenDriver,
         CloseDriver, Goto, Return, Unwind, Task
<1>. QED BY <1>1, <1>2, IterQuiet DEF Amid, FindPc, IterPc

\* The steps of the iteration itself.
LEMMA IterSteps ==
  ASSUME IInv, NEW t \in Users, IterInv(t), UNCHANGED Pushing,
         OpenDir(t) \/ IterHold(t) \/ IterClose(t) \/ IterEnd(t)
  PROVE  IterInv(t)'
<1>. USE DEF tables, mutexes, Goto, Set, Task
<1>0. /\ UNCHANGED list /\ pc \in [Task -> UserPc \cup MounterPc] /\ loc \in [Users -> CallRecord]
      /\ dir \in [Users -> [mp : MpOrNull, kind : {"closed", "open", "iter"}]]
      /\ due \in [Users -> SUBSET MountPts] /\ loc[t] \in CallRecord
  BY DEF OpenDir, IterHold, IterClose, IterEnd, IInv, TypeOK
<1>1. UNCHANGED Mounted /\ \A c, d : Visited(c, d)' <=> Visited(c, d)
  BY <1>0, VisitedKept
<1>2. ASSUME NEW r, Return(t, r) PROVE pc'[t] \in {"drop", "drop2", "idle"} /\ ~Amid(t)'
  <2>1. pc'[t] \in {"drop", "drop2", "idle"}
    BY <1>0, <1>2 DEF Return, Unwind
  <2>. QED BY <2>1 DEF Amid, FindPc
<1>3. CASE OpenDir(t)
  <2>. DEFINE m == loc[t].mp
  <2>1. pc[t] = "opendir" /\ loc[t].op \in {"opendir", "iterate"}
    BY <1>3 DEF OpenDir, IInv, CallInv
  <2>2. pc'[t] \in {"drop", "drop2", "idle"} /\ ~Amid(t)'
    BY <1>2, <1>3 DEF OpenDir
  <2>3. CASE UNCHANGED <<dir, due>>
    BY <1>0, <2>2, <2>3, IterQuiet DEF IterPc
  <2>4. CASE /\ dir'[t].kind = "closed" /\ UNCHANGED due
    BY <1>1, <2>2, <2>4 DEF IterInv, IterPc, FindPc
  <2>5. CASE /\ dir'[t] = [mp |-> m, kind |-> IF loc[t].op = "iterate" THEN "iter" ELSE "open"]
             /\ due'[t] = due[t] \ {m}
    <3>1. CASE loc[t].op = "iterate"
      <4>1. Visited(m, due[t] \ {m})
        BY <2>1, <3>1 DEF IterInv, Amid, FindPc
      <4>. QED BY <1>1, <2>2, <2>5, <3>1, <4>1 DEF IterInv, IterPc, FindPc
    <3>2. CASE loc[t].op # "iterate"
      BY <1>1, <2>2, <2>5, <3>2 DEF IterInv, IterPc, FindPc
    <3>. QED BY <3>1, <3>2
  <2>. QED BY <1>0, <1>3, <2>3, <2>4, <2>5 DEF OpenDir
<1>4. CASE IterHold(t)
  <2>1. pc[t] = "it_hold" /\ pc'[t] = "it_close" /\ UNCHANGED <<due, dir, loc>>
    BY <1>0, <1>4 DEF IterHold
  <2>. QED BY <1>1, <2>1 DEF IterInv, Amid, FindPc, IterPc
<1>5. CASE IterClose(t)
  <2>1. /\ pc[t] = "it_close" /\ pc'[t] = "find_take" /\ UNCHANGED due
        /\ dir'[t].kind = "closed"
    BY <1>0, <1>5 DEF IterClose, IterCloseDir
  <2>2. loc'[t].mp2 = loc[t].mp2 /\ loc'[t].name = MountPath[loc[t].mp2]
    BY <1>0, <1>5 DEF IterClose, CallRecord
  <2>. QED BY <1>1, <2>1, <2>2 DEF IterInv, Amid, FindPc, IterPc
<1>6. CASE IterEnd(t)
  <2>1. dir'[t].kind = "closed" /\ due'[t] = {}
    BY <1>0, <1>6 DEF IterEnd, IterCloseDir
  <2>2. pc'[t] \in {"drop", "drop2", "idle"} /\ ~Amid(t)'
    BY <1>2, <1>6 DEF IterEnd
  <2>. QED BY <2>1, <2>2 DEF IterInv, IterPc, FindPc
<1>. QED BY <1>3, <1>4, <1>5, <1>6

\* The reads of the list.
LEMMA IterReading ==
  ASSUME IInv, Ring, Unlisted, NEW t \in Users, IterInv(t), IterReads(t), UNCHANGED Pushing
  PROVE  IterInv(t)'
<1>. DEFINE cur == dir[t].mp
<1>0. /\ UNCHANGED list /\ UNCHANGED dir /\ pc[t] \in ReadPc /\ pc'[t] \in IterPc
      /\ loc[t] \in CallRecord /\ loc'[t].op = "iterate" /\ list \in CL!List
      /\ due[t] \subseteq Mounted /\ dir[t].kind # "open" /\ t \in Task
      /\ dir[t].kind \in {"closed", "open", "iter"}
      /\ loc \in [Users -> CallRecord] /\ pc \in [Task -> UserPc \cup MounterPc]
      /\ due \in [Users -> SUBSET MountPts]
  BY Reading DEF IInv, TypeOK, CallInv, IterInv, ReadPc, IterPc, Task
<1>1. UNCHANGED Mounted /\ \A c, d : Visited(c, d)' <=> Visited(c, d)
  BY <1>0, VisitedKept
<1>2. /\ Mounted \subseteq MountPts /\ NULL \notin Mounted /\ (Mounted # {} => list.tail # NULL)
      /\ list.tail # NULL => list.tail \in Mounted
      /\ \A n \in Mounted : list.link[n] \in Mounted
      /\ \A p, q \in Mounted : list.link[p] = list.link[q] => p = q
  <2>1. CASE list.tail = NULL
    BY <2>1 DEF Mounted, CL!Members
  <2>2. CASE list.tail # NULL
    BY <2>2, Mountings, ListAssumptions DEF Ring, Apart, Mounted
  <2>. QED BY <2>1, <2>2
<1>3. dir[t].kind = "iter" => Visited(cur, due[t]) /\ cur \in Mounted
  BY DEF IterInv, Visited
<1>4. ASSUME due'[t] = {}, pc'[t] = "it_end" PROVE IterInv(t)'
  <2>1. dir[t].kind = "iter" => Visited(cur, {})
    BY <1>3, VisitAll
  <2>. QED BY <1>0, <1>1, <1>4, <2>1 DEF IterInv, Amid, FindPc
<1>5. ASSUME due'[t] \subseteq Mounted, dir[t].kind = "iter" => Visited(cur, due'[t]),
             pc'[t] = "it_hold", Visited(loc'[t].mp2, due'[t] \ {loc'[t].mp2})
      PROVE  IterInv(t)'
  BY <1>0, <1>1, <1>5 DEF IterInv, Amid, FindPc
<1>6. CASE IterNext(t)
  <2>1. pc[t] = "it_next" /\ UNCHANGED due
    BY <1>6 DEF IterNext, tables
  <2>2. cur = NULL <=> dir[t].kind # "iter"
    BY <1>0, <2>1 DEF IInv, DirInv, IterPc
  <2>3. CASE cur = NULL /\ list.tail = NULL
    <3>1. pc'[t] = "it_end"
      BY <1>0, <1>6, <2>3 DEF IterNext, Goto
    <3>2. due'[t] = {}
      BY <1>0, <1>2, <2>1, <2>3
    <3>. QED BY <1>4, <3>1, <3>2
  <2>4. CASE cur = NULL /\ list.tail # NULL
    <3>1. pc'[t] = "it_first" /\ loc'[t].node = list.tail
      BY <1>0, <1>6, <2>4 DEF IterNext, Goto, Set, CallRecord
    <3>. QED BY <1>0, <1>1, <1>2, <1>3, <2>1, <2>4, <3>1 DEF IterInv, Amid, FindPc
  <2>5. CASE cur # NULL
    <3>1. pc'[t] = "it_tail" /\ loc'[t].mp2 = list.link[cur]
      BY <1>0, <1>6, <2>5 DEF IterNext, Goto, Set, CallRecord
    <3>2. loc'[t].mp2 \in Mounted /\ dir[t].kind = "iter"
      BY <1>2, <1>3, <2>2, <2>5, <3>1
    <3>. QED BY <1>0, <1>1, <1>3, <2>1, <3>1, <3>2 DEF IterInv, Amid, FindPc
  <2>. QED BY <2>3, <2>4, <2>5
<1>7. CASE IterFirst(t)
  <2>1. /\ pc[t] = "it_first" /\ pc'[t] = "it_hold" /\ loc'[t].mp2 = list.link[loc[t].node]
        /\ due'[t] = IF list.tail = loc[t].node /\ Pushing = {} THEN due[t] ELSE {}
    BY <1>0, <1>7 DEF IterFirst, Goto, Set, CallRecord
  <2>2. loc[t].node \in Mounted /\ loc'[t].mp2 \in Mounted
    BY <1>2, <2>1 DEF IterInv
  <2>3. CASE list.tail = loc[t].node /\ Pushing = {}
    <3>1. due'[t] = due[t] /\ list.tail # NULL
      BY <1>2, <2>1, <2>2, <2>3
    <3>2. Visited(loc'[t].mp2, due'[t] \ {loc'[t].mp2})
      BY <2>1, <2>3, <3>1, VisitFirst
    <3>. QED BY <1>0, <1>3, <1>5, <2>1, <3>1, <3>2
  <2>4. CASE ~(list.tail = loc[t].node /\ Pushing = {})
    <3>1. due'[t] = {} /\ {} \ {loc'[t].mp2} = {}
      BY <2>1, <2>4
    <3>2. Visited(loc'[t].mp2, {})
      BY <2>2, VisitAll
    <3>3. dir[t].kind = "iter" => Visited(cur, {})
      BY <1>3, VisitAll
    <3>. QED BY <1>5, <2>1, <3>1, <3>2, <3>3
  <2>. QED BY <2>3, <2>4
<1>8. CASE IterTail(t)
  <2>1. /\ pc[t] = "it_tail" /\ pc'[t] = "it_wrap" /\ UNCHANGED due
        /\ loc'[t].node = list.tail /\ loc'[t].mp2 = loc[t].mp2
    BY <1>0, <1>8 DEF IterTail, Goto, Set, tables, CallRecord
  <2>2. /\ dir[t].kind = "iter" /\ loc[t].mp2 \in Mounted
        /\ due[t] = {} \/ loc[t].mp2 = list.link[cur]
    BY <2>1 DEF IterInv
  <2>3. list.tail = cur => due[t] = {}
    BY <1>0, <1>3, <2>2, VisitEnd
  <2>4. list.tail \in Mounted
    BY <1>2, <2>2
  <2>. QED BY <1>0, <1>1, <1>3, <2>1, <2>2, <2>3, <2>4 DEF IterInv, Amid, FindPc
<1>9. CASE IterWrap(t)
  <2>. DEFINE past == loc[t].node # NULL /\ loc[t].mp2 = list.link[loc[t].node]
  <2>1. /\ pc[t] = "it_wrap" /\ UNCHANGED due
        /\ loc'[t].mp2 = IF past THEN NULL ELSE loc[t].mp2
        /\ pc'[t] = IF loc'[t].mp2 = NULL THEN "it_end" ELSE "it_hold"
    BY <1>0, <1>9 DEF IterWrap, Goto, Set, tables, CallRecord
  <2>2. /\ dir[t].kind = "iter" /\ loc[t].mp2 \in Mounted
        /\ due[t] = {} \/ loc[t].mp2 = list.link[cur]
        /\ loc[t].node \in Mounted /\ (loc[t].node = cur => due[t] = {})
    BY <2>1 DEF IterInv
  <2>3. CASE past
    <3>1. due[t] = {}
      BY <1>2, <1>3, <2>2, <2>3
    <3>. QED BY <1>4, <2>1, <2>3, <3>1
  <2>4. CASE ~past
    <3>1. pc'[t] = "it_hold" /\ loc'[t].mp2 = loc[t].mp2
      BY <1>2, <2>1, <2>2, <2>4
    <3>2. Visited(loc[t].mp2, due[t] \ {loc[t].mp2})
      <4>1. CASE due[t] = {}
        <5>1. {} \ {loc[t].mp2} = {} /\ Visited(loc[t].mp2, {})
          BY <2>2, VisitAll
        <5>. QED BY <4>1, <5>1
      <4>2. CASE due[t] # {}
        <5>1. loc[t].mp2 = list.link[cur] /\ cur # list.tail
          BY <1>0, <1>3, <2>2, <4>2, VisitEnd
        <5>. QED BY <1>3, <2>2, <5>1, VisitNext
      <4>. QED BY <4>1, <4>2
    <3>. QED BY <1>0, <1>3, <1>5, <2>1, <3>1, <3>2
  <2>. QED BY <2>3, <2>4
<1>. QED BY <1>6, <1>7, <1>8, <1>9 DEF IterReads

IterAll == Ring /\ Unlisted /\ \A t \in Users : IterInv(t)

\* The invariant after a user's step, and after a mounter's.
LEMMA IterUsers ==
  ASSUME PathsApart, IInv, \A u \in Users : SearchInv(u), IterAll, NEW t \in Users,
         UserStart(t) \/ UserStep(t)
  PROVE  IterAll'
<1>1. /\ UNCHANGED <<list, req>>
      /\ \A u \in Task \ {t} : pc'[u] = pc[u]
      /\ \A u \in Users \ {t} : loc'[u] = loc[u] /\ dir'[u] = dir[u]
  BY UserFrame DEF IInv
<1>2. \A u \in Mounters : pc'[u] = pc[u]
  BY <1>1, ListAssumptions DEF Task
<1>3. UNCHANGED Pushing /\ UNCHANGED Mounted
  BY <1>1, <1>2, PushingKept, VisitedKept
<1>4. Ring' /\ Unlisted'
  BY <1>1, <1>2, <1>3 DEF IterAll, Ring, Apart, Mounted, Unlisted
<1>5. IterInv(t)'
  BY <1>3, IterStart, IterFind, IterRest, IterSteps, IterReading DEF UserStep, IterReads, IterAll
<1>6. ASSUME NEW u \in Users \ {t} PROVE IterInv(u)'
  <2>1. UNCHANGED <<list, due[u], dir[u], loc[u], pc[u]>>
    BY <1>1, DueFrame DEF Task
  <2>. QED BY <1>3, <2>1, IterKept DEF IterAll
<1>. QED BY <1>4, <1>5, <1>6 DEF IterAll

LEMMA IterMounters ==
  ASSUME NoUnmounting, IInv, IInv', MutexInv, MutexInv', IterAll, NEW t \in Mounters,
         MounterStart(t) \/ MounterStep(t)
  PROVE  IterAll'
<1>0. /\ UNCHANGED <<dir, loc>> /\ \A u \in Task \ {t} : pc'[u] = pc[u]
      /\ \A u \in Mounters \ {t} : req'[u] = req[u]
      /\ pc \in [Task -> UserPc \cup MounterPc]
  BY MounterFrame DEF IInv, TypeOK
<1>1. \A u \in Users : UNCHANGED <<dir[u], loc[u], pc[u]>>
  BY <1>0, ListAssumptions DEF Task
<1>2. ~(UmountFind(t) \/ UmountCount(t) \/ UmountDriver(t) \/ UmountRemove(t))
  BY DEF UmountFind, UmountCount, UmountDriver, UmountRemove, MutexInv, MountPc
<1>3. ASSUME UNCHANGED <<list, due>>, pc[t] # "m_tail", pc'[t] \notin {"m_link", "m_tail"},
             pc'[t] \in {"m_driver", "m_push"} => req'[t].mp \notin Mounted
      PROVE  IterAll'
  <2>1. UNCHANGED Pushing /\ UNCHANGED Mounted
    <3>1. {u \in Mounters : pc'[u] = "m_tail"} = {u \in Mounters : pc[u] = "m_tail"}
      BY <1>0, <1>3 DEF Task
    <3>2. \A u \in {v \in Mounters : pc[v] = "m_tail"} : req'[u].mp = req[u].mp
      BY <1>0, <1>3
    <3>3. UNCHANGED Pushing
      BY <3>1, <3>2 DEF Pushing
    <3>. QED BY <1>3, <3>3, VisitedKept
  <2>2. Ring'
    BY <1>3, <2>1 DEF IterAll, Ring, Apart, Mounted
  <2>3. Unlisted'
    BY <1>0, <1>3, <2>1 DEF IterAll, Unlisted, Task
  <2>4. \A u \in Users : IterInv(u)'
    BY <1>1, <1>3, <2>1, IterKept DEF IterAll
  <2>. QED BY <2>2, <2>3, <2>4 DEF IterAll
<1>4. CASE MounterStart(t)
  <2>1. UNCHANGED <<list, due>> /\ pc'[t] = "m_take" /\ pc[t] = "idle"
    BY <1>0, <1>4 DEF MounterStart, NoUnmounting, vfs_mount, tables, Goto, Task
  <2>. QED BY <1>3, <2>1
<1>5. CASE CheckTake(t)
  <2>1. UNCHANGED <<list, due>> /\ pc'[t] \in {"m_find", "u_find"} /\ pc[t] # "m_tail"
    BY <1>0, <1>5 DEF CheckTake, tables, Goto, Task
  <2>. QED BY <1>3, <2>1
<1>6. CASE MountFind(t)
  <2>1. UNCHANGED <<list, due, req>> /\ pc[t] = "m_find"
    BY <1>6 DEF MountFind, tables
  <2>2. pc'[t] = "idle" \/ (pc'[t] = "m_driver" /\ ~AlreadyMounted(t))
    BY <1>0, <1>6 DEF MountFind, Goto, Task
  <2>. QED BY <1>3, <2>1, <2>2, CheckFinds DEF IterAll
<1>7. CASE MountDriver(t)
  <2>1. UNCHANGED <<list, due, req>> /\ pc[t] = "m_driver" /\ pc'[t] \in {"m_push", "idle"}
    BY <1>0, <1>7 DEF MountDriver, tables, Goto, Task
  <2>. QED BY <1>3, <2>1 DEF IterAll, Unlisted
<1>8. CASE MountPush(t) \/ MountLink(t) \/ MountTail(t)
  <2>1. /\ Ring' /\ Unlisted' /\ Mounted \subseteq Mounted'
        /\ \A n \in Mounted \ {list.tail} : list'.link[n] = list.link[n]
        /\ \A c, d : d \subseteq Mounted /\ Visited(c, d) => Visited(c, d)'
    BY <1>8, Pushed DEF IterAll
  <2>2. ASSUME NEW u \in Users PROVE IterInv(u)'
    <3>1. IterInv(u) /\ UNCHANGED <<dir[u], loc[u], pc[u], due[u]>> /\ due[u] \subseteq Mounted
      BY <1>1, <1>8 DEF MountPush, MountLink, MountTail, IterAll, IterInv
    <3>2. Amid(u)' <=> Amid(u)
      BY <3>1 DEF Amid
    <3>3. dir[u].kind = "iter" => \/ due[u] = {}
                                 \/ list'.link[dir[u].mp] = list.link[dir[u].mp]
      <4>1. CASE dir[u].kind = "iter" /\ dir[u].mp = list.tail
        BY <3>1, <4>1, VisitEnd DEF IterInv
      <4>2. CASE dir[u].kind = "iter" /\ dir[u].mp # list.tail
        BY <2>1, <3>1, <4>2 DEF IterInv, Visited
      <4>. QED BY <4>1, <4>2
    <3>4. /\ dir[u].kind = "iter" => Visited(dir[u].mp, due[u])'
          /\ Amid(u) => Visited(loc[u].mp2, due[u] \ {loc[u].mp2})'
      BY <2>1, <3>1 DEF IterInv
    <3>. QED BY <2>1, <3>1, <3>2, <3>3, <3>4 DEF IterInv
  <2>. QED BY <2>1, <2>2 DEF IterAll
<1>. QED BY <1>2, <1>4, <1>5, <1>6, <1>7, <1>8 DEF MounterStep

\* vfs.h:1173: an iteration that ends because the list is exhausted has reported every
\* volume that was mounted when it began, however its reads of the list, made without
\* the mutex, fall between the writes of others' pushes, as long as nothing is unmounted
\* and no two volumes are mounted under one path.  Exempt is the iteration whose first
\* two reads a push comes between (IterFirst).
THEOREM IterationsComplete ==
  ASSUME NoUnmounting, PathsApart PROVE Spec => []IterationComplete
<1>. DEFINE Inv == IInv /\ MutexInv /\ (\A t \in Users : SearchInv(t)) /\ IterAll
<1>1. Init => Inv
  <2>. SUFFICES ASSUME Init PROVE Inv
    OBVIOUS
  <2>1. IInv /\ MutexInv /\ \A t \in Users : SearchInv(t)
    BY SearchInit
  <2>2. Mounted = {} /\ list.tail = NULL
    BY DEF Init, Mounted, CL!Members, CL!EmptyList
  <2>3. Ring /\ Unlisted
    BY <2>2 DEF Init, Ring, Unlisted, Task
  <2>4. ASSUME NEW t \in Users PROVE IterInv(t)
    BY DEF Init, IterInv, Amid, FindPc, IterPc, Task
  <2>. QED BY <2>1, <2>3, <2>4 DEF IterAll
<1>2. Inv /\ [Next]_vars => Inv'
  <2>. SUFFICES ASSUME Inv, [Next]_vars PROVE Inv'
    OBVIOUS
  <2>1. IInv' /\ MutexInv' /\ \A t \in Users : SearchInv(t)'
    BY InvStep, MutexStep, SearchStep
  <2>2. CASE UNCHANGED vars
    <3>0. UNCHANGED <<list, Pushing, Mounted>>
      BY <2>2 DEF vars, Pushing, Mounted
    <3>1. Ring' /\ Unlisted'
      BY <2>2, <3>0 DEF vars, IterAll, Ring, Apart, Mounted, Unlisted
    <3>2. \A t \in Users : IterInv(t)'
      BY <2>2, <3>0, IterKept DEF vars, IterAll
    <3>. QED BY <2>1, <3>1, <3>2 DEF IterAll
  <2>3. CASE Next
    BY <2>1, <2>3, IterUsers, IterMounters DEF Next
  <2>. QED BY <2>1, <2>2, <2>3
<1>3. Inv => IterationComplete
  BY DEF IterAll, IterInv, IterationComplete
<1>. QED BY <1>1, <1>2, <1>3, PTL DEF Spec
-----------------------------------------------------------------------------
(* Counts.  Each step of Vfs is a step of RefCount or leaves its variables *)
(* alone, but for a vfs_opendir without directory operations.              *)

\* The slots and what they refer to.
LEMMA HolderAt ==
  /\ \A f \in Fds : <<"fd", f>> \in Slots /\ Holder[<<"fd", f>>] = FdRef(f)
  /\ \A u \in Users : /\ <<"dir", u>> \in Slots /\ Holder[<<"dir", u>>] = DirRef(u)
                      /\ <<"call", u>> \in Slots /\ Holder[<<"call", u>>] = CallRef(u)
                      /\ <<"call2", u>> \in Slots /\ Holder[<<"call2", u>>] = Call2Ref(u)
BY DEF Holder, Slots

LEMMA HolderFunction == Holder = [s \in Slots |-> Holder[s]]
BY DEF Holder, Slots

LEMMA SlotKinds ==
  \A s \in Slots : \/ \E f \in Fds : s = <<"fd", f>>
                   \/ \E u \in Users : s \in {<<"dir", u>>, <<"call", u>>, <<"call2", u>>}
BY DEF Slots

\* A function that agrees with every reference of the next state is the next Holder.
LEMMA HolderNext ==
  ASSUME NEW h, h = [s \in Slots |-> h[s]],
         \A f \in Fds : h[<<"fd", f>>] = FdRef(f)',
         \A u \in Users : /\ h[<<"dir", u>>] = DirRef(u)'
                          /\ h[<<"call", u>>] = CallRef(u)'
                          /\ h[<<"call2", u>>] = Call2Ref(u)'
  PROVE  Holder' = h
<1>1. ASSUME NEW s \in Slots
      PROVE  Holder'[s] = h[s]
  <2>1. ASSUME NEW f \in Fds, s = <<"fd", f>>
        PROVE  Holder'[s] = h[s]
    BY <2>1 DEF Holder
  <2>2. ASSUME NEW u \in Users, s = <<"dir", u>>
        PROVE  Holder'[s] = h[s]
    BY <2>2 DEF Holder
  <2>3. ASSUME NEW u \in Users, s = <<"call", u>>
        PROVE  Holder'[s] = h[s]
    BY <2>3 DEF Holder
  <2>4. ASSUME NEW u \in Users, s = <<"call2", u>>
        PROVE  Holder'[s] = h[s]
    BY <2>4 DEF Holder
  <2> QED BY <2>1, <2>2, <2>3, <2>4, SlotKinds
<1>2. Holder' = [s \in Slots |-> Holder'[s]]
  BY DEF Holder, Slots
<1> QED BY <1>1, <1>2

\* The references after slot s came to refer to v.
SetTo(s, v) ==
  /\ \A f \in Fds : FdRef(f)' = IF s = <<"fd", f>> THEN v ELSE FdRef(f)
  /\ \A u \in Users : /\ DirRef(u)' = IF s = <<"dir", u>> THEN v ELSE DirRef(u)
                      /\ CallRef(u)' = IF s = <<"call", u>> THEN v ELSE CallRef(u)
                      /\ Call2Ref(u)' = IF s = <<"call2", u>> THEN v ELSE Call2Ref(u)

LEMMA HolderSet ==
  ASSUME NEW s \in Slots, NEW v, SetTo(s, v)
  PROVE  Holder' = [Holder EXCEPT ![s] = v]
<1> DEFINE h == [Holder EXCEPT ![s] = v]
<1>1. Holder = [x \in Slots |-> Holder[x]]
  BY HolderFunction
<1>2. h = [x \in Slots |-> h[x]] /\ \A x \in Slots : h[x] = IF x = s THEN v ELSE Holder[x]
  BY <1>1
<1> HIDE DEF h
<1>3. \A f \in Fds : h[<<"fd", f>>] = FdRef(f)'
  BY <1>2, HolderAt DEF SetTo
<1>4. \A u \in Users : /\ h[<<"dir", u>>] = DirRef(u)'
                       /\ h[<<"call", u>>] = CallRef(u)'
                       /\ h[<<"call2", u>>] = Call2Ref(u)'
  BY <1>2, HolderAt DEF SetTo
<1>5. Holder' = h
  BY <1>2, <1>3, <1>4, HolderNext
<1> QED BY <1>5 DEF h

\* A step that counts one up and fills a slot, or counts one down and empties it,
\* or does neither, is a step of RefCount.
LEMMA Acquires ==
  ASSUME IInv, NEW s \in Slots, NEW m \in MountPts, Holder[s] = NULL,
         Count(m, 1), SetTo(s, m)
  PROVE  RC!Next
<1>1. Holder' = [Holder EXCEPT ![s] = m]
  BY HolderSet
<1>2. open_files' = [open_files EXCEPT ![m] = @ + 1]
  BY DEF Count
<1> QED BY <1>1, <1>2 DEF RC!Next, RC!Acquire

LEMMA Releases ==
  ASSUME IInv, NEW s \in Slots, Holder[s] \in MountPts, Count(Holder[s], -1), SetTo(s, NULL)
  PROVE  RC!Next
<1>1. Holder' = [Holder EXCEPT ![s] = NULL]
  BY HolderSet
<1>2. open_files' = [open_files EXCEPT ![Holder[s]] = @ - 1]
  <2>1. open_files[Holder[s]] + (-1) = open_files[Holder[s]] - 1
    BY DEF IInv, TypeOK
  <2> QED BY <2>1 DEF Count
<1> QED BY <1>1, <1>2, ListAssumptions DEF RC!Next, RC!Release

LEMMA Transfers ==
  ASSUME IInv, NEW s \in Slots, NEW r \in Slots, s # r, Holder[s] # NULL, Holder[r] = NULL,
         UNCHANGED open_files,
         \A f \in Fds : FdRef(f)' = IF s = <<"fd", f>> THEN NULL
                                    ELSE IF r = <<"fd", f>> THEN Holder[s] ELSE FdRef(f),
         \A u \in Users :
           /\ DirRef(u)' = IF s = <<"dir", u>> THEN NULL
                           ELSE IF r = <<"dir", u>> THEN Holder[s] ELSE DirRef(u)
           /\ CallRef(u)' = IF s = <<"call", u>> THEN NULL
                            ELSE IF r = <<"call", u>> THEN Holder[s] ELSE CallRef(u)
           /\ Call2Ref(u)' = IF s = <<"call2", u>> THEN NULL
                             ELSE IF r = <<"call2", u>> THEN Holder[s] ELSE Call2Ref(u)
  PROVE  RC!Next
<1> DEFINE h == [Holder EXCEPT ![s] = NULL, ![r] = Holder[s]]
<1>1. Holder = [x \in Slots |-> Holder[x]]
  BY HolderFunction
<1>2. /\ h = [x \in Slots |-> h[x]]
      /\ \A x \in Slots : h[x] = IF x = s THEN NULL ELSE IF x = r THEN Holder[s] ELSE Holder[x]
  BY <1>1
<1> HIDE DEF h
<1>3. \A f \in Fds : h[<<"fd", f>>] = FdRef(f)'
  BY <1>2, HolderAt
<1>4. \A u \in Users : /\ h[<<"dir", u>>] = DirRef(u)'
                       /\ h[<<"call", u>>] = CallRef(u)'
                       /\ h[<<"call2", u>>] = Call2Ref(u)'
  BY <1>2, HolderAt
<1>5. Holder' = [Holder EXCEPT ![s] = NULL, ![r] = Holder[s]]
  BY <1>2, <1>3, <1>4, HolderNext DEF h
<1> QED BY <1>5 DEF RC!Next, RC!Transfer

LEMMA Stutters ==
  ASSUME UNCHANGED open_files, \A f \in Fds : FdRef(f)' = FdRef(f),
         \A u \in Users : /\ DirRef(u)' = DirRef(u) /\ CallRef(u)' = CallRef(u)
                          /\ Call2Ref(u)' = Call2Ref(u)
  PROVE  UNCHANGED RC!refVars
<1>1. Holder = [s \in Slots |-> Holder[s]]
  BY HolderFunction
<1>2. Holder' = Holder
  BY <1>1, HolderAt, HolderNext
<1> QED BY <1>2 DEF RC!refVars
-----------------------------------------------------------------------------
(* Each step, as a step of RefCount.                                       *)

LEMMA OtherRefs ==
  ASSUME TypeOK, NEW t \in Users, UserStart(t) \/ UserStep(t), NEW u \in Users \ {t}
  PROVE  DirRef(u)' = DirRef(u) /\ CallRef(u)' = CallRef(u) /\ Call2Ref(u)' = Call2Ref(u)
BY UserFrame DEF DirRef, CallRef, Call2Ref, Task

LEMMA ReturnRefs ==
  ASSUME TypeOK, NEW t \in Users, NEW r \in CallRecord, Return(t, r)
  PROVE  CallRef(t)' = r.mp /\ Call2Ref(t)' = r.mp2
<1>1. pc'[t] \notin Ahead /\ loc'[t].mp = r.mp /\ loc'[t].mp2 = r.mp2
  BY Returned DEF TypeOK, Task, Ahead
<1> QED BY <1>1 DEF CallRef, Call2Ref

\* A user's step that leaves the counts, the table and its own references alone.
LEMMA OwnRefsKept ==
  ASSUME IInv, NEW t \in Users, UserStart(t) \/ UserStep(t), UNCHANGED <<open_files, fds>>,
         DirRef(t)' = DirRef(t), CallRef(t)' = CallRef(t), Call2Ref(t)' = Call2Ref(t)
  PROVE  UNCHANGED RC!refVars
<1>1. \A f \in Fds : FdRef(f)' = FdRef(f)
  BY DEF FdRef
<1> QED BY <1>1, OtherRefs, Stutters DEF IInv

LEMMA StartRefs ==
  ASSUME IInv, NEW t \in Users, UserStart(t)
  PROVE  [RC!Next]_(RC!refVars)
<1> USE DEF IInv, TypeOK, Goto, Set, Task, Ahead
<1>0. CallInv(t) /\ DirInv(t)
  OBVIOUS
<1>1. ASSUME NEW r, pc[t] = "idle", Set(t, r), r.mp = NULL, r.mp2 = NULL, pc'[t] \notin Ahead,
             UNCHANGED <<open_files, fds>>, DirRef(t)' = DirRef(t)
      PROVE  UNCHANGED RC!refVars
  <2>1. CallRef(t)' = CallRef(t) /\ Call2Ref(t)' = Call2Ref(t)
    BY <1>0, <1>1 DEF CallRef, Call2Ref, CallInv
  <2> QED BY <1>1, <2>1, OwnRefsKept
<1>2. ASSUME NEW o \in Calls, NEW n \in Names, Call(t, o, n)
      PROVE  UNCHANGED RC!refVars
  <2> DEFINE r == [NoCall EXCEPT !.op = o, !.name = n]
  <2>1. r.mp = NULL /\ r.mp2 = NULL
    BY DEF NoCall
  <2>2. pc[t] = "idle" /\ Set(t, r) /\ pc'[t] \notin Ahead /\ UNCHANGED <<open_files, fds, dir>>
    BY <1>2 DEF Call, tables
  <2> HIDE DEF r
  <2> QED BY <1>1, <2>1, <2>2 DEF DirRef
<1>3. ASSUME NEW n \in Names, \/ vfs_open(t, n) \/ vfs_opendir(t, n)
                              \/ vfs_path_op(t, n) \/ vfs_rename(t, n)
      PROVE  UNCHANGED RC!refVars
  BY <1>2, <1>3 DEF vfs_open, vfs_opendir, vfs_path_op, vfs_rename, Calls
<1>4. CASE vfs_iterate_mount_dirs(t)
  <2>1. DirRef(t)' = DirRef(t)
    BY <1>4 DEF vfs_iterate_mount_dirs, DirRef
  <2>2. /\ [NoCall EXCEPT !.op = "iterate"].mp = NULL
        /\ [NoCall EXCEPT !.op = "iterate"].mp2 = NULL
    BY DEF NoCall
  <2>3. /\ pc[t] = "idle" /\ Set(t, [NoCall EXCEPT !.op = "iterate"]) /\ pc'[t] \notin Ahead
        /\ UNCHANGED <<open_files, fds>>
    BY <1>4 DEF vfs_iterate_mount_dirs
  <2> QED BY <1>1, <2>1, <2>2, <2>3
<1>5. ASSUME NEW f \in Fds, vfs_close(t, f)
      PROVE  UNCHANGED RC!refVars
  <2> DEFINE r == [NoCall EXCEPT !.op = "close", !.fd = f]
  <2>1. r.mp = NULL /\ r.mp2 = NULL
    BY DEF NoCall
  <2>2. pc[t] = "idle" /\ Set(t, r) /\ pc'[t] \notin Ahead /\ UNCHANGED <<open_files, fds, dir>>
    BY <1>5 DEF vfs_close, tables
  <2> HIDE DEF r
  <2> QED BY <1>1, <2>1, <2>2 DEF DirRef
<1>6. CASE vfs_closedir(t)
  <2> DEFINE s == <<"dir", t>>
  <2>1. Holder[s] = dir[t].mp /\ s \in Slots /\ dir[t].mp \in MountPts
    BY <1>6, HolderAt DEF vfs_closedir, DirRef, MpOrNull
  <2>2. DirRef(t)' = NULL /\ CallRef(t)' = CallRef(t) /\ Call2Ref(t)' = Call2Ref(t)
    BY <1>6 DEF vfs_closedir, DirRef, CallRef, Call2Ref
  <2>3. \A f \in Fds : FdRef(f)' = FdRef(f)
    BY <1>6 DEF vfs_closedir, FdRef
  <2>4. SetTo(s, NULL)
    BY <2>2, <2>3, OtherRefs DEF SetTo
  <2>5. Count(dir[t].mp, -1)
    BY <1>6 DEF vfs_closedir
  <2> HIDE DEF s
  <2> QED BY <2>1, <2>4, <2>5, Releases
<1> QED BY <1>3, <1>4, <1>5, <1>6 DEF UserStart

LEMMA FindRefs ==
  ASSUME IInv, NEW t \in Users,
         FindTake(t) \/ FindFirst(t) \/ FindLoop(t) \/ FindEnd(t) \/ FindGive(t)
  PROVE  [RC!Next]_(RC!refVars)
<1> USE DEF IInv, TypeOK, Goto, Set, Task, Ahead, tables, mutexes
<1>0. loc[t] \in CallRecord /\ CallInv(t) /\ UserStep(t)
  BY DEF UserStep
<1>1. ASSUME UNCHANGED <<open_files, fds, dir>>, pc[t] \notin Ahead, pc'[t] \notin Ahead,
             loc'[t].mp = loc[t].mp, loc'[t].mp2 = loc[t].mp2
      PROVE  UNCHANGED RC!refVars
  BY <1>0, <1>1, OwnRefsKept DEF DirRef, CallRef, Call2Ref
<1>2. ASSUME NEW r \in CallRecord, Return(t, r), UNCHANGED <<open_files, fds, dir>>,
             pc[t] \notin Ahead, r.mp = loc[t].mp, r.mp2 = loc[t].mp2
      PROVE  UNCHANGED RC!refVars
  BY <1>0, <1>2, ReturnRefs, OwnRefsKept DEF DirRef, CallRef, Call2Ref
<1>3. CASE FindTake(t)
  BY <1>1, <1>3 DEF FindTake
<1>4. CASE FindFirst(t)
  <2>1. CASE list.tail = NULL
    BY <1>0, <1>2, <1>4, <2>1 DEF FindFirst
  <2>2. CASE list.tail # NULL
    <3>1. loc'[t] = [loc[t] EXCEPT !.node = list.tail]
      BY <1>4, <2>2 DEF FindFirst
    <3>2. loc'[t].mp = loc[t].mp /\ loc'[t].mp2 = loc[t].mp2
      BY <1>0, <3>1 DEF CallRecord
    <3> QED BY <1>1, <1>4, <2>2, <3>2 DEF FindFirst
  <2> QED BY <2>1, <2>2
<1>5. CASE FindLoop(t)
  <2>1. loc'[t].mp = loc[t].mp /\ loc'[t].mp2 = loc[t].mp2
    BY <1>0, <1>5 DEF FindLoop, CallRecord
  <2>2. /\ UNCHANGED <<open_files, fds, dir>> /\ pc[t] \notin Ahead /\ pc'[t] \notin Ahead
    BY <1>5 DEF FindLoop
  <2> QED BY <1>1, <2>1, <2>2
<1>6. CASE FindEnd(t)
  <2> DEFINE r == [loc[t] EXCEPT !.node = NULL, !.cand = NULL, !.longest = 0]
             m == loc[t].cand
  <2>0. /\ r \in CallRecord /\ r.op = loc[t].op /\ r.mp = loc[t].mp /\ r.mp2 = loc[t].mp2
    BY <1>0, CallRecords DEF CallRecord
  <2>1. pc[t] = "find_end" /\ UNCHANGED <<fds, dir>>
    BY <1>6 DEF FindEnd
  <2>2. CASE m = NULL
    <3>1. Return(t, r) /\ UNCHANGED open_files
      BY <1>6, <2>2 DEF FindEnd
    <3> HIDE DEF r
    <3> QED BY <1>2, <2>0, <2>1, <3>1
  <2>3. CASE m # NULL
    <3>1. /\ pc'[t] = "find_give" /\ Count(m, 1)
          /\ loc'[t] = IF r.op = "rename" /\ r.mp # NULL
                       THEN [r EXCEPT !.mp2 = m] ELSE [r EXCEPT !.mp = m]
      BY <1>6, <2>3 DEF FindEnd
    <3>2. m \in MountPts
      BY <1>0, <2>3 DEF CallRecord, MpOrNull
    <3> HIDE DEF r, m
    <3>3. \A f \in Fds : FdRef(f)' = FdRef(f)
      BY <2>1 DEF FdRef
    <3>4. DirRef(t)' = DirRef(t)
      BY <2>1 DEF DirRef
    <3>5. CASE loc[t].op = "rename" /\ loc[t].mp # NULL
      <4>1. loc'[t].mp = loc[t].mp /\ loc'[t].mp2 = m
        BY <2>0, <3>1, <3>5 DEF CallRecord
      <4>2. CallRef(t)' = CallRef(t) /\ Call2Ref(t)' = m /\ Call2Ref(t) = NULL
        BY <1>0, <2>1, <3>1, <3>5, <4>1 DEF CallRef, Call2Ref, CallInv, FindPc
      <4>3. SetTo(<<"call2", t>>, m)
        BY <1>0, <3>3, <3>4, <4>2, OtherRefs DEF SetTo
      <4> QED BY <3>1, <3>2, <4>2, <4>3, HolderAt, Acquires
    <3>6. CASE ~ (loc[t].op = "rename" /\ loc[t].mp # NULL)
      <4>1. loc'[t].mp = m /\ loc'[t].mp2 = loc[t].mp2
        BY <2>0, <3>1, <3>6 DEF CallRecord
      <4>2. CallRef(t)' = m /\ CallRef(t) = NULL /\ Call2Ref(t)' = Call2Ref(t)
        BY <1>0, <2>1, <3>1, <3>6, <4>1 DEF CallRef, Call2Ref, CallInv, FindPc
      <4>3. SetTo(<<"call", t>>, m)
        BY <1>0, <3>3, <3>4, <4>2, OtherRefs DEF SetTo
      <4> QED BY <3>1, <3>2, <4>2, <4>3, HolderAt, Acquires
    <3> QED BY <3>5, <3>6
  <2> QED BY <2>2, <2>3
<1>7. CASE FindGive(t)
  <2>1. pc[t] = "find_give" /\ UNCHANGED <<open_files, fds, dir>>
    BY <1>7 DEF FindGive
  <2>2. CASE Return(t, loc[t])
    BY <1>0, <1>2, <2>1, <2>2
  <2>3. CASE UNCHANGED loc /\ pc'[t] \in {"open_take", "opendir", "driver"}
    BY <1>1, <2>1, <2>3
  <2>4. ASSUME NEW n \in Names, Set(t, [loc[t] EXCEPT !.name = n]), pc'[t] = "find_take"
        PROVE  UNCHANGED RC!refVars
    <3>1. loc'[t].mp = loc[t].mp /\ loc'[t].mp2 = loc[t].mp2
      BY <1>0, <2>4 DEF CallRecord
    <3> QED BY <1>1, <2>1, <2>4, <3>1
  <2> QED BY <1>7, <2>2, <2>3, <2>4 DEF FindGive
<1> QED BY <1>3, <1>4, <1>5, <1>6, <1>7

\* Freeing the entry f of the table gives back its reference.
LEMMA FreeRefs ==
  ASSUME IInv, NEW t \in Users, UserStep(t), NEW f \in Fds, fds[f].task_id # 0, FreeFd(f),
         UNCHANGED dir, CallRef(t)' = CallRef(t), Call2Ref(t)' = Call2Ref(t)
  PROVE  RC!Next
<1>1. fds[f].mp \in MountPts /\ Holder[<<"fd", f>>] = fds[f].mp
  BY HolderAt DEF IInv, EntryInv, TypeOK, MpOrNull, FdRef
<1>2. FdRef(f)' = NULL /\ \A g \in Fds \ {f} : FdRef(g)' = FdRef(g)
  BY DEF FreeFd, FdRef, IInv, TypeOK
<1>3. DirRef(t)' = DirRef(t)
  BY DEF DirRef
<1>4. SetTo(<<"fd", f>>, NULL)
  BY <1>2, <1>3, OtherRefs DEF SetTo, IInv
<1>5. Count(Holder[<<"fd", f>>], -1)
  BY <1>1 DEF FreeFd
<1> QED BY <1>1, <1>4, <1>5, HolderAt, Releases

LEMMA RestRefs ==
  ASSUME IInv, NEW t \in Users,
         \/ DriverCall(t) \/ Drop(t) \/ Drop2(t)
         \/ OpenTake(t) \/ OpenScan(t) \/ OpenClaim(t) \/ OpenGive(t) \/ OpenDriver(t)
         \/ CloseDriver(t)
  PROVE  [RC!Next]_(RC!refVars)
<1> USE DEF IInv, TypeOK, Goto, Set, Task, Ahead, tables, mutexes
<1>0. loc[t] \in CallRecord /\ CallInv(t) /\ FdInv(t) /\ UserStep(t) /\ UNCHANGED dir
  BY DEF UserStep, DriverCall, Drop, Drop2, OpenTake, OpenScan, OpenClaim, OpenGive,
         OpenDriver, CloseDriver
<1>a. DirRef(t)' = DirRef(t)
  BY <1>0 DEF DirRef
<1>1. ASSUME UNCHANGED <<open_files, fds>>, pc[t] \notin Ahead, pc'[t] \notin Ahead,
             loc'[t].mp = loc[t].mp, loc'[t].mp2 = loc[t].mp2
      PROVE  UNCHANGED RC!refVars
  BY <1>0, <1>1, <1>a, OwnRefsKept DEF CallRef, Call2Ref
<1>2. ASSUME NEW r \in CallRecord, Return(t, r), UNCHANGED <<open_files, fds>>,
             pc[t] \notin Ahead, r.mp = loc[t].mp, r.mp2 = loc[t].mp2
      PROVE  UNCHANGED RC!refVars
  BY <1>0, <1>2, <1>a, ReturnRefs, OwnRefsKept DEF CallRef, Call2Ref
<1>3. CASE DriverCall(t)
  BY <1>0, <1>2, <1>3 DEF DriverCall
<1>b. ASSUME UNCHANGED fds PROVE \A f \in Fds : FdRef(f)' = FdRef(f)
  BY <1>b DEF FdRef
<1>4. CASE Drop(t)
  <2>1. [loc[t] EXCEPT !.mp = NULL] \in CallRecord
    BY <1>0, CallRecords DEF MpOrNull
  <2>2. /\ [loc[t] EXCEPT !.mp = NULL].mp = NULL
        /\ [loc[t] EXCEPT !.mp = NULL].mp2 = loc[t].mp2
    BY <1>0 DEF CallRecord
  <2>3. CallRef(t)' = NULL /\ Call2Ref(t)' = Call2Ref(t)
    BY <1>4, <2>1, <2>2, ReturnRefs DEF Drop, Call2Ref
  <2>4. SetTo(<<"call", t>>, NULL)
    BY <1>0, <1>4, <1>a, <1>b, <2>3, OtherRefs DEF SetTo, Drop
  <2>5. Holder[<<"call", t>>] = loc[t].mp /\ loc[t].mp \in MountPts
    BY <1>0, <1>4, HolderAt DEF CallRef, CallInv, CallRecord, MpOrNull, Drop
  <2> QED BY <1>4, <2>4, <2>5, HolderAt, Releases DEF Drop
<1>5. CASE Drop2(t)
  <2>1. loc[t].mp = NULL /\ loc[t].mp2 \in MountPts
    BY <1>0, <1>5 DEF Drop2, CallInv, CallRecord, MpOrNull
  <2>2. CallRef(t)' = CallRef(t) /\ Call2Ref(t)' = NULL
    BY <1>5, <2>1, CallRecords, ReturnRefs DEF Drop2, CallRef
  <2>3. SetTo(<<"call2", t>>, NULL)
    BY <1>0, <1>5, <1>a, <1>b, <2>2, OtherRefs DEF SetTo, Drop2
  <2>4. Holder[<<"call2", t>>] = loc[t].mp2
    BY <1>5, HolderAt DEF Call2Ref, Drop2
  <2> QED BY <1>5, <2>1, <2>3, <2>4, HolderAt, Releases DEF Drop2
<1>6. CASE OpenTake(t) \/ OpenGive(t)
  BY <1>1, <1>6 DEF OpenTake, OpenGive
<1>7. CASE OpenScan(t)
  <2>1. CASE loc[t].fd \in Fds
    <3>1. /\ loc'[t].mp = loc[t].mp /\ loc'[t].mp2 = loc[t].mp2
          /\ pc[t] \notin Ahead /\ pc'[t] \notin Ahead /\ UNCHANGED <<open_files, fds>>
      BY <1>0, <1>7, <2>1 DEF OpenScan, CallRecord
    <3> QED BY <1>1, <3>1
  <2>2. CASE loc[t].fd \notin Fds
    <3>1. /\ [loc[t] EXCEPT !.fd = 3] \in CallRecord
          /\ [loc[t] EXCEPT !.fd = 3].mp = loc[t].mp
          /\ [loc[t] EXCEPT !.fd = 3].mp2 = loc[t].mp2
      BY <1>0, CallRecords DEF CallRecord
    <3> QED BY <1>2, <1>7, <2>2, <3>1 DEF OpenScan
  <2> QED BY <2>1, <2>2
<1>8. CASE OpenClaim(t)
  <2>f. PICK f \in Fds : f = loc[t].fd /\ fds[f].task_id = 0
    BY <1>0, <1>8 DEF OpenClaim, FdInv
  <2>1. /\ loc[t].mp # NULL /\ loc'[t].mp = NULL /\ loc'[t].mp2 = loc[t].mp2
        /\ UNCHANGED open_files /\ pc[t] = "open_claim" /\ pc'[t] = "open_give"
    BY <1>0, <1>8 DEF OpenClaim, CallInv, CallRecord
  <2>2. FdRef(f) = NULL /\ FdRef(f)' = loc[t].mp /\ \A g \in Fds \ {f} : FdRef(g)' = FdRef(g)
    BY <1>8, <2>f DEF OpenClaim, FdRef, uxTaskGetTaskNumber
  <2>3. CallRef(t) = loc[t].mp /\ CallRef(t)' = NULL /\ Call2Ref(t)' = Call2Ref(t)
    BY <2>1 DEF CallRef, Call2Ref
  <2>4. /\ Holder[<<"call", t>>] = loc[t].mp /\ Holder[<<"fd", f>>] = NULL
        /\ <<"call", t>> \in Slots /\ <<"fd", f>> \in Slots
    BY <2>2, <2>3, HolderAt
  <2>5. \A u \in Users \ {t} : /\ DirRef(u)' = DirRef(u) /\ CallRef(u)' = CallRef(u)
                               /\ Call2Ref(u)' = Call2Ref(u)
    BY <1>0, OtherRefs
  <2> DEFINE s == <<"call", t>>
             r == <<"fd", f>>
  <2>6. \A g \in Fds : FdRef(g)' = IF s = <<"fd", g>> THEN NULL
                                   ELSE IF r = <<"fd", g>> THEN Holder[s] ELSE FdRef(g)
    BY <2>2, <2>4
  <2>7. \A u \in Users :
           /\ DirRef(u)' = IF s = <<"dir", u>> THEN NULL
                           ELSE IF r = <<"dir", u>> THEN Holder[s] ELSE DirRef(u)
           /\ CallRef(u)' = IF s = <<"call", u>> THEN NULL
                            ELSE IF r = <<"call", u>> THEN Holder[s] ELSE CallRef(u)
           /\ Call2Ref(u)' = IF s = <<"call2", u>> THEN NULL
                             ELSE IF r = <<"call2", u>> THEN Holder[s] ELSE Call2Ref(u)
    BY <1>a, <2>3, <2>5
  <2>8. s \in Slots /\ r \in Slots /\ s # r /\ Holder[s] # NULL /\ Holder[r] = NULL
    BY <2>1, <2>4
  <2> HIDE DEF s, r
  <2> QED BY <2>1, <2>6, <2>7, <2>8, Transfers
<1>9. CASE OpenDriver(t) \/ CloseDriver(t)
  <2>f. PICK f \in Fds : f = loc[t].fd /\ fds[f].task_id # 0
    BY <1>0, <1>9 DEF OpenDriver, CloseDriver, FdInv, FdKept
  <2>1. loc[t].mp = NULL /\ loc[t].mp2 = NULL /\ Return(t, NoCall) /\ pc[t] \notin Ahead
    BY <1>0, <1>9 DEF OpenDriver, CloseDriver, CallInv
  <2>2. CallRef(t)' = CallRef(t) /\ Call2Ref(t)' = Call2Ref(t)
    BY <2>1, CallRecords, ReturnRefs DEF CallRef, Call2Ref
  <2>3. CASE FreeFd(f)
    BY <1>0, <2>f, <2>2, <2>3, FreeRefs
  <2>4. CASE UNCHANGED <<open_files, fds>>
    BY <1>0, <1>a, <2>2, <2>4, OwnRefsKept
  <2> QED BY <1>9, <2>f, <2>3, <2>4 DEF OpenDriver, CloseDriver
<1> QED BY <1>3, <1>4, <1>5, <1>6, <1>7, <1>8, <1>9

\* vfs_opendir (vfs.c:445) returns and leaves behind the reference that it has counted.
Leaks(t) == /\ Holder[<<"call", t>>] \in MountPts \ DirFs
            /\ Holder' = [Holder EXCEPT ![<<"call", t>>] = NULL]
            /\ UNCHANGED open_files

LEMMA DirRefs ==
  ASSUME IInv, NEW t \in Users,
         OpenDir(t) \/ IterReads(t) \/ IterHold(t) \/ IterClose(t) \/ IterEnd(t)
  PROVE  [RC!Next]_(RC!refVars) \/ Leaks(t)
<1> USE DEF IInv, TypeOK, Goto, Set, Task, Ahead, tables, mutexes
<1>0. loc[t] \in CallRecord /\ CallInv(t) /\ DirInv(t) /\ UserStep(t) /\ UNCHANGED fds
  BY DEF UserStep, OpenDir, IterReads, IterNext, IterFirst, IterTail, IterWrap, IterHold,
         IterClose, IterEnd
<1>a. \A f \in Fds : FdRef(f)' = FdRef(f)
  BY <1>0 DEF FdRef
<1>b. \A u \in Users \ {t} : /\ DirRef(u)' = DirRef(u) /\ CallRef(u)' = CallRef(u)
                             /\ Call2Ref(u)' = Call2Ref(u)
  BY <1>0, OtherRefs
<1>1. CASE OpenDir(t)
  <2>1. /\ pc[t] = "opendir" /\ loc[t].mp # NULL /\ dir[t].kind = "closed"
        /\ UNCHANGED open_files
    BY <1>0, <1>1 DEF OpenDir, CallInv, DirInv
  <2>2. CASE /\ loc[t].mp \notin DirFs
             /\ Return(t, [loc[t] EXCEPT !.mp = NULL]) /\ UNCHANGED dir
    <3>1. DirRef(t)' = DirRef(t)
      BY <2>2 DEF DirRef
    <3>2. /\ [loc[t] EXCEPT !.mp = NULL] \in CallRecord
          /\ [loc[t] EXCEPT !.mp = NULL].mp = NULL
          /\ [loc[t] EXCEPT !.mp = NULL].mp2 = loc[t].mp2
      <4>1. [loc[t] EXCEPT !.mp = NULL] \in CallRecord
        BY <1>0, CallRecords DEF MpOrNull
      <4> QED BY <1>0, <4>1 DEF CallRecord
    <3>3. CallRef(t) = loc[t].mp /\ CallRef(t)' = NULL /\ Call2Ref(t)' = Call2Ref(t)
      BY <2>1, <2>2, <3>2, ReturnRefs DEF CallRef, Call2Ref
    <3>4. SetTo(<<"call", t>>, NULL)
      BY <1>a, <1>b, <3>1, <3>3 DEF SetTo
    <3>5. <<"call", t>> \in Slots /\ Holder[<<"call", t>>] = loc[t].mp
      BY <3>3, HolderAt
    <3>6. loc[t].mp \in MountPts
      BY <1>0, <2>1 DEF CallRecord, MpOrNull
    <3> QED BY <2>1, <2>2, <3>4, <3>5, <3>6, HolderSet DEF Leaks
  <2>3. CASE Return(t, loc[t]) /\ dir' = [dir EXCEPT ![t] = [mp |-> loc[t].mp, kind |-> "closed"]]
    <3>1. DirRef(t)' = DirRef(t)
      BY <2>1, <2>3 DEF DirRef
    <3>2. CallRef(t)' = CallRef(t) /\ Call2Ref(t)' = Call2Ref(t)
      BY <1>0, <2>1, <2>3, ReturnRefs DEF CallRef, Call2Ref
    <3> QED BY <1>0, <2>1, <3>1, <3>2, OwnRefsKept
  <2>4. CASE /\ Return(t, [loc[t] EXCEPT !.mp = NULL])
             /\ \E k \in {"open", "iter"} : dir' = [dir EXCEPT ![t] = [mp |-> loc[t].mp, kind |-> k]]
    <3>1. DirRef(t) = NULL /\ DirRef(t)' = loc[t].mp
      BY <2>1, <2>4 DEF DirRef
    <3>2. /\ [loc[t] EXCEPT !.mp = NULL] \in CallRecord
          /\ [loc[t] EXCEPT !.mp = NULL].mp = NULL
          /\ [loc[t] EXCEPT !.mp = NULL].mp2 = loc[t].mp2
      <4>1. [loc[t] EXCEPT !.mp = NULL] \in CallRecord
        BY <1>0, CallRecords DEF MpOrNull
      <4> QED BY <1>0, <4>1 DEF CallRecord
    <3>3. CallRef(t) = loc[t].mp /\ CallRef(t)' = NULL /\ Call2Ref(t)' = Call2Ref(t)
      BY <2>1, <2>4, <3>2, ReturnRefs DEF CallRef, Call2Ref
    <3> DEFINE s == <<"call", t>>
               r == <<"dir", t>>
    <3>4. /\ s \in Slots /\ r \in Slots /\ s # r /\ Holder[s] = loc[t].mp /\ Holder[r] = NULL
      BY <3>1, <3>3, HolderAt
    <3>5. \A g \in Fds : FdRef(g)' = IF s = <<"fd", g>> THEN NULL
                                     ELSE IF r = <<"fd", g>> THEN Holder[s] ELSE FdRef(g)
      BY <1>a
    <3>6. \A u \in Users :
             /\ DirRef(u)' = IF s = <<"dir", u>> THEN NULL
                             ELSE IF r = <<"dir", u>> THEN Holder[s] ELSE DirRef(u)
             /\ CallRef(u)' = IF s = <<"call", u>> THEN NULL
                              ELSE IF r = <<"call", u>> THEN Holder[s] ELSE CallRef(u)
             /\ Call2Ref(u)' = IF s = <<"call2", u>> THEN NULL
                               ELSE IF r = <<"call2", u>> THEN Holder[s] ELSE Call2Ref(u)
      BY <1>b, <3>1, <3>3, <3>4
    <3> HIDE DEF s, r
    <3> QED BY <2>1, <3>4, <3>5, <3>6, Transfers
  <2>5. \/ /\ loc[t].mp \notin DirFs
           /\ Return(t, [loc[t] EXCEPT !.mp = NULL]) /\ UNCHANGED dir
        \/ Return(t, loc[t]) /\ dir' = [dir EXCEPT ![t] = [mp |-> loc[t].mp, kind |-> "closed"]]
        \/ /\ Return(t, [loc[t] EXCEPT !.mp = NULL])
           /\ \E k \in {"open", "iter"} : dir' = [dir EXCEPT ![t] = [mp |-> loc[t].mp, kind |-> k]]
    BY <1>1 DEF OpenDir
  <2> QED BY <2>2, <2>3, <2>4, <2>5
<1>2. CASE IterReads(t)
  <2>1. /\ UNCHANGED <<open_files, dir>> /\ loc'[t].mp = loc[t].mp
        /\ pc[t] \in ReadPc /\ pc'[t] \in IterPc \ {"it_next", "it_close"}
    BY <1>2, Reading
  <2>2. CallInv(t)'
    BY <1>2, CallsDir
  <2>3. pc[t] \notin Ahead => loc[t].mp2 = NULL
    BY <1>0, <2>1 DEF CallInv, ReadPc
  <2>4. pc'[t] \notin Ahead => loc'[t].mp2 = NULL
    BY <2>1, <2>2 DEF CallInv, IterPc
  <2>5. DirRef(t)' = DirRef(t) /\ CallRef(t)' = CallRef(t)
    BY <2>1 DEF DirRef, CallRef
  <2>6. Call2Ref(t)' = Call2Ref(t)
    BY <2>3, <2>4 DEF Call2Ref
  <2> QED BY <1>0, <2>1, <2>5, <2>6, OwnRefsKept
<1>3. CASE IterHold(t)
  <2>1. /\ pc[t] = "it_hold" /\ pc'[t] = "it_close" /\ UNCHANGED <<dir, loc>>
        /\ Count(loc[t].mp2, 1) /\ loc[t].mp2 \in MountPts
    BY <1>0, <1>3 DEF IterHold, CallInv, CallRecord, MpOrNull
  <2>2. /\ Call2Ref(t) = NULL /\ Call2Ref(t)' = loc[t].mp2
        /\ DirRef(t)' = DirRef(t) /\ CallRef(t)' = CallRef(t)
    BY <2>1 DEF DirRef, CallRef, Call2Ref
  <2>3. SetTo(<<"call2", t>>, loc[t].mp2)
    BY <1>a, <1>b, <2>2 DEF SetTo
  <2> QED BY <2>1, <2>2, <2>3, HolderAt, Acquires
<1>4. ASSUME IterCloseDir(t), pc[t] \in IterPc,
             CallRef(t)' = CallRef(t), Call2Ref(t)' = Call2Ref(t)
      PROVE  [RC!Next]_(RC!refVars)
  <2>1. dir'[t].kind = "closed"
    BY <1>4 DEF IterCloseDir
  <2>2. CASE dir[t].mp = NULL
    <3>1. DirRef(t)' = DirRef(t) /\ UNCHANGED open_files
      BY <1>0, <1>4, <2>1, <2>2 DEF DirRef, IterCloseDir, DirInv
    <3> QED BY <1>0, <1>4, <3>1, OwnRefsKept
  <2>3. CASE dir[t].mp # NULL
    <3>1. /\ DirRef(t) = dir[t].mp /\ DirRef(t)' = NULL /\ dir[t].mp \in MountPts
          /\ Count(dir[t].mp, -1)
      BY <1>0, <1>4, <2>1, <2>3 DEF DirRef, IterCloseDir, DirInv, MpOrNull
    <3>2. SetTo(<<"dir", t>>, NULL)
      BY <1>4, <1>a, <1>b, <3>1 DEF SetTo
    <3>3. Holder[<<"dir", t>>] = dir[t].mp /\ <<"dir", t>> \in Slots
      BY <3>1, HolderAt
    <3> QED BY <3>1, <3>2, <3>3, Releases
  <2> QED BY <2>2, <2>3
<1>5. CASE IterClose(t)
  <2>1. /\ pc[t] = "it_close" /\ pc'[t] = "find_take" /\ IterCloseDir(t)
        /\ loc'[t].mp = loc[t].mp /\ loc'[t].mp2 = loc[t].mp2
    BY <1>0, <1>5 DEF IterClose, CallRecord
  <2>2. CallRef(t)' = CallRef(t) /\ Call2Ref(t)' = Call2Ref(t)
    BY <2>1 DEF CallRef, Call2Ref
  <2> QED BY <1>4, <2>1, <2>2 DEF IterPc
<1>6. CASE IterEnd(t)
  <2>1. /\ pc[t] = "it_end" /\ IterCloseDir(t) /\ Return(t, NoCall)
        /\ loc[t].mp = NULL /\ loc[t].mp2 = NULL
    BY <1>0, <1>6 DEF IterEnd, CallInv
  <2>2. CallRef(t)' = CallRef(t) /\ Call2Ref(t)' = Call2Ref(t)
    BY <2>1, CallRecords, ReturnRefs DEF CallRef, Call2Ref
  <2> QED BY <1>4, <2>1, <2>2 DEF IterPc
<1> QED BY <1>1, <1>2, <1>3, <1>5, <1>6

LEMMA MounterRefs ==
  ASSUME IInv, NEW t \in Mounters, MounterStart(t) \/ MounterStep(t)
  PROVE  UNCHANGED RC!refVars
<1>1. /\ UNCHANGED <<open_files, fds, dir, file, open_mutex, loc>>
      /\ \A u \in Users : pc'[u] = pc[u]
  BY MounterFrame, ListAssumptions DEF IInv, Task
<1> QED BY <1>1, Stutters DEF FdRef, DirRef, CallRef, Call2Ref

LEMMA CountsStep ==
  IInv /\ [Next]_vars => [RC!Next]_(RC!refVars) \/ \E t \in Users : Leaks(t)
<1> SUFFICES ASSUME IInv, [Next]_vars
             PROVE  [RC!Next]_(RC!refVars) \/ \E t \in Users : Leaks(t)
  OBVIOUS
<1>1. CASE UNCHANGED vars
  BY <1>1, Stutters DEF vars, FdRef, DirRef, CallRef, Call2Ref
<1>2. ASSUME NEW t \in Users, UserStart(t) \/ UserStep(t)
      PROVE  [RC!Next]_(RC!refVars) \/ Leaks(t)
  BY <1>2, StartRefs, FindRefs, RestRefs, DirRefs DEF UserStep, IterReads
<1>3. ASSUME NEW t \in Mounters, MounterStart(t) \/ MounterStep(t)
      PROVE  [RC!Next]_(RC!refVars)
  BY <1>3, MounterRefs
<1> QED BY <1>1, <1>2, <1>3 DEF Next

LEMMA CountsInit == Init => RC!Init
<1> SUFFICES ASSUME Init PROVE RC!Init
  OBVIOUS
<1> DEFINE h == [s \in Slots |-> NULL]
<1>1. \A f \in Fds : h[<<"fd", f>>] = FdRef(f)
  BY HolderAt DEF Init, FdRef
<1>2. \A u \in Users : /\ h[<<"dir", u>>] = DirRef(u) /\ h[<<"call", u>>] = CallRef(u)
                       /\ h[<<"call2", u>>] = Call2Ref(u)
  BY HolderAt, CallRecords DEF Init, DirRef, CallRef, Call2Ref
<1>3. \A s \in Slots : Holder[s] = NULL
  BY <1>1, <1>2, HolderAt, SlotKinds
<1>4. Holder = h
  BY <1>3, HolderFunction
<1> QED BY <1>4 DEF Init, RC!Init
-----------------------------------------------------------------------------
\* With directory operations in every file system, vfs.c implements a reference
\* count: for any number of tasks, mounts, names and descriptors, every step of
\* every call takes, hands on or gives back exactly one reference or none, on
\* error paths and across forced unmounts too.
THEOREM CountsRefine ==
  ASSUME DirFs = MountPts
  PROVE  Spec => MountsCounted
<1>1. IInv /\ [Next]_vars => [RC!Next]_(RC!refVars)
  BY CountsStep DEF Leaks
<1> QED BY <1>1, CountsInit, Invariance, PTL DEF Spec, MountsCounted, RC!Spec

RCP == INSTANCE RefCount_proofs WITH Objects <- MountPts, count <- open_files, holder <- Holder

LEMMA SlotsFinite == IsFiniteSet(Slots)
<1>1. IsFiniteSet(Fds)
  BY VfsAssumption, FS_Interval DEF Fds
<1>2. IsFiniteSet({"fd"} \X Fds)
  BY <1>1, FS_Singleton, FS_Product
<1>3. IsFiniteSet({"dir", "call", "call2"})
  <2>1. IsFiniteSet({"dir"}) /\ IsFiniteSet({"call"}) /\ IsFiniteSet({"call2"})
    BY FS_Singleton
  <2>2. IsFiniteSet({"dir"} \cup {"call"})
    BY <2>1, FS_Union
  <2>3. IsFiniteSet(({"dir"} \cup {"call"}) \cup {"call2"})
    BY <2>1, <2>2, FS_Union
  <2>4. ({"dir"} \cup {"call"}) \cup {"call2"} = {"dir", "call", "call2"}
    OBVIOUS
  <2> QED BY <2>3, <2>4
<1>4. IsFiniteSet({"dir", "call", "call2"} \X Users)
  BY <1>3, VfsAssumption, FS_Product
<1> QED BY <1>2, <1>4, FS_Union DEF Slots

LEMMA HolderType == IInv => RCP!TypeOK
<1> SUFFICES ASSUME IInv PROVE RCP!TypeOK
  OBVIOUS
<1>1. \A f \in Fds : FdRef(f) \in MpOrNull
  BY DEF IInv, TypeOK, FdRef, MpOrNull
<1>2. \A u \in Users : DirRef(u) \in MpOrNull /\ CallRef(u) \in MpOrNull /\ Call2Ref(u) \in MpOrNull
  BY DEF IInv, TypeOK, DirRef, CallRef, Call2Ref, CallRecord, MpOrNull
<1>3. \A s \in Slots : Holder[s] \in MpOrNull
  BY <1>1, <1>2, HolderAt, SlotKinds
<1> QED BY <1>3, HolderFunction DEF RCP!TypeOK, IInv, TypeOK, MpOrNull

\* The count of a mount moves with its holders, or a holder is forgotten.
LEMMA RefsStep ==
  ASSUME RCP!Provided, IInv, RefsCounted, [Next]_vars
  PROVE  RefsCounted'
<1>. DEFINE Refs(m) == Cardinality(RC!HeldBy(m))
<1>0. RCP!TypeOK /\ IInv'
  BY HolderType, InvStep
<1>1. \A m \in MountPts : open_files[m] \in Int /\ open_files'[m] \in Int
  BY <1>0 DEF IInv, TypeOK
<1>2. \A m \in MountPts : Refs(m) \in Nat /\ Refs(m)' \in Nat
  <2>1. \A m \in MountPts : IsFiniteSet(RC!HeldBy(m)) /\ IsFiniteSet(RC!HeldBy(m)')
    BY SlotsFinite, FS_Subset DEF RC!HeldBy
  <2>2. \A m \in MountPts : Cardinality(RC!HeldBy(m)') \in Nat
    BY <2>1, FS_CardinalityType
  <2> QED BY <2>1, <2>2, FS_CardinalityType
<1>3. CASE [RC!Next]_(RC!refVars)
  <2>1. [RCP!Next]_(RCP!refVars)
    BY <1>3 DEF RC!Next, RCP!Next, RC!refVars, RCP!refVars, RC!Acquire, RCP!Acquire,
                RC!Release, RCP!Release, RC!Transfer, RCP!Transfer
  <2>2. \A m \in MountPts : open_files'[m] - Refs(m)' = open_files[m] - Refs(m)
    BY <1>0, <2>1, RCP!CountsMove DEF RC!HeldBy, RCP!HeldBy,
       Cardinality, RCP!Cardinality, IsFiniteSet, RCP!IsFiniteSet
  <2>3. ASSUME NEW m \in MountPts
        PROVE  IF m \in DirFs THEN open_files'[m] = Refs(m)' ELSE open_files'[m] >= Refs(m)'
    <3>1. IF m \in DirFs THEN open_files[m] = Refs(m) ELSE open_files[m] >= Refs(m)
      BY DEF RefsCounted
    <3>2. open_files[m] \in Int /\ open_files'[m] \in Int /\ Refs(m) \in Nat /\ Refs(m)' \in Nat
      BY <1>1, <1>2
    <3>3. open_files'[m] - Refs(m)' = open_files[m] - Refs(m)
      BY <2>2
    <3>. HIDE DEF Refs
    <3> QED BY <3>1, <3>2, <3>3
  <2> QED BY <2>3 DEF RefsCounted
<1>4. ASSUME NEW t \in Users, Leaks(t)
      PROVE  RefsCounted'
  <2>1. PICK o \in MountPts \ DirFs : Holder[<<"call", t>>] = o
    BY <1>4 DEF Leaks
  <2>2. /\ Cardinality(RC!HeldBy(o))' = Cardinality(RC!HeldBy(o)) - 1
        /\ \A m \in MountPts \ {o} : RC!HeldBy(m)' = RC!HeldBy(m)
    BY <1>0, <1>4, <2>1, HolderAt, RCP!RemoveSlot DEF Leaks, RC!HeldBy, RCP!HeldBy,
       Cardinality, RCP!Cardinality, IsFiniteSet, RCP!IsFiniteSet
  <2>3. \A m \in MountPts : Refs(m)' <= Refs(m) /\ (m \in DirFs => Refs(m)' = Refs(m))
    BY <1>2, <2>1, <2>2
  <2>4. UNCHANGED open_files
    BY <1>4 DEF Leaks
  <2>. HIDE DEF Refs
  <2> QED BY <1>1, <1>2, <2>3, <2>4 DEF RefsCounted, Refs
<1> QED BY <1>3, <1>4, CountsStep

\* open_files is, at every moment, the number of open files and directories and
\* of calls in progress on the mount: what an unforced vfs_umount relies on.  On a
\* file system without directory operations it is never less.
THEOREM CountsExact == Spec => []RefsCounted
<1>1. RCP!Provided
  BY SlotsFinite, ListAssumptions DEF RCP!Provided, IsFiniteSet, RCP!IsFiniteSet
<1>2. Init => RefsCounted
  <2> SUFFICES ASSUME Init PROVE RefsCounted
    OBVIOUS
  <2>1. RC!Init
    BY CountsInit
  <2>2. \A m \in MountPts : RC!HeldBy(m) = {}
    BY <2>1, ListAssumptions DEF RC!Init, RC!HeldBy
  <2> QED BY <2>1, <2>2, FS_EmptySet DEF RC!Init, RefsCounted
<1>3. IInv /\ RefsCounted /\ [Next]_vars => RefsCounted'
  BY <1>1, RefsStep
<1> QED BY <1>2, <1>3, Invariance, PTL DEF Spec
=============================================================================
