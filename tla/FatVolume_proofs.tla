-------------------------- MODULE FatVolume_proofs --------------------------
(***************************************************************************)
(* What FatVolume keeps for any number of tasks, objects, entries of the   *)
(* share table and mounts: the types, the two mutexes, and the share table *)
(* with what it is there for.  Each invariant is inductive on its own,     *)
(* given the ones before it; ShareInv strengthens Shares and OpenKept.     *)
(***************************************************************************)
EXTENDS FatVolume, FiniteSetTheorems, TLAPS

\* Which calls a step may find a task in, and what they work on.
CallOK == \A t \in Tasks :
  /\ pc[t] = "idle" => call[t].op = "none"
  /\ pc[t] = "idle" \/ registered
  /\ call[t].op \in {"use", "close", "close_file", "close_dir"} =>
       t \in Users /\ Valid(handle[t])
  /\ call[t].op \in {"open", "opendir"} => t \in Users /\ handle[t] = Closed

\* Open objects are younger than the mount, and only the root has no entry.
HandleOK == \A t \in Users : handle[t] # Closed =>
  /\ handle[t].id <= Fsid
  /\ handle[t].slot = 0 <=> handle[t].obj = Root
  /\ handle[t].acc = 1 => handle[t].obj \in Files

\* An entry for a reader counts readers; the files in the table exist.
EntryOK(i) ==
  /\ Cardinality(Openers(i)) + lost[i] = IF share[i].ctr = Writing THEN 1 ELSE share[i].ctr
  /\ share[i].obj = Blank <=> share[i].ctr = 0
  /\ share[i].ctr <= Writing
  /\ share[i].obj \in Files => share[i].obj \in objs
  /\ \A t \in Openers(i) : /\ handle[t].obj = share[i].obj
                           /\ handle[t].acc = 1 <=> share[i].ctr = Writing
  /\ share[i].ctr = Writing => share[i].obj \in Files /\ \A t, u \in Openers(i) : t = u

Unique == \A i, j \in Entries : share[i].obj = share[j].obj => i = j \/ share[i].obj = Blank

FreeOK == \A i \in Entries : share[i].obj = Blank => share[i] = Free

ShareInv == torn = "no" =>
  /\ fs.id <= Fsid /\ (fs.type => registered)
  /\ CallOK /\ HandleOK /\ Unique /\ FreeOK
  /\ \A i \in Entries : EntryOK(i)

LockInv == Locked /\ \A t \in Tasks : pc[t] \in {"sys", "give"} => sys = Nobody
-----------------------------------------------------------------------------
LEMMA SlotType == ASSUME NEW o PROVE Slot(o) \in 0..FF_FS_LOCK
<1> Entry(o) \subseteq Entries /\ Entry(Blank) \subseteq Entries
  BY DEF Entry
<1>1. CASE Entry(o) # {}
  BY <1>1, VolumeAssumption DEF Slot, Entries
<1>2. CASE Entry(o) = {} /\ enq_share
  BY <1>2, VolumeAssumption DEF Slot, Entries, enq_share
<1>3. CASE Entry(o) = {} /\ ~enq_share
  BY <1>3, VolumeAssumption DEF Slot
<1> QED BY <1>1, <1>2, <1>3

\* The values that steps write have their types.
LEMMA Values ==
  /\ Free \in ShareEntries /\ clear_share \in [Entries -> ShareEntries]
  /\ Closed \notin Handles
  /\ \A op \in {"none", "mount", "use", "close", "close_file", "close_dir", "done"} :
       [NoCall EXCEPT !.op = op] \in Calls
  /\ NoCall \in Calls
BY VolumeAssumption DEF Free, ShareEntries, clear_share, Closed, Handles, NoCall, Calls,
                        PathOps, Objects

LEMMA IncType ==
  ASSUME share \in [Entries -> ShareEntries], NEW o \in Objects, NEW acc \in 0..1
  PROVE  inc_share(o, acc) \in [Entries -> ShareEntries]
<1> DEFINE e(i) == [obj |-> o, ctr |-> IF acc > 0 THEN Writing
                                       ELSE IF share[i].obj = o THEN share[i].ctr + 1 ELSE 1]
<1>1. ASSUME NEW i \in Entries PROVE e(i) \in ShareEntries
  BY DEF ShareEntries, Writing
<1>2. inc_share(o, acc) = [share EXCEPT ![Slot(o)] = e(Slot(o))]
  <2>1. CASE Slot(o) \in Entries
    BY <2>1 DEF inc_share
  <2>2. CASE Slot(o) \notin Entries
    BY <2>2 DEF inc_share
  <2> QED BY <2>1, <2>2
<1> HIDE DEF e
<1> QED BY <1>1, <1>2

LEMMA DecType ==
  ASSUME share \in [Entries -> ShareEntries], NEW i
  PROVE  dec_share(i) \in [Entries -> ShareEntries]
<1>1. CASE i \in Entries
  <2>1. share[i].ctr \in Nat /\ share[i].obj \in Objects \cup {Blank}
    BY <1>1 DEF ShareEntries
  <2>2. \A n \in Nat : [share[i] EXCEPT !.ctr = n] \in ShareEntries
    BY <1>1 DEF ShareEntries
  <2>3. \A n \in Nat : (IF n = 0 THEN Free ELSE [share[i] EXCEPT !.ctr = n]) \in ShareEntries
    BY <2>2, Values
  <2>4. (IF share[i].ctr \in {0, Writing} THEN 0 ELSE share[i].ctr - 1) \in Nat
    BY <2>1
  <2> QED BY <1>1, <2>3, <2>4 DEF dec_share
<1>2. CASE i \notin Entries
  BY <1>2 DEF dec_share
<1> QED BY <1>1, <1>2

LEMMA AbandonType ==
  ASSUME NEW t, Abandon(t), lost \in [Entries -> Nat], handle \in [Users -> Handles \cup {Closed}]
  PROVE  lost' \in [Entries -> Nat] /\ handle' \in [Users -> Handles \cup {Closed}]
BY DEF Abandon

LEMMA CallType ==
  ASSUME NEW t, call \in [Tasks -> Calls],
         pc \in [Tasks -> {"idle", "vol", "sys", "work", "leave", "give"}]
  PROVE  /\ Finish(t) \/ Return(t) => /\ call' \in [Tasks -> Calls]
                                      /\ pc' \in [Tasks -> {"idle", "vol", "sys", "work", "leave", "give"}]
         /\ \A op \in {"none", "mount", "use", "close", "close_file", "close_dir", "done"} :
              [call EXCEPT ![t] = [NoCall EXCEPT !.op = op]] \in [Tasks -> Calls]
BY Values DEF Finish, Return

\* Every variable keeps its type.
THEOREM TypeCorrect == Spec => []TypeOK
<1> USE VolumeAssumption
<1>1. Init => TypeOK
  <2> SUFFICES ASSUME Init PROVE TypeOK
    OBVIOUS
  <2>1. /\ share \in [Entries -> ShareEntries] /\ lost \in [Entries -> Nat] /\ objs \subseteq Objects
        /\ call \in [Tasks -> Calls]
        /\ fs \in [type : BOOLEAN, id : 0..MaxMounts]
    BY Values DEF Init
  <2>2. handle \in [Users -> Handles \cup {Closed}]
        /\ pc \in [Tasks -> {"idle", "vol", "sys", "work", "leave", "give"}]
    BY DEF Init
  <2>3. Fsid \in 0..MaxMounts /\ SysLock \in 0..2
    BY DEF Init
  <2> QED BY <2>1, <2>2, <2>3 DEF Init, TypeOK
<1>2. TypeOK /\ [Next]_vars => TypeOK'
  <2> SUFFICES ASSUME TypeOK, [Next]_vars PROVE TypeOK'
    OBVIOUS
  <2>1. ASSUME NEW t \in Users, PathCall(t) PROVE TypeOK'
    <3> PICK op \in {"open", "opendir", "unlink"}, o \in Objects \cup {Root}, acc \in 0..2 :
          BeginPath(t, op, o, acc) /\ [op |-> op, obj |-> o, acc |-> acc] \in Calls
      BY <2>1 DEF PathCall, Objects, Calls
    <3>1. [op |-> op, obj |-> o, acc |-> acc] \in Calls
      OBVIOUS
    <3> QED BY <3>1 DEF TypeOK, BeginPath, access, locks, table
  <2>2. ASSUME NEW t \in Users, HandleCall(t) PROVE TypeOK'
    <3> PICK op \in {"use", "close", "close_dir"} :
          /\ IF Valid(handle[t])
             THEN /\ pc' = [pc EXCEPT ![t] = "vol"]
                  /\ call' = [call EXCEPT ![t] = [NoCall EXCEPT !.op = op]]
                  /\ UNCHANGED handle
             ELSE /\ handle' = IF op = "use" THEN handle ELSE [handle EXCEPT ![t] = Closed]
                  /\ UNCHANGED <<pc, call>>
          /\ UNCHANGED <<access, locks, table, attached, torn>>
      BY <2>2 DEF HandleCall
    <3> QED BY Values DEF TypeOK, access, locks, table
  <2>3. ASSUME NEW t \in Tasks, LockVolume(t) PROVE TypeOK'
    BY <2>3 DEF TypeOK, LockVolume, access, table
  <2>4. ASSUME NEW t \in Tasks, LockSystem(t) PROVE TypeOK'
    BY <2>4 DEF TypeOK, LockSystem, access, table
  <2>5. ASSUME NEW t \in Tasks, LockTimeout(t) PROVE TypeOK'
    BY <2>5, AbandonType, CallType DEF TypeOK, LockTimeout, access
  <2>6. ASSUME NEW t \in Tasks, MountVolume(t) PROVE TypeOK'
    <3>1. fs' \in [type : BOOLEAN, id : 0..MaxMounts] /\ Fsid' \in 0..MaxMounts
          /\ share' \in [Entries -> ShareEntries] /\ lost' \in [Entries -> Nat]
          /\ attached' \in BOOLEAN
      <4>1. CASE Fsid < MaxMounts /\ Fsid' = Fsid + 1 /\ fs' = [type |-> TRUE, id |-> Fsid']
                 /\ share' = clear_share /\ lost' = [i \in Entries |-> 0]
                 /\ (attached' = TRUE \/ UNCHANGED attached)
        <5>1. Fsid + 1 \in 0..MaxMounts
          BY <4>1 DEF TypeOK
        <5> QED BY <4>1, <5>1, Values DEF TypeOK
      <4>2. CASE UNCHANGED <<Fsid, fs, share, lost, attached>>
        BY <4>2 DEF TypeOK
      <4> QED BY <2>6, <4>1, <4>2 DEF MountVolume
    <3>2. pc' \in [Tasks -> {"idle", "vol", "sys", "work", "leave", "give"}]
          /\ call' \in [Tasks -> Calls]
      BY <2>6, CallType DEF TypeOK, MountVolume
    <3> QED BY <2>6, <3>1, <3>2 DEF TypeOK, MountVolume, locks
  <2>7. ASSUME NEW t \in Tasks, Work(t) PROVE TypeOK'
    <3> USE DEF TypeOK, access, locks
    <3>1. /\ pc' \in [Tasks -> {"idle", "vol", "sys", "work", "leave", "give"}]
          /\ call' \in [Tasks -> Calls]
          /\ UNCHANGED <<access, locks, attached, torn>>
      BY <2>7, CallType DEF Work
    <3> SUFFICES /\ share' \in [Entries -> ShareEntries] /\ objs' \subseteq Objects
                 /\ lost' = lost /\ handle' \in [Users -> Handles \cup {Closed}]
      BY <3>1
    <3>2. CASE f_open(t)
      <4>0. call[t].obj \in Files /\ call[t].acc \in 0..1
        BY <3>2 DEF f_open, Calls
      <4>1. [obj |-> call[t].obj, slot |-> Slot(call[t].obj), id |-> fs.id,
             acc |-> call[t].acc] \in Handles
        BY <4>0, SlotType DEF Handles, Objects
      <4> QED BY <3>2, <4>0, <4>1, IncType DEF f_open, Objects
    <3>3. CASE f_opendir(t)
      <4>0. call[t].obj \in Dirs \cup {Root}
        BY <3>3 DEF f_opendir, Calls
      <4>1. [obj |-> call[t].obj, slot |-> IF call[t].obj = Root THEN 0 ELSE Slot(call[t].obj),
             id |-> fs.id, acc |-> 0] \in Handles
        BY <4>0, SlotType DEF Handles, Objects
      <4>2. share' \in [Entries -> ShareEntries]
        <5>1. CASE call[t].obj = Root
          BY <3>3, <5>1 DEF f_opendir
        <5>2. CASE call[t].obj # Root
          BY <3>3, <4>0, <5>2, IncType DEF f_opendir, Objects
        <5> QED BY <5>1, <5>2
      <4> QED BY <3>3, <4>1, <4>2 DEF f_opendir
    <3>4. CASE f_unlink(t)
      BY <3>4 DEF f_unlink
    <3>5. CASE f_close(t)
      BY <3>5, DecType DEF f_close
    <3>6. CASE Use(t)
      BY <3>6 DEF Use, table
    <3> QED BY <2>7, <3>2, <3>3, <3>4, <3>5, <3>6 DEF Work
  <2>8. ASSUME NEW t \in Tasks, Synced(t) PROVE TypeOK'
    <3>1. [call[t] EXCEPT !.op = "close_file"] \in Calls
      BY <2>8 DEF TypeOK, Synced, Calls
    <3> QED BY <2>8, <3>1 DEF TypeOK, Synced, access, locks, table
  <2>9. ASSUME NEW t \in Tasks, Fail(t) PROVE TypeOK'
    <3>1. objs' \subseteq Objects
      BY <2>9 DEF TypeOK, Fail, Calls, Objects
    <3>2. /\ lost' \in [Entries -> Nat] /\ handle' \in [Users -> Handles \cup {Closed}]
          /\ pc' \in [Tasks -> {"idle", "vol", "sys", "work", "leave", "give"}]
          /\ call' \in [Tasks -> Calls]
      BY <2>9, AbandonType, CallType DEF TypeOK, Fail
    <3> QED BY <2>9, <3>1, <3>2 DEF TypeOK, Fail, access, locks
  <2>10. ASSUME NEW t \in Tasks, Attach(t) PROVE TypeOK'
    BY <2>10, CallType DEF TypeOK, Attach, access, locks, table
  <2>11. ASSUME NEW t \in Tasks, Leave(t) PROVE TypeOK'
    BY <2>11 DEF TypeOK, Leave, access, table
  <2>12. ASSUME NEW t \in Tasks, Give(t) PROVE TypeOK'
    <3>1. pc' \in [Tasks -> {"idle", "vol", "sys", "work", "leave", "give"}]
          /\ call' \in [Tasks -> Calls]
      BY <2>12, CallType DEF TypeOK, Give
    <3> QED BY <2>12, <3>1 DEF TypeOK, Give, access, table
  <2>13. ASSUME Unregister
         PROVE  /\ share' \in [Entries -> ShareEntries] /\ lost' \in [Entries -> Nat]
                /\ fs' \in [type : BOOLEAN, id : 0..MaxMounts]
                /\ torn' \in {"no", "call", "holder"}
    BY <2>13, Values DEF TypeOK, Unregister, Overlap
  <2>14. CASE f_mount
    <3>1. pc' \in [Tasks -> {"idle", "vol", "sys", "work", "leave", "give"}]
          /\ call' \in [Tasks -> Calls]
      BY <2>14, CallType DEF TypeOK, f_mount, Tasks
    <3>2. SysLock \in 0..2
      BY DEF TypeOK
    <3>3. registered' \in BOOLEAN /\ SysLock' \in 0..2
      <4>1. SysLock' = (IF SysLock = 0 THEN 1 ELSE SysLock) => SysLock' \in 0..2
        BY <3>2
      <4>2. SysLock' = SysLock => SysLock' \in 0..2
        BY <3>2
      <4> QED BY <2>14, <4>1, <4>2, Zenon DEF f_mount
    <3> QED BY <2>13, <2>14, <3>1, <3>3 DEF TypeOK, f_mount
  <2>15. CASE f_unmount
    BY <2>13, <2>15 DEF TypeOK, f_unmount, locks
  <2>16. CASE UNCHANGED vars
    BY <2>16 DEF TypeOK, vars, access, locks, table
  <2> QED BY <2>1, <2>2, <2>3, <2>4, <2>5, <2>6, <2>7, <2>8, <2>9, <2>10, <2>11, <2>12,
            <2>14, <2>15, <2>16 DEF Next, Step, Tasks
<1> QED BY <1>1, <1>2, PTL DEF Spec
-----------------------------------------------------------------------------
\* The two mutexes: every path of a call takes and gives them in pairs.
THEOREM LocksRight == Spec => []Locked
<1> USE VolumeAssumption
<1>1. Init => LockInv
  BY DEF Init, LockInv, Locked, Tasks
<1>2. TypeOK /\ LockInv /\ [Next]_vars => LockInv'
  <2> SUFFICES ASSUME TypeOK, LockInv, [Next]_vars PROVE LockInv'
    OBVIOUS
  <2> USE DEF LockInv, Locked
  <2>1. pc \in [Tasks -> {"idle", "vol", "sys", "work", "leave", "give"}] /\ Nobody \notin Tasks
    BY DEF TypeOK, Tasks
  <2>2. ASSUME UNCHANGED <<registered, locks>>, NEW t \in Tasks, NEW p,
               pc' = [pc EXCEPT ![t] = p],
               pc[t] = p \/ (pc[t] = "idle" /\ p = "vol") \/ (pc[t] = "vol" /\ p = "idle")
                 \/ (pc[t] = "work" /\ p = "leave")
        PROVE  LockInv'
    BY <2>1, <2>2 DEF locks
  <2>3. ASSUME NEW t \in Users, PathCall(t) \/ HandleCall(t) PROVE LockInv'
    <3>1. t \in Tasks /\ UNCHANGED <<registered, locks>>
      BY <2>3 DEF PathCall, BeginPath, HandleCall, Tasks, access
    <3>2. (pc' = [pc EXCEPT ![t] = "vol"] /\ pc[t] = "idle") \/ pc' = [pc EXCEPT ![t] = pc[t]]
      BY <2>1, <2>3 DEF PathCall, BeginPath, HandleCall, Inside
    <3> QED BY <2>2, <3>1, <3>2
  <2>4. ASSUME NEW t \in Tasks, LockVolume(t) PROVE LockInv'
    BY <2>1, <2>4 DEF LockVolume, access
  <2>5. ASSUME NEW t \in Tasks, LockSystem(t) PROVE LockInv'
    BY <2>1, <2>5 DEF LockSystem, access
  <2>6. ASSUME NEW t \in Tasks, LockTimeout(t) PROVE LockInv'
    <3>1. pc[t] = "vol" /\ UNCHANGED <<registered, locks>> /\ pc' = [pc EXCEPT ![t] = "idle"]
      BY <2>1, <2>6 DEF LockTimeout, Return, access, locks
    <3> QED BY <2>2, <3>1
  <2>7. ASSUME NEW t \in Tasks, MountVolume(t) \/ Work(t) \/ Synced(t) \/ Fail(t) \/ Attach(t)
        PROVE  LockInv'
    <3>1. UNCHANGED <<registered, locks>>
      BY <2>7 DEF MountVolume, Work, Synced, Fail, Attach, access
    <3>2. pc[t] = "work" /\ (pc' = [pc EXCEPT ![t] = "leave"] \/ pc' = [pc EXCEPT ![t] = pc[t]])
      BY <2>1, <2>7 DEF MountVolume, Work, Synced, Fail, Attach, Finish
    <3> QED BY <2>2, <3>1, <3>2
  <2>8. ASSUME NEW t \in Tasks, Leave(t) PROVE LockInv'
    BY <2>1, <2>8 DEF Leave, access, TypeOK
  <2>9. ASSUME NEW t \in Tasks, Give(t) PROVE LockInv'
    BY <2>1, <2>9 DEF Give, Return, access
  <2>10. CASE f_mount
    <3>1. CASE registered' = TRUE
      BY <2>1, <2>10, <3>1 DEF f_mount, Inside, Tasks, TypeOK
    <3>2. CASE registered' = FALSE /\ UNCHANGED <<SysLock, pc, call>>
      BY <2>1, <2>10, <3>2 DEF f_mount
    <3> QED BY <2>10, <3>1, <3>2 DEF f_mount
  <2>11. CASE f_unmount
    BY <2>1, <2>11 DEF f_unmount, locks
  <2>12. CASE UNCHANGED vars
    BY <2>12 DEF vars, access, locks
  <2> QED BY <2>3, <2>4, <2>5, <2>6, <2>7, <2>8, <2>9, <2>10, <2>11, <2>12 DEF Next, Step
<1>3. LockInv => Locked
  BY DEF LockInv
<1> QED BY <1>1, <1>2, <1>3, TypeCorrect, PTL DEF Spec
-----------------------------------------------------------------------------
(* The share table.                                                        *)

LEMMA OpenersFinite == ASSUME NEW i PROVE IsFiniteSet(Openers(i)) /\ Cardinality(Openers(i)) \in Nat
<1>1. Openers(i) \subseteq Users
  BY DEF Openers
<1> QED BY <1>1, VolumeAssumption, FS_Subset, FS_CardinalityType

\* The entry that an open uses.
LEMMA SlotOf ==
  ASSUME Unique, NEW o \in Objects, Slot(o) # 0
  PROVE  /\ Slot(o) \in Entries
         /\ Entry(o) # {} => share[Slot(o)].obj = o
         /\ Entry(o) = {} => share[Slot(o)].obj = Blank
         /\ \A j \in Entries : share[j].obj = o => j = Slot(o)
<1> USE VolumeAssumption DEF Objects
<1>1. CASE Entry(o) # {}
  <2>1. Slot(o) \in Entry(o)
    BY <1>1 DEF Slot
  <2> QED BY <1>1, <2>1 DEF Entry, Unique
<1>2. CASE Entry(o) = {}
  <2>1. Slot(o) \in Entry(Blank)
    BY <1>2 DEF Slot, enq_share
  <2> QED BY <1>2, <2>1 DEF Entry
<1> QED BY <1>1, <1>2

\* Taking an entry for an object that has just been opened.
LEMMA OpenCounts ==
  ASSUME TypeOK, Unique, FreeOK, \A i \in Entries : EntryOK(i),
         NEW t \in Users, handle[t] = Closed, fs.type,
         NEW o \in Objects, NEW acc \in 0..1, Slot(o) # 0, Countable(o),
         acc = 1 => Entry(o) = {} /\ o \in Files,
         \A i \in Entry(o) : share[i].ctr # Writing,
         share' = inc_share(o, acc), lost' = lost, fs' = fs,
         handle' = [handle EXCEPT ![t] =
                      [obj |-> o, slot |-> Slot(o), id |-> fs.id, acc |-> acc]],
         objs \subseteq objs', o \in Files => o \in objs'
  PROVE  Unique' /\ FreeOK' /\ \A i \in Entries : EntryOK(i)'
<1> USE VolumeAssumption
<1> PICK s : s = Slot(o)
  OBVIOUS
<1> PICK h : h = [obj |-> o, slot |-> s, id |-> fs.id, acc |-> acc]
  OBVIOUS
<1> DEFINE e == [obj |-> o, ctr |-> IF acc > 0 THEN Writing
                                    ELSE IF share[s].obj = o THEN share[s].ctr + 1 ELSE 1]
<1>1. /\ s \in Entries /\ s \in 1..FF_FS_LOCK
      /\ Entry(o) # {} => share[s].obj = o
      /\ Entry(o) = {} => share[s].obj = Blank
      /\ \A j \in Entries : share[j].obj = o => j = s
      /\ Blank \notin Objects
  BY SlotOf DEF Entries, Objects
<1>2. share' = [share EXCEPT ![s] = e]
  BY <1>1 DEF inc_share, TypeOK
<1>3. /\ share[s].ctr \in Nat /\ share[s].obj = o => share[s].ctr < MaxOpens /\ share[s].ctr # Writing
      /\ share[s].obj # o => share[s] = Free
      /\ share[s].ctr \in Nat
  BY <1>1 DEF Countable, Entry, FreeOK, TypeOK, ShareEntries
<1>4. handle' = [handle EXCEPT ![t] = h] /\ handle[t] = Closed /\ t \notin Openers(s)
  BY DEF Openers, Valid
<1>5. h # Closed /\ h.slot = s /\ h.id = fs.id
  BY <1>1 DEF Closed
<1>6. /\ Openers(s)' = Openers(s) \cup {t}
      /\ \A i \in Entries \ {s} : Openers(i)' = Openers(i)
  <2>0. handle \in [Users -> Handles \cup {Closed}]
    BY DEF TypeOK
  <2>1. \A u \in Users \ {t} : handle'[u] = handle[u] /\ (Valid(handle[u])' <=> Valid(handle[u]))
    BY <1>4, <2>0 DEF Valid
  <2>2. handle'[t] = h /\ ~Valid(handle[t]) /\ Valid(handle[t])'
    BY <1>4, <1>5, <2>0 DEF Valid
  <2> QED BY <1>5, <2>1, <2>2 DEF Openers
<1>7. Unique'
  <2>1. \A i \in Entries \ {s} : share'[i] = share[i]
    BY <1>2 DEF TypeOK
  <2>2. share'[s].obj = o
    BY <1>1, <1>2 DEF TypeOK
  <2> QED BY <1>1, <2>1, <2>2 DEF Unique, Objects
<1>8. FreeOK'
  BY <1>1, <1>2 DEF FreeOK, TypeOK
<1>9. ASSUME NEW i \in Entries \ {s} PROVE EntryOK(i)'
  <2>1. share'[i] = share[i] /\ Openers(i)' = Openers(i) /\ lost'[i] = lost[i] /\ t \notin Openers(i)
    BY <1>2, <1>6 DEF TypeOK, Openers, Valid
  <2>2. \A u \in Openers(i) : handle'[u] = handle[u]
    BY <1>4, <2>1 DEF TypeOK, Openers
  <2> QED BY <2>1, <2>2 DEF EntryOK
<1>10. EntryOK(s)'
  <2>1. Cardinality(Openers(s)') = Cardinality(Openers(s)) + 1
    BY <1>4, <1>6, OpenersFinite, FS_AddElement
  <2>2. Cardinality(Openers(s)) \in Nat /\ lost[s] \in Nat /\ lost'[s] = lost[s]
    BY <1>1, OpenersFinite DEF TypeOK
  <2>3. share'[s] = e
    BY <1>1, <1>2 DEF TypeOK
  <2>4. EntryOK(s)
    BY <1>1
  <2>5. CASE share[s].obj = o
    <3>1. acc = 0 /\ share'[s].ctr = share[s].ctr + 1 /\ share'[s].ctr # Writing /\ share[s].ctr # Writing
      BY <1>1, <1>3, <2>3, <2>5 DEF Entry, Writing
    <3>2. Cardinality(Openers(s)') + lost'[s] = share'[s].ctr /\ share'[s].ctr # 0
      BY <1>3, <2>1, <2>2, <2>4, <3>1 DEF EntryOK
    <3>3. \A u \in Openers(s) : handle'[u] = handle[u]
      BY <1>4 DEF TypeOK, Openers
    <3>4. handle'[t] = h /\ share'[s].obj = o
      BY <1>4, <2>3 DEF TypeOK
    <3>5. \A u \in Openers(s)' : handle'[u].obj = o /\ handle'[u].acc # 1
      BY <1>6, <2>4, <2>5, <3>1, <3>3, <3>4 DEF EntryOK
    <3>6. o \in Files => o \in objs'
      OBVIOUS
    <3>7. share'[s].ctr <= Writing
      BY <1>1, <1>3, <2>5, <3>1 DEF Entry, Writing
    <3> QED BY <1>1, <3>1, <3>2, <3>4, <3>5, <3>6, <3>7 DEF EntryOK, Objects
  <2>6. CASE share[s].obj # o
    <3>1. share[s].ctr = 0 /\ share'[s].ctr = (IF acc = 1 THEN Writing ELSE 1) /\ share'[s].obj = o
      BY <1>3, <2>3, <2>6 DEF Free
    <3>2. Cardinality(Openers(s)) = 0 /\ lost[s] = 0
      BY <2>2, <2>4, <3>1 DEF EntryOK, Writing
    <3>3. Openers(s) = {}
      BY <3>2, OpenersFinite, FS_EmptySet
    <3>4. Openers(s)' = {t} /\ Cardinality(Openers(s)') + lost'[s] = 1
      BY <1>6, <2>1, <2>2, <3>2, <3>3
    <3>5. handle'[t].obj = o /\ handle'[t].acc = acc
      BY <1>4 DEF TypeOK
    <3>6. share'[s].ctr = Writing <=> acc = 1
      BY <3>1 DEF Writing
    <3>7. share'[s].ctr # 0 /\ (IF share'[s].ctr = Writing THEN 1 ELSE share'[s].ctr) = 1
      BY <3>1 DEF Writing
    <3>8. share'[s].ctr <= Writing
      BY <3>1 DEF Writing
    <3> QED BY <1>1, <3>1, <3>4, <3>5, <3>6, <3>7, <3>8 DEF EntryOK
  <2> QED BY <2>5, <2>6
<1> QED BY <1>7, <1>8, <1>9, <1>10

\* Giving back the entry of an object that is closed.
LEMMA CloseCounts ==
  ASSUME TypeOK, Unique, FreeOK, \A i \in Entries : EntryOK(i),
         NEW t \in Users, Valid(handle[t]), handle[t].slot # 0,
         share' = dec_share(handle[t].slot), lost' = lost, fs' = fs, objs' = objs,
         handle' = [handle EXCEPT ![t] = Closed]
  PROVE  Unique' /\ FreeOK' /\ \A i \in Entries : EntryOK(i)'
<1> USE VolumeAssumption
<1> PICK s : s = handle[t].slot
  OBVIOUS
<1>1. s \in Entries /\ t \in Openers(s)
  BY DEF TypeOK, Handles, Openers, Valid, Closed, Entries
<1>2. /\ \A i \in Entries \ {s} : Openers(i)' = Openers(i)
      /\ Openers(s)' = Openers(s) \ {t}
  <2>1. \A u \in Users \ {t} : handle'[u] = handle[u] /\ (Valid(handle[u])' <=> Valid(handle[u]))
    BY DEF TypeOK, Valid
  <2>2. ~Valid(handle[t])'
    BY DEF TypeOK, Valid
  <2> QED BY <2>1, <2>2 DEF Openers
<1>3. /\ EntryOK(s) /\ share[s].ctr \in Nat /\ lost[s] \in Nat /\ share[s] \in ShareEntries
      /\ Cardinality(Openers(s)) \in Nat /\ Cardinality(Openers(s)') = Cardinality(Openers(s)) - 1
  <2>1. EntryOK(s) /\ share[s].ctr \in Nat /\ lost[s] \in Nat /\ share[s] \in ShareEntries
    BY <1>1 DEF TypeOK, ShareEntries
  <2>2. Cardinality(Openers(s)') = Cardinality(Openers(s)) - 1
    <3>1. IsFiniteSet(Openers(s)) /\ t \in Openers(s)
      BY <1>1, OpenersFinite
    <3>2. Cardinality(Openers(s) \ {t}) = Cardinality(Openers(s)) - 1
      BY <3>1, FS_RemoveElement
    <3> QED BY <1>2, <3>2
  <2> QED BY <2>1, <2>2, OpenersFinite
<1>4. Cardinality(Openers(s)') \in Nat
  <2>1. IsFiniteSet(Openers(s)')
    BY <1>2, OpenersFinite, FS_Subset
  <2> QED BY <2>1, FS_CardinalityType
<1>5. share' = [share EXCEPT ![s] = share'[s]] /\ DOMAIN share = Entries
      /\ \A i \in Entries \ {s} : share'[i] = share[i]
  BY <1>1 DEF dec_share, TypeOK
<1>6. \/ share'[s] = Free /\ Cardinality(Openers(s)') + lost[s] = 0
      \/ /\ share[s].ctr # Writing /\ share[s].ctr # 1
         /\ share'[s] = [share[s] EXCEPT !.ctr = @ - 1]
         /\ Cardinality(Openers(s)') + lost[s] = share[s].ctr - 1
  <2>1. CASE share[s].ctr = Writing
    <3>1. share'[s] = Free
      BY <1>1, <2>1 DEF dec_share, TypeOK
    <3>2. Cardinality(Openers(s)) + lost[s] = 1
      BY <1>3, <2>1 DEF EntryOK
    <3> QED BY <1>3, <1>4, <3>1, <3>2
  <2>2. CASE share[s].ctr # Writing
    <3>1. Cardinality(Openers(s)) + lost[s] = share[s].ctr
      BY <1>3, <2>2 DEF EntryOK
    <3>2. share[s].ctr # 0
      BY <1>3, <1>4, <3>1
    <3>3. share'[s] = IF share[s].ctr - 1 = 0 THEN Free ELSE [share[s] EXCEPT !.ctr = share[s].ctr - 1]
      BY <1>1, <2>2, <3>2 DEF dec_share, TypeOK
    <3> QED BY <1>3, <1>4, <2>2, <3>1, <3>2, <3>3
  <2> QED BY <2>1, <2>2
<1>7. share'[s] = Free \/ (share'[s].obj = share[s].obj /\ share'[s].ctr = share[s].ctr - 1)
  BY <1>3, <1>6 DEF ShareEntries
<1>8. Unique'
  BY <1>1, <1>5, <1>7 DEF Unique, Free
<1>9. FreeOK'
  <2>1. share[s].obj # Blank
    <3>1. share[s].ctr # 0
      <4>1. Cardinality(Openers(s)) + lost[s] # 0
        BY <1>3, <1>4
      <4> QED BY <1>3, <4>1 DEF EntryOK, Writing
    <3> QED BY <1>3, <3>1 DEF EntryOK
  <2> QED BY <1>1, <1>5, <1>7, <2>1 DEF FreeOK
<1>10. ASSUME NEW i \in Entries \ {s} PROVE EntryOK(i)'
  <2>1. share'[i] = share[i] /\ Openers(i)' = Openers(i) /\ t \notin Openers(i)
    BY <1>2, <1>5 DEF Openers
  <2>2. \A u \in Openers(i) : handle'[u] = handle[u]
    BY <2>1 DEF TypeOK, Openers
  <2> QED BY <2>1, <2>2 DEF EntryOK
<1>11. EntryOK(s)'
  <2>1. \A u \in Openers(s)' : u \in Openers(s) /\ handle'[u] = handle[u]
    BY <1>2 DEF TypeOK, Openers
  <2>2. CASE share'[s] = Free /\ Cardinality(Openers(s)') + lost[s] = 0
    <3>1. Openers(s)' = {}
      <4>1. Cardinality(Openers(s)') = 0 /\ IsFiniteSet(Openers(s)')
        BY <1>2, <1>3, <1>4, <2>2, OpenersFinite, FS_Subset
      <4> QED BY <4>1, FS_EmptySet
    <3> QED BY <2>2, <3>1 DEF EntryOK, Free, Writing, Objects
  <2>3. CASE /\ share[s].ctr # Writing /\ share[s].ctr # 1
             /\ share'[s] = [share[s] EXCEPT !.ctr = @ - 1]
             /\ Cardinality(Openers(s)') + lost[s] = share[s].ctr - 1
    <3>1. share'[s].obj = share[s].obj /\ share'[s].ctr = share[s].ctr - 1
      BY <1>3, <2>3 DEF ShareEntries
    <3>2. share[s].ctr # 0
      BY <1>3, <1>4, <2>3
    <3>3. share[s].ctr < Writing
      BY <1>3, <2>3 DEF EntryOK, Writing
    <3> QED BY <1>3, <2>1, <2>3, <3>1, <3>2, <3>3 DEF EntryOK, Writing
  <2> QED BY <1>6, <2>2, <2>3
<1> QED BY <1>8, <1>9, <1>10, <1>11

\* An open object that is given up is counted as lost from then on.
LEMMA AbandonCounts ==
  ASSUME TypeOK, Unique, FreeOK, \A i \in Entries : EntryOK(i),
         NEW t \in Users, Valid(handle[t]),
         call[t].op \in {"close", "close_file", "close_dir"}, Abandon(t),
         share' = share, fs' = fs, objs' = objs
  PROVE  Unique' /\ FreeOK' /\ \A i \in Entries : EntryOK(i)'
<1> PICK s : s = handle[t].slot
  OBVIOUS
<1>1. /\ handle' = [handle EXCEPT ![t] = Closed]
      /\ lost' = IF s = 0 THEN lost ELSE [lost EXCEPT ![s] = @ + 1]
  BY DEF Abandon
<1>2. \A u \in Users : /\ u # t => handle'[u] = handle[u]
                       /\ Valid(handle[u])' <=> Valid(handle[u]) /\ u # t
  BY <1>1 DEF TypeOK, Valid
<1>3. \A i \in Entries : Openers(i)' = Openers(i) \ {t}
  BY <1>2 DEF Openers
<1>4. Unique' /\ FreeOK'
  BY DEF Unique, FreeOK
<1>5. ASSUME NEW i \in Entries PROVE EntryOK(i)'
  <2>1. \A u \in Openers(i)' : u \in Openers(i) /\ handle'[u] = handle[u]
    BY <1>2, <1>3 DEF Openers
  <2>2. Cardinality(Openers(i)') + lost'[i] = Cardinality(Openers(i)) + lost[i]
    <3>1. CASE i = s
      <4>1. t \in Openers(i) /\ i # 0
        BY <1>1, <3>1, VolumeAssumption DEF Openers, Entries
      <4>2. Cardinality(Openers(i) \ {t}) = Cardinality(Openers(i)) - 1
        BY <4>1, OpenersFinite, FS_RemoveElement
      <4>3. lost'[i] = lost[i] + 1 /\ lost[i] \in Nat
        BY <1>1, <3>1, <4>1 DEF TypeOK
      <4>4. Cardinality(Openers(i)) \in Nat /\ Openers(i)' = Openers(i) \ {t}
        BY <1>3, OpenersFinite
      <4> QED BY <4>2, <4>3, <4>4
    <3>2. CASE i # s
      <4>1. Openers(i)' = Openers(i) /\ lost'[i] = lost[i]
        BY <1>1, <1>3, <3>2 DEF TypeOK, Openers
      <4> QED BY <4>1
    <3> QED BY <3>1, <3>2
  <2> QED BY <2>1, <2>2 DEF EntryOK
<1> QED BY <1>4, <1>5

TableOK == HandleOK /\ Unique /\ FreeOK /\ \A i \in Entries : EntryOK(i)

\* A step that leaves the table and the open objects alone.
LEMMA TableKept ==
  ASSUME TableOK, UNCHANGED <<share, lost, fs, Fsid, handle>>, objs \subseteq objs'
  PROVE  TableOK'
<1>1. \A i \in Entries : Openers(i)' = Openers(i)
  BY DEF Openers, Valid
<1>2. HandleOK' /\ Unique' /\ FreeOK'
  BY DEF TableOK, HandleOK, Unique, FreeOK
<1>3. ASSUME NEW i \in Entries PROVE EntryOK(i)'
  BY <1>1 DEF TableOK, EntryOK
<1> QED BY <1>2, <1>3 DEF TableOK

\* Closing an object that is not valid any more.
LEMMA StaleClosed ==
  ASSUME TypeOK, TableOK, NEW t \in Users, ~Valid(handle[t]),
         UNCHANGED <<share, lost, fs, Fsid, objs>>, handle' = [handle EXCEPT ![t] = Closed]
  PROVE  TableOK'
<1>1. \A u \in Users : /\ u # t => handle'[u] = handle[u]
                       /\ Valid(handle[u])' <=> Valid(handle[u])
  BY DEF TypeOK, Valid
<1>2. \A i \in Entries : Openers(i)' = Openers(i) /\ \A u \in Openers(i) : handle'[u] = handle[u]
  BY <1>1 DEF Openers
<1>3. HandleOK'
  BY DEF TableOK, HandleOK, TypeOK
<1> QED BY <1>2, <1>3 DEF TableOK, Unique, FreeOK, EntryOK

\* A table that is cleared when nothing of the present mount is open.
LEMMA TableCleared ==
  ASSUME TypeOK, TableOK, share' = clear_share, lost' = [i \in Entries |-> 0],
         UNCHANGED <<handle, objs>>, Fsid' \in Nat, Fsid <= Fsid',
         fs'.type => fs'.id > Fsid
  PROVE  TableOK'
<1>1. ASSUME NEW u \in Users PROVE ~Valid(handle[u])'
  <2>1. handle[u] # Closed => handle[u].id <= Fsid /\ handle[u].id \in Nat
    BY DEF TableOK, HandleOK, TypeOK, Handles
  <2> QED BY <2>1, VolumeAssumption DEF Valid, TypeOK
<1>2. \A i \in Entries : Openers(i)' = {}
  BY <1>1 DEF Openers
<1>3. HandleOK'
  <2>1. \A u \in Users : handle[u] # Closed => handle[u].id \in Nat /\ handle[u].id <= Fsid
    BY DEF TableOK, HandleOK, TypeOK, Handles
  <2> QED BY <2>1, VolumeAssumption DEF TableOK, HandleOK, TypeOK
<1>4. \A i \in Entries : share'[i] = Free /\ Free.obj = Blank /\ Free.ctr = 0 /\ lost'[i] = 0
  BY DEF clear_share, Free
<1>5. Cardinality({}) = 0
  BY FS_EmptySet
<1>6. \A i \in Entries : EntryOK(i)'
  BY <1>2, <1>4, <1>5, VolumeAssumption DEF EntryOK, Writing
<1>7. Unique' /\ FreeOK'
  BY <1>4 DEF Unique, FreeOK
<1> QED BY <1>3, <1>6, <1>7 DEF TableOK

\* An open object that has no entry (the root) comes or goes.
LEMMA RootChanged ==
  ASSUME TypeOK, TableOK, NEW t \in Users, NEW h, h.slot = 0, handle[t].slot = 0,
         UNCHANGED <<share, lost, fs, objs>>, handle' = [handle EXCEPT ![t] = h], HandleOK'
  PROVE  TableOK'
<1>1. \A u \in Users : u # t => handle'[u] = handle[u] /\ (Valid(handle[u])' <=> Valid(handle[u]))
  BY DEF TypeOK, Valid
<1>2. handle'[t].slot = 0
  BY DEF TypeOK
<1>3. ASSUME NEW i \in Entries
      PROVE  Openers(i)' = Openers(i) /\ \A u \in Openers(i) : handle'[u] = handle[u]
  <2>1. i # 0
    BY VolumeAssumption DEF Entries
  <2> QED BY <1>1, <1>2, <2>1 DEF Openers
<1> QED BY <1>3 DEF TableOK, Unique, FreeOK, EntryOK

\* Every step keeps the share table true to the open objects.
THEOREM SharesKept == Spec => []ShareInv
<1> USE VolumeAssumption
<1>1. Init => ShareInv
  <2> SUFFICES ASSUME Init PROVE ShareInv
    OBVIOUS
  <2>1. \A i \in Entries : Openers(i) = {} /\ share[i] = Free /\ lost[i] = 0
    BY DEF Init, Openers, Valid, clear_share
  <2>2. Cardinality({}) = 0
    BY FS_EmptySet
  <2>3. \A i \in Entries : EntryOK(i)
    BY <2>1, <2>2 DEF EntryOK, Free, Writing, Objects
  <2>4. Unique /\ FreeOK
    BY <2>1 DEF Unique, FreeOK, Free
  <2>5. CallOK /\ HandleOK /\ fs.id <= Fsid /\ ~fs.type
    BY DEF Init, CallOK, HandleOK, NoCall
  <2> QED BY <2>3, <2>4, <2>5 DEF ShareInv
<1>2. TypeOK /\ ShareInv /\ [Next]_vars => ShareInv'
  <2> SUFFICES ASSUME TypeOK, ShareInv, [Next]_vars, torn' = "no" PROVE ShareInv'
    BY DEF ShareInv
  <2> DEFINE Rest == fs.id <= Fsid /\ (fs.type => registered) /\ CallOK
  <2>0. /\ torn = "no" /\ TableOK /\ Rest
        /\ Unique /\ FreeOK /\ \A i \in Entries : EntryOK(i)
    BY DEF Next, f_mount, f_unmount, Unregister, ShareInv, TableOK, vars
  <2> SUFFICES TableOK' /\ Rest'
    BY DEF ShareInv, TableOK
  <2>1. ASSUME UNCHANGED <<access, table, handle>>, CallOK' PROVE TableOK' /\ Rest'
    BY <2>0, <2>1, TableKept DEF access, table
  <2>2. /\ call \in [Tasks -> Calls] /\ handle \in [Users -> Handles \cup {Closed}]
        /\ pc \in [Tasks -> {"idle", "vol", "sys", "work", "leave", "give"}]
    BY DEF TypeOK
  <2>3. ASSUME NEW t \in Tasks, UNCHANGED <<fs, registered, handle>>, pc[t] # "idle",
               Finish(t) \/ Return(t)
        PROVE  CallOK'
    BY <2>0, <2>2, <2>3 DEF CallOK, Finish, Return, NoCall, Valid
  <2>4. ASSUME NEW t \in Tasks, UNCHANGED <<fs, registered, handle, call>>, NEW p, p # "idle",
               pc[t] # "idle",
               pc' = [pc EXCEPT ![t] = p]
        PROVE  CallOK'
    BY <2>0, <2>2, <2>4 DEF CallOK, Valid
  <2>5. ASSUME NEW t \in Users, PathCall(t) PROVE TableOK' /\ Rest'
    <3> PICK op \in {"open", "opendir", "unlink"}, o \in Objects \cup {Root}, acc \in 0..2 :
          BeginPath(t, op, o, acc)
      BY <2>5 DEF PathCall, Objects
    <3>1. CallOK'
      BY <2>0, <2>2 DEF CallOK, BeginPath, Valid, access
    <3> QED BY <2>1, <3>1 DEF BeginPath
  <2>6. ASSUME NEW t \in Users, HandleCall(t) PROVE TableOK' /\ Rest'
    <3> PICK op \in {"use", "close", "close_dir"} :
          /\ ~Inside(t)
          /\ IF Valid(handle[t])
             THEN /\ pc' = [pc EXCEPT ![t] = "vol"]
                  /\ call' = [call EXCEPT ![t] = [NoCall EXCEPT !.op = op]]
                  /\ UNCHANGED handle
             ELSE /\ handle' = IF op = "use" THEN handle ELSE [handle EXCEPT ![t] = Closed]
                  /\ UNCHANGED <<pc, call>>
          /\ UNCHANGED <<access, locks, table, attached, torn>>
      BY <2>6 DEF HandleCall
    <3>1. CASE UNCHANGED handle
      <4>1. CallOK'
        BY <2>0, <2>2, <3>1 DEF CallOK, Valid, NoCall, access
      <4> QED BY <2>1, <3>1, <4>1
    <3>2. CASE ~Valid(handle[t]) /\ handle' = [handle EXCEPT ![t] = Closed]
      <4>1. TableOK'
        BY <2>0, <3>2, StaleClosed DEF access, table
      <4>2. t \in Tasks /\ call[t].op = "none"
        BY <2>0 DEF CallOK, Inside, Tasks
      <4>3. CallOK'
        BY <2>0, <2>2, <3>2, <4>2 DEF CallOK, Valid, access
      <4> QED BY <2>0, <4>1, <4>3 DEF access
    <3> QED BY <3>1, <3>2
  <2>7. ASSUME NEW t \in Tasks, LockVolume(t) \/ LockSystem(t) \/ Leave(t) PROVE TableOK' /\ Rest'
    <3>1. pc[t] # "idle" /\ \E p : p # "idle" /\ pc' = [pc EXCEPT ![t] = p]
      BY <2>7 DEF LockVolume, LockSystem, Leave
    <3>2. UNCHANGED <<access, table, handle, call>>
      BY <2>7 DEF LockVolume, LockSystem, Leave
    <3> QED BY <2>1, <2>4, <3>1, <3>2 DEF access
  <2>8. ASSUME NEW t \in Tasks, Give(t) PROVE TableOK' /\ Rest'
    <3>0. pc[t] # "idle"
      BY <2>8 DEF Give
    <3>1. CASE Return(t)
      BY <3>0, <2>1, <2>3, <2>8, <3>1 DEF Give, access
    <3>2. CASE pc' = [pc EXCEPT ![t] = "vol"] /\ UNCHANGED call
      BY <2>1, <2>4, <2>8, <3>0, <3>2 DEF Give, access
    <3> QED BY <2>8, <3>1, <3>2 DEF Give
  <2>9. ASSUME NEW t \in Tasks, Abandon(t), Finish(t) \/ Return(t), pc[t] # "idle",
               UNCHANGED <<access, share>>, objs \subseteq objs',
               call[t].op \in {"close", "close_file", "close_dir"} => objs' = objs
        PROVE  TableOK' /\ Rest'
    <3>1. CASE call[t].op \in {"close", "close_file", "close_dir"}
      <4>1. t \in Users /\ Valid(handle[t]) /\ fs' = fs
        BY <2>0, <2>9, <3>1 DEF CallOK, access
      <4>2. Unique' /\ FreeOK' /\ \A i \in Entries : EntryOK(i)'
        BY <2>0, <2>9, <3>1, <4>1, AbandonCounts
      <4>3. handle' = [handle EXCEPT ![t] = Closed] /\ Fsid' = Fsid
        BY <2>9, <3>1 DEF Abandon, access
      <4>4. HandleOK'
        BY <2>0, <2>2, <4>3 DEF TableOK, HandleOK
      <4>5. CallOK'
        BY <2>0, <2>2, <2>9, <4>1, <4>3 DEF CallOK, Finish, Return, NoCall, Valid, access
      <4> QED BY <2>0, <2>9, <4>2, <4>4, <4>5 DEF TableOK, access
    <3>2. CASE call[t].op \notin {"close", "close_file", "close_dir"}
      <4>1. UNCHANGED <<handle, lost>>
        BY <3>2, <2>9 DEF Abandon
      <4>2. TableOK'
        BY <2>0, <2>9, <4>1, TableKept DEF access
      <4> QED BY <2>0, <2>3, <2>9, <4>1, <4>2 DEF access
    <3> QED BY <3>1, <3>2
  <2>10. ASSUME NEW t \in Tasks, LockTimeout(t) PROVE TableOK' /\ Rest'
    BY <2>9, <2>10 DEF LockTimeout
  <2>11. ASSUME NEW t \in Tasks, Fail(t) PROVE TableOK' /\ Rest'
    <3>1. call[t].op # "open" => objs' = objs
      BY <2>11 DEF Fail
    <3> QED BY <2>9, <2>11, <3>1 DEF Fail
  <2>12. ASSUME NEW t \in Tasks, MountVolume(t) PROVE TableOK' /\ Rest'
    <3>1. CASE /\ Fsid' = Fsid + 1 /\ fs' = [type |-> TRUE, id |-> Fsid']
               /\ share' = clear_share /\ lost' = [i \in Entries |-> 0]
      <4>1. Fsid \in Nat /\ Fsid' \in Nat /\ Fsid <= Fsid' /\ fs'.id = Fsid' /\ fs'.id > Fsid
        BY <3>1 DEF TypeOK
      <4>2. UNCHANGED <<handle, objs, registered>> /\ ~fs.type
        BY <2>12 DEF MountVolume
      <4>3. TableOK'
        BY <2>0, <3>1, <4>1, <4>2, TableCleared
      <4>4. \A u \in Tasks : call[u].op \notin {"use", "close", "close_file", "close_dir"}
        BY <2>0, <4>2 DEF CallOK, Valid
      <4>5. CallOK'
        BY <2>0, <2>2, <2>12, <4>2, <4>4 DEF MountVolume, CallOK, Finish, NoCall
      <4>6. registered
        BY <2>0, <2>12 DEF MountVolume, CallOK
      <4> QED BY <4>1, <4>2, <4>3, <4>5, <4>6
    <3>2. CASE Finish(t) /\ UNCHANGED <<Fsid, fs, share, lost, attached>>
      <4>1. UNCHANGED <<access, table, handle>>
        BY <2>12, <3>2 DEF MountVolume, access, table
      <4> QED BY <2>1, <2>3, <2>12, <3>2, <4>1 DEF MountVolume, access
    <3> QED BY <2>12, <3>1, <3>2 DEF MountVolume
  <2>13. ASSUME NEW t \in Tasks, Work(t) PROVE TableOK' /\ Rest'
    <3>0. /\ UNCHANGED access /\ Finish(t) /\ pc[t] = "work" /\ Fsid' = Fsid /\ fs' = fs
          /\ (call[t].op \in PathOps => fs.type) /\ registered' = registered
      BY <2>13 DEF Work, access
    <3>1. ASSUME handle' = handle PROVE CallOK'
      BY <2>3, <3>0, <3>1
    <3>2. ASSUME NEW h, handle' = [handle EXCEPT ![t] = h], t \in Users PROVE CallOK'
      BY <2>0, <2>2, <3>0, <3>2 DEF CallOK, Finish, NoCall, Valid
    <3>3. ASSUME NEW o \in Objects, NEW acc \in 0..1, t \in Users, handle[t] = Closed, fs.type,
                 Slot(o) # 0, Countable(o), acc = 1 => Entry(o) = {} /\ o \in Files,
                 \A i \in Entry(o) : share[i].ctr # Writing,
                 share' = inc_share(o, acc), lost' = lost,
                 handle' = [handle EXCEPT ![t] =
                              [obj |-> o, slot |-> Slot(o), id |-> fs.id, acc |-> acc]],
                 objs \subseteq objs', o \in Files => o \in objs'
          PROVE  TableOK'
      <4>1. Unique' /\ FreeOK' /\ \A i \in Entries : EntryOK(i)'
        BY <2>0, <3>0, <3>3, OpenCounts
      <4>2. HandleOK'
        BY <2>0, <2>2, <3>0, <3>3 DEF TableOK, HandleOK, Objects
      <4> QED BY <4>1, <4>2 DEF TableOK
    <3>4. CASE f_open(t)
      <4>1. /\ call[t].obj \in Files /\ call[t].acc \in 0..1 /\ fs.type
            /\ t \in Users /\ handle[t] = Closed
        BY <2>0, <2>2, <3>0, <3>4 DEF f_open, Calls, CallOK, PathOps
      <4>2. /\ Slot(call[t].obj) # 0
            /\ call[t].acc = 1 => Entry(call[t].obj) = {}
            /\ \A i \in Entry(call[t].obj) : share[i].ctr # Writing
        <5>1. CASE call[t].obj \in objs
          <6>1. chk_share(call[t].obj, call[t].acc)
            BY <3>4, <5>1 DEF f_open
          <6> QED BY <4>1, <6>1 DEF chk_share, Slot, enq_share, Entry, Entries
        <5>2. CASE call[t].obj \notin objs
          <6>1. enq_share /\ Entry(call[t].obj) = {}
            BY <2>0, <3>4, <4>1, <5>2 DEF f_open, Entry, EntryOK
          <6> QED BY <6>1 DEF Slot, enq_share, Entry, Entries
        <5> QED BY <5>1, <5>2
      <4>3. TableOK'
        BY ZenonT(60), <3>3, <3>4, <4>1, <4>2 DEF f_open, Objects
      <4> QED BY <2>0, <3>0, <3>2, <3>4, <4>1, <4>3 DEF f_open
    <3>5. CASE f_opendir(t)
      <4>1. /\ call[t].obj \in Dirs \cup {Root} /\ fs.type
            /\ t \in Users /\ handle[t] = Closed
        BY <2>0, <2>2, <3>0, <3>5 DEF f_opendir, Calls, CallOK, PathOps
      <4>2. CASE call[t].obj = Root
        <5>0. PICK h : h = [obj |-> call[t].obj, slot |-> 0, id |-> fs.id, acc |-> 0]
          OBVIOUS
        <5>1. /\ handle' = [handle EXCEPT ![t] = h] /\ h.slot = 0 /\ handle[t].slot = 0
              /\ h.obj = Root /\ h.id = fs.id /\ h.acc = 0
              /\ UNCHANGED <<share, lost, objs, fs>>
          BY <3>0, <3>5, <4>1, <4>2, <5>0 DEF f_opendir, Closed
        <5>2. HandleOK'
          BY <2>0, <2>2, <3>0, <4>2, <5>1 DEF TableOK, HandleOK, Objects
        <5>3. TableOK'
          BY <2>0, <4>1, <5>1, <5>2, RootChanged
        <5> QED BY <2>0, <3>0, <3>2, <4>1, <5>1, <5>3
      <4>3. CASE call[t].obj # Root
        <5>1. \A i \in Entry(call[t].obj) : share[i].ctr # Writing
          BY <2>0, <4>1, <4>3 DEF Entry, EntryOK
        <5>2. /\ call[t].obj \in Objects /\ call[t].obj \notin Files
              /\ Slot(call[t].obj) # 0 /\ Countable(call[t].obj)
              /\ share' = inc_share(call[t].obj, 0) /\ UNCHANGED <<lost, objs>>
              /\ handle' = [handle EXCEPT ![t] = [obj |-> call[t].obj, slot |-> Slot(call[t].obj),
                                                  id |-> fs.id, acc |-> 0]]
          BY <3>5, <4>1, <4>3 DEF f_opendir, Objects
        <5>3. TableOK'
          <6> PICK o, acc : o = call[t].obj /\ acc = 0
            OBVIOUS
          <6>1. /\ o \in Objects /\ acc \in 0..1 /\ acc # 1 /\ o \notin Files
                /\ objs \subseteq objs' /\ share' = inc_share(o, acc) /\ lost' = lost
            BY <5>2
          <6>2. /\ Slot(o) # 0 /\ Countable(o) /\ \A i \in Entry(o) : share[i].ctr # Writing
                /\ handle' = [handle EXCEPT ![t] =
                               [obj |-> o, slot |-> Slot(o), id |-> fs.id, acc |-> acc]]
            BY <5>1, <5>2
          <6> QED BY <3>3, <4>1, <6>1, <6>2
        <5> QED BY <2>0, <3>0, <3>2, <4>1, <5>2, <5>3
      <4> QED BY <4>2, <4>3
    <3>6. CASE f_unlink(t)
      <4>1. UNCHANGED <<share, lost, handle>>
        BY <3>6 DEF f_unlink
      <4>2. \A i \in Entries : Openers(i)' = Openers(i)
        BY <3>0, <4>1 DEF Openers, Valid
      <4>3. ASSUME NEW i \in Entries PROVE EntryOK(i)'
        <5>1. share[i].obj \in Files => share[i].obj # call[t].obj
          BY <2>0, <3>6 DEF f_unlink, chk_share, Entry, EntryOK
        <5> QED BY <2>0, <3>6, <4>1, <4>2, <5>1 DEF EntryOK, f_unlink
      <4>4. TableOK'
        BY <2>0, <3>0, <4>1, <4>3 DEF TableOK, HandleOK, Unique, FreeOK
      <4> QED BY <2>0, <3>0, <3>1, <4>1, <4>4
    <3>7. CASE f_close(t)
      <4>1. t \in Users /\ Valid(handle[t])
        BY <2>0, <3>7 DEF f_close, CallOK
      <4>2. handle' = [handle EXCEPT ![t] = Closed] /\ UNCHANGED <<lost, objs>>
        BY <3>7 DEF f_close
      <4>3. HandleOK'
        BY <2>0, <2>2, <3>0, <4>2 DEF TableOK, HandleOK
      <4>4. CASE handle[t].slot # 0
        <5>1. Unique' /\ FreeOK' /\ \A i \in Entries : EntryOK(i)'
          BY <2>0, <3>0, <3>7, <4>1, <4>4, CloseCounts DEF f_close
        <5> QED BY <2>0, <3>0, <3>2, <4>1, <4>2, <4>3, <5>1 DEF TableOK
      <4>5. CASE handle[t].slot = 0
        <5>1. share' = share /\ Closed.slot = 0 /\ UNCHANGED <<lost, objs, fs>>
          BY <3>0, <3>7, <4>2, <4>5 DEF f_close, Closed
        <5>2. TableOK'
          BY <2>0, <4>1, <4>2, <4>3, <4>5, <5>1, RootChanged
        <5> QED BY <2>0, <3>0, <3>2, <4>1, <4>2, <5>2
      <4> QED BY <4>4, <4>5
    <3>8. CASE Use(t)
      BY <2>1, <3>0, <3>1, <3>8 DEF Use
    <3> QED BY <2>13, <3>4, <3>5, <3>6, <3>7, <3>8 DEF Work
  <2>14. ASSUME NEW t \in Tasks, Synced(t) PROVE TableOK' /\ Rest'
    <3>1. CallOK'
      BY <2>0, <2>2, <2>14 DEF Synced, CallOK, Valid, access
    <3> QED BY <2>1, <2>14, <3>1 DEF Synced
  <2>15. ASSUME NEW t \in Tasks, Attach(t) PROVE TableOK' /\ Rest'
    BY <2>1, <2>3, <2>15 DEF Attach, access
  <2>16. CASE f_mount \/ f_unmount
    <3>1. Unregister /\ UNCHANGED <<Fsid, objs, handle>>
      BY <2>16 DEF f_mount, f_unmount
    <3>2. \A t \in Tasks : pc[t] = "idle"
      <4>1. CASE registered
        BY <2>0, <3>1, <4>1 DEF Unregister, Overlap, Inside
      <4>2. CASE ~registered
        BY <2>0, <4>2 DEF CallOK
      <4> QED BY <4>1, <4>2
    <3>3. TableOK'
      <4>1. share' = clear_share /\ lost' = [i \in Entries |-> 0] /\ ~fs'.type /\ fs'.id = 0
        BY <3>1 DEF Unregister
      <4>2. Fsid' = Fsid /\ Fsid \in Nat /\ Fsid <= Fsid'
        BY <3>1 DEF TypeOK
      <4> QED BY <2>0, <3>1, <4>1, <4>2, TableCleared
    <3>4. CallOK'
      <4>1. CASE registered' = TRUE /\ f_mount
        BY <2>0, <2>2, <3>2, <4>1 DEF f_mount, CallOK, NoCall
      <4>2. CASE UNCHANGED <<pc, call>>
        BY <2>0, <3>2, <4>2 DEF CallOK
      <4> QED BY <2>16, <4>1, <4>2 DEF f_mount, f_unmount
    <3>5. fs'.id <= Fsid' /\ (fs'.type => registered')
      BY <3>1 DEF Unregister, TypeOK
    <3> QED BY <3>3, <3>4, <3>5
  <2>17. CASE UNCHANGED vars
    <3>1. CallOK'
      BY <2>0, <2>17 DEF CallOK, vars, Valid, access
    <3> QED BY <2>1, <2>17, <3>1 DEF vars
  <2> QED BY <2>5, <2>6, <2>7, <2>8, <2>10, <2>11, <2>12, <2>13, <2>14, <2>15, <2>16, <2>17
          DEF Next, Step
<1> QED BY <1>1, <1>2, TypeCorrect, PTL DEF Spec
-----------------------------------------------------------------------------
\* The share table counts the open objects (ff.c:944-1045).
THEOREM SharesRight == Spec => []Shares
<1>1. TypeOK /\ ShareInv => Shares
  <2> SUFFICES ASSUME TypeOK, ShareInv, torn = "no", NEW i \in Entries
      PROVE  /\ Cardinality(Openers(i)) + lost[i] =
                  IF share[i].ctr = Writing THEN 1 ELSE share[i].ctr
             /\ share[i].obj = Blank <=> share[i].ctr = 0
             /\ \A t \in Openers(i) : handle[t].obj = share[i].obj
             /\ \A j \in Entries : share[i].obj = share[j].obj => i = j \/ share[i] = Free
    BY DEF Shares
  <2>1. EntryOK(i) /\ Unique /\ FreeOK
    BY DEF ShareInv
  <2> QED BY <2>1 DEF EntryOK, Unique, FreeOK
<1> QED BY <1>1, TypeCorrect, SharesKept, PTL

\* An open file is not removed, nor opened beside a writer.
THEOREM OpensRight == Spec => []OpenKept
<1> USE VolumeAssumption
<1>1. TypeOK /\ ShareInv => OpenKept
  <2> SUFFICES ASSUME TypeOK, ShareInv, torn = "no",
                      NEW t \in Users, Valid(handle[t]), handle[t].obj \in Files
      PROVE  /\ handle[t].obj \in objs
             /\ \A u \in Users \ {t} : Valid(handle[u]) /\ handle[u].obj = handle[t].obj =>
                  handle[t].acc = 0 /\ handle[u].acc = 0
    BY DEF OpenKept
  <2>0. Unique /\ HandleOK /\ \A i \in Entries : EntryOK(i)
    BY DEF ShareInv
  <2>1. ASSUME NEW u \in Users, Valid(handle[u]), handle[u].obj \in Files
        PROVE  /\ handle[u].slot \in Entries /\ u \in Openers(handle[u].slot)
               /\ share[handle[u].slot].obj = handle[u].obj
               /\ handle[u].acc \in 0..1
    <3>1. handle[u] \in Handles /\ handle[u].slot # 0
      BY <2>0, <2>1 DEF TypeOK, Valid, HandleOK
    <3>2. handle[u].slot \in Entries /\ u \in Openers(handle[u].slot)
      BY <2>1, <3>1 DEF Handles, Entries, Openers
    <3> QED BY <2>0, <3>1, <3>2 DEF EntryOK, Handles
  <2>2. handle[t].obj \in objs
    BY <2>0, <2>1 DEF EntryOK
  <2>3. ASSUME NEW u \in Users \ {t}, Valid(handle[u]), handle[u].obj = handle[t].obj
        PROVE  handle[t].acc = 0 /\ handle[u].acc = 0
    <3> PICK i : i = handle[t].slot
      OBVIOUS
    <3>1. handle[u].slot = i /\ i \in Entries
      BY <2>0, <2>1, <2>3 DEF Unique, Objects
    <3>2. {t, u} \subseteq Openers(i) /\ t # u
      BY <2>1, <2>3, <3>1
    <3>3. share[i].ctr # Writing
      <4>1. Cardinality({t, u}) <= Cardinality(Openers(i))
        BY <3>2, OpenersFinite, FS_Subset
      <4>2. Cardinality({t, u}) = 2
        <5>1. IsFiniteSet({t}) /\ Cardinality({t}) = 1
          BY FS_Singleton
        <5>2. {t, u} = {t} \cup {u} /\ u \notin {t}
          BY <3>2
        <5>3. Cardinality({t} \cup {u}) = Cardinality({t}) + 1
          BY <5>1, <5>2, FS_AddElement
        <5> QED BY <5>1, <5>2, <5>3
      <4>3. Cardinality(Openers(i)) \in Nat /\ lost[i] \in Nat
        BY <3>1, OpenersFinite DEF TypeOK
      <4> QED BY <2>0, <3>1, <4>1, <4>2, <4>3 DEF EntryOK
    <3> QED BY <2>0, <2>1, <2>3, <3>1, <3>2, <3>3 DEF EntryOK
  <2> QED BY <2>2, <2>3
<1> QED BY <1>1, TypeCorrect, SharesKept, PTL
=============================================================================
