------------------------------ MODULE RefCount ------------------------------
(***************************************************************************)
(* What the counter open_files of a mount promises (vfs.h, vfs_mount_t):   *)
(* it counts the places that refer to the mount.  A slot is such a place:  *)
(* a descriptor, an open directory or a call in progress; it refers to at  *)
(* most one object.  References are taken, handed on and given back one at *)
(* a time, and the count moves with them.                                  *)
(***************************************************************************)
EXTENDS Integers, FiniteSets

CONSTANTS Slots, Objects, NULL

VARIABLES count, holder

refVars == <<count, holder>>

Init == /\ count = [o \in Objects |-> 0]
        /\ holder = [s \in Slots |-> NULL]

Acquire(s, o) == /\ count' = [count EXCEPT ![o] = @ + 1]
                 /\ holder[s] = NULL
                 /\ holder' = [holder EXCEPT ![s] = o]

Release(s) == /\ holder[s] # NULL
              /\ holder' = [holder EXCEPT ![s] = NULL]
              /\ count' = [count EXCEPT ![holder[s]] = @ - 1]

Transfer(s, r) == /\ UNCHANGED count
                  /\ holder[s] # NULL /\ holder[r] = NULL
                  /\ holder' = [holder EXCEPT ![s] = NULL, ![r] = holder[s]]

Next == \/ \E s \in Slots, o \in Objects : Acquire(s, o)
        \/ \E s \in Slots : Release(s)
        \/ \E s, r \in Slots : Transfer(s, r)

Spec == Init /\ [][Next]_refVars
-----------------------------------------------------------------------------
\* What a use of this module has to provide.
Provided == IsFiniteSet(Slots) /\ NULL \notin Objects

TypeOK == /\ count \in [Objects -> Int]
          /\ holder \in [Slots -> Objects \cup {NULL}]

HeldBy(o) == {s \in Slots : holder[s] = o}

\* The count of an object is the number of slots that refer to it.
Counted == \A o \in Objects : count[o] = Cardinality(HeldBy(o))
=============================================================================
