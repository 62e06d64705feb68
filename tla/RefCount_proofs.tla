--------------------------- MODULE RefCount_proofs ---------------------------
(* Proof that the counts of RefCount count.                                  *)
EXTENDS RefCount, FiniteSetTheorems, TLAPS

\* Filling one empty slot adds one holder of o and changes no other object's.
LEMMA AddSlot ==
  ASSUME Provided, TypeOK, NEW s \in Slots, NEW o \in Objects, holder[s] = NULL,
         holder' = [holder EXCEPT ![s] = o]
  PROVE  /\ Cardinality(HeldBy(o))' = Cardinality(HeldBy(o)) + 1
         /\ \A p \in Objects \ {o} : HeldBy(p)' = HeldBy(p)
<1>1. IsFiniteSet(HeldBy(o))
  BY FS_Subset DEF HeldBy, Provided
<1>2. s \notin HeldBy(o)
  BY DEF HeldBy, Provided
<1>3. HeldBy(o)' = HeldBy(o) \cup {s}
  BY DEF HeldBy, TypeOK
<1>4. \A p \in Objects \ {o} : HeldBy(p)' = HeldBy(p)
  BY DEF HeldBy, TypeOK, Provided
<1> QED BY <1>1, <1>2, <1>3, <1>4, FS_AddElement

\* Emptying a slot takes one holder from its object and from no other.
LEMMA RemoveSlot ==
  ASSUME Provided, TypeOK, NEW s \in Slots, NEW o \in Objects, holder[s] = o,
         holder' = [holder EXCEPT ![s] = NULL]
  PROVE  /\ Cardinality(HeldBy(o))' = Cardinality(HeldBy(o)) - 1
         /\ \A p \in Objects \ {o} : HeldBy(p)' = HeldBy(p)
<1>1. IsFiniteSet(HeldBy(o))
  BY FS_Subset DEF HeldBy, Provided
<1>2. s \in HeldBy(o)
  BY DEF HeldBy
<1>3. HeldBy(o)' = HeldBy(o) \ {s}
  BY DEF HeldBy, TypeOK, Provided
<1>4. \A p \in Objects \ {o} : HeldBy(p)' = HeldBy(p)
  BY DEF HeldBy, TypeOK, Provided
<1> QED BY <1>1, <1>2, <1>3, <1>4, FS_RemoveElement

\* Handing a reference from one slot to another leaves the number of holders.
LEMMA MoveSlot ==
  ASSUME Provided, TypeOK, NEW s \in Slots, NEW r \in Slots, NEW o \in Objects,
         holder[s] = o, holder[r] = NULL,
         holder' = [holder EXCEPT ![s] = NULL, ![r] = o],
         NEW p \in Objects
  PROVE  Cardinality(HeldBy(p))' = Cardinality(HeldBy(p))
<1>1. CASE p # o
  <2>1. HeldBy(p)' = HeldBy(p)
    BY <1>1 DEF HeldBy, TypeOK, Provided
  <2> QED BY <2>1
<1>2. CASE p = o
  <2> DEFINE Rest == HeldBy(o) \ {s}
  <2>1. IsFiniteSet(HeldBy(o))
    BY FS_Subset DEF HeldBy, Provided
  <2>2. IsFiniteSet(Rest) /\ Cardinality(Rest) = Cardinality(HeldBy(o)) - 1
    <3>1. s \in HeldBy(o)
      BY DEF HeldBy
    <3> QED BY <2>1, <3>1, FS_RemoveElement
  <2>3. r \notin Rest
    BY DEF HeldBy, Provided
  <2>4. HeldBy(o)' = Rest \cup {r}
    BY DEF HeldBy, TypeOK, Provided
  <2>5. Cardinality(HeldBy(o)) \in Nat
    BY <2>1, FS_CardinalityType
  <2> HIDE DEF Rest
  <2>6. Cardinality(Rest \cup {r}) = Cardinality(Rest) + 1
    BY <2>2, <2>3, FS_AddElement
  <2> QED BY <1>2, <2>2, <2>4, <2>5, <2>6
<1> QED BY <1>1, <1>2

LEMMA CountedInit == Provided /\ Init => TypeOK /\ Counted
<1> SUFFICES ASSUME Provided, Init PROVE TypeOK /\ Counted
  OBVIOUS
<1>1. TypeOK
  BY DEF Init, TypeOK
<1>2. \A o \in Objects : HeldBy(o) = {}
  BY DEF Init, HeldBy, Provided
<1> QED BY <1>1, <1>2, FS_EmptySet DEF Init, Counted

\* No step moves a count without moving the number of holders as much.
LEMMA CountsMove ==
  ASSUME Provided, TypeOK, [Next]_refVars
  PROVE  /\ TypeOK'
         /\ \A p \in Objects : count'[p] - Cardinality(HeldBy(p))' = count[p] - Cardinality(HeldBy(p))
<1>0. \A p \in Objects : Cardinality(HeldBy(p)) \in Nat
  BY FS_Subset, FS_CardinalityType DEF HeldBy, Provided
<1>1. ASSUME NEW s \in Slots, NEW o \in Objects, Acquire(s, o)
      PROVE  /\ TypeOK'
             /\ \A p \in Objects : count'[p] - Cardinality(HeldBy(p))' = count[p] - Cardinality(HeldBy(p))
  <2>1. TypeOK'
    BY <1>1 DEF Acquire, TypeOK
  <2>2. /\ Cardinality(HeldBy(o))' = Cardinality(HeldBy(o)) + 1
        /\ \A p \in Objects \ {o} : HeldBy(p)' = HeldBy(p)
    BY <1>1, AddSlot DEF Acquire
  <2> QED BY <1>0, <1>1, <2>1, <2>2 DEF Acquire, TypeOK
<1>2. ASSUME NEW s \in Slots, Release(s)
      PROVE  /\ TypeOK'
             /\ \A p \in Objects : count'[p] - Cardinality(HeldBy(p))' = count[p] - Cardinality(HeldBy(p))
  <2>0. PICK o \in Objects : holder[s] = o
    BY <1>2 DEF Release, TypeOK
  <2>1. TypeOK'
    BY <1>2, <2>0 DEF Release, TypeOK
  <2>2. /\ Cardinality(HeldBy(o))' = Cardinality(HeldBy(o)) - 1
        /\ \A p \in Objects \ {o} : HeldBy(p)' = HeldBy(p)
    BY <1>2, <2>0, RemoveSlot DEF Release
  <2>3. count' = [count EXCEPT ![o] = @ - 1]
    BY <1>2, <2>0 DEF Release
  <2> QED BY <1>0, <2>1, <2>2, <2>3 DEF TypeOK
<1>3. ASSUME NEW s \in Slots, NEW r \in Slots, Transfer(s, r)
      PROVE  /\ TypeOK'
             /\ \A p \in Objects : count'[p] - Cardinality(HeldBy(p))' = count[p] - Cardinality(HeldBy(p))
  <2>0. holder[s] \in Objects
    BY <1>3 DEF Transfer, TypeOK
  <2>1. TypeOK'
    BY <1>3, <2>0 DEF Transfer, TypeOK
  <2>2. \A p \in Objects : Cardinality(HeldBy(p))' = Cardinality(HeldBy(p))
    BY <1>3, <2>0, MoveSlot DEF Transfer
  <2> QED BY <1>3, <2>1, <2>2 DEF Transfer
<1>4. CASE UNCHANGED refVars
  BY <1>4 DEF refVars, TypeOK, HeldBy
<1> QED BY <1>1, <1>2, <1>3, <1>4 DEF Next

LEMMA CountedStep ==
  Provided /\ TypeOK /\ Counted /\ [Next]_refVars => (TypeOK /\ Counted)'
<1> SUFFICES ASSUME Provided, TypeOK, Counted, [Next]_refVars PROVE TypeOK' /\ Counted'
  OBVIOUS
<1>1. TypeOK' /\ \A p \in Objects :
         count'[p] - Cardinality(HeldBy(p))' = count[p] - Cardinality(HeldBy(p))
  BY CountsMove
<1>2. \A p \in Objects : Cardinality(HeldBy(p)) \in Nat /\ Cardinality(HeldBy(p))' \in Nat
  <2>1. \A p \in Objects : IsFiniteSet(HeldBy(p)) /\ IsFiniteSet(HeldBy(p)')
    BY FS_Subset DEF HeldBy, Provided
  <2>2. \A p \in Objects : Cardinality(HeldBy(p)') \in Nat
    BY <2>1, FS_CardinalityType
  <2> QED BY <2>1, <2>2, FS_CardinalityType
<1>3. ASSUME NEW p \in Objects PROVE count'[p] = Cardinality(HeldBy(p))'
  <2>1. count[p] = Cardinality(HeldBy(p)) /\ count'[p] \in Int
    BY <1>1 DEF Counted, TypeOK
  <2>2. count'[p] - Cardinality(HeldBy(p))' = 0
    BY <1>1, <1>2, <2>1
  <2> QED BY <1>2, <2>1, <2>2
<1> QED BY <1>1, <1>3 DEF Counted

\* The count of an object is, in every state, the number of slots holding it
\* (the meaning vfs.h gives open_files), for any number of slots and objects.
THEOREM CountsCount == ASSUME Provided PROVE Spec => []Counted
<1>1. TypeOK /\ Counted => Counted
  OBVIOUS
<1> QED BY <1>1, CountedInit, CountedStep, PTL DEF Spec
=============================================================================
