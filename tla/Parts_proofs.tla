---------------------------- MODULE Parts_proofs ----------------------------
(***************************************************************************)
(* What the parts that MCParts puts side by side keep, whatever their      *)
(* constants: the clocks, the circular list, the card monitor, the         *)
(* commands on files, the clock and the calendar.  Each has an invariant   *)
(* of its own; the last section carries them over to a behaviour of any of *)
(* the parts.                                                              *)
(***************************************************************************)
EXTENDS MCParts, FiniteSetTheorems, SequenceTheorems, WellFoundedInduction, TLAPS

-----------------------------------------------------------------------------
(* The clocks.  For any wiring of users to clocks, any lists of what is    *)
(* set up and any width of a count, Inv is inductive.                      *)

\* A task that has read a count still has something to do with it, and nobody has
\* changed it since.  The hook only sets up.
Reading ==
  /\ up[Daemon]
  /\ \A t \in Tasks : seen[t] # W => ~Finished(t) /\ seen[t] = count[Clock[User(t)]]
  /\ seen[Monitor] # W /\ ~up[Monitor] => User(Monitor) \notin streams

\* What is still to be set up is not in use; what is still to be taken down is, and
\* what has been taken down is not.
Setting == \A t \in Tasks : up[t] =>
  \A i \in DOMAIN Parts(t) : i >= part[t] => Parts(t)[i] \notin inuse

Taking == ~up[Monitor] => \A i \in DOMAIN Sdio :
  /\ i >= part[Monitor] => Sdio[i] \in inuse
  /\ i < part[Monitor] /\ ~error => Sdio[i] \notin inuse /\ Sdio[i] \notin streams

\* Where the monitor is, and what it has behind it.  A receiving stream that works
\* shows that the set-up has got as far as the other stream.
Phases ==
  /\ pc = "idle" => Finished(Monitor)
  /\ pc = "card" => up[Monitor] /\ volume = "none" /\ (hal = "ready" => Finished(Monitor))
  /\ pc = "down" => ~up[Monitor] /\ volume = "mounted" /\ (error => Finished(Monitor))
  /\ pc = "idle" /\ volume = "mounted" =>
       up[Monitor] /\ ~error /\ SdUsers \subseteq inuse /\ on[CLK48]
  /\ pc = "idle" /\ volume = "none" /\ hal = "reset" =>
       SdUsers \cap inuse = {} /\ streams = {}
  /\ pc # "down" /\ volume = "none" /\ Rx \in streams =>
       Rx \in inuse /\ (Tx \in inuse \/ part[Monitor] = Len(Sdio))

\* A set-up that has come to its end has initialised both streams, unless one of the
\* two has ended it; and a card is read through the receiving one.
Complete ==
  /\ /\ pc # "down" /\ volume # "stuck"
     /\ pc = "card" \/ hal = "ready" \/ volume = "mounted"
     /\ Finished(Monitor) /\ ~partial
     => Tx \in streams
  /\ pc = "idle" /\ volume = "mounted" => Rx \in streams

\* A clock is on for the first user already when that has only read the count.
Starting(c) == \E t \in Tasks : seen[t] # W /\ up[t] /\ Clock[User(t)] = c

Powered == \A c \in Clocks :
  IF c = CLK48 THEN count[c] # 0 \/ Starting(c) => on[c] \/ broken
               ELSE on[c] <=> count[c] # 0 \/ Starting(c)

Inv == /\ TypeOK /\ Balanced /\ Reading /\ Setting /\ Taking /\ Phases /\ Complete
       /\ Powered
-----------------------------------------------------------------------------
\* What the parts of a task are.
LEMMA PartsType ==
  ASSUME NEW t \in Tasks
  PROVE  /\ Parts(t) \in Seq(Users) /\ Len(Parts(t)) \in Nat
         /\ DOMAIN Parts(t) = 1..Len(Parts(t))
         /\ \A i \in DOMAIN Parts(t) : Parts(t)[i] \in Users
         /\ \A i, j \in DOMAIN Parts(t) : Parts(t)[i] = Parts(t)[j] => i = j
         /\ Parts(Daemon) = Startup /\ Parts(Monitor) = Sdio
         /\ Clock \in [Users -> Clocks]
         /\ Rx \in SdUsers /\ Tx \in SdUsers /\ Rx # Tx
  BY ClocksAssumption DEF Parts, Tasks, InOrder, SdUsers

LEMMA LenSdio == Len(Sdio) \in Nat /\ Len(Sdio) + 1 \in Nat /\ Len(Sdio) + 1 # Len(Sdio)
  <1>1. Len(Sdio) \in Nat
    BY ClocksAssumption
  <1> QED BY <1>1

\* The two tasks set up different things.
LEMMA Apart ==
  ASSUME NEW s \in Tasks, NEW t \in Tasks, s # t,
         NEW i \in DOMAIN Parts(s), NEW j \in DOMAIN Parts(t)
  PROVE  Parts(s)[i] # Parts(t)[j]
  <1>1. Parts(s)[i] \in InOrder(Parts(s)) /\ Parts(t)[j] \in InOrder(Parts(t))
    BY DEF InOrder
  <1>2. InOrder(Parts(s)) \cap InOrder(Parts(t)) = {}
    BY ClocksAssumption DEF Parts, Tasks, SdUsers
  <1> QED BY <1>1, <1>2

\* A task that has not finished is at one of its parts.
LEMMA AtPart ==
  ASSUME TypeOK, NEW t \in Tasks, ~Finished(t)
  PROVE  /\ part[t] \in DOMAIN Parts(t) /\ part[t] \in Nat /\ User(t) = Parts(t)[part[t]]
         /\ User(t) \in Users /\ Clock[User(t)] \in Clocks
         /\ part[t] + 1 \in 1..(Len(Parts(t)) + 1)
  <1>1. part[t] \in 1..(Len(Parts(t)) + 1) /\ part[t] # Len(Parts(t)) + 1
    BY DEF TypeOK, Finished
  <1> QED BY <1>1, PartsType DEF User

\* The users of a clock are finitely many, and fewer than a count can hold.
LEMMA UsesFinite ==
  ASSUME inuse \subseteq Users, NEW c
  PROVE  /\ IsFiniteSet(Uses(c)) /\ Cardinality(Uses(c)) \in Nat
         /\ Cardinality(Uses(c)) < W
  <1>1. Uses(c) \subseteq Users
    BY DEF Uses
  <1>2. IsFiniteSet(Uses(c)) /\ Cardinality(Uses(c)) <= Cardinality(Users)
    BY <1>1, FS_Subset, ClocksAssumption
  <1> QED BY <1>2, FS_CardinalityType, ClocksAssumption
-----------------------------------------------------------------------------
LEMMA InitInv == ASSUME Init PROVE Inv
<1> USE ClocksAssumption
<1>w. W > 0
  BY FS_CardinalityType
<1>1. TypeOK
  <2>1. \A u \in Tasks : (IF u = Daemon THEN 1 ELSE Len(Sdio) + 1) \in 1..(Len(Parts(u)) + 1)
    BY PartsType DEF Tasks
  <2>2. part \in [Tasks -> Nat] /\ \A u \in Tasks : part[u] \in 1..(Len(Parts(u)) + 1)
    BY <2>1, PartsType DEF Init, Tasks
  <2>3. \A u \in Tasks : periph_mutex = u <=> seen[u] # W
    BY ClocksAssumption DEF Init, Tasks
  <2>4. count \in [Clocks -> 0..(W - 1)] /\ seen \in [Tasks -> 0..W]
    BY <1>w, ClocksAssumption DEF Init
  <2> QED BY <2>2, <2>3, <2>4 DEF Init, TypeOK
<1>2. Balanced
  <2> SUFFICES ASSUME NEW c \in Clocks PROVE Cardinality(Uses(c)) = 0
    BY DEF Init, Balanced
  <2> Uses(c) = {}
    BY DEF Init, Uses
  <2> QED BY FS_EmptySet
<1>3. Reading /\ Setting /\ Taking /\ Phases /\ Complete
  BY PartsType DEF Init, Reading, Setting, Taking, Phases, Complete, Finished, Tasks, Parts
<1>4. Powered
  BY DEF Init, Powered, Starting
<1> QED BY <1>1, <1>2, <1>3, <1>4 DEF Inv
-----------------------------------------------------------------------------
\* The count that is read is that of the users; the clock is on from now.
LEMMA ReadInv == ASSUME Inv, NEW t \in Tasks, ReadCount(t) PROVE Inv'
<1> DEFINE c == Clock[User(t)]
<1> USE DEF Inv, sd
<1>a. /\ ~Finished(t) /\ seen[t] = W /\ (up[t] \/ User(t) \notin streams)
      /\ periph_mutex = Nobody /\ periph_mutex' = t
      /\ seen' = [seen EXCEPT ![t] = count[c]]
      /\ UNCHANGED <<count, part, up, inuse, pc, hal, volume, error, streams, partial>>
  BY DEF ReadCount, periph_lock
<1>b. c \in Clocks /\ count[c] \in 0..(W - 1) /\ count[c] # W /\ W \in Nat
  <2>1. c \in Clocks
    BY <1>a, AtPart
  <2>2. count \in [Clocks -> 0..(W - 1)]
    BY DEF TypeOK
  <2>3. W \in Nat
    BY ClocksAssumption
  <2> HIDE DEF Inv, c
  <2>4. count[c] \in 0..(W - 1)
    BY <2>1, <2>2
  <2> QED BY <2>1, <2>3, <2>4
<1>c. \A s \in Tasks : seen[s] = W
  BY <1>a, ClocksAssumption DEF TypeOK, Tasks
<1>d. \/ on' = [on EXCEPT ![c] = @ \/ (up[t] /\ count[c] = 0)] /\ UNCHANGED broken
      \/ c = CLK48 /\ up[t] /\ count[c] = 0 /\ broken' = TRUE /\ UNCHANGED on
  BY DEF ReadCount
<1>e. seen'[t] = count[c] /\ \A s \in Tasks : s # t => seen'[s] = W
  BY <1>a, <1>c DEF TypeOK
<1>f. \A s \in Tasks : User(s)' = User(s) /\ (Finished(s)' <=> Finished(s))
  BY <1>a DEF User, Finished
<1>1. TypeOK'
  <2>1. on' \in [Clocks -> BOOLEAN] /\ broken' \in BOOLEAN
    BY <1>d, <1>b DEF TypeOK
  <2>2. \A s \in Tasks : periph_mutex' = s <=> seen'[s] # W
    BY <1>a, <1>b, <1>e
  <2>3. seen' \in [Tasks -> 0..W]
    BY <1>a, <1>b DEF TypeOK
  <2> QED BY <2>1, <2>2, <2>3, <1>a DEF TypeOK
<1>2. Balanced'
  BY <1>a DEF Balanced, Uses
<1>3. Reading'
  BY <1>a, <1>b, <1>e, <1>f, <1>c, ClocksAssumption DEF Reading, Tasks
<1>4. Setting' /\ Taking'
  BY <1>a DEF Setting, Taking
<1>5. Phases'
  <2>1. on[CLK48] => on'[CLK48]
    BY <1>d, <1>b, ClocksAssumption DEF TypeOK
  <2> QED BY <1>a, <1>f, <2>1 DEF Phases, Tasks, Finished
<1>6. Powered'
  <2> SUFFICES ASSUME NEW d \in Clocks
               PROVE  IF d = CLK48 THEN count[d] # 0 \/ Starting(d)' => on'[d] \/ broken'
                                   ELSE on'[d] <=> count[d] # 0 \/ Starting(d)'
    BY <1>a DEF Powered
  <2>1. ~Starting(d)
    BY <1>c DEF Starting
  <2>2. Starting(d)' <=> up[t] /\ c = d
    BY <1>a, <1>b, <1>e, <1>f DEF Starting
  <2>3. IF d = CLK48 THEN count[d] # 0 => on[d] \/ broken ELSE on[d] <=> count[d] # 0
    BY <2>1 DEF Powered
  <2>4. on \in [Clocks -> BOOLEAN] /\ broken \in BOOLEAN
    BY DEF TypeOK
  <2>5. CASE d # c
    BY <2>2, <2>3, <2>4, <2>5, <1>d, <1>b
  <2>6. CASE d = c
    BY <2>2, <2>3, <2>4, <2>6, <1>d, <1>b
  <2> QED BY <2>5, <2>6
<1>7. Complete'
  BY <1>a, <1>f DEF Complete, Tasks, Finished
<1> QED BY <1>1, <1>2, <1>3, <1>4, <1>5, <1>6, <1>7
-----------------------------------------------------------------------------
\* What a write of a count does to the uses of the clock: they change as it does.
LEMMA CountInv ==
  ASSUME Inv, NEW t \in Tasks, WriteCount(t)
  PROVE  /\ Balanced' /\ inuse' \subseteq Users /\ count' \in [Clocks -> 0..(W - 1)]
         /\ up[t] => count'[Clock[User(t)]] = count[Clock[User(t)]] + 1
         /\ ~up[t] => count'[Clock[User(t)]] = count[Clock[User(t)]] - 1
<1> SUFFICES ASSUME NEW u, NEW c, u = User(t), c = Clock[u]
             PROVE  /\ Balanced' /\ inuse' \subseteq Users /\ count' \in [Clocks -> 0..(W - 1)]
                    /\ up[t] => count'[c] = count[c] + 1
                    /\ ~up[t] => count'[c] = count[c] - 1
  OBVIOUS
<1> USE DEF Inv
<1>a. /\ ~Finished(t) /\ seen[t] # W
      /\ count' = [count EXCEPT ![c] = (IF up[t] THEN seen[t] + 1 ELSE seen[t] + W - 1) % W]
      /\ inuse' = IF up[t] THEN inuse \cup {u} ELSE inuse \ {u}
  BY DEF WriteCount
<1>b. c \in Clocks /\ u \in Users /\ part[t] \in DOMAIN Parts(t) /\ u = Parts(t)[part[t]]
  BY <1>a, AtPart
<1>c. seen[t] = count[c] /\ count[c] = Cardinality(Uses(c))
  BY <1>a, <1>b DEF Reading, Balanced
<1>d. IF up[t] THEN u \notin inuse ELSE u \in inuse
  <2>1. part[t] \in Nat
    BY DEF TypeOK
  <2>2. ~up[t] => t = Monitor
    BY DEF Reading, Tasks
  <2> QED BY <1>b, <2>1, <2>2, PartsType DEF Setting, Taking
<1>e. inuse \subseteq Users /\ inuse' \subseteq Users /\ Clock[u] = c
  BY <1>a, <1>b DEF TypeOK
<1>f. /\ IsFiniteSet(Uses(c)) /\ Cardinality(Uses(c)) \in Nat
      /\ Cardinality(Uses(c)') \in Nat /\ Cardinality(Uses(c)') < W /\ W \in Nat
  <2>1. IsFiniteSet(Uses(c)) /\ Cardinality(Uses(c)) \in Nat
    BY <1>e, UsesFinite
  <2>2. Uses(c)' \subseteq Users
    BY <1>e DEF Uses
  <2>3. IsFiniteSet(Uses(c)') /\ Cardinality(Uses(c)') <= Cardinality(Users)
    BY <2>2, FS_Subset, ClocksAssumption
  <2> QED BY <2>1, <2>3, FS_CardinalityType, ClocksAssumption
<1>g. Cardinality(Uses(c)') = IF up[t] THEN count[c] + 1 ELSE count[c] - 1
  <2>1. CASE up[t]
    <3>1. Uses(c)' = Uses(c) \cup {u} /\ u \notin Uses(c)
      BY <2>1, <1>a, <1>b, <1>d DEF Uses
    <3>2. Cardinality(Uses(c) \cup {u}) = Cardinality(Uses(c)) + 1
      BY <3>1, <1>f, FS_AddElement
    <3> QED BY <3>1, <3>2, <2>1, <1>c
  <2>2. CASE ~up[t]
    <3>1. Uses(c)' = Uses(c) \ {u} /\ u \in Uses(c)
      BY <2>2, <1>a, <1>b, <1>d DEF Uses
    <3> QED BY <3>1, <2>2, <1>c, <1>f, FS_RemoveElement
  <2> QED BY <2>1, <2>2
<1>h. (IF up[t] THEN seen[t] + 1 ELSE seen[t] + W - 1) % W
        = IF up[t] THEN count[c] + 1 ELSE count[c] - 1
  <2>1. CASE up[t]
    <3>1. count[c] + 1 \in 0..(W - 1)
      BY <2>1, <1>c, <1>f, <1>g
    <3> QED BY <2>1, <3>1, <1>c, <1>f
  <2>2. CASE ~up[t]
    <3>1. count[c] \in 1..(W - 1)
      BY <2>2, <1>c, <1>f, <1>g, <1>b DEF TypeOK
    <3> DEFINE n == count[c]
    <3>2. n \in 1..(W - 1) /\ W \in Nat => (n + W - 1) % W = n - 1
      OBVIOUS
    <3> QED BY <2>2, <3>1, <3>2, <1>c, <1>f
  <2> QED BY <2>1, <2>2
<1>1. count' = [count EXCEPT ![c] = IF up[t] THEN count[c] + 1 ELSE count[c] - 1]
  BY <1>a, <1>h
<1>2. count'[c] = Cardinality(Uses(c)') /\ count'[c] \in 0..(W - 1)
  BY <1>1, <1>b, <1>f, <1>g DEF TypeOK
<1>3. \A d \in Clocks : d # c => Uses(d)' = Uses(d) /\ count'[d] = count[d]
  BY <1>1, <1>a, <1>b DEF Uses, TypeOK
<1>4. Balanced'
  BY <1>2, <1>3, <1>b DEF Balanced
<1>5. count' \in [Clocks -> 0..(W - 1)]
  BY <1>1, <1>2, <1>b DEF TypeOK
<1> QED BY <1>1, <1>4, <1>5, <1>e, <1>b DEF TypeOK

LEMMA WriteInv == ASSUME Inv, NEW t \in Tasks, WriteCount(t) PROVE Inv'
<1> SUFFICES ASSUME NEW u, NEW c, u = User(t), c = Clock[u] PROVE Inv'
  OBVIOUS
<1> USE DEF Inv, sd
<1>a. /\ ~Finished(t) /\ seen[t] # W
      /\ inuse' = IF up[t] THEN inuse \cup {u} ELSE inuse \ {u}
      /\ seen' = [seen EXCEPT ![t] = W] /\ periph_mutex' = Nobody
      /\ \A d \in Clocks : d # c => count'[d] = count[d]
      /\ on' = [on EXCEPT ![c] = (up[t] \/ c = CLK48 \/ count'[c] # 0) /\ @]
      /\ UNCHANGED <<up, pc, hal, volume, broken>>
  BY DEF WriteCount, SwitchOff, TypeOK
<1>b. \/ /\ part' = [part EXCEPT ![t] = Len(Parts(t)) + 1]
         /\ error' = (error \/ t = Monitor) /\ up[t] /\ UNCHANGED streams
         /\ partial' = (partial \/ (t = Monitor /\ up[t]))
      \/ /\ part' = [part EXCEPT ![t] = @ + 1] /\ UNCHANGED <<error, partial>>
         /\ streams' = IF u \in {Rx, Tx} /\ up[t] THEN streams \cup {u} ELSE streams
  BY DEF WriteCount, GiveUp, Proceed
<1>c. /\ c \in Clocks /\ u \in Users /\ u = Parts(t)[part[t]] /\ part[t] \in DOMAIN Parts(t)
      /\ part[t] \in Nat /\ part[t] + 1 \in 1..(Len(Parts(t)) + 1)
  BY <1>a, AtPart
<1>d. \A s \in Tasks : s # t => seen[s] = W
  BY <1>a DEF TypeOK
<1>e. seen'[t] = W /\ \A s \in Tasks : seen'[s] = W
  BY <1>a, <1>d DEF TypeOK
<1>f. part'[t] \in {part[t] + 1, Len(Parts(t)) + 1} /\ \A s \in Tasks : s # t => part'[s] = part[s]
  BY <1>b DEF TypeOK
<1>g. part'[t] > part[t] /\ part'[t] \in 1..(Len(Parts(t)) + 1) /\ Len(Parts(t)) \in Nat
  BY <1>c, <1>f, PartsType
<1>h. ~up[t] => t = Monitor /\ part' = [part EXCEPT ![t] = @ + 1] /\ UNCHANGED <<error, streams>>
  BY <1>b DEF Reading, Tasks
<1>i. /\ Balanced' /\ inuse' \subseteq Users /\ count' \in [Clocks -> 0..(W - 1)]
      /\ up[t] => count'[c] = count[c] + 1
      /\ ~up[t] => count'[c] = count[c] - 1
  BY CountInv
<1>1. TypeOK'
  <2>1. \A s \in Tasks : periph_mutex' = s <=> seen'[s] # W
    BY <1>a, <1>e, ClocksAssumption DEF Tasks
  <2>2. part' \in [Tasks -> Nat] /\ \A s \in Tasks : part'[s] \in 1..(Len(Parts(s)) + 1)
    <3>1. part' \in [Tasks -> Nat]
      <4>1. part \in [Tasks -> Nat] /\ part[t] + 1 \in Nat /\ Len(Parts(t)) + 1 \in Nat
        BY <1>c, <1>g DEF TypeOK
      <4> QED BY <4>1, <1>b
    <3> QED BY <3>1, <1>f, <1>g DEF TypeOK
  <2>3. /\ on' \in [Clocks -> BOOLEAN] /\ streams' \subseteq {Rx, Tx} /\ error' \in BOOLEAN
        /\ partial' \in BOOLEAN
    BY <1>a, <1>b DEF TypeOK
  <2>4. seen' \in [Tasks -> 0..W] /\ periph_mutex' \in Tasks \cup {Nobody}
    BY <1>a, ClocksAssumption DEF TypeOK
  <2> QED BY <2>1, <2>2, <2>3, <2>4, <1>a, <1>i DEF TypeOK
<1>2. Reading'
  BY <1>a, <1>e DEF Reading, Tasks
<1>3. Setting'
  <2> SUFFICES ASSUME NEW s \in Tasks, up[s], NEW i \in DOMAIN Parts(s), i >= part'[s]
               PROVE  Parts(s)[i] \notin inuse'
    BY <1>a DEF Setting, Parts
  <2>0. part[s] \in Nat /\ i \in Nat /\ (s = t => part'[s] \in Nat)
    <3>1. part[s] \in Nat
      BY DEF TypeOK
    <3>2. i \in Nat
      <4> HIDE DEF Inv, sd
      <4> QED BY PartsType
    <3>3. part'[t] \in Nat
      <4> HIDE DEF Inv, sd
      <4> QED BY <1>g
    <3> QED BY <3>1, <3>2, <3>3
  <2>1. i >= part[s]
    BY <2>0, <1>c, <1>f, <1>g
  <2>2. Parts(s)[i] \notin inuse
    BY <2>1 DEF Setting
  <2>3. Parts(s)[i] # u
    <3>1. CASE s = t
      BY <3>1, <1>c, <1>g, PartsType
    <3>2. CASE s # t
      BY <3>2, <1>c, Apart
    <3> QED BY <3>1, <3>2
  <2> QED BY <2>2, <2>3, <1>a
<1>4. Taking'
  <2> SUFFICES ASSUME ~up[Monitor], NEW i \in DOMAIN Sdio
               PROVE  /\ i >= part'[Monitor] => Sdio[i] \in inuse'
                      /\ i < part'[Monitor] /\ ~error' => Sdio[i] \notin inuse' /\ Sdio[i] \notin streams'
    BY <1>a DEF Taking
  <2>0. Monitor \in Tasks /\ part[Monitor] \in Nat /\ i \in Nat /\ DOMAIN Sdio = DOMAIN Parts(Monitor)
    BY PartsType DEF Tasks, TypeOK
  <2>1. CASE t = Monitor
    <3>1. inuse' = inuse \ {u} /\ part'[t] = part[t] + 1 /\ UNCHANGED <<error, streams>>
      BY <2>1, <1>a, <1>h DEF TypeOK
    <3>2. u = Sdio[part[t]] /\ (Sdio[i] = u <=> i = part[t])
      BY <2>1, <2>0, <1>c, PartsType
    <3>3. u \notin streams
      BY <2>1, <1>a DEF Reading
    <3> QED BY <2>1, <2>0, <3>1, <3>2, <3>3 DEF Taking
  <2>2. CASE t # Monitor
    <3>1. t = Daemon /\ up[t] /\ part'[Monitor] = part[Monitor]
      BY <2>2, <2>0, <1>f DEF Tasks, Reading
    <3>2. \A j \in DOMAIN Sdio : Sdio[j] # u
      BY <2>2, <2>0, <1>c, Apart, PartsType
    <3>3. UNCHANGED <<error, streams>>
      BY <3>1, <3>2, <2>2, <1>b, PartsType DEF SdUsers, InOrder, TypeOK
    <3> QED BY <2>0, <3>1, <3>2, <3>3, <1>a DEF Taking
  <2> QED BY <2>1, <2>2
<1>5. Phases'
  <2>0. /\ Monitor \in Tasks /\ Parts(Monitor) = Sdio /\ DOMAIN Sdio = DOMAIN Parts(Monitor)
        /\ on[CLK48] => on'[CLK48]
    BY <1>a, <1>c, PartsType, ClocksAssumption DEF Tasks, TypeOK
  <2>1. CASE t = Monitor
    <3>1. pc # "idle"
      BY <2>1, <1>a DEF Phases
    <3>2. CASE pc = "down"
      <4>1. ~up[Monitor] /\ volume = "mounted" /\ UNCHANGED error
        BY <2>1, <3>2, <1>h DEF Phases
      <4>2. ~error
        BY <2>1, <3>2, <1>a DEF Phases
      <4> QED BY <3>2, <4>1, <4>2, <1>a DEF Phases
    <3>3. CASE pc = "card"
      <4>1. up[t] /\ volume = "none" /\ hal # "ready"
        BY <2>1, <3>3, <1>a DEF Phases
      <4>2. /\ u = Sdio[part[t]] /\ u \notin inuse /\ inuse' = inuse \cup {u}
            /\ part[t] \in DOMAIN Sdio
        BY <2>1, <2>0, <4>1, <1>a, <1>c, PartsType DEF Setting
      <4>3. ASSUME Rx \in streams'
            PROVE  Rx \in inuse' /\ (Tx \in inuse' \/ part'[Monitor] = Len(Sdio))
        <5>1. CASE u = Rx
          <6>1. Rx \notin streams
            BY <5>1, <4>1, <4>2, <3>3 DEF Phases
          <6>2. part' = [part EXCEPT ![t] = @ + 1]
            BY <6>1, <4>3, <1>b
          <6>3. Len(Sdio) - 1 \in DOMAIN Sdio /\ Sdio[Len(Sdio) - 1] = Rx
            BY <2>0, PartsType, ClocksAssumption
          <6>4. part[t] = Len(Sdio) - 1
            BY <6>3, <5>1, <4>2, <2>0, PartsType
          <6> QED BY <6>2, <6>4, <5>1, <4>2, <2>1, ClocksAssumption DEF TypeOK, Tasks
        <5>2. CASE u # Rx
          <6>1. Rx \in streams
            BY <5>2, <4>3, <1>b
          <6>2. Rx \in inuse /\ (Tx \in inuse \/ part[Monitor] = Len(Sdio))
            BY <6>1, <4>1, <3>3 DEF Phases
          <6>3. part[Monitor] = Len(Sdio) => u = Tx
            BY <4>2, <2>1, ClocksAssumption
          <6> QED BY <6>2, <6>3, <4>2
        <5> QED BY <5>1, <5>2
      <4> QED BY <3>3, <4>1, <4>3, <1>a DEF Phases
    <3> QED BY <3>1, <3>2, <3>3 DEF TypeOK
  <2>2. CASE t # Monitor
    <3>1. t = Daemon /\ up[t] /\ part'[Monitor] = part[Monitor] /\ inuse' = inuse \cup {u}
      BY <2>2, <2>0, <1>a, <1>f DEF Tasks, Reading
    <3>2. u \notin SdUsers
      <4>1. \A j \in DOMAIN Sdio : Sdio[j] # u
        BY <2>2, <2>0, <1>c, Apart, PartsType
      <4> QED BY <4>1 DEF SdUsers, InOrder
    <3>3. UNCHANGED <<error, streams>> /\ (Finished(Monitor)' <=> Finished(Monitor))
      BY <3>1, <3>2, <2>2, <2>0, <1>b, PartsType DEF TypeOK, Finished, Parts
    <3> QED BY <3>1, <3>2, <3>3, <2>0, <1>a DEF Phases
  <2> QED BY <2>1, <2>2
<1>6. Powered'
  <2> SUFFICES ASSUME NEW d \in Clocks
               PROVE  IF d = CLK48 THEN count'[d] # 0 => on'[d] \/ broken
                                   ELSE on'[d] <=> count'[d] # 0
    BY <1>a, <1>e DEF Powered, Starting
  <2>1. on \in [Clocks -> BOOLEAN] /\ count \in [Clocks -> 0..(W - 1)] /\ W \in Nat
    BY ClocksAssumption DEF TypeOK
  <2>2. Starting(c) <=> up[t]
    BY <1>a, <1>d DEF Starting
  <2>3. CASE d = c
    <3>1. IF c = CLK48 THEN count[c] # 0 \/ up[t] => on[c] \/ broken
                       ELSE on[c] <=> count[c] # 0 \/ up[t]
      BY <1>c, <2>2 DEF Powered
    <3>2. on'[c] = ((up[t] \/ c = CLK48 \/ count'[c] # 0) /\ on[c])
      BY <1>a, <1>c, <2>1
    <3>3. up[t] => count'[c] # 0
      BY <1>c, <1>i, <2>1
    <3>4. ~up[t] => count[c] # 0
      BY <1>c, <1>i, <2>1
    <3> QED BY <2>3, <3>1, <3>2, <3>3, <3>4
  <2>4. CASE d # c
    <3>1. ~Starting(d) \/ (up[t] /\ Clock[User(t)] = d)
      BY <1>d DEF Starting
    <3>2. ~Starting(d)
      BY <3>1, <2>4
    <3> QED BY <2>4, <3>2, <1>a, <1>c, <2>1 DEF Powered
  <2> QED BY <2>3, <2>4
<1>7. Complete'
  <2>0. Monitor \in Tasks /\ Parts(Monitor) = Sdio /\ DOMAIN Sdio = DOMAIN Parts(Monitor)
    BY PartsType DEF Tasks
  <2>1. CASE t = Monitor
    <3>1. pc # "idle"
      BY <2>1, <1>a DEF Phases
    <3>2. CASE pc = "down"
      BY <3>2, <1>a DEF Complete
    <3>3. CASE pc = "card"
      <4>1. up[t]
        BY <2>1, <3>3 DEF Phases
      <4>2. CASE partial'
        BY <4>2, <3>3, <1>a DEF Complete
      <4>3. CASE ~partial'
        <5>1. /\ part' = [part EXCEPT ![t] = @ + 1]
              /\ streams' = IF u \in {Rx, Tx} THEN streams \cup {u} ELSE streams
          BY <4>1, <4>3, <2>1, <1>b
        <5>2. ASSUME Finished(Monitor)' PROVE Tx \in streams'
          <6>1. part'[t] = Len(Sdio) + 1 /\ part'[t] = part[t] + 1
            BY <5>1, <5>2, <2>0, <2>1 DEF TypeOK, Finished, Parts
          <6>2. part[t] = Len(Sdio)
            BY <6>1, <1>c, LenSdio
          <6>3. u = Tx
            BY <6>2, <2>0, <2>1, <1>c, ClocksAssumption
          <6> QED BY <6>3, <5>1
        <5> QED BY <5>2, <3>3, <1>a DEF Complete
      <4> QED BY <4>2, <4>3
    <3> QED BY <3>1, <3>2, <3>3 DEF TypeOK
  <2>2. CASE t # Monitor
    <3>1. part'[Monitor] = part[Monitor]
      BY <2>0, <2>2, <1>f
    <3>2. u \notin SdUsers
      <4>1. \A j \in DOMAIN Sdio : Sdio[j] # u
        BY <2>2, <2>0, <1>c, Apart, PartsType
      <4> QED BY <4>1 DEF SdUsers, InOrder
    <3>3. UNCHANGED <<streams, partial>> /\ (Finished(Monitor)' <=> Finished(Monitor))
      BY <3>1, <3>2, <2>2, <2>0, <1>b, PartsType DEF TypeOK, Finished, Parts
    <3> QED BY <3>3, <1>a DEF Complete
  <2> QED BY <2>1, <2>2
<1> QED BY <1>1, <1>2, <1>3, <1>4, <1>5, <1>6, <1>7, <1>i
-----------------------------------------------------------------------------
\* The steps that touch no count.
LEMMA SameCounts ==
  ASSUME Inv, UNCHANGED <<count, on, seen, periph_mutex, inuse, broken>>,
         part' \in [Tasks -> Nat], up' \in [Tasks -> BOOLEAN], streams' \subseteq streams,
         \A t \in Tasks : seen[t] # W => part'[t] = part[t] /\ up'[t] = up[t],
         part'[Daemon] = part[Daemon] /\ up'[Daemon] = up[Daemon]
  PROVE  Balanced' /\ Reading' /\ Powered'
<1> USE DEF Inv
<1>1. Balanced'
  BY DEF Balanced, Uses
<1>2. \A t \in Tasks : seen[t] # W => User(t)' = User(t) /\ (Finished(t)' <=> Finished(t))
  BY DEF User, Finished
<1>3. Reading'
  BY <1>2 DEF Reading, Tasks
<1>4. \A c \in Clocks : Starting(c)' <=> Starting(c)
  BY <1>2 DEF Starting
<1> QED BY <1>1, <1>3, <1>4 DEF Powered

LEMMA StreamDownInv == ASSUME Inv, StreamDown PROVE Inv'
<1> USE DEF Inv, sd
<1>a. /\ ~Finished(Monitor) /\ seen[Monitor] = W /\ ~up[Monitor]
      /\ UNCHANGED <<count, on, periph_mutex, seen, inuse, broken, up, pc, hal, volume>>
      /\ \/ /\ streams' = streams \ {User(Monitor)} /\ UNCHANGED <<part, error>>
         \/ /\ part' = [part EXCEPT ![Monitor] = Len(Sdio) + 1] /\ error' = TRUE
            /\ UNCHANGED streams
      /\ partial' \in BOOLEAN
  BY PartsType DEF StreamDown, GiveUp, Tasks, TypeOK
<1>b. Monitor \in Tasks /\ Monitor # Daemon /\ Len(Sdio) \in Nat /\ Parts(Monitor) = Sdio
  BY PartsType, ClocksAssumption DEF Tasks
<1>c. part' \in [Tasks -> Nat] /\ part'[Daemon] = part[Daemon] /\ streams' \subseteq streams
  BY <1>a, <1>b DEF TypeOK, Tasks
<1>d. \/ part'[Monitor] = part[Monitor] /\ UNCHANGED <<part, error>>
      \/ part'[Monitor] = Len(Sdio) + 1 /\ error'
  <2>1. part \in [Tasks -> Nat]
    BY DEF TypeOK
  <2> QED BY <2>1, <1>a, <1>b
<1>1. TypeOK'
  <2>1. \A t \in Tasks : part'[t] \in 1..(Len(Parts(t)) + 1)
    <3>1. Len(Sdio) + 1 \in 1..(Len(Sdio) + 1)
      BY <1>b
    <3> QED BY <3>1, <1>b, <1>c, <1>d DEF TypeOK, Tasks
  <2> QED BY <2>1, <1>a, <1>c DEF TypeOK
<1>2. Balanced' /\ Reading' /\ Powered'
  <2>1. up \in [Tasks -> BOOLEAN]
    BY DEF TypeOK
  <2>2. \A t \in Tasks : seen[t] # W => part'[t] = part[t] /\ up'[t] = up[t]
    BY <1>a, <1>b, <1>c DEF Tasks
  <2> QED BY <1>a, <1>c, <2>1, <2>2, SameCounts DEF Tasks
<1>3. Setting'
  BY <1>a, <1>b, <1>c DEF Setting, Parts, Tasks
<1>4. Taking'
  <2>1. \A i \in DOMAIN Sdio : i \in Nat /\ ~(i >= Len(Sdio) + 1)
    BY <1>b, PartsType
  <2> QED BY <2>1, <1>a, <1>c, <1>d DEF Taking
<1>5. Phases'
  <2>1. pc = "down"
    BY <1>a DEF Phases, TypeOK
  <2> QED BY <2>1, <1>a, <1>b, <1>d DEF Phases, Finished
<1>6. Complete'
  <2>1. pc = "down"
    BY <1>a DEF Phases, TypeOK
  <2> QED BY <2>1, <1>a DEF Complete
<1> QED BY <1>1, <1>2, <1>3, <1>4, <1>5, <1>6

\* A busy HAL refuses, and nothing else changes.
LEMMA RefusedInv == ASSUME Inv, sdio_deinit, pc' = "idle" PROVE Inv'
<1> USE DEF Inv
<1>1. /\ UNCHANGED <<count, on, periph_mutex, part, seen, inuse, broken, up, pc, hal, error,
                     streams, partial>>
      /\ volume' = "stuck"
  BY DEF sdio_deinit
<1>2. TypeOK' /\ Balanced' /\ Setting' /\ Taking'
  BY <1>1 DEF TypeOK, Balanced, Uses, Setting, Taking
<1>3. Reading' /\ Powered'
  BY <1>1 DEF Reading, Powered, Starting, User, Finished
<1>4. Phases' /\ Complete'
  BY <1>1 DEF sdio_deinit, Phases, Complete, Finished
<1> QED BY <1>2, <1>3, <1>4

LEMMA BeginInv == ASSUME Inv, sdio_init \/ sdio_deinit, pc' # "idle" PROVE Inv'
<1> USE DEF Inv, sd
<1>a. /\ pc = "idle" /\ Finished(Monitor) /\ Monitor \in Tasks /\ Monitor # Daemon
      /\ Len(Sdio) \in Nat /\ Parts(Monitor) = Sdio /\ DOMAIN Sdio = 1..Len(Sdio)
      /\ UNCHANGED <<count, on, periph_mutex, seen, inuse, broken, hal, volume, streams>>
  BY PartsType, ClocksAssumption DEF sdio_init, sdio_deinit, Phases, Tasks
<1>b. \/ /\ sdio_init /\ volume = "none" /\ ~error' /\ pc' = "card"
         /\ up' = [up EXCEPT ![Monitor] = TRUE]
         /\ part' = [part EXCEPT ![Monitor] = IF hal = "reset" THEN 1 ELSE Len(Sdio) + 1]
         /\ error' \in BOOLEAN
      \/ /\ sdio_deinit /\ volume = "mounted" /\ UNCHANGED error /\ pc' = "down"
         /\ up' = [up EXCEPT ![Monitor] = FALSE] /\ part' = [part EXCEPT ![Monitor] = 1]
  BY <1>a DEF sdio_init, sdio_deinit
<1>c. /\ part' \in [Tasks -> Nat] /\ up' \in [Tasks -> BOOLEAN]
      /\ part'[Daemon] = part[Daemon] /\ up'[Daemon] = up[Daemon]
      /\ part'[Monitor] \in {1, Len(Sdio) + 1}
  <2>1. part \in [Tasks -> Nat] /\ up \in [Tasks -> BOOLEAN] /\ Daemon \in Tasks
    BY DEF TypeOK, Tasks
  <2>2. up' \in [Tasks -> BOOLEAN] /\ up'[Daemon] = up[Daemon]
    BY <2>1, <1>a, <1>b
  <2>3. PICK n \in {1, Len(Sdio) + 1} : part' = [part EXCEPT ![Monitor] = n]
    BY <1>b
  <2>4. n \in Nat
    BY LenSdio
  <2>5. part' \in [Tasks -> Nat] /\ part'[Daemon] = part[Daemon] /\ part'[Monitor] = n
    BY <2>1, <2>3, <2>4, <1>a
  <2> QED BY <2>2, <2>5
<1>d. seen[Monitor] = W
  BY <1>a DEF Reading
<1>e. /\ partial' \in BOOLEAN
      /\ sdio_deinit => pc' = "down"
      /\ sdio_init => pc' = "card" /\ volume = "none" /\ (hal # "reset" => partial' = partial)
  BY <1>a, <1>b DEF sdio_init, sdio_deinit, TypeOK
<1>1. TypeOK'
  <2>1. \A t \in Tasks : part'[t] \in 1..(Len(Parts(t)) + 1)
    BY <1>a, <1>c DEF TypeOK, Tasks
  <2> QED BY <2>1, <1>a, <1>b, <1>c, <1>e DEF TypeOK
<1>2. Balanced' /\ Reading' /\ Powered'
  <2>1. \A t \in Tasks : seen[t] # W => part'[t] = part[t] /\ up'[t] = up[t]
    BY <1>c, <1>d DEF Tasks
  <2> QED BY <1>a, <1>c, <2>1, SameCounts
<1>3. ASSUME sdio_init PROVE Setting' /\ Taking' /\ Phases'
  <2>1. /\ volume = "none" /\ ~error' /\ pc' = "card" /\ up'[Monitor]
        /\ part'[Monitor] = IF hal = "reset" THEN 1 ELSE Len(Sdio) + 1
    BY <1>3, <1>a, <1>b DEF TypeOK, sdio_init
  <2>2. hal = "reset" => SdUsers \cap inuse = {} /\ streams = {}
    BY <1>a, <2>1 DEF Phases
  <2>3. \A i \in DOMAIN Sdio : i >= part'[Monitor] => Sdio[i] \notin inuse
    BY <2>1, <2>2, <1>a DEF SdUsers, InOrder
  <2>4. Setting'
    BY <2>3, <1>a, <1>c DEF Setting, Tasks, Parts
  <2>5. Phases'
    <3>1. hal = "ready" => Finished(Monitor)'
      BY <2>1, <1>a DEF Finished, Parts
    <3>2. Rx \in streams => Rx \in inuse /\ Tx \in inuse
      <4>1. part[Monitor] = Len(Sdio) + 1
        BY <1>a DEF Finished
      <4>2. Rx \in streams => Rx \in inuse /\ (Tx \in inuse \/ part[Monitor] = Len(Sdio))
        BY <1>a, <2>1 DEF Phases
      <4> QED BY <4>1, <4>2, LenSdio
    <3> QED BY <3>1, <3>2, <2>1, <1>a DEF Phases
  <2> QED BY <2>1, <2>4, <2>5 DEF Taking
<1>4. ASSUME sdio_deinit PROVE Setting' /\ Taking' /\ Phases'
  <2>1. /\ volume = "mounted" /\ ~error /\ UNCHANGED error /\ pc' = "down" /\ ~up'[Monitor]
        /\ part'[Monitor] = 1 /\ SdUsers \subseteq inuse
    BY <1>4, <1>a, <1>b DEF TypeOK, sdio_deinit, Phases
  <2>2. Setting'
    BY <2>1, <1>a, <1>c DEF Setting, Tasks, Parts
  <2>3. Taking'
    BY <2>1, <1>a DEF Taking, SdUsers, InOrder
  <2> QED BY <2>1, <2>2, <2>3, <1>a DEF Phases
<1>5. Complete'
  <2>1. CASE sdio_deinit
    BY <2>1, <1>e DEF Complete
  <2>2. CASE sdio_init /\ hal = "reset"
    <3>1. part'[Monitor] = 1
      BY <2>2, <1>a DEF sdio_init, TypeOK
    <3>2. ~Finished(Monitor)'
      BY <3>1, <1>a, ClocksAssumption DEF Finished, Parts
    <3> QED BY <3>2, <2>2, <1>e DEF Complete
  <2>3. CASE sdio_init /\ hal # "reset"
    <3>1. hal = "ready"
      BY <2>3 DEF TypeOK
    <3> QED BY <3>1, <2>3, <1>a, <1>e DEF Complete
  <2> QED BY <2>1, <2>2, <2>3
<1> QED BY <1>1, <1>2, <1>3, <1>4, <1>5

LEMMA EndInv == ASSUME Inv, InitCard \/ Deinited PROVE Inv'
<1> USE DEF Inv, rcc
<1>a. /\ Finished(Monitor) /\ Monitor \in Tasks /\ Len(Sdio) \in Nat
      /\ Parts(Monitor) = Sdio /\ DOMAIN Sdio = 1..Len(Sdio)
      /\ UNCHANGED <<count, on, periph_mutex, part, seen, inuse, broken, up, error, streams,
                     partial>>
      /\ pc' = "idle"
  BY PartsType DEF InitCard, Deinited, Tasks
<1>b. part[Monitor] = Len(Sdio) + 1 /\ Finished(Monitor)'
  BY <1>a DEF Finished, Parts
<1>1. TypeOK'
  BY <1>a DEF TypeOK, InitCard, Deinited
<1>2. Balanced' /\ Reading' /\ Powered'
  BY <1>a, SameCounts DEF TypeOK, Tasks
<1>3. Setting' /\ Taking'
  BY <1>a DEF Setting, Taking
<1>4. ASSUME InitCard PROVE Phases'
  <2>1. /\ pc = "card" /\ hal' = "ready" /\ up[Monitor] /\ volume = "none"
        /\ \/ /\ on[CLK48] /\ SdUsers \ {Rx, Tx} \subseteq inuse /\ ~error /\ Rx \in streams
              /\ volume' = "mounted"
           \/ UNCHANGED volume
    BY <1>4 DEF InitCard, Phases
  <2>2. Rx \in streams => Rx \in inuse /\ Tx \in inuse
    <3>1. Rx \in streams => Rx \in inuse /\ (Tx \in inuse \/ part[Monitor] = Len(Sdio))
      BY <2>1 DEF Phases
    <3> QED BY <3>1, <1>b, LenSdio
  <2> QED BY <2>1, <2>2, <1>a, <1>b DEF Phases
<1>5. ASSUME Deinited PROVE Phases'
  <2>1. pc = "down" /\ hal' = "reset" /\ volume' = (IF error THEN "stuck" ELSE "none") /\ ~up[Monitor]
    BY <1>5 DEF Deinited, Phases
  <2>2. ~error => SdUsers \cap inuse = {} /\ streams = {}
    <3> SUFFICES ASSUME ~error PROVE SdUsers \cap inuse = {} /\ streams = {}
      OBVIOUS
    <3>1. \A i \in DOMAIN Sdio : Sdio[i] \notin inuse /\ Sdio[i] \notin streams
      BY <2>1, <1>a, <1>b DEF Taking
    <3>2. streams \subseteq SdUsers
      BY <1>a, PartsType DEF TypeOK
    <3> QED BY <3>1, <3>2 DEF SdUsers, InOrder
  <2> QED BY <2>1, <2>2, <1>a, <1>b DEF Phases
<1>6. ASSUME InitCard PROVE Complete'
  <2>1. pc = "card" /\ volume = "none" /\ (volume' = "mounted" => Rx \in streams)
    BY <1>6 DEF InitCard, Phases
  <2> QED BY <2>1, <1>a DEF Complete
<1>7. ASSUME Deinited PROVE Complete'
  <2>1. hal' = "reset" /\ volume' # "mounted"
    BY <1>7 DEF Deinited
  <2> QED BY <2>1, <1>a DEF Complete
<1> QED BY <1>1, <1>2, <1>3, <1>4, <1>5, <1>6, <1>7
-----------------------------------------------------------------------------
LEMMA NextInv == Inv /\ [Next]_vars => Inv'
<1> SUFFICES ASSUME Inv, [Next]_vars PROVE Inv'
  OBVIOUS
<1>1. CASE Next
  <2>1. sdio_init => pc' # "idle"
    BY DEF sdio_init
  <2> QED BY <1>1, <2>1, ReadInv, WriteInv, StreamDownInv, RefusedInv, BeginInv, EndInv DEF Next
<1>2. CASE UNCHANGED vars
  <2>1. UNCHANGED <<count, on, periph_mutex, part, seen, inuse, broken, up, pc, hal, volume,
                    error, streams, partial>>
    BY <1>2 DEF vars, rcc, sd
  <2> QED BY <2>1 DEF Inv, TypeOK, Balanced, Uses, Reading, Setting, Taking, Phases, Complete,
                      Powered, Starting, User, Finished
<1> QED BY <1>1, <1>2

LEMMA Invariance == Spec => []Inv
<1> QED BY InitInv, NextInv, PTL DEF Spec
-----------------------------------------------------------------------------
\* The types of the variables; and the counts are worked on under the mutex only
\* (rcc.c:314-431).
THEOREM ClocksTypeCorrect == Spec => []TypeOK
<1>1. Inv => TypeOK
  BY DEF Inv
<1> QED BY Invariance, <1>1, PTL

\* rcc.c:314-431: however the start-up hook and the monitor interleave, and whichever
\* clock, stream or card fails, the count of a clock is the number of its users.
THEOREM CountsBalanced == Spec => []Balanced
<1>1. Inv => Balanced
  BY DEF Inv
<1> QED BY Invariance, <1>1, PTL

\* rcc.c:320-348: a clock runs exactly while something uses it.
THEOREM ClocksRun == Spec => []Running
<1>1. ASSUME Inv PROVE Running
  <2>1. periph_mutex = Nobody => \A c \in Clocks : ~Starting(c)
    BY <1>1, ClocksAssumption DEF Inv, TypeOK, Starting, Tasks
  <2> QED BY <2>1, <1>1 DEF Inv, Powered, Running
<1> QED BY Invariance, <1>1, PTL

\* sdcard.c:364-495: a mounted card has all its pins, clocks and streams in use and
\* clocked and its receiving stream initialised, and the transmitting one unless that
\* one ended the set-up; one that is unmounted has none left.
THEOREM CardClocked == Spec => []MountedClocked
<1>1. ASSUME Inv PROVE MountedClocked
  <2>1. ASSUME volume = "mounted", pc = "idle", NEW u \in SdUsers PROVE on[Clock[u]]
    <3>1. u \in Users /\ Clock[u] \in Clocks /\ u \in inuse
      BY <1>1, <2>1, PartsType DEF Inv, Phases, SdUsers, InOrder, Tasks
    <3>2. CASE Clock[u] = CLK48
      BY <1>1, <2>1, <3>2 DEF Inv, Phases
    <3>3. CASE Clock[u] # CLK48
      <4>1. u \in Uses(Clock[u]) /\ IsFiniteSet(Uses(Clock[u]))
        BY <1>1, <3>1, UsesFinite DEF Inv, TypeOK, Uses
      <4>2. Cardinality(Uses(Clock[u])) # 0
        BY <4>1, FS_EmptySet
      <4> QED BY <1>1, <3>1, <3>3, <4>2 DEF Inv, Balanced, Powered
    <3> QED BY <3>2, <3>3
  <2>2. /\ volume = "mounted" /\ pc = "idle" => SdUsers \subseteq inuse
        /\ volume = "none" /\ hal = "reset" /\ pc = "idle" =>
             SdUsers \cap inuse = {} /\ streams = {}
    BY <1>1 DEF Inv, Phases
  <2>3. ASSUME volume = "mounted", pc = "idle" PROVE Rx \in streams /\ (Tx \in streams \/ partial)
    <3>1. Finished(Monitor)
      BY <1>1, <2>3 DEF Inv, Phases
    <3> QED BY <1>1, <2>3, <3>1 DEF Inv, Complete
  <2> QED BY <2>1, <2>2, <2>3 DEF MountedClocked
<1> QED BY Invariance, <1>1, PTL
-----------------------------------------------------------------------------
(* The circular list.                                                      *)

\* The pointers l stand for the sequence s: the head points at the last node, each
\* node at the next one and the last at the first.
StandsFor(l, s) ==
  /\ l \in L!List /\ s \in Seq(Nodes)
  /\ \A i, j \in 1..Len(s) : s[i] = s[j] => i = j
  /\ s = <<>> => l.tail = NULL
  /\ s # <<>> => l.tail = s[Len(s)] /\ l.link[s[Len(s)]] = s[1]
  /\ \A i \in 1..(Len(s) - 1) : l.link[s[i]] = s[i + 1]

\* The order of the list: what follows node i of s.
LEMMA Standing ==
  ASSUME L!NodesAssumption, NEW l, NEW s, StandsFor(l, s)
  PROVE  /\ Len(s) \in Nat /\ (s = <<>> <=> Len(s) = 0)
         /\ \A i \in 1..Len(s) : s[i] \in Nodes /\ s[i] # NULL
         /\ l.link \in [Nodes -> Nodes \cup {NULL}] /\ l.tail \in Nodes \cup {NULL}
         /\ l = [tail |-> l.tail, link |-> l.link]
         /\ l.tail = NULL <=> s = <<>>
         /\ s # <<>> => /\ Len(s) > 0 /\ l.tail = s[Len(s)] /\ l.link[s[Len(s)]] = s[1]
                        /\ s[1] \in Nodes /\ s[Len(s)] \in Nodes
<1>1. Len(s) \in Nat /\ (s = <<>> <=> Len(s) = 0)
  BY EmptySeq DEF StandsFor
<1>2. ASSUME NEW i \in 1..Len(s) PROVE s[i] \in Nodes /\ s[i] # NULL
  <2>1. s[i] \in Nodes
    BY ElementOfSeq DEF StandsFor
  <2>. QED BY <2>1 DEF L!NodesAssumption
<1>3. /\ l.link \in [Nodes -> Nodes \cup {NULL}] /\ l.tail \in Nodes \cup {NULL}
      /\ l = [tail |-> l.tail, link |-> l.link]
  BY DEF StandsFor, L!List, L!Pointer
<1>4. s # <<>> => 1 \in 1..Len(s) /\ Len(s) \in 1..Len(s) /\ Len(s) > 0
  BY <1>1
<1>5. l.tail = NULL <=> s = <<>>
  <2>1. CASE s # <<>>
    <3>1. Len(s) \in 1..Len(s)
      BY <1>1, <2>1
    <3>. QED BY <1>2, <2>1, <3>1 DEF StandsFor
  <2>2. CASE s = <<>>
    BY <2>2 DEF StandsFor
  <2>. QED BY <2>1, <2>2
<1>6. ASSUME s # <<>>
      PROVE  /\ Len(s) > 0 /\ l.tail = s[Len(s)] /\ l.link[s[Len(s)]] = s[1]
             /\ s[1] \in Nodes /\ s[Len(s)] \in Nodes
  BY <1>2, <1>4, <1>6 DEF StandsFor
<1>. QED BY <1>1, <1>2, <1>3, <1>5, <1>6

\* Pointers in place make a list, and the other way round.
LEMMA Stood ==
  ASSUME L!NodesAssumption, NEW a \in Nodes, NEW s \in Seq(Nodes), NEW k \in Nat, Len(s) = k + 1,
         \A i, j \in 1..(k + 1) : s[i] = s[j] => i = j,
         NEW f \in [Nodes -> Nodes \cup {NULL}], a = s[k + 1], f[s[k + 1]] = s[1],
         \A i \in 1..k : f[s[i]] = s[i + 1]
  PROVE  StandsFor([tail |-> a, link |-> f], s)
<1>1. s # <<>>
  OBVIOUS
<1>2. [tail |-> a, link |-> f] \in L!List
  BY DEF L!List, L!Pointer
<1>3. Len(s) - 1 = k
  OBVIOUS
<1>. QED BY <1>1, <1>2, <1>3 DEF StandsFor

LEMMA PushedRight ==
  ASSUME L!NodesAssumption, NEW l, NEW s, StandsFor(l, s),
         NEW n \in Nodes, \A i \in 1..Len(s) : s[i] # n
  PROVE  StandsFor(L!clist_rpush(l, n), Append(s, n))
<1>. DEFINE k == Len(s)
            t == Append(s, n)
<1>1. k \in Nat /\ s \in Seq(Nodes) /\ t \in Seq(Nodes) /\ Len(t) = k + 1 /\ t[k + 1] = n
      /\ \A i \in 1..k : t[i] = s[i]
  BY Standing, AppendProperties DEF StandsFor
<1>2. \A i, j \in 1..k : s[i] = s[j] => i = j
  BY DEF StandsFor
<1>3. \A i, j \in 1..(k + 1) : t[i] = t[j] => i = j
  BY <1>1, <1>2
<1>4. CASE s = <<>>
  <2>. DEFINE f == [l.link EXCEPT ![n] = n]
  <2>1. f \in [Nodes -> Nodes \cup {NULL}] /\ f[n] = n
    BY Standing
  <2>2. L!clist_rpush(l, n) = [tail |-> n, link |-> f]
    BY <1>4, Standing DEF L!clist_rpush
  <2>. HIDE DEF f, t
  <2>3. f[t[k + 1]] = t[1] /\ \A i \in 1..k : f[t[i]] = t[i + 1]
    BY <1>1, <1>4, <2>1, Standing
  <2>4. StandsFor(L!clist_rpush(l, n), t)
    BY <1>1, <1>3, <2>1, <2>2, <2>3, Stood
  <2>. QED BY <2>4 DEF t
<1>5. CASE s # <<>>
  <2>. DEFINE f == [l.link EXCEPT ![n] = l.link[l.tail], ![l.tail] = n]
  <2>1. /\ k > 0 /\ l.tail = s[k] /\ l.tail # NULL /\ l.link[s[k]] = s[1]
        /\ l.link \in [Nodes -> Nodes \cup {NULL}] /\ s[k] \in Nodes /\ s[1] \in Nodes
        /\ \A i \in 1..(k - 1) : l.link[s[i]] = s[i + 1] /\ s[i] \in Nodes
    <3>1. \A i \in 1..(k - 1) : i \in 1..Len(s)
      BY <1>1
    <3>2. \A i \in 1..(k - 1) : l.link[s[i]] = s[i + 1]
      BY DEF StandsFor
    <3>. QED BY <1>5, <3>1, <3>2, Standing
  <2>2. s[k] # n /\ \A i \in 1..(k - 1) : s[i] # n /\ s[i] # s[k]
    BY <1>1, <1>2, <2>1
  <2>3. /\ f \in [Nodes -> Nodes \cup {NULL}] /\ f[n] = s[1] /\ f[s[k]] = n
        /\ \A i \in 1..(k - 1) : f[s[i]] = s[i + 1]
    BY <2>1, <2>2
  <2>4. L!clist_rpush(l, n) = [tail |-> n, link |-> f]
    BY <2>1 DEF L!clist_rpush
  <2>. HIDE DEF f, t
  <2>5. f[t[k + 1]] = t[1] /\ \A i \in 1..k : f[t[i]] = t[i + 1]
    BY <1>1, <2>1, <2>3
  <2>6. k \in Nat /\ n = t[k + 1] /\ f[t[k + 1]] = t[1] /\ f \in [Nodes -> Nodes \cup {NULL}]
    BY <1>1, <2>3, <2>5
  <2>7. StandsFor([tail |-> n, link |-> f], t)
    BY <1>1, <1>3, <2>5, <2>6, Stood
  <2>. QED BY <2>4, <2>7 DEF t
<1>. QED BY <1>4, <1>5

LEMMA PushedLeft ==
  ASSUME L!NodesAssumption, NEW l, NEW s, StandsFor(l, s),
         NEW n \in Nodes, \A i \in 1..Len(s) : s[i] # n
  PROVE  StandsFor(L!clist_lpush(l, n), <<n>> \o s)
<1>. DEFINE k == Len(s)
            t == <<n>> \o s
<1>1. k \in Nat /\ s \in Seq(Nodes) /\ t \in Seq(Nodes) /\ Len(t) = k + 1 /\ t[1] = n
      /\ \A i \in 1..k : t[i + 1] = s[i]
  <2>1. k \in Nat /\ s \in Seq(Nodes) /\ <<n>> \in Seq(Nodes) /\ Len(<<n>>) = 1 /\ <<n>>[1] = n
    BY Standing DEF StandsFor
  <2>2. t \in Seq(Nodes) /\ Len(t) = 1 + k
        /\ \A i \in 1..(1 + k) : t[i] = IF i <= 1 THEN <<n>>[i] ELSE s[i - 1]
    BY <2>1, ConcatProperties
  <2>3. \A i \in 1..k : i + 1 \in 1..(1 + k) /\ ~(i + 1 <= 1) /\ i + 1 - 1 = i
    BY <2>1
  <2>4. \A i \in 1..k : t[i + 1] = s[i]
    <3>. HIDE DEF t
    <3>. QED BY <2>2, <2>3
  <2>. QED BY <2>1, <2>2, <2>4
<1>2. \A i, j \in 1..k : s[i] = s[j] => i = j
  BY DEF StandsFor
<1>3. \A i, j \in 1..(k + 1) : t[i] = t[j] => i = j
  <2>. HIDE DEF t
  <2>1. \A i \in 1..(k + 1) : i = 1 \/ (i - 1 \in 1..k /\ i - 1 + 1 = i)
    BY <1>1
  <2>2. \A i \in 1..(k + 1) : i = 1 \/ t[i] = s[i - 1]
    BY <1>1, <2>1
  <2>. QED BY <1>1, <1>2, <2>1, <2>2
<1>4. CASE s = <<>>
  <2>1. L!clist_lpush(l, n) = L!clist_rpush(l, n) /\ t = Append(s, n)
    BY <1>4, Standing DEF L!clist_lpush
  <2>. QED BY <2>1, PushedRight
<1>5. CASE s # <<>>
  <2>. DEFINE f == [l.link EXCEPT ![n] = l.link[l.tail], ![l.tail] = n]
  <2>1. /\ k > 0 /\ l.tail = s[k] /\ l.tail # NULL /\ l.link[s[k]] = s[1]
        /\ l.link \in [Nodes -> Nodes \cup {NULL}] /\ s[k] \in Nodes /\ s[1] \in Nodes
        /\ \A i \in 1..(k - 1) : l.link[s[i]] = s[i + 1] /\ s[i] \in Nodes
    <3>1. \A i \in 1..(k - 1) : i \in 1..Len(s)
      BY <1>1
    <3>2. \A i \in 1..(k - 1) : l.link[s[i]] = s[i + 1]
      BY DEF StandsFor
    <3>. QED BY <1>5, <3>1, <3>2, Standing
  <2>2. s[k] # n /\ \A i \in 1..(k - 1) : s[i] # n /\ s[i] # s[k]
    BY <1>1, <1>2, <2>1
  <2>3. /\ f \in [Nodes -> Nodes \cup {NULL}] /\ f[n] = s[1] /\ f[s[k]] = n
        /\ \A i \in 1..(k - 1) : f[s[i]] = s[i + 1]
    BY <2>1, <2>2
  <2>4. L!clist_lpush(l, n) = [tail |-> l.tail, link |-> f]
    <3>1. L!clist_rpush(l, n).link = f
      BY <2>1 DEF L!clist_rpush
    <3>. HIDE DEF f
    <3>. QED BY <2>1, <3>1, Standing DEF L!clist_lpush
  <2>. HIDE DEF f, t
  <2>5. t[k + 1] = s[k] /\ t[2] = s[1]
    BY <1>1, <2>1
  <2>6. ASSUME NEW i \in 1..k PROVE f[t[i]] = t[i + 1]
    <3>1. CASE i = 1
      BY <1>1, <2>3, <2>5, <3>1
    <3>2. CASE i # 1
      <4>1. i - 1 \in 1..(k - 1) /\ i - 1 \in 1..k /\ i - 1 + 1 = i
        BY <1>1, <3>2
      <4>2. t[i - 1 + 1] = s[i - 1] /\ t[i + 1] = s[i] /\ f[s[i - 1]] = s[i - 1 + 1]
        BY <1>1, <2>3, <4>1
      <4>. QED BY <4>1, <4>2
    <3>. QED BY <3>1, <3>2
  <2>7. f[t[k + 1]] = t[1]
    BY <1>1, <2>3, <2>5
  <2>8. StandsFor(L!clist_lpush(l, n), t)
    <3>1. l.tail \in Nodes /\ l.tail = t[k + 1]
      BY <2>1, <2>5
    <3>2. f \in [Nodes -> Nodes \cup {NULL}]
      BY <2>3
    <3>3. k \in Nat /\ t \in Seq(Nodes) /\ Len(t) = k + 1
      BY <1>1
    <3>4. StandsFor([tail |-> l.tail, link |-> f], t)
      BY <1>3, <2>6, <2>7, <3>1, <3>2, <3>3, Stood
    <3>. QED BY <2>4, <3>4
  <2>. QED BY <2>8 DEF t
<1>. QED BY <1>4, <1>5

LEMMA PoppedLeft ==
  ASSUME L!NodesAssumption, NEW l, NEW s, StandsFor(l, s)
  PROVE  StandsFor(L!clist_lpop(l), IF s = <<>> THEN <<>> ELSE Tail(s))
<1>. DEFINE k == Len(s)
            t == Tail(s)
<1>1. CASE s = <<>>
  BY <1>1, Standing DEF L!clist_lpop
<1>. SUFFICES ASSUME s # <<>>
              PROVE  StandsFor(L!clist_lpop(l), t)
  BY <1>1
<1>2. /\ k \in Nat /\ k > 0 /\ s \in Seq(Nodes) /\ t \in Seq(Nodes) /\ Len(t) = k - 1
      /\ \A i \in 1..(k - 1) : t[i] = s[i + 1]
  <2>1. s \in Seq(Nodes) /\ k \in Nat /\ k > 0
    BY Standing DEF StandsFor
  <2>2. t \in Seq(Nodes) /\ Len(t) = k - 1 /\ \A i \in 1..Len(t) : t[i] = s[i + 1]
    BY <2>1, HeadTailProperties
  <2>. QED BY <2>1, <2>2
<1>3. \A i, j \in 1..k : s[i] = s[j] => i = j
  BY DEF StandsFor
<1>4. /\ l.tail = s[k] /\ l.tail # NULL /\ l.link[s[k]] = s[1]
      /\ l.link \in [Nodes -> Nodes \cup {NULL}] /\ s[k] \in Nodes /\ s[1] \in Nodes
      /\ l = [tail |-> l.tail, link |-> l.link]
  BY Standing
<1>5. \A i \in 1..(k - 1) : l.link[s[i]] = s[i + 1]
  BY DEF StandsFor
<1>6. CASE k = 1
  <2>1. L!clist_lpop(l) = [l EXCEPT !.tail = NULL]
    BY <1>4, <1>6 DEF L!clist_lpop
  <2>2. t = <<>>
    <3>. HIDE DEF t
    <3>. QED BY <1>2, <1>6, EmptySeq
  <2>3. [l EXCEPT !.tail = NULL] \in L!List /\ [l EXCEPT !.tail = NULL].tail = NULL
    BY <1>4 DEF L!List, L!Pointer
  <2>4. StandsFor([l EXCEPT !.tail = NULL], <<>>)
    BY <2>3 DEF StandsFor
  <2>. QED BY <2>1, <2>2, <2>4
<1>7. CASE k # 1
  <2>. DEFINE m == k - 2
              f == [l.link EXCEPT ![l.tail] = l.link[l.link[l.tail]]]
  <2>1. m \in Nat /\ k = m + 2 /\ 1 \in 1..(k - 1)
    BY <1>2, <1>7
  <2>2. s[1] # s[k] /\ l.link[s[1]] = s[2]
    BY <1>2, <1>3, <1>5, <2>1
  <2>3. L!clist_lpop(l) = [tail |-> l.tail, link |-> f]
    BY <1>4, <2>2 DEF L!clist_lpop
  <2>4. s[2] \in Nodes
    BY <2>1, Standing
  <2>5. f \in [Nodes -> Nodes \cup {NULL}] /\ f[s[k]] = s[2]
    BY <1>4, <2>2, <2>4
  <2>6. ASSUME NEW i \in 1..(k - 1) PROVE f[s[i]] = s[i + 1]
    <3>1. s[i] # s[k] /\ s[i] \in Nodes
      BY <1>2, <1>3, Standing
    <3>. QED BY <1>4, <1>5, <3>1
  <2>. HIDE DEF t, f
  <2>7. /\ t[m + 1] = s[k] /\ t[1] = s[2]
        /\ \A i \in 1..m : i + 1 \in 1..(k - 1) /\ t[i] = s[i + 1] /\ t[i + 1] = s[i + 2]
    BY <1>2, <2>1
  <2>8. \A i \in 1..m : f[t[i]] = t[i + 1]
    <3>1. \A i \in 1..m : f[s[i + 1]] = s[i + 1 + 1] /\ i + 1 + 1 = i + 2
      BY <2>6, <2>7
    <3>. QED BY <2>7, <3>1
  <2>9. \A i, j \in 1..(m + 1) : t[i] = t[j] => i = j
    <3>1. \A i \in 1..(m + 1) : i + 1 \in 1..k /\ t[i] = s[i + 1]
      BY <1>2, <2>1
    <3>. QED BY <1>3, <2>1, <3>1
  <2>10. StandsFor([tail |-> l.tail, link |-> f], t)
    <3>1. l.tail \in Nodes /\ l.tail = t[m + 1] /\ f[t[m + 1]] = t[1]
      BY <1>4, <2>5, <2>7
    <3>2. t \in Seq(Nodes) /\ Len(t) = m + 1
      BY <1>2, <2>1
    <3>. HIDE DEF m
    <3>. QED BY <2>1, <2>5, <2>8, <2>9, <3>1, <3>2, Stood
  <2>. QED BY <2>3, <2>10
<1>. QED BY <1>6, <1>7

\* Rotating: the order in the circle stays.
LEMMA Rotated ==
  ASSUME L!NodesAssumption, NEW l, NEW s, StandsFor(l, s)
  PROVE  StandsFor(L!clist_lpoprpush(l), IF s = <<>> THEN <<>> ELSE Append(Tail(s), Head(s)))
<1>. DEFINE k == Len(s)
            t == Append(Tail(s), Head(s))
<1>1. CASE s = <<>>
  BY <1>1, Standing DEF L!clist_lpoprpush
<1>. SUFFICES ASSUME s # <<>>
              PROVE  StandsFor(L!clist_lpoprpush(l), t)
  BY <1>1
<1>2. /\ k \in Nat /\ k > 0 /\ t \in Seq(Nodes) /\ Len(t) = k /\ t[k] = s[1]
      /\ \A i \in 1..(k - 1) : t[i] = s[i + 1]
  <2>1. s \in Seq(Nodes) /\ k \in Nat /\ k > 0 /\ Head(s) = s[1] /\ s[1] \in Nodes
    BY Standing DEF StandsFor
  <2>2. /\ Tail(s) \in Seq(Nodes) /\ Len(Tail(s)) = k - 1
        /\ \A i \in 1..Len(Tail(s)) : Tail(s)[i] = s[i + 1]
    BY <2>1, HeadTailProperties
  <2>3. /\ t \in Seq(Nodes) /\ Len(t) = k - 1 + 1 /\ t[k - 1 + 1] = s[1]
        /\ \A i \in 1..(k - 1) : t[i] = Tail(s)[i]
    BY <2>1, <2>2, AppendProperties
  <2>. QED BY <2>1, <2>2, <2>3
<1>3. \A i, j \in 1..k : s[i] = s[j] => i = j
  BY DEF StandsFor
<1>4. /\ l.tail = s[k] /\ l.tail # NULL /\ l.link[s[k]] = s[1]
      /\ l.link \in [Nodes -> Nodes \cup {NULL}] /\ s[k] \in Nodes /\ s[1] \in Nodes
      /\ l = [tail |-> l.tail, link |-> l.link]
  BY Standing
<1>5. \A i \in 1..(k - 1) : l.link[s[i]] = s[i + 1]
  BY DEF StandsFor
<1>6. L!clist_lpoprpush(l) = [tail |-> s[1], link |-> l.link]
  BY <1>4 DEF L!clist_lpoprpush
<1>. DEFINE m == k - 1
<1>. HIDE DEF t
<1>7. m \in Nat /\ Len(t) = m + 1 /\ s[1] = t[m + 1]
  BY <1>2
<1>8. \A i, j \in 1..(m + 1) : t[i] = t[j] => i = j
  <2>1. \A i \in 1..k : \/ i = k /\ t[i] = s[1]
                        \/ i # k /\ i + 1 \in 2..k /\ t[i] = s[i + 1]
    BY <1>2
  <2>. QED BY <1>2, <1>3, <2>1
<1>9. \A i \in 1..m : l.link[t[i]] = t[i + 1]
  <2>1. ASSUME NEW i \in 1..m PROVE l.link[t[i]] = t[i + 1]
    <3>1. CASE i = k - 1
      BY <1>2, <1>4, <3>1
    <3>2. CASE i # k - 1
      <4>1. i \in 1..(k - 1) /\ i + 1 \in 1..(k - 1)
        BY <1>2, <3>2
      <4>2. t[i] = s[i + 1] /\ t[i + 1] = s[i + 1 + 1] /\ l.link[s[i + 1]] = s[i + 1 + 1]
        BY <1>2, <1>5, <4>1
      <4>. QED BY <4>2
    <3>. QED BY <3>1, <3>2
  <2>. QED BY <2>1
<1>10. l.link[t[m + 1]] = t[1]
  <2>1. CASE k = 1
    BY <1>2, <1>4, <2>1
  <2>2. CASE k # 1
    <3>1. 1 \in 1..(k - 1)
      BY <1>2, <2>2
    <3>. QED BY <1>2, <1>5, <3>1
  <2>. QED BY <2>1, <2>2
<1>11. StandsFor([tail |-> s[1], link |-> l.link], t)
  <2>1. t \in Seq(Nodes) /\ s[1] \in Nodes /\ l.link \in [Nodes -> Nodes \cup {NULL}]
    BY <1>2, <1>4
  <2>. HIDE DEF m
  <2>. QED BY <1>7, <1>8, <1>9, <1>10, <2>1, Stood
<1>. QED BY <1>6, <1>11 DEF t

\* What holds of 0, and of n + 1 whenever it does of n, holds of every number.
LEMMA Numbers ==
  ASSUME NEW D \in SUBSET Nat, 0 \in D, \A n \in D : n + 1 \in D
  PROVE  D = Nat
<1>. SUFFICES ASSUME Nat \ D # {} PROVE FALSE
  OBVIOUS
<1>1. IsWellFoundedOn(OpToRel(<, Nat), Nat)
  BY NatLessThanWellFounded
<1>2. \E x \in Nat \ D : \A y \in Nat \ D : ~(<<y, x>> \in OpToRel(<, Nat))
  <2>. DEFINE B == OpToRel(<, Nat)
  <2>. HIDE DEF B
  <2>. QED BY <1>1, WFMin
<1>3. \A x, y \in Nat : <<y, x>> \in OpToRel(<, Nat) <=> y < x
  BY DEF OpToRel
<1>4. PICK x \in Nat \ D : \A y \in Nat \ D : ~(y < x)
  BY <1>2, <1>3
<1>5. x # 0 /\ x - 1 \in Nat /\ x - 1 < x
  BY <1>4
<1>6. x - 1 \in D
  BY <1>4, <1>5
<1>. QED BY <1>4, <1>5, <1>6

\* The same from 1 to n.
LEMMA Upto ==
  ASSUME NEW n \in Nat, NEW D, 1 \in D, \A i \in 1..(n - 1) : i \in D => i + 1 \in D
  PROVE  1..n \subseteq D
<1>. DEFINE U == {k \in Nat : k = 0 \/ k \in D \/ k > n}
<1>1. 0 \in U
  OBVIOUS
<1>2. ASSUME NEW k \in U PROVE k + 1 \in U
  <2>1. k \in Nat /\ (k = 0 \/ k \in D \/ k > n)
    BY <1>2
  <2>2. CASE k = 0
    BY <2>2
  <2>3. CASE k # 0 /\ k < n
    <3>1. k \in D /\ k \in 1..(n - 1)
      BY <2>1, <2>3
    <3>. QED BY <2>1, <3>1
  <2>4. CASE k >= n
    BY <2>1, <2>4
  <2>. QED BY <2>1, <2>2, <2>3, <2>4
<1>3. U \in SUBSET Nat /\ \A k \in U : k + 1 \in U
  BY <1>2
<1>4. U = Nat
  <2>. HIDE DEF U
  <2>. QED BY <1>1, <1>3, Numbers
<1>5. ASSUME NEW i \in 1..n PROVE i \in D
  <2>1. i \in Nat /\ i # 0 /\ ~(i > n)
    OBVIOUS
  <2>2. i \in U
    BY <1>4, <2>1
  <2>. QED BY <2>1, <2>2
<1>. QED BY <1>5

LEMMA NodesFinite ==
  ASSUME L!NodesAssumption
  PROVE  IsFiniteSet(Nodes)
BY DEF L!NodesAssumption, L!IsFiniteSet, IsFiniteSet

\* The walk from the first node follows the next pointers.
LEMMA WalkFollows ==
  ASSUME L!NodesAssumption, NEW l
  PROVE  /\ Cardinality(Nodes) \in Nat
         /\ L!Walk(l) = [i \in 1..Cardinality(Nodes) |->
                            IF i = 1 THEN l.link[l.tail] ELSE l.link[L!Walk(l)[i - 1]]]
<1>. DEFINE Node(g, i) == IF i = 1 THEN l.link[l.tail] ELSE l.link[g[i - 1]]
            N == Cardinality(Nodes)
            D == {k \in Nat : \E g : g = [i \in 1..k |-> Node(g, i)]}
<1>1. 0 \in D
  <2>. DEFINE g == [i \in 1..0 |-> 0]
  <2>1. g = [i \in 1..0 |-> Node(g, i)]
    OBVIOUS
  <2>. QED BY <2>1
<1>2. ASSUME NEW k \in D PROVE k + 1 \in D
  <2>1. PICK g : g = [i \in 1..k |-> Node(g, i)]
    BY <1>2
  <2>2. k \in Nat
    OBVIOUS
  <2>. DEFINE h == [i \in 1..(k + 1) |-> IF i = k + 1 THEN Node(g, i) ELSE g[i]]
  <2>3. \A i \in 1..(k + 1) : i = 1 \/ (i - 1 \in 1..(k + 1) /\ i - 1 # k + 1)
    BY <2>2
  <2>4. \A i \in 1..(k + 1) : Node(h, i) = Node(g, i)
    BY <2>3
  <2>5. \A i \in 1..(k + 1) : i # k + 1 => i \in 1..k
    BY <2>2
  <2>6. \A i \in 1..(k + 1) : h[i] = Node(h, i)
    BY <2>1, <2>4, <2>5
  <2>. HIDE DEF Node
  <2>7. h = [i \in 1..(k + 1) |-> Node(h, i)]
    BY <2>6
  <2>8. \E f : f = [i \in 1..(k + 1) |-> Node(f, i)]
    <3>. HIDE DEF h
    <3>. QED BY <2>7
  <2>9. k + 1 \in Nat
    BY <2>2
  <2>. QED BY <2>8, <2>9
<1>3. D = Nat
  <2>. HIDE DEF D
  <2>1. D \in SUBSET Nat
    BY DEF D
  <2>2. \A n \in D : n + 1 \in D
    BY <1>2
  <2>. QED BY <1>1, <2>1, <2>2, Numbers
<1>4. N \in Nat
  BY FS_CardinalityType, NodesFinite
<1>5. \E g : g = [i \in 1..N |-> Node(g, i)]
  BY <1>3, <1>4
<1>6. L!Walk(l) = CHOOSE g : g = [i \in 1..N |-> Node(g, i)]
  <2>1. L!Cardinality(Nodes) = Cardinality(Nodes)
    BY DEF L!Cardinality, Cardinality
  <2>. QED BY <2>1 DEF L!Walk
<1>7. L!Walk(l) = [i \in 1..N |-> Node(L!Walk(l), i)]
  <2>. DEFINE P(g) == g = [i \in 1..N |-> Node(g, i)]
  <2>1. (\E g : P(g)) /\ L!Walk(l) = CHOOSE g : P(g)
    BY <1>5, <1>6
  <2>. HIDE DEF P
  <2>2. P(CHOOSE g : P(g))
    BY <2>1
  <2>3. P(L!Walk(l))
    BY <2>1, <2>2
  <2>. QED BY <2>3 DEF P
<1>. QED BY <1>4, <1>7


\* The walk goes round the list, and the members are its nodes.
LEMMA WalkRound ==
  ASSUME L!NodesAssumption, NEW l, NEW s, StandsFor(l, s), s # <<>>
  PROVE  /\ Len(s) <= Cardinality(Nodes) /\ Cardinality(Nodes) \in Nat
         /\ \A i \in 1..Len(s) : L!Walk(l)[i] = s[i]
         /\ L!Members(l) = {s[i] : i \in 1..Len(s)}
<1>. DEFINE k == Len(s)
            N == Cardinality(Nodes)
            w == L!Walk(l)
            B == {s[i] : i \in 1..k}
<1>1. /\ k \in Nat /\ k > 0 /\ l.tail # NULL /\ l.link[l.tail] = s[1] /\ l.link[s[k]] = s[1]
      /\ \A i \in 1..k : s[i] \in Nodes
  BY Standing
<1>2. N \in Nat /\ w = [i \in 1..N |-> IF i = 1 THEN l.link[l.tail] ELSE l.link[w[i - 1]]]
  BY WalkFollows
<1>3. k <= N
  <2>. DEFINE f == [i \in 1..k |-> s[i]]
  <2>1. f \in Injection(1..k, Nodes)
    <3>1. \A i, j \in 1..k : s[i] = s[j] => i = j
      BY DEF StandsFor
    <3>. QED BY <1>1, <3>1 DEF Injection, IsInjective
  <2>2. IsFiniteSet(1..k) /\ Cardinality(1..k) = k
    <3>1. 1 \in Int /\ k \in Int /\ ~(1 > k) /\ k - 1 + 1 = k
      BY <1>1
    <3>. QED BY <3>1, FS_Interval
  <2>. HIDE DEF f
  <2>3. Cardinality(1..k) <= Cardinality(Nodes)
    BY <2>1, <2>2, FS_Injection, NodesFinite
  <2>. QED BY <2>2, <2>3
<1>. HIDE DEF w, N
<1>4. w[1] = s[1] /\ \A i \in 1..(N - 1) : w[i + 1] = l.link[w[i]]
  <2>1. 1 \in 1..N
    BY <1>1, <1>2, <1>3
  <2>2. \A i \in 1..(N - 1) : i + 1 \in 1..N /\ i + 1 # 1 /\ i + 1 - 1 = i
    BY <1>2
  <2>3. w[1] = l.link[l.tail]
    BY <1>2, <2>1
  <2>4. \A i \in 1..(N - 1) : w[i + 1] = l.link[w[i + 1 - 1]]
    BY <1>2, <2>2
  <2>. QED BY <1>1, <2>2, <2>3, <2>4
<1>5. \A i \in 1..k : w[i] = s[i]
  <2>. DEFINE D == {i \in 1..k : w[i] = s[i]}
  <2>1. 1 \in D
    BY <1>1, <1>4
  <2>2. ASSUME NEW i \in 1..(k - 1), i \in D PROVE i + 1 \in D
    <3>1. i \in 1..(N - 1) /\ i + 1 \in 1..k
      BY <1>1, <1>2, <1>3
    <3>2. l.link[s[i]] = s[i + 1]
      BY DEF StandsFor
    <3>. QED BY <1>4, <2>2, <3>1, <3>2
  <2>3. 1..k \subseteq D
    <3>. HIDE DEF D
    <3>. QED BY <1>1, <2>1, <2>2, Upto
  <2>. QED BY <2>3
<1>6. \A i \in 1..N : w[i] \in B
  <2>. DEFINE D == {i \in 1..N : w[i] \in B}
  <2>1. 1 \in D
    BY <1>1, <1>2, <1>3, <1>4
  <2>2. ASSUME NEW i \in 1..(N - 1), i \in D PROVE i + 1 \in D
    <3>1. PICK j \in 1..k : w[i] = s[j]
      BY <2>2
    <3>2. i + 1 \in 1..N /\ w[i + 1] = l.link[s[j]]
      BY <1>2, <1>4, <3>1
    <3>3. l.link[s[j]] \in B
      <4>1. CASE j = k
        <5>1. 1 \in 1..k
          BY <1>1
        <5>. QED BY <1>1, <4>1, <5>1
      <4>2. CASE j # k
        <5>1. j \in 1..(k - 1) /\ j + 1 \in 1..k
          BY <1>1, <4>2
        <5>2. l.link[s[j]] = s[j + 1]
          BY <5>1 DEF StandsFor
        <5>. QED BY <5>1, <5>2
      <4>. QED BY <4>1, <4>2
    <3>. QED BY <3>2, <3>3
  <2>3. 1..N \subseteq D
    <3>. HIDE DEF D
    <3>. QED BY <1>2, <2>1, <2>2, Upto
  <2>. QED BY <2>3
<1>7. L!Members(l) = {n \in Nodes : \E i \in 1..N : w[i] = n}
  <2>1. L!Cardinality(Nodes) = N
    BY DEF L!Cardinality, Cardinality, N
  <2>. QED BY <1>1, <2>1 DEF L!Members, L!Places, w
<1>8. L!Members(l) = B
  <2>1. ASSUME NEW i \in 1..k PROVE s[i] \in L!Members(l)
    <3>1. i \in 1..N
      BY <1>1, <1>2, <1>3
    <3>2. w[i] = s[i] /\ s[i] \in Nodes
      BY <1>1, <1>5
    <3>. QED BY <1>7, <3>1, <3>2
  <2>2. ASSUME NEW n \in L!Members(l) PROVE n \in B
    <3>. HIDE DEF B
    <3>. QED BY <1>6, <1>7
  <2>. QED BY <2>1, <2>2
<1>. QED BY <1>2, <1>3, <1>5, <1>8 DEF w, N

\* A walk from the first node to the last is the sequence, and as long.
LEMMA Walked ==
  ASSUME L!NodesAssumption, NEW l, NEW s, StandsFor(l, s)
  PROVE  L!AsSeq(l) = s /\ L!clist_count(l) = Len(s)
<1>1. CASE s = <<>>
  BY <1>1, Standing DEF L!AsSeq, L!clist_count
<1>2. CASE s # <<>>
  <2>. DEFINE k == Len(s)
              N == Cardinality(Nodes)
              Ends(i) == i \in 1..N /\ L!Walk(l)[i] = l.tail
                           /\ \A j \in 1..(i - 1) : L!Walk(l)[j] # l.tail
              last == CHOOSE i : Ends(i)
  <2>1. /\ k \in Nat /\ k > 0 /\ k <= N /\ N \in Nat /\ l.tail = s[k] /\ l.tail # NULL
        /\ \A i \in 1..k : L!Walk(l)[i] = s[i]
    BY <1>2, WalkRound, Standing
  <2>2. \A i, j \in 1..k : s[i] = s[j] => i = j
    BY DEF StandsFor
  <2>3. Ends(k)
    <3>1. k \in 1..N /\ k \in 1..k /\ \A j \in 1..(k - 1) : j \in 1..k /\ j # k
      BY <2>1
    <3>. QED BY <2>1, <2>2, <3>1
  <2>4. ASSUME NEW i, Ends(i) PROVE i = k
    <3>1. i \in 1..N
      BY <2>4
    <3>2. CASE i < k
      <4>1. i \in 1..k /\ k \in 1..k
        BY <2>1, <3>1, <3>2
      <4>. QED BY <2>1, <2>2, <2>4, <4>1
    <3>3. CASE i > k
      <4>1. k \in 1..(i - 1) /\ k \in 1..k
        BY <2>1, <3>1, <3>3
      <4>. QED BY <2>1, <2>4, <4>1
    <3>. QED BY <2>1, <3>1, <3>2, <3>3
  <2>5. last = k
    <3>. HIDE DEF Ends
    <3>1. Ends(last)
      BY <2>3
    <3>. QED BY <2>4, <3>1
  <2>6. L!AsSeq(l) = [i \in 1..last |-> L!Walk(l)[i]]
    <3>1. L!Cardinality(Nodes) = N
      BY DEF L!Cardinality, Cardinality
    <3>2. L!AsSeq(l) = LET e == CHOOSE i \in 1..N : L!Walk(l)[i] = l.tail
                                    /\ \A j \in 1..(i - 1) : L!Walk(l)[j] # l.tail
                       IN  [i \in 1..e |-> L!Walk(l)[i]]
      BY <2>1, <3>1 DEF L!AsSeq, L!Places
    <3>. QED BY <3>2
  <2>7. s = [i \in 1..k |-> s[i]]
    BY LenProperties DEF StandsFor
  <2>. HIDE DEF last, k
  <2>8. L!AsSeq(l) = s
    BY <2>1, <2>5, <2>6, <2>7
  <2>. QED BY <2>8 DEF L!clist_count
<1>. QED BY <1>1, <1>2

\* The node before one of the list, and that none is before another.
LEMMA Before ==
  ASSUME L!NodesAssumption, NEW l, NEW s, StandsFor(l, s)
  PROVE  /\ \A n : (\A i \in 1..Len(s) : s[i] # n) => L!clist_find_before(l, n) = NULL
         /\ s # <<>> => L!clist_find_before(l, s[1]) = s[Len(s)]
         /\ \A i \in 2..Len(s) : L!clist_find_before(l, s[i]) = s[i - 1]
<1>. DEFINE k == Len(s)
            preds(n) == {p \in L!Members(l) : l.link[p] = n}
<1>1. CASE s = <<>>
  <2>1. Len(s) = 0 /\ L!Members(l) = {}
    BY <1>1, Standing DEF L!Members
  <2>. QED BY <1>1, <2>1 DEF L!clist_find_before
<1>2. CASE s # <<>>
  <2>1. /\ k \in Nat /\ k > 0 /\ l.link[s[k]] = s[1]
        /\ L!Members(l) = {s[i] : i \in 1..k}
    BY <1>2, Standing, WalkRound
  <2>2. \A i, j \in 1..k : s[i] = s[j] => i = j
    BY DEF StandsFor
  <2>3. \A i \in 1..(k - 1) : l.link[s[i]] = s[i + 1]
    BY DEF StandsFor
  <2>4. \A j \in 1..k : \/ j = k /\ l.link[s[j]] = s[1]
                        \/ j # k /\ j + 1 \in 2..k /\ l.link[s[j]] = s[j + 1]
    BY <2>1, <2>3
  <2>5. 1 \in 1..k /\ k \in 1..k
    BY <2>1
  <2>6. ASSUME NEW n, \A i \in 1..k : s[i] # n PROVE preds(n) = {}
    <3>1. \A j \in 1..k : l.link[s[j]] # n
      BY <2>4, <2>5, <2>6
    <3>. QED BY <2>1, <3>1
  <2>7. preds(s[1]) = {s[k]}
    <3>1. \A j \in 1..k : l.link[s[j]] = s[1] => j = k
      BY <2>2, <2>4, <2>5
    <3>. QED BY <2>1, <2>5, <3>1
  <2>8. ASSUME NEW i \in 2..k PROVE preds(s[i]) = {s[i - 1]}
    <3>1. i - 1 \in 1..(k - 1) /\ i - 1 \in 1..k /\ i - 1 + 1 = i /\ i \in 1..k
      BY <2>1
    <3>2. l.link[s[i - 1]] = s[i]
      BY <2>3, <3>1
    <3>3. \A j \in 1..k : l.link[s[j]] = s[i] => j = i - 1
      <4>1. ASSUME NEW j \in 1..k, l.link[s[j]] = s[i] PROVE j = i - 1
        <5>1. CASE j = k
          <6>1. i = 1
            BY <2>1, <2>2, <2>5, <3>1, <4>1, <5>1
          <6>. QED BY <6>1
        <5>2. CASE j # k
          <6>1. j + 1 \in 1..k /\ s[j + 1] = s[i]
            BY <2>4, <4>1, <5>2
          <6>2. j + 1 = i
            BY <2>2, <3>1, <6>1
          <6>. QED BY <6>2
        <5>. QED BY <5>1, <5>2
      <4>. QED BY <4>1
    <3>. QED BY <2>1, <3>1, <3>2, <3>3
  <2>9. \A n : L!clist_find_before(l, n)
                 = IF preds(n) = {} THEN NULL ELSE CHOOSE p \in preds(n) : TRUE
    BY DEF L!clist_find_before
  <2>10. ASSUME NEW n, NEW p, preds(n) = {p} PROVE L!clist_find_before(l, n) = p
    <3>. HIDE DEF preds
    <3>1. preds(n) # {} /\ (CHOOSE q \in preds(n) : TRUE) = p
      BY <2>10
    <3>. QED BY <2>9, <3>1
  <2>. HIDE DEF preds
  <2>11. \A n : (\A i \in 1..k : s[i] # n) => L!clist_find_before(l, n) = NULL
    BY <2>6, <2>9
  <2>12. L!clist_find_before(l, s[1]) = s[k]
    BY <2>7, <2>10
  <2>13. \A i \in 2..k : L!clist_find_before(l, s[i]) = s[i - 1]
    BY <2>8, <2>10
  <2>. QED BY <2>11, <2>12, <2>13
<1>. QED BY <1>1, <1>2

\* A sequence without its element i.
LEMMA RemovedAt ==
  ASSUME NEW s \in Seq(Nodes), NEW i \in 1..Len(s)
  PROVE  /\ L!RemoveAt(s, i) \in Seq(Nodes) /\ Len(L!RemoveAt(s, i)) = Len(s) - 1
         /\ \A j \in 1..(i - 1) : L!RemoveAt(s, i)[j] = s[j]
         /\ \A j \in i..(Len(s) - 1) : L!RemoveAt(s, i)[j] = s[j + 1]
<1>. DEFINE k == Len(s)
            a == SubSeq(s, 1, i - 1)
            b == SubSeq(s, i + 1, k)
<1>1. k \in Nat /\ i \in Nat /\ i >= 1 /\ i <= k
  BY LenProperties
<1>2. a \in Seq(Nodes) /\ Len(a) = i - 1 /\ \A j \in 1..(i - 1) : a[j] = s[j]
  <2>1. 1 \in 1..(k + 1) /\ i - 1 \in 0..k /\ \A j \in 1..(i - 1) : 1 + j - 1 = j
    BY <1>1
  <2>2. \A j \in 1..k : s[j] \in Nodes
    BY ElementOfSeq
  <2>3. \A j \in 1..(i - 1) : j \in 1..k
    BY <1>1
  <2>. QED BY <1>1, <2>1, <2>2, <2>3, SubSeqProperties
<1>3. /\ b \in Seq(Nodes) /\ Len(b) = k - i
      /\ \A j \in 1..(k - i) : b[j] = s[i + j]
  <2>1. i + 1 \in 1..(k + 1) /\ k \in i..k /\ \A j \in 1..(k - i) : i + 1 + j - 1 = i + j
    BY <1>1
  <2>. QED BY <1>1, <2>1, SubSeqProperties
<1>4. L!RemoveAt(s, i) = a \o b
  BY DEF L!RemoveAt
<1>. HIDE DEF a, b
<1>5. /\ a \o b \in Seq(Nodes) /\ Len(a \o b) = i - 1 + (k - i)
      /\ \A j \in 1..(i - 1 + (k - i)) : (a \o b)[j] = IF j <= i - 1 THEN a[j] ELSE b[j - (i - 1)]
  <2>1. Len(a) + Len(b) = i - 1 + (k - i)
    BY <1>2, <1>3
  <2>2. /\ a \o b \in Seq(Nodes) /\ Len(a \o b) = Len(a) + Len(b)
        /\ \A j \in 1..(Len(a) + Len(b)) :
             (a \o b)[j] = IF j <= Len(a) THEN a[j] ELSE b[j - Len(a)]
    BY <1>2, <1>3, ConcatProperties
  <2>. QED BY <1>2, <2>1, <2>2
<1>6. \A j \in 1..(i - 1) : (a \o b)[j] = s[j]
  <2>1. \A j \in 1..(i - 1) : j \in 1..(i - 1 + (k - i)) /\ j <= i - 1
    BY <1>1
  <2>. QED BY <1>2, <1>5, <2>1
<1>7. \A j \in i..(k - 1) : (a \o b)[j] = s[j + 1]
  <2>1. \A j \in i..(k - 1) : /\ j \in 1..(i - 1 + (k - i)) /\ ~(j <= i - 1)
                              /\ j - (i - 1) \in 1..(k - i) /\ i + (j - (i - 1)) = j + 1
    BY <1>1
  <2>. QED BY <1>3, <1>5, <2>1
<1>8. i - 1 + (k - i) = k - 1
  BY <1>1
<1>. QED BY <1>4, <1>5, <1>6, <1>7, <1>8

\* Linking around a node that is not the first takes it out.
LEMMA LinkedAround ==
  ASSUME L!NodesAssumption, NEW l, NEW s, StandsFor(l, s), NEW i \in 2..Len(s),
         NEW t \in Seq(Nodes), Len(t) = Len(s) - 1,
         \A j \in 1..(i - 1) : t[j] = s[j],
         \A j \in i..(Len(s) - 1) : t[j] = s[j + 1]
  PROVE  StandsFor([tail |-> IF s[i] = l.tail THEN s[i - 1] ELSE l.tail,
                    link |-> [l.link EXCEPT ![s[i - 1]] = l.link[s[i]]]], t)
<1>. DEFINE k == Len(s)
            m == k - 2
            a == IF s[i] = l.tail THEN s[i - 1] ELSE l.tail
            f == [l.link EXCEPT ![s[i - 1]] = l.link[s[i]]]
<1>1. /\ k \in Nat /\ k >= 2 /\ i \in 1..k /\ i - 1 \in 1..(k - 1) /\ i - 1 \in 1..k /\ i - 1 + 1 = i
      /\ k \in 1..k /\ m \in Nat /\ m + 1 = k - 1 /\ s # <<>>
  BY Standing
<1>2. \A j \in 1..k : s[j] \in Nodes
  BY Standing
<1>3. /\ l.tail = s[k] /\ l.link[s[k]] = s[1] /\ l.link \in [Nodes -> Nodes \cup {NULL}]
  BY <1>1, Standing
<1>4. \A p, q \in 1..k : s[p] = s[q] => p = q
  BY DEF StandsFor
<1>5. \A j \in 1..(k - 1) : l.link[s[j]] = s[j + 1]
  BY DEF StandsFor
<1>6. a = IF i = k THEN s[k - 1] ELSE s[k]
  BY <1>1, <1>3, <1>4
<1>7. /\ f \in [Nodes -> Nodes \cup {NULL}] /\ f[s[i - 1]] = l.link[s[i]]
      /\ \A j \in 1..k : j # i - 1 => f[s[j]] = l.link[s[j]]
  <2>1. s[i - 1] \in Nodes /\ s[i] \in Nodes /\ \A j \in 1..k : j # i - 1 => s[j] # s[i - 1]
    BY <1>1, <1>2, <1>4
  <2>. QED BY <1>2, <1>3, <2>1
<1>. HIDE DEF a, f
<1>8. \A j \in 1..(m + 1) : \/ j <= i - 1 /\ j \in 1..(i - 1) /\ t[j] = s[j]
                            \/ j >= i /\ j + 1 \in 1..k /\ t[j] = s[j + 1]
  BY <1>1
<1>9. \A p, q \in 1..(m + 1) : t[p] = t[q] => p = q
  <2>1. ASSUME NEW p \in 1..(m + 1), NEW q \in 1..(m + 1), t[p] = t[q] PROVE p = q
    <3>1. p \in 1..k /\ q \in 1..k
      BY <1>1
    <3>2. CASE p <= i - 1 /\ q <= i - 1
      <4>1. t[p] = s[p] /\ t[q] = s[q]
        BY <1>1, <1>8, <3>1, <3>2
      <4>. QED BY <1>4, <2>1, <3>1, <4>1
    <3>3. CASE p >= i /\ q >= i
      <4>1. t[p] = s[p + 1] /\ t[q] = s[q + 1] /\ p + 1 \in 1..k /\ q + 1 \in 1..k
        BY <1>1, <1>8, <3>1, <3>3
      <4>2. p + 1 = q + 1
        BY <1>4, <2>1, <4>1
      <4>. QED BY <3>1, <4>2
    <3>4. CASE p <= i - 1 /\ q >= i
      <4>1. t[p] = s[p] /\ t[q] = s[q + 1] /\ q + 1 \in 1..k
        BY <1>1, <1>8, <3>1, <3>4
      <4>2. p = q + 1
        BY <1>4, <2>1, <3>1, <4>1
      <4>. QED BY <1>1, <3>1, <3>4, <4>2
    <3>5. CASE p >= i /\ q <= i - 1
      <4>1. t[q] = s[q] /\ t[p] = s[p + 1] /\ p + 1 \in 1..k
        BY <1>1, <1>8, <3>1, <3>5
      <4>2. q = p + 1
        BY <1>4, <2>1, <3>1, <4>1
      <4>. QED BY <1>1, <3>1, <3>5, <4>2
    <3>. QED BY <1>1, <3>1, <3>2, <3>3, <3>4, <3>5
  <2>. QED BY <2>1
<1>10. t[1] = s[1]
  BY <1>1
<1>11. a \in Nodes /\ a = t[m + 1] /\ f[t[m + 1]] = t[1]
  <2>1. CASE i = k
    <3>1. t[m + 1] = s[k - 1] /\ a = s[k - 1] /\ k - 1 \in 1..k /\ f[s[k - 1]] = s[1]
      BY <1>1, <1>3, <1>6, <1>7, <2>1
    <3>. QED BY <1>2, <1>10, <3>1
  <2>2. CASE i # k
    <3>1. k - 1 \in i..(k - 1) /\ k - 1 + 1 = k /\ k # i - 1
      BY <1>1, <2>2
    <3>2. t[m + 1] = s[k] /\ a = s[k] /\ f[s[k]] = s[1]
      BY <1>1, <1>3, <1>6, <1>7, <2>2, <3>1
    <3>. QED BY <1>1, <1>2, <1>10, <3>2
  <2>. QED BY <2>1, <2>2
<1>12. ASSUME NEW j \in 1..m PROVE f[t[j]] = t[j + 1]
  <2>0. j \in 1..(m + 1) /\ j + 1 \in 1..(m + 1) /\ j \in 1..(k - 1) /\ j + 1 \in 1..(k - 1) /\ j \in 1..k
        /\ j + 1 \in 1..k /\ j \in Nat
    BY <1>1
  <2>1. CASE j < i - 1
    <3>1. t[j] = s[j] /\ t[j + 1] = s[j + 1] /\ j # i - 1
      BY <1>1, <2>0, <2>1
    <3>. QED BY <1>5, <1>7, <2>0, <3>1
  <2>2. CASE j = i - 1
    <3>1. i \in 1..(k - 1) /\ i \in i..(k - 1) /\ j \in 1..(i - 1)
      BY <1>1, <2>0, <2>2
    <3>2. t[j] = s[i - 1] /\ t[i] = s[i + 1] /\ j + 1 = i
      BY <1>1, <2>2, <3>1
    <3>3. l.link[s[i]] = s[i + 1]
      BY <1>5, <3>1
    <3>. QED BY <1>7, <3>2, <3>3
  <2>3. CASE j >= i
    <3>1. j \in i..(k - 1) /\ j + 1 \in i..(k - 1) /\ j + 1 # i - 1
      BY <1>1, <2>0, <2>3
    <3>2. t[j] = s[j + 1] /\ t[j + 1] = s[j + 1 + 1]
      BY <3>1
    <3>3. f[s[j + 1]] = l.link[s[j + 1]] /\ l.link[s[j + 1]] = s[j + 1 + 1]
      BY <1>5, <1>7, <2>0, <3>1
    <3>. QED BY <3>2, <3>3
  <2>. QED BY <1>1, <2>0, <2>1, <2>2, <2>3
<1>13. Len(t) = m + 1
  BY <1>1
<1>14. StandsFor([tail |-> a, link |-> f], t)
  <2>. HIDE DEF m
  <2>. QED BY <1>1, <1>7, <1>9, <1>11, <1>12, <1>13, Stood
<1>. QED BY <1>14 DEF a, f

LEMMA PoppedRight ==
  ASSUME L!NodesAssumption, NEW l, NEW s, StandsFor(l, s)
  PROVE  StandsFor(L!clist_rpop(l), IF s = <<>> THEN <<>> ELSE L!Front(s))
<1>. DEFINE k == Len(s)
            t == L!Front(s)
            b == L!clist_find_before(l, l.tail)
<1>1. CASE s = <<>>
  BY <1>1, Standing DEF L!clist_rpop
<1>. SUFFICES ASSUME s # <<>>
              PROVE  StandsFor(L!clist_rpop(l), t)
  BY <1>1
<1>2. s \in Seq(Nodes) /\ k \in Nat /\ k > 0 /\ \A j \in 1..k : s[j] \in Nodes
  BY Standing DEF StandsFor
<1>3. t \in Seq(Nodes) /\ Len(t) = k - 1 /\ \A j \in 1..(k - 1) : t[j] = s[j]
  <2>1. t = SubSeq(s, 1, k - 1)
    BY DEF L!Front
  <2>2. 1 \in 1..(k + 1) /\ k - 1 \in 0..k /\ \A j \in 1..(k - 1) : 1 + j - 1 = j /\ j \in 1..k
    BY <1>2
  <2>3. k - 1 \in Int /\ 1 \in Int /\ (IF 1 <= k - 1 THEN k - 1 - 1 + 1 ELSE 0) = k - 1
        /\ 1..(k - 1 - 1 + 1) = 1..(k - 1)
    <3>. HIDE DEF k
    <3>. QED BY <1>2
  <2>4. \A j \in 1..(k - 1) : s[j] \in Nodes
    BY <1>2, <2>2
  <2>. HIDE DEF k, t
  <2>. QED BY <2>1, <2>2, <2>3, <2>4, SubSeqProperties
<1>4. /\ l.tail = s[k] /\ l.tail # NULL /\ l.link[s[k]] = s[1]
      /\ l.link \in [Nodes -> Nodes \cup {NULL}] /\ s[k] \in Nodes
      /\ l = [tail |-> l.tail, link |-> l.link]
  BY Standing
<1>5. L!clist_rpop(l) = L!clist_lpop([tail |-> b, link |-> l.link])
  BY <1>4 DEF L!clist_rpop
<1>6. CASE k = 1
  <2>1. b = s[1] /\ s[1] \in Nodes /\ l = [tail |-> b, link |-> l.link]
    BY <1>2, <1>4, <1>6, Before
  <2>2. L!clist_rpop(l) = L!clist_lpop(l)
    BY <1>5, <2>1
  <2>3. t = <<>> /\ Tail(s) = <<>>
    <3>1. t = <<>>
      BY <1>3, <1>6, EmptySeq
    <3>2. Tail(s) \in Seq(Nodes) /\ Len(Tail(s)) = 0
      BY <1>2, <1>6, HeadTailProperties
    <3>. QED BY <3>1, <3>2, EmptySeq
  <2>. HIDE DEF t
  <2>. QED BY <2>2, <2>3, PoppedLeft
<1>7. CASE k # 1
  <2>1. k \in 2..k /\ k - 1 \in 1..(k - 1) /\ k - 1 \in 1..k /\ k - 1 + 1 = k /\ k \in 1..k
    <3>. HIDE DEF k
    <3>1. k >= 2
      BY <1>2, <1>7
    <3>. QED BY <1>2, <3>1
  <2>2. b = s[k - 1]
    BY <1>4, <2>1, Before
  <2>3. b \in Nodes /\ b # s[k] /\ l.link[b] = s[k]
    <3>1. \A p, q \in 1..k : s[p] = s[q] => p = q
      BY DEF StandsFor
    <3>2. l.link[s[k - 1]] = s[k]
      BY <2>1 DEF StandsFor
    <3>3. k - 1 # k
      BY <1>2
    <3>. QED BY <1>2, <2>1, <2>2, <3>1, <3>2, <3>3
  <2>. HIDE DEF b
  <2>4. b # NULL
    BY <2>3 DEF L!NodesAssumption
  <2>5. L!clist_lpop([tail |-> b, link |-> l.link])
          = [tail |-> b, link |-> [l.link EXCEPT ![b] = l.link[s[k]]]]
    <3>. DEFINE r == [tail |-> b, link |-> l.link]
    <3>1. r.tail = b /\ r.link = l.link /\ r.link[r.tail] # r.tail /\ r.tail # NULL
      BY <2>3, <2>4
    <3>2. L!clist_lpop(r) = [r EXCEPT !.link[r.tail] = r.link[r.link[r.tail]]]
      BY <3>1 DEF L!clist_lpop
    <3>. QED BY <2>3, <3>2
  <2>6. L!clist_rpop(l) = [tail |-> IF s[k] = l.tail THEN s[k - 1] ELSE l.tail,
                           link |-> [l.link EXCEPT ![s[k - 1]] = l.link[s[k]]]]
    BY <1>4, <1>5, <2>2, <2>5
  <2>7. \A j \in k..(k - 1) : t[j] = s[j + 1]
    BY <1>2
  <2>. HIDE DEF t
  <2>8. StandsFor([tail |-> IF s[k] = l.tail THEN s[k - 1] ELSE l.tail,
                   link |-> [l.link EXCEPT ![s[k - 1]] = l.link[s[k]]]], t)
    BY <1>3, <2>1, <2>7, LinkedAround
  <2>. QED BY <2>6, <2>8
<1>. QED BY <1>6, <1>7

\* clist_find and clist_remove.
LEMMA FoundOrNot ==
  ASSUME L!NodesAssumption, NEW l, NEW s, StandsFor(l, s)
  PROVE  /\ \A n : (\A i \in 1..Len(s) : s[i] # n) => L!clist_find(l, n) = NULL
         /\ \A i \in 1..Len(s) : L!clist_find(l, s[i]) = s[i]
<1>. DEFINE k == Len(s)
<1>1. ASSUME NEW n, \A i \in 1..k : s[i] # n PROVE L!clist_find(l, n) = NULL
  <2>1. L!clist_find_before(l, n) = NULL
    BY <1>1, Before
  <2>. QED BY <2>1 DEF L!clist_find
<1>2. ASSUME NEW i \in 1..k PROVE L!clist_find(l, s[i]) = s[i]
  <2>1. k \in Nat /\ k > 0 /\ s # <<>>
    BY Standing
  <2>2. CASE i = 1
    <3>1. L!clist_find_before(l, s[1]) = s[k] /\ s[k] # NULL /\ l.link[s[k]] = s[1]
      BY <2>1, Before, Standing
    <3>. QED BY <2>2, <3>1 DEF L!clist_find
  <2>3. CASE i # 1
    <3>1. i \in 2..k /\ i - 1 \in 1..k /\ i - 1 \in 1..(k - 1) /\ i - 1 + 1 = i
      BY <2>1, <2>3
    <3>2. L!clist_find_before(l, s[i]) = s[i - 1] /\ s[i - 1] # NULL
      BY <3>1, Before, Standing
    <3>3. l.link[s[i - 1]] = s[i]
      BY <3>1 DEF StandsFor
    <3>. QED BY <3>2, <3>3 DEF L!clist_find
  <2>. QED BY <2>2, <2>3
<1>. QED BY <1>1, <1>2

LEMMA Removed ==
  ASSUME L!NodesAssumption, NEW l, NEW s, StandsFor(l, s)
  PROVE  /\ \A n \in Nodes : (\A i \in 1..Len(s) : s[i] # n) => StandsFor(L!clist_remove(l, n), s)
         /\ \A i \in 1..Len(s) : StandsFor(L!clist_remove(l, s[i]), L!RemoveAt(s, i))
<1>. DEFINE k == Len(s)
<1>1. ASSUME NEW n \in Nodes, \A i \in 1..k : s[i] # n PROVE StandsFor(L!clist_remove(l, n), s)
  <2>1. L!clist_find_before(l, n) = NULL
    BY <1>1, Before
  <2>2. l.tail # NULL => l.link[l.tail] # n
    <3>1. s # <<>> => 1 \in 1..k /\ l.link[l.tail] = s[1]
      BY Standing
    <3>. QED BY <1>1, <3>1, Standing
  <2>3. L!clist_remove(l, n) = l
    BY <2>1, <2>2 DEF L!clist_remove
  <2>. QED BY <2>3
<1>2. ASSUME NEW i \in 1..k PROVE StandsFor(L!clist_remove(l, s[i]), L!RemoveAt(s, i))
  <2>. DEFINE t == L!RemoveAt(s, i)
  <2>1. k \in Nat /\ k > 0 /\ s # <<>> /\ s \in Seq(Nodes)
        /\ l.tail # NULL /\ l.link[l.tail] = s[1] /\ 1 \in 1..k
    BY Standing DEF StandsFor
  <2>2. /\ t \in Seq(Nodes) /\ Len(t) = k - 1
        /\ \A j \in 1..(i - 1) : t[j] = s[j]
        /\ \A j \in i..(k - 1) : t[j] = s[j + 1]
    BY <2>1, RemovedAt
  <2>. HIDE DEF t
  <2>3. CASE i = 1
    <3>1. L!clist_remove(l, s[i]) = L!clist_lpop(l)
      BY <2>1, <2>3 DEF L!clist_remove
    <3>2. /\ Tail(s) \in Seq(Nodes) /\ Len(Tail(s)) = k - 1
          /\ \A j \in 1..(k - 1) : Tail(s)[j] = s[j + 1]
      BY <2>1, HeadTailProperties
    <3>3. \A j \in 1..(k - 1) : t[j] = Tail(s)[j]
      BY <2>2, <2>3, <3>2
    <3>4. t = Tail(s)
      BY <2>2, <3>2, <3>3, SeqEqual
    <3>. QED BY <2>1, <3>1, <3>4, PoppedLeft DEF t
  <2>4. CASE i # 1
    <3>1. i \in 2..k /\ i - 1 \in 1..k
      BY <2>1, <2>4
    <3>2. L!clist_find_before(l, s[i]) = s[i - 1] /\ s[i - 1] # NULL
      BY <3>1, Before, Standing
    <3>3. s[i] # s[1]
      BY <2>1, <2>4 DEF StandsFor
    <3>4. L!clist_remove(l, s[i]) = [tail |-> IF s[i] = l.tail THEN s[i - 1] ELSE l.tail,
                                     link |-> [l.link EXCEPT ![s[i - 1]] = l.link[s[i]]]]
      BY <2>1, <3>2, <3>3 DEF L!clist_remove
    <3>5. StandsFor([tail |-> IF s[i] = l.tail THEN s[i - 1] ELSE l.tail,
                     link |-> [l.link EXCEPT ![s[i - 1]] = l.link[s[i]]]], t)
      BY <2>2, <3>1, LinkedAround
    <3>. QED BY <3>4, <3>5 DEF t
  <2>. QED BY <2>3, <2>4
<1>. QED BY <1>1, <1>2

\* Whatever calls were made, the pointers stand for the sequence the caller expects.
ListInv == StandsFor(list, items)

LEMMA AbsentOnes ==
  ASSUME L!NodesAssumption, ListInv
  PROVE  /\ DOMAIN items = 1..Len(items)
         /\ \A n \in Nodes : n \in L!Absent <=> \A i \in 1..Len(items) : items[i] # n
<1>1. DOMAIN items = 1..Len(items)
  BY LenProperties DEF ListInv, StandsFor
<1>. QED BY <1>1 DEF L!Absent, L!ToSet

LEMMA ListInit ==
  ASSUME L!NodesAssumption, L!Init
  PROVE  ListInv
<1>1. L!EmptyList \in L!List /\ L!EmptyList.tail = NULL
  BY DEF L!EmptyList, L!List, L!Pointer
<1>. QED BY <1>1 DEF L!Init, ListInv, StandsFor

LEMMA ListStep ==
  ASSUME L!NodesAssumption, ListInv, L!Next
  PROVE  ListInv'
<1>1. CASE \E n \in L!Absent : L!PushRight(n) \/ L!PushLeft(n)
  <2>1. PICK n \in L!Absent : L!PushRight(n) \/ L!PushLeft(n)
    BY <1>1
  <2>2. n \in Nodes /\ \A i \in 1..Len(items) : items[i] # n
    BY AbsentOnes DEF L!Absent
  <2>3. StandsFor(list', items')
    <3>1. CASE L!PushRight(n)
      BY <2>2, <3>1, PushedRight DEF ListInv, L!PushRight
    <3>2. CASE L!PushLeft(n)
      BY <2>2, <3>2, PushedLeft DEF ListInv, L!PushLeft
    <3>. QED BY <2>1, <3>1, <3>2
  <2>. QED BY <2>3 DEF ListInv
<1>2. CASE L!PopLeft
  BY <1>2, PoppedLeft DEF ListInv, L!PopLeft
<1>3. CASE L!PopRight
  BY <1>3, PoppedRight DEF ListInv, L!PopRight
<1>4. CASE L!Rotate
  BY <1>4, Rotated DEF ListInv, L!Rotate
<1>5. CASE \E n \in Nodes : L!Drop(n)
  <2>1. PICK n \in Nodes : L!Drop(n)
    BY <1>5
  <2>2. CASE n \in L!Absent
    <3>1. \A i \in 1..Len(items) : items[i] # n
      BY <2>2, AbsentOnes
    <3>2. list' = L!clist_remove(list, n) /\ items' = items
      BY <2>1, <2>2 DEF L!Drop
    <3>. QED BY <3>1, <3>2, Removed DEF ListInv
  <2>3. CASE n \notin L!Absent
    <3>. DEFINE i == CHOOSE j \in DOMAIN items : items[j] = n
    <3>1. i \in 1..Len(items) /\ items[i] = n
      BY <2>3, AbsentOnes
    <3>2. list' = L!clist_remove(list, n) /\ items' = L!RemoveAt(items, i)
      BY <2>1, <2>3 DEF L!Drop
    <3>. HIDE DEF i
    <3>3. StandsFor(L!clist_remove(list, items[i]), L!RemoveAt(items, i))
      BY <3>1, Removed DEF ListInv
    <3>. QED BY <3>1, <3>2, <3>3 DEF ListInv
  <2>. QED BY <2>2, <2>3
<1>. QED BY <1>1, <1>2, <1>3, <1>4, <1>5 DEF L!Next

LEMMA ListHolds ==
  ASSUME L!NodesAssumption, ListInv
  PROVE  L!ListRight
<1>1. L!Represents /\ L!clist_count(list) = Len(items)
  BY Walked DEF ListInv, L!Represents
<1>2. ASSUME NEW n \in Nodes PROVE L!clist_find(list, n) = IF n \in L!Absent THEN NULL ELSE n
  <2>1. CASE n \in L!Absent
    BY <2>1, AbsentOnes, FoundOrNot DEF ListInv
  <2>2. CASE n \notin L!Absent
    <3>1. PICK i \in 1..Len(items) : items[i] = n
      BY <2>2, AbsentOnes
    <3>2. L!clist_find(list, items[i]) = items[i]
      BY FoundOrNot DEF ListInv
    <3>. QED BY <2>2, <3>1, <3>2
  <2>. QED BY <2>1, <2>2
<1>. QED BY <1>1, <1>2 DEF L!ListRight, L!FindsMembers
-----------------------------------------------------------------------------
(* The card monitor.                                                       *)

\* The debounce goes on while neither its window nor its time is full.
Debouncing == monitorPc = "sample" => probe.streak < Window /\ probe.taken < Samples

\* What a mount has behind it where it is, and an unmount before it.
Mounting ==
  /\ monitorPc \in {"m_driver", "m_disk", "m_fat", "m_push"} => ~is_mounted /\ ~listed
  /\ monitorPc \in {"m_disk", "m_fat", "m_push"} => driver
  /\ monitorPc \in {"m_fat", "m_push"} => semphrs /\ disk /\ area = "live"
  /\ monitorPc \in {"u_vfs", "u_disk", "u_free"} => is_mounted
  /\ monitorPc \in {"u_disk", "u_free"} => ~listed
  /\ listed => is_mounted

\* The types, in parts.
Outside == /\ pin \in {"in", "out"} /\ edges \in 0..MaxEdges /\ powered \in BOOLEAN
           /\ notified \in BOOLEAN /\ nstate \in {"not_waiting", "waiting", "received"}
           /\ io \in {"none", "running", "stalled"} /\ jammed \in BOOLEAN
           /\ excuse \in {"none", "lost", "failed", "stuck"}
Inside == /\ monitorPc \in {"sample", "handle", "wait", "blocked", "skip", "m_driver", "m_disk",
                      "m_fat", "m_push", "u_vfs", "u_disk", "u_free"}
          /\ boot \in BOOLEAN /\ verdict \in {"inserted", "removed", "unstable"}
          /\ probe \in [level : {"none", "in", "out"}, streak : 0..Window, taken : 0..Samples]
Stack == /\ is_mounted \in BOOLEAN /\ driver \in BOOLEAN /\ semphrs \in BOOLEAN
         /\ disk \in BOOLEAN /\ listed \in BOOLEAN
         /\ area \in {"null", "live", "freed"}

MonitorInv == Outside /\ Inside /\ Stack /\ Debouncing /\ Mounting /\ M!ListedUsable

LEMMA MonitorInit ==
  ASSUME M!MonitorAssumption, M!Init
  PROVE  MonitorInv
<1>1. M!NoProbe \in [level : {"none", "in", "out"}, streak : 0..Window, taken : 0..Samples]
      /\ M!NoProbe.streak = 0 /\ M!NoProbe.taken = 0
  BY DEF M!MonitorAssumption, M!NoProbe
<1>2. Outside
  <2>1. edges \in 0..MaxEdges
    BY DEF M!Init, M!MonitorAssumption
  <2>. QED BY <2>1 DEF M!Init, Outside
<1>3. Inside /\ Stack
  BY <1>1 DEF M!Init, Inside, Stack
<1>. QED BY <1>1, <1>2, <1>3 DEF M!Init, M!MonitorAssumption, MonitorInv, Debouncing, Mounting,
                                 M!ListedUsable

LEMMA MonitorStep ==
  ASSUME M!MonitorAssumption, MonitorInv, [M!Next]_(M!vars)
  PROVE  MonitorInv'
<1>. USE DEF M!signal, M!note, M!stack, M!env, M!Done, M!Excuse, M!MonitorAssumption
<1>a. Outside /\ Inside /\ Stack /\ Debouncing /\ Mounting /\ M!ListedUsable
  BY DEF MonitorInv
<1>1. CASE M!Edge
  <2>1. Outside'
    <3>1. edges' \in 0..MaxEdges
      BY <1>a, <1>1 DEF M!Edge, Outside
    <3>2. excuse' \in {"none", "lost", "failed", "stuck"}
      BY <1>a, <1>1 DEF M!Edge, Outside
    <3>3. pin' \in {"in", "out"} /\ io' \in {"none", "running", "stalled"}
      BY <1>a, <1>1 DEF M!Edge, Outside
    <3>. QED BY <1>a, <1>1, <3>1, <3>2, <3>3 DEF M!Edge, Outside
  <2>2. Inside' /\ Debouncing'
    BY <1>a, <1>1 DEF M!Edge, Inside, Outside, Debouncing
  <2>3. Stack'
    BY <1>a, <1>1 DEF M!Edge, Stack
  <2>4. Mounting' /\ M!ListedUsable'
    BY <1>a, <1>1 DEF M!Edge, Inside, Stack, Mounting, M!ListedUsable
  <2>. QED BY <2>1, <2>2, <2>3, <2>4 DEF MonitorInv
<1>2. CASE M!Transfer
  <2>1. Outside'
    BY <1>a, <1>2 DEF M!Transfer, Outside
  <2>2. Inside' /\ Debouncing'
    BY <1>a, <1>2 DEF M!Transfer, Inside, Outside, Debouncing
  <2>3. Stack'
    BY <1>a, <1>2 DEF M!Transfer, Stack
  <2>4. Mounting' /\ M!ListedUsable'
    BY <1>a, <1>2 DEF M!Transfer, Inside, Stack, Mounting, M!ListedUsable
  <2>. QED BY <2>1, <2>2, <2>3, <2>4 DEF MonitorInv
<1>3. CASE M!TransferEnd
  <2>1. Outside'
    BY <1>a, <1>3 DEF M!TransferEnd, Outside
  <2>2. Inside' /\ Debouncing'
    BY <1>a, <1>3 DEF M!TransferEnd, Inside, Outside, Debouncing
  <2>3. Stack'
    BY <1>a, <1>3 DEF M!TransferEnd, Stack
  <2>4. Mounting' /\ M!ListedUsable'
    BY <1>a, <1>3 DEF M!TransferEnd, Inside, Stack, Mounting, M!ListedUsable
  <2>. QED BY <2>1, <2>2, <2>3, <2>4 DEF MonitorInv
<1>4. CASE M!Sample
  <2>1. Outside'
    BY <1>a, <1>4 DEF M!Sample, Outside
  <2>2. Inside' /\ Debouncing'
    BY <1>a, <1>4 DEF M!Sample, Inside, Outside, Debouncing
  <2>3. Stack'
    BY <1>a, <1>4 DEF M!Sample, Stack
  <2>4. Mounting' /\ M!ListedUsable'
    BY <1>a, <1>4 DEF M!Sample, Inside, Stack, Mounting, M!ListedUsable
  <2>. QED BY <2>1, <2>2, <2>3, <2>4 DEF MonitorInv
<1>5. CASE M!Handle
  <2>1. Outside'
    BY <1>a, <1>5 DEF M!Handle, Outside
  <2>2. Inside' /\ Debouncing'
    BY <1>a, <1>5 DEF M!Handle, Inside, Outside, Debouncing
  <2>3. Stack'
    BY <1>a, <1>5 DEF M!Handle, Stack
  <2>4. Mounting' /\ M!ListedUsable'
    BY <1>a, <1>5 DEF M!Handle, Inside, Stack, Mounting, M!ListedUsable
  <2>. QED BY <2>1, <2>2, <2>3, <2>4 DEF MonitorInv
<1>6. CASE M!Wait
  <2>1. Outside'
    BY <1>a, <1>6 DEF M!Wait, Outside
  <2>2. Inside' /\ Debouncing'
    BY <1>a, <1>6 DEF M!Wait, Inside, Outside, Debouncing
  <2>3. Stack'
    BY <1>a, <1>6 DEF M!Wait, Stack
  <2>4. Mounting' /\ M!ListedUsable'
    BY <1>a, <1>6 DEF M!Wait, Inside, Stack, Mounting, M!ListedUsable
  <2>. QED BY <2>1, <2>2, <2>3, <2>4 DEF MonitorInv
<1>7. CASE M!Woken
  <2>1. Outside'
    BY <1>a, <1>7 DEF M!Woken, M!NoProbe, Outside
  <2>2. Inside' /\ Debouncing'
    BY <1>a, <1>7 DEF M!Woken, M!NoProbe, Inside, Outside, Debouncing
  <2>3. Stack'
    BY <1>a, <1>7 DEF M!Woken, M!NoProbe, Stack
  <2>4. Mounting' /\ M!ListedUsable'
    BY <1>a, <1>7 DEF M!Woken, M!NoProbe, Inside, Stack, Mounting, M!ListedUsable
  <2>. QED BY <2>1, <2>2, <2>3, <2>4 DEF MonitorInv
<1>8. CASE M!SkipPending
  <2>1. Outside'
    BY <1>a, <1>8 DEF M!SkipPending, Outside
  <2>2. Inside' /\ Debouncing'
    BY <1>a, <1>8 DEF M!SkipPending, Inside, Outside, Debouncing
  <2>3. Stack'
    BY <1>a, <1>8 DEF M!SkipPending, Stack
  <2>4. Mounting' /\ M!ListedUsable'
    BY <1>a, <1>8 DEF M!SkipPending, Inside, Stack, Mounting, M!ListedUsable
  <2>. QED BY <2>1, <2>2, <2>3, <2>4 DEF MonitorInv
<1>9. CASE M!MountDriver
  <2>1. Outside'
    BY <1>a, <1>9 DEF M!MountDriver, Outside
  <2>2. Inside' /\ Debouncing'
    BY <1>a, <1>9 DEF M!MountDriver, Inside, Outside, Debouncing
  <2>3. Stack'
    BY <1>a, <1>9 DEF M!MountDriver, Stack
  <2>4. Mounting' /\ M!ListedUsable'
    BY <1>a, <1>9 DEF M!MountDriver, Inside, Stack, Mounting, M!ListedUsable
  <2>. QED BY <2>1, <2>2, <2>3, <2>4 DEF MonitorInv
<1>10. CASE M!MountDisk
  <2>1. Outside'
    BY <1>a, <1>10 DEF M!MountDisk, Outside
  <2>2. Inside' /\ Debouncing'
    BY <1>a, <1>10 DEF M!MountDisk, Inside, Outside, Debouncing
  <2>3. Stack'
    BY <1>a, <1>10 DEF M!MountDisk, Stack
  <2>4. Mounting' /\ M!ListedUsable'
    BY <1>a, <1>10 DEF M!MountDisk, Inside, Stack, Mounting, M!ListedUsable
  <2>. QED BY <2>1, <2>2, <2>3, <2>4 DEF MonitorInv
<1>11. CASE M!MountFat
  <2>1. Outside'
    BY <1>a, <1>11 DEF M!MountFat, Outside
  <2>2. Inside' /\ Debouncing'
    BY <1>a, <1>11 DEF M!MountFat, Inside, Outside, Debouncing
  <2>3. Stack'
    BY <1>a, <1>11 DEF M!MountFat, Stack
  <2>4. Mounting' /\ M!ListedUsable'
    BY <1>a, <1>11 DEF M!MountFat, Inside, Stack, Mounting, M!ListedUsable
  <2>. QED BY <2>1, <2>2, <2>3, <2>4 DEF MonitorInv
<1>12. CASE M!MountPush
  <2>1. Outside'
    BY <1>a, <1>12 DEF M!MountPush, Outside
  <2>2. Inside' /\ Debouncing'
    BY <1>a, <1>12 DEF M!MountPush, Inside, Outside, Debouncing
  <2>3. Stack'
    BY <1>a, <1>12 DEF M!MountPush, Stack
  <2>4. Mounting' /\ M!ListedUsable'
    BY <1>a, <1>12 DEF M!MountPush, Inside, Stack, Mounting, M!ListedUsable
  <2>. QED BY <2>1, <2>2, <2>3, <2>4 DEF MonitorInv
<1>13. CASE M!UnmountVfs
  <2>1. Outside'
    BY <1>a, <1>13 DEF M!UnmountVfs, Outside
  <2>2. Inside' /\ Debouncing'
    BY <1>a, <1>13 DEF M!UnmountVfs, Inside, Outside, Debouncing
  <2>3. Stack'
    BY <1>a, <1>13 DEF M!UnmountVfs, Stack
  <2>4. Mounting' /\ M!ListedUsable'
    BY <1>a, <1>13 DEF M!UnmountVfs, Inside, Stack, Mounting, M!ListedUsable
  <2>. QED BY <2>1, <2>2, <2>3, <2>4 DEF MonitorInv
<1>14. CASE M!UnmountDisk
  <2>1. Outside'
    BY <1>a, <1>14 DEF M!UnmountDisk, Outside
  <2>2. Inside' /\ Debouncing'
    BY <1>a, <1>14 DEF M!UnmountDisk, Inside, Outside, Debouncing
  <2>3. Stack'
    BY <1>a, <1>14 DEF M!UnmountDisk, Stack
  <2>4. Mounting' /\ M!ListedUsable'
    BY <1>a, <1>14 DEF M!UnmountDisk, Inside, Stack, Mounting, M!ListedUsable
  <2>. QED BY <2>1, <2>2, <2>3, <2>4 DEF MonitorInv
<1>15. CASE M!UnmountFree
  <2>1. Outside'
    BY <1>a, <1>15 DEF M!UnmountFree, Outside
  <2>2. Inside' /\ Debouncing'
    BY <1>a, <1>15 DEF M!UnmountFree, Inside, Outside, Debouncing
  <2>3. Stack'
    BY <1>a, <1>15 DEF M!UnmountFree, Stack
  <2>4. Mounting' /\ M!ListedUsable'
    BY <1>a, <1>15 DEF M!UnmountFree, Inside, Stack, Mounting, M!ListedUsable
  <2>. QED BY <2>1, <2>2, <2>3, <2>4 DEF MonitorInv
<1>16. CASE UNCHANGED M!vars
  BY <1>a, <1>16 DEF M!vars, MonitorInv, Outside, Inside, Stack, Debouncing, Mounting, M!ListedUsable
<1>. QED BY <1>1, <1>2, <1>3, <1>4, <1>5, <1>6, <1>7, <1>8, <1>9,
            <1>10, <1>11, <1>12, <1>13, <1>14, <1>15, <1>16 DEF M!Next, M!Task
-----------------------------------------------------------------------------
(* Paths.                                                                  *)

\* What SubSeq and Append return, element by element.
LEMMA Cut ==
  ASSUME NEW X, NEW s \in Seq(X), NEW n \in 0..Len(s)
  PROVE  /\ SubSeq(s, 1, n) \in Seq(X) /\ Len(SubSeq(s, 1, n)) = n
         /\ \A i \in 1..n : SubSeq(s, 1, n)[i] = s[i]
<1>1. 1 \in Int /\ n \in Int /\ \A i \in 1..n : s[i] \in X
  OBVIOUS
<1>2. /\ SubSeq(s, 1, n) \in Seq(X)
      /\ Len(SubSeq(s, 1, n)) = IF 1 <= n THEN n - 1 + 1 ELSE 0
      /\ \A i \in 1..(n - 1 + 1) : SubSeq(s, 1, n)[i] = s[1 + i - 1]
  BY <1>1, SubSeqProperties
<1>. QED BY <1>2

LEMMA Put ==
  ASSUME NEW X, NEW s \in Seq(X), NEW x \in X
  PROVE  /\ Append(s, x) \in Seq(X) /\ Len(Append(s, x)) = Len(s) + 1
         /\ \A i \in 1..Len(s) : Append(s, x)[i] = s[i]
         /\ Append(s, x)[Len(s) + 1] = x
OBVIOUS

LEMMA TreePath ==
  ASSUME F!CommandsAssumption, NEW p
  PROVE  p \in F!TreePaths <=> p \in Seq(Names) /\ Len(p) <= Depth
<1>1. Depth \in Nat
  BY DEF F!CommandsAssumption
<1>2. ASSUME p \in F!TreePaths
      PROVE  p \in Seq(Names) /\ Len(p) <= Depth
  <2>1. PICK m \in 0..Depth : p \in [1..m -> Names]
    BY <1>2 DEF F!TreePaths, F!SeqOf
  <2>. QED BY <1>1, <2>1, IsASeq
<1>3. ASSUME p \in Seq(Names), Len(p) <= Depth
      PROVE  p \in F!TreePaths
  <2>1. Len(p) \in 0..Depth /\ p \in [1..Len(p) -> Names]
    BY <1>1, <1>3, LenProperties
  <2>. QED BY <2>1 DEF F!TreePaths, F!SeqOf
<1>. QED BY <1>2, <1>3


LEMMA UnderIs ==
  ASSUME F!CommandsAssumption, NEW p \in F!TreePaths, NEW q \in F!TreePaths
  PROVE  q \in F!Under(p) <=> Len(p) <= Len(q) /\ \A i \in 1..Len(p) : q[i] = p[i]
<1>1. p \in Seq(Names) /\ q \in Seq(Names)
  BY TreePath
<1>2. Len(p) \in Nat /\ Len(q) \in Nat
  BY <1>1
<1>3. ASSUME Len(p) <= Len(q)
      PROVE  SubSeq(p, 1, Len(p)) = SubSeq(q, 1, Len(p)) <=> \A i \in 1..Len(p) : q[i] = p[i]
  <2>1. SubSeq(p, 1, Len(p)) = p
    BY <1>1, SubSeqFull
  <2>2. Len(p) \in 0..Len(q)
    BY <1>2, <1>3
  <2>. DEFINE s == SubSeq(q, 1, Len(p))
  <2>3. /\ s \in Seq(Names) /\ Len(s) = Len(p)
        /\ \A i \in 1..Len(p) : s[i] = q[i]
    BY <1>1, <2>2, Cut
  <2>. HIDE DEF s
  <2>4. s = p <=> \A i \in 1..Len(p) : s[i] = p[i]
    BY <1>1, <2>3, SeqEqual
  <2>5. p = s <=> \A i \in 1..Len(p) : q[i] = p[i]
    BY <2>3, <2>4
  <2>. QED BY <2>1, <2>5, Zenon DEF s
<1>. QED BY <1>3, Zenon DEF F!Under, F!IsPrefix

LEMMA UnderItself ==
  ASSUME NEW p \in F!TreePaths
  PROVE  p \in F!Under(p)
BY DEF F!Under, F!IsPrefix

\* A path that goes on below p goes on with an entry of p.
LEMMA UnderChild ==
  ASSUME F!CommandsAssumption, NEW p \in F!TreePaths, NEW q \in F!Under(p), q # p
  PROVE  /\ Len(q) > Len(p)
         /\ q[Len(p) + 1] \in Names
         /\ SubSeq(q, 1, Len(p) + 1) = Append(p, q[Len(p) + 1])
<1>1. /\ p \in Seq(Names) /\ q \in Seq(Names) /\ q \in F!TreePaths
  BY TreePath DEF F!Under
<1>2. Len(p) <= Len(q) /\ \A i \in 1..Len(p) : q[i] = p[i]
  BY <1>1, UnderIs
<1>3. Len(p) \in Nat /\ Len(q) \in Nat
  BY <1>1
<1>4. Len(q) > Len(p)
  <2>1. ASSUME Len(p) = Len(q)
        PROVE  p = q
    BY <1>1, <1>2, <2>1, SeqEqual
  <2>. QED BY <1>2, <1>3, <2>1
<1>5. q[Len(p) + 1] \in Names
  BY <1>1, <1>3, <1>4
<1>6. SubSeq(q, 1, Len(p) + 1) = Append(p, q[Len(p) + 1])
  <2>. DEFINE s == SubSeq(q, 1, Len(p) + 1)
              a == Append(p, q[Len(p) + 1])
  <2>1. Len(p) + 1 \in 0..Len(q)
    BY <1>3, <1>4
  <2>2. /\ s \in Seq(Names) /\ Len(s) = Len(p) + 1
        /\ \A i \in 1..(Len(p) + 1) : s[i] = q[i]
    BY <1>1, <2>1, Cut
  <2>3. /\ a \in Seq(Names) /\ Len(a) = Len(p) + 1
        /\ \A i \in 1..Len(p) : a[i] = p[i]
        /\ a[Len(p) + 1] = q[Len(p) + 1]
    BY <1>1, <1>5, Put
  <2>. HIDE DEF s, a
  <2>4. \A i \in 1..(Len(p) + 1) : s[i] = a[i]
    BY <1>2, <1>3, <2>2, <2>3
  <2>5. s = a
    BY <2>2, <2>3, <2>4, SeqEqual
  <2>. QED BY <2>5, Zenon DEF s, a
<1>. QED BY <1>4, <1>5, <1>6

\* What a directory under p holds is under p.
LEMMA UnderAppend ==
  ASSUME F!CommandsAssumption, NEW p \in F!TreePaths, NEW q \in F!Under(p), NEW n \in Names,
         Append(q, n) \in F!TreePaths
  PROVE  Append(q, n) \in F!Under(p)
<1>1. /\ p \in Seq(Names) /\ q \in Seq(Names) /\ q \in F!TreePaths
  BY TreePath DEF F!Under
<1>2. Len(p) <= Len(q) /\ \A i \in 1..Len(p) : q[i] = p[i]
  BY <1>1, UnderIs
<1>3. Len(p) \in Nat /\ Len(q) \in Nat
  BY <1>1
<1>. DEFINE a == Append(q, n)
<1>4. Len(a) = Len(q) + 1 /\ \A i \in 1..Len(q) : a[i] = q[i]
  BY <1>1, Put
<1>. HIDE DEF a
<1>5. Len(p) <= Len(a) /\ \A i \in 1..Len(p) : a[i] = p[i]
  BY <1>2, <1>3, <1>4
<1>. QED BY <1>5, UnderIs, Zenon DEF a

\* The directory that a path under p lies in is under p, but for p's own.
LEMMA UnderFront ==
  ASSUME F!CommandsAssumption, NEW p \in F!TreePaths, NEW q \in F!Under(p), q # <<>>
  PROVE  IF q = p THEN Len(F!Front(q)) < Len(p) ELSE F!Front(q) \in F!Under(p)
<1>1. /\ p \in Seq(Names) /\ q \in Seq(Names) /\ q \in F!TreePaths /\ Len(q) <= Depth
  BY TreePath DEF F!Under
<1>2. Len(p) <= Len(q) /\ \A i \in 1..Len(p) : q[i] = p[i]
  BY <1>1, UnderIs
<1>3. Len(p) \in Nat /\ Len(q) \in Nat \ {0} /\ Depth \in Nat
  BY <1>1, EmptySeq DEF F!CommandsAssumption
<1>. DEFINE f == F!Front(q)
<1>4. /\ f \in Seq(Names) /\ Len(f) = Len(q) - 1
      /\ \A i \in 1..(Len(q) - 1) : f[i] = q[i]
  <2>1. Len(q) - 1 \in 0..Len(q)
    BY <1>3
  <2>. QED BY <1>1, <2>1, Cut DEF F!Front
<1>. HIDE DEF f
<1>5. CASE q = p
  <2>1. Len(f) < Len(p)
    BY <1>3, <1>4, <1>5
  <2>. QED BY <1>5, <2>1, Zenon DEF f
<1>6. CASE q # p
  <2>1. Len(q) > Len(p)
    BY <1>6, UnderChild
  <2>2. f \in F!TreePaths
    BY <1>1, <1>3, <1>4, TreePath
  <2>3. Len(p) <= Len(f) /\ \A i \in 1..Len(p) : f[i] = p[i]
    BY <1>2, <1>3, <1>4, <2>1
  <2>4. f \in F!Under(p)
    BY <2>2, <2>3, UnderIs
  <2>. QED BY <1>6, <2>4, Zenon DEF f
<1>. QED BY <1>5, <1>6, Zenon
-----------------------------------------------------------------------------
(* The tree.                                                               *)

\* Every entry lies in a directory of the tree, up to the mount point.
Closed == \A q \in F!Entries : \A k \in 0..(Len(q) - 1) : SubSeq(q, 1, k) \in dirs

TreeInv ==
  /\ dirs \subseteq F!TreePaths /\ DOMAIN size \subseteq F!TreePaths
  /\ size \in [DOMAIN size -> Nat]
  /\ Closed

\* A step leaves an entry as it is.
Kept(p) == /\ p \in dirs' <=> p \in dirs
           /\ p \in DOMAIN size' <=> p \in DOMAIN size
           /\ p \in DOMAIN size => size'[p] = size[p]

\* In a tree a directory without entries has nothing under it.
LEMMA NothingUnder ==
  ASSUME F!CommandsAssumption, TreeInv, NEW p \in F!TreePaths, F!Children(p) = {}
  PROVE  \A q \in F!Entries : q \in F!Under(p) => q = p
<1>1. SUFFICES ASSUME NEW q \in F!Entries, q \in F!Under(p), q # p
               PROVE  FALSE
  OBVIOUS
<1>2. /\ Len(q) > Len(p) /\ q[Len(p) + 1] \in Names
      /\ SubSeq(q, 1, Len(p) + 1) = Append(p, q[Len(p) + 1])
  BY <1>1, UnderChild
<1>3. p \in Seq(Names) /\ q \in Seq(Names)
  BY <1>1, TreePath DEF F!Under
<1>4. Len(p) \in Nat /\ Len(q) \in Nat
  BY <1>3
<1>5. SubSeq(q, 1, Len(p) + 1) \in F!Entries
  <2>1. CASE Len(p) + 1 = Len(q)
    BY <1>1, <1>3, <2>1, SubSeqFull
  <2>2. CASE Len(p) + 1 # Len(q)
    <3>1. Len(p) + 1 \in 0..(Len(q) - 1)
      BY <1>2, <1>4, <2>2
    <3>. QED BY <1>1, <3>1 DEF TreeInv, Closed, F!Entries
  <2>. QED BY <2>1, <2>2
<1>6. q[Len(p) + 1] \in F!Children(p)
  BY <1>2, <1>5, Zenon DEF F!Children
<1>. QED BY <1>6

\* A prefix of a path has the path under it.
LEMMA PrefixAbove ==
  ASSUME F!CommandsAssumption, NEW q \in F!TreePaths, NEW k \in 0..Len(q),
         SubSeq(q, 1, k) \in F!TreePaths
  PROVE  q \in F!Under(SubSeq(q, 1, k)) /\ Len(SubSeq(q, 1, k)) = k
<1>1. q \in Seq(Names) /\ Len(q) \in Nat
  BY TreePath
<1>. DEFINE p == SubSeq(q, 1, k)
<1>2. p \in Seq(Names) /\ Len(p) = k /\ \A i \in 1..k : p[i] = q[i]
  BY <1>1, Cut
<1>. HIDE DEF p
<1>3. p \in F!TreePaths
  BY DEF p
<1>4. q \in F!Under(p)
  BY <1>2, <1>3, UnderIs
<1>. QED BY <1>2, <1>4, Zenon DEF p

\* What has been removed is gone with all that was under it, and what is left is a
\* tree.
LEMMA Unlinked ==
  ASSUME F!CommandsAssumption, TreeInv, NEW p \in F!TreePaths, NEW r, F!f_unlink(p, r)
  PROVE  /\ TreeInv'
         /\ \A q \in F!TreePaths : q # p => Kept(q)
         /\ r = "ok" => p # <<>> /\ F!Under(p) \cap F!Entries' = {}
<1>1. CASE r = "error" /\ UNCHANGED F!tree
  BY <1>1 DEF F!tree, TreeInv, Closed, F!Entries, Kept
<1>2. CASE r # "error"
  <2>1. /\ p # <<>> /\ F!Children(p) = {}
        /\ dirs' = dirs \ {p} /\ size' = [q \in DOMAIN size \ {p} |-> size[q]]
    BY <1>2 DEF F!f_unlink
  <2>2. \A q \in F!Entries : q \in F!Under(p) => q = p
    BY <2>1, NothingUnder
  <2>3. F!Entries' = F!Entries \ {p} /\ DOMAIN size' = DOMAIN size \ {p}
    BY <2>1 DEF F!Entries
  <2>4. Closed'
    <3>1. SUFFICES ASSUME NEW q \in F!Entries', NEW k \in 0..(Len(q) - 1)
                   PROVE  SubSeq(q, 1, k) \in dirs'
      BY DEF Closed
    <3>2. SubSeq(q, 1, k) \in dirs /\ q \in F!Entries /\ q # p
      BY <2>3, <3>1 DEF TreeInv, Closed
    <3>3. q \in F!TreePaths /\ SubSeq(q, 1, k) \in F!TreePaths
      BY <3>2 DEF TreeInv, F!Entries
    <3>4. k \in 0..Len(q)
      BY <3>1, <3>3, TreePath
    <3>5. q \in F!Under(SubSeq(q, 1, k))
      BY <3>3, <3>4, PrefixAbove
    <3>6. SubSeq(q, 1, k) # p
      BY <2>2, <3>2, <3>5, Zenon
    <3>. QED BY <2>1, <3>2, <3>6, Zenon
  <2>5. TreeInv'
    BY <2>1, <2>3, <2>4 DEF TreeInv
  <2>6. \A q \in F!TreePaths : q # p => Kept(q)
    BY <2>1, <2>3 DEF Kept
  <2>. QED BY <2>1, <2>2, <2>3, <2>5, <2>6
<1>. QED BY <1>1, <1>2 DEF F!f_unlink

\* What lies above a path lies above the directory that it is in.
LEMMA FrontAbove ==
  ASSUME F!CommandsAssumption, NEW p \in F!TreePaths, NEW k \in 0..(Len(p) - 1)
  PROVE  /\ SubSeq(p, 1, k) = SubSeq(F!Front(p), 1, k)
         /\ k \in 0..Len(F!Front(p))
         /\ SubSeq(F!Front(p), 1, Len(F!Front(p))) = F!Front(p)
<1>1. p \in Seq(Names) /\ Len(p) \in Nat /\ Len(p) - 1 \in 0..Len(p) /\ k \in 0..Len(p)
  BY TreePath
<1>. DEFINE f == F!Front(p)
<1>2. f \in Seq(Names) /\ Len(f) = Len(p) - 1 /\ \A i \in 1..(Len(p) - 1) : f[i] = p[i]
  BY <1>1, Cut DEF F!Front
<1>. HIDE DEF f
<1>. DEFINE s == SubSeq(f, 1, k)
            t == SubSeq(p, 1, k)
<1>3. k \in 0..Len(f)
  BY <1>2
<1>4. s \in Seq(Names) /\ Len(s) = k /\ \A i \in 1..k : s[i] = f[i]
  BY <1>2, <1>3, Cut
<1>5. t \in Seq(Names) /\ Len(t) = k /\ \A i \in 1..k : t[i] = p[i]
  BY <1>1, Cut
<1>6. SubSeq(f, 1, Len(f)) = f
  BY <1>2, SubSeqFull
<1>. HIDE DEF s, t
<1>7. s = t
  <2>1. \A i \in 1..k : s[i] = t[i]
    BY <1>1, <1>2, <1>4, <1>5
  <2>. QED BY <1>4, <1>5, <2>1, SeqEqual
<1>. QED BY <1>3, <1>6, <1>7, Zenon DEF f, s, t

\* A new entry in a directory of a tree leaves a tree.
LEMMA Grown ==
  ASSUME F!CommandsAssumption, TreeInv, NEW p \in F!TreePaths, F!Creatable(p),
         F!Entries' = F!Entries \cup {p}, dirs \subseteq dirs'
  PROVE  Closed'
<1>1. SUFFICES ASSUME NEW k \in 0..(Len(p) - 1)
               PROVE  SubSeq(p, 1, k) \in dirs
  BY DEF Closed, TreeInv
<1>. DEFINE f == F!Front(p)
<1>2. /\ SubSeq(p, 1, k) = SubSeq(f, 1, k) /\ k \in 0..Len(f)
      /\ SubSeq(f, 1, Len(f)) = f
  BY FrontAbove
<1>3. f \in dirs /\ Len(f) \in Nat
  BY TreePath DEF F!Creatable, TreeInv
<1>. HIDE DEF f
<1>4. SubSeq(f, 1, k) \in dirs
  <2>1. CASE k = Len(f)
    BY <1>2, <1>3, <2>1, Zenon
  <2>2. CASE k # Len(f)
    <3>1. k \in 0..(Len(f) - 1)
      <4>1. k \in 0..Len(f)
        BY <1>2, Zenon
      <4>. QED BY <1>3, <2>2, <4>1
    <3>. QED BY <1>3, <3>1 DEF TreeInv, Closed, F!Entries
  <2>. QED BY <2>1, <2>2
<1>. QED BY <1>2, <1>4, Zenon

LEMMA FileCreated ==
  ASSUME F!CommandsAssumption, TreeInv, NEW p \in F!TreePaths, F!Creatable(p), F!Create(p), dirs' = dirs
  PROVE  /\ TreeInv' /\ p \in DOMAIN size' /\ size'[p] = 0
         /\ \A q \in F!TreePaths : q # p => Kept(q)
<1>1. /\ DOMAIN size' = DOMAIN size \cup {p} /\ size'[p] = 0
      /\ \A q \in DOMAIN size : q # p => size'[q] = size[q]
  BY DEF F!Create
<1>2. Closed'
  BY <1>1, Grown DEF F!Entries
<1>3. size' \in [DOMAIN size' -> Nat]
  BY <1>1 DEF F!Create, TreeInv
<1>. QED BY <1>1, <1>2, <1>3 DEF TreeInv, Kept

LEMMA DirectoryMade ==
  ASSUME F!CommandsAssumption, TreeInv, NEW p \in F!TreePaths, F!Creatable(p),
         dirs' = dirs \cup {p}, size' = size
  PROVE  TreeInv' /\ \A q \in F!TreePaths : q # p => Kept(q)
<1>1. Closed'
  BY Grown DEF F!Entries
<1>. QED BY <1>1 DEF TreeInv, Kept

\* A file is written.
LEMMA Written ==
  ASSUME TreeInv, NEW p \in DOMAIN size, NEW n \in Nat,
         size' = [size EXCEPT ![p] = n], dirs' = dirs
  PROVE  /\ TreeInv' /\ DOMAIN size' = DOMAIN size /\ size'[p] = n
         /\ \A q \in F!TreePaths : q # p => Kept(q)
<1>1. /\ DOMAIN size' = DOMAIN size /\ size'[p] = n /\ size' \in [DOMAIN size' -> Nat]
      /\ \A q \in DOMAIN size : q # p => size'[q] = size[q]
  BY DEF TreeInv
<1>2. F!Entries' = F!Entries
  BY <1>1 DEF F!Entries
<1>. QED BY <1>1, <1>2 DEF TreeInv, Closed, Kept
-----------------------------------------------------------------------------
(* The commands.                                                           *)

Given == cmd \in F!Commands /\ arg \in F!TreePaths /\ dst \in F!TreePaths

\* Which command has which steps.
Steps ==
  /\ step \in {"seek", "line"} => cmd = "r"
  /\ step \in {"stat", "create", "read", "write"} => cmd = "cp"
  /\ step = "found" => cmd = "cd"
  /\ step \in {"head", "empty"} => cmd = "rm -r"
  /\ step = "next" => cmd \in {"rm -r", "ls"}
  /\ step = "mount" => cmd = "ls -mp"
  /\ step \in {"entered", "seek", "line", "stat", "create", "read", "write", "found", "head",
               "empty", "next", "mount", "returned"}

\* What is open at each step.
Opened ==
  open = CASE step \in {"seek", "line", "stat", "create"} -> {"in"}
           [] step \in {"read", "write"} -> {"in", "out"}
           [] step \in {"found", "next"} -> {"dir"}
           [] step = "mount" -> {"mount"}
           [] step = "returned" -> IF cmd = "ls -mp" /\ ret = "error" THEN {"mount"} ELSE {}
           [] OTHER -> {}

\* rm -r is in a directory under its argument, or back above it with nothing left.
Gone == F!Under(arg) \cap F!Entries = {} /\ arg # <<>>
Walking ==
  cmd = "rm -r" =>
    /\ step = "entered" => at = arg /\ seg = <<>>
    /\ step \in {"next", "empty"} => at \in F!Under(arg)
    /\ step = "head" => at \in F!Under(arg) \/ (Len(at) < Len(arg) /\ Gone)
    /\ step # "returned" => seg = <<>> \/ \E n \in Names : seg = <<n>>
    /\ step = "next" => unread \subseteq Names

\* cp: what has been written, read and not written, and not been read, is the source.
Copying ==
  /\ short \in BOOLEAN /\ lost \in BOOLEAN
  /\ step \in {"stat", "create", "read", "write"} => arg \in DOMAIN size
  /\ step \in {"read", "write"} => dst \in DOMAIN size /\ dst # arg /\ left \in Nat
  /\ step = "read" => short \/ size[dst] + left = size[arg]
  /\ step = "write" => /\ piece \in Nat /\ (piece = 0 => left = 0)
                       /\ short \/ size[dst] + piece + left = size[arg]

CommandInv == Given /\ TreeInv /\ Steps /\ Opened /\ Walking /\ Copying
              /\ F!Removed /\ F!OnlyNamed /\ F!CopiedWhole

LEMMA CommandInit ==
  ASSUME F!CommandsAssumption, F!Init
  PROVE  CommandInv
<1>1. Given
  <2>1. <<>> \in F!TreePaths
    <3>1. Depth \in Nat
      BY DEF F!CommandsAssumption
    <3>2. <<>> \in Seq(Names) /\ Len(<<>>) <= Depth
      BY <3>1
    <3>. QED BY <3>2, TreePath
  <2>. QED BY <2>1 DEF F!Init, Given
<1>2. Steps /\ Opened
  BY DEF F!Init, Steps, Opened
<1>3. Walking
  BY DEF F!Init, Walking
<1>4. TreeInv
  <2>1. PICK Z \in SUBSET {p \in F!TreePaths \ dirs : F!Front(p) \in dirs} :
          \E s \in IF cmd \in {"r", "cp"} THEN 0..MaxSize ELSE {0} :
            size = [p \in Z |-> IF p = arg THEN s ELSE 0]
    BY DEF F!Init
  <2>2. PICK s \in IF cmd \in {"r", "cp"} THEN 0..MaxSize ELSE {0} :
          size = [p \in Z |-> IF p = arg THEN s ELSE 0]
    BY <2>1
  <2>3. s \in Nat
    BY DEF F!CommandsAssumption
  <2>4. DOMAIN size = Z /\ size \in [DOMAIN size -> Nat]
    BY <2>2, <2>3
  <2>5. dirs \in SUBSET F!TreePaths /\ \A p \in dirs : F!Prefixes(p) \subseteq dirs
    BY DEF F!Init, F!Trees
  <2>6. ASSUME NEW p \in dirs, NEW k \in 0..Len(p)
        PROVE  SubSeq(p, 1, k) \in dirs
    BY <2>5 DEF F!Prefixes
  <2>7. ASSUME NEW q \in dirs, NEW k \in 0..(Len(q) - 1)
        PROVE  SubSeq(q, 1, k) \in dirs
    <3>1. Len(q) \in Nat
      BY <2>5, TreePath
    <3>2. k \in 0..Len(q)
      BY <2>7, <3>1
    <3>. QED BY <2>6, <3>2
  <2>8. ASSUME NEW q \in Z, NEW k \in 0..(Len(q) - 1)
        PROVE  SubSeq(q, 1, k) \in dirs
    <3>1. q \in F!TreePaths /\ F!Front(q) \in dirs
      OBVIOUS
    <3>2. SubSeq(q, 1, k) = SubSeq(F!Front(q), 1, k) /\ k \in 0..Len(F!Front(q))
      BY <3>1, FrontAbove
    <3>3. SubSeq(F!Front(q), 1, k) \in dirs
      BY <2>6, <3>1, <3>2, Zenon
    <3>. QED BY <3>2, <3>3, Zenon
  <2>9. Closed
    BY <2>4, <2>7, <2>8 DEF Closed, F!Entries
  <2>. QED BY <2>4, <2>5, <2>9 DEF TreeInv
<1>5. Copying /\ F!Removed /\ F!CopiedWhole
  BY DEF F!Init, Copying, F!Removed, F!CopiedWhole, F!Done
<1>6. F!OnlyNamed
  BY DEF F!Init, F!OnlyNamed, F!tree
<1>. QED BY <1>1, <1>2, <1>3, <1>4, <1>5, <1>6 DEF CommandInv

\* A step that leaves the tree alone, and one that changes what is named.
LEMMA TreeLeft ==
  ASSUME Given, TreeInv, F!OnlyNamed, UNCHANGED F!args, UNCHANGED F!tree
  PROVE  Given' /\ TreeInv' /\ F!OnlyNamed'
BY DEF Given, TreeInv, Closed, F!Entries, F!OnlyNamed, F!Named, F!args, F!tree

LEMMA NamedChanged ==
  ASSUME F!OnlyNamed, UNCHANGED F!args, \A q \in F!TreePaths \ F!Named : Kept(q)
  PROVE  F!OnlyNamed'
<1>1. F!Named' = F!Named /\ before' = before
  BY DEF F!Named, F!args, F!Under
<1>. QED BY <1>1 DEF F!OnlyNamed, Kept

LEMMA Reads ==
  ASSUME F!CommandsAssumption, CommandInv, F!ROpen \/ F!RSeek \/ F!RLine
  PROVE  CommandInv'
<1>a. Given /\ TreeInv /\ Steps /\ Opened /\ Walking /\ Copying /\ F!Removed /\ F!OnlyNamed /\ F!CopiedWhole
  BY DEF CommandInv
<1>b. UNCHANGED F!args /\ UNCHANGED F!tree /\ UNCHANGED <<F!walk, short, lost>> /\ cmd = "r"
  BY <1>a DEF F!ROpen, F!RSeek, F!RLine, F!copy, Steps
<1>1. Given' /\ TreeInv' /\ F!OnlyNamed'
  BY <1>a, <1>b, TreeLeft
<1>2. Steps' /\ Opened'
  BY <1>a, <1>b DEF F!ROpen, F!RSeek, F!RLine, F!Goto, F!Return, Steps, Opened, F!args
<1>3. Walking' /\ F!Removed' /\ F!CopiedWhole'
  BY <1>b DEF Walking, F!Removed, F!CopiedWhole, F!args
<1>4. Copying'
  BY <1>a, <1>b, <1>2 DEF Copying, Steps, F!args
<1>. QED BY <1>1, <1>2, <1>3, <1>4 DEF CommandInv

LEMMA NamesOnly ==
  ASSUME F!CommandsAssumption, CommandInv, F!Rm \/ F!Mkdir \/ F!Cd \/ F!chdir
  PROVE  CommandInv'
<1>a. Given /\ TreeInv /\ Steps /\ Opened /\ Walking /\ Copying /\ F!Removed /\ F!OnlyNamed /\ F!CopiedWhole
  BY DEF CommandInv
<1>b. UNCHANGED F!args /\ UNCHANGED <<F!walk, F!copy>> /\ cmd \in {"rm", "mkdir", "cd"}
  BY <1>a DEF F!Rm, F!Mkdir, F!Cd, F!chdir, Steps
<1>1. TreeInv' /\ F!OnlyNamed'
  <2>1. CASE F!Rm
    <3>1. F!Named = {arg} /\ arg \in F!TreePaths
      BY <1>a, <2>1 DEF F!Rm, F!Named, Given
    <3>2. PICK r \in F!Results : F!f_unlink(arg, r)
      BY <2>1 DEF F!Rm
    <3>. QED BY <1>a, <1>b, <3>1, <3>2, Unlinked, NamedChanged
  <2>2. CASE F!Mkdir
    <3>1. F!Named = {arg} /\ arg \in F!TreePaths
      BY <1>a, <2>2 DEF F!Mkdir, F!Named, Given
    <3>2. CASE UNCHANGED F!tree
      BY <1>a, <1>b, <3>2, TreeLeft
    <3>3. CASE F!Creatable(arg) /\ dirs' = dirs \cup {arg} /\ size' = size
      BY <1>a, <1>b, <3>1, <3>3, DirectoryMade, NamedChanged
    <3>. QED BY <2>2, <3>2, <3>3 DEF F!Mkdir, F!tree
  <2>3. CASE F!Cd \/ F!chdir
    <3>1. UNCHANGED F!tree
      BY <2>3 DEF F!Cd, F!chdir
    <3>. QED BY <1>a, <1>b, <3>1, TreeLeft
  <2>. QED BY <2>1, <2>2, <2>3
<1>2. Steps' /\ Opened'
  BY <1>a, <1>b DEF F!Rm, F!Mkdir, F!Cd, F!chdir, F!Goto, F!Return, Steps, Opened, F!args, F!Results
<1>3. Walking' /\ F!Removed' /\ F!CopiedWhole' /\ Given'
  BY <1>a, <1>b DEF Walking, F!Removed, F!CopiedWhole, Given, F!args
<1>4. Copying'
  BY <1>a, <1>b, <1>2 DEF Copying, Steps, F!args, F!copy
<1>. QED BY <1>1, <1>2, <1>3, <1>4 DEF CommandInv

LEMMA Lists ==
  ASSUME F!CommandsAssumption, CommandInv, F!LsOpen \/ F!LsEntry \/ F!LsClose \/ F!list_mountpoints
  PROVE  CommandInv'
<1>a. Given /\ TreeInv /\ Steps /\ Opened /\ Walking /\ Copying /\ F!Removed /\ F!OnlyNamed /\ F!CopiedWhole
  BY DEF CommandInv
<1>b. UNCHANGED F!args /\ UNCHANGED F!tree /\ UNCHANGED <<short, lost>> /\ cmd \in {"ls", "ls -mp"}
  BY DEF F!LsOpen, F!LsEntry, F!LsClose, F!list_mountpoints, F!copy
<1>1. Given' /\ TreeInv' /\ F!OnlyNamed'
  BY <1>a, <1>b, TreeLeft
<1>2. Steps' /\ Opened'
  BY <1>a, <1>b DEF F!LsOpen, F!LsEntry, F!LsClose, F!list_mountpoints, F!Goto, F!Return, Steps, Opened, F!args
<1>3. Walking' /\ F!Removed' /\ F!CopiedWhole'
  BY <1>b DEF Walking, F!Removed, F!CopiedWhole, F!args
<1>4. Copying'
  BY <1>a, <1>b, <1>2 DEF Copying, Steps, F!args
<1>. QED BY <1>1, <1>2, <1>3, <1>4 DEF CommandInv

LEMMA Copies ==
  ASSUME F!CommandsAssumption, CommandInv, F!CpOpen \/ F!CpStat \/ F!CpCreate \/ F!CpRead \/ F!CpWrite
  PROVE  CommandInv'
<1>a. Given /\ TreeInv /\ Steps /\ Opened /\ Walking /\ Copying /\ F!Removed /\ F!OnlyNamed /\ F!CopiedWhole
  BY DEF CommandInv
<1>b. UNCHANGED F!args /\ dirs' = dirs /\ cmd = "cp"
  BY <1>a DEF F!CpOpen, F!CpStat, F!CpCreate, F!CpRead, F!CpWrite, Steps, F!tree
<1>1. Given' /\ Walking' /\ F!Removed'
  BY <1>a, <1>b DEF Given, Walking, F!Removed, F!args
<1>2. Steps' /\ Opened'
  BY <1>a, <1>b DEF F!CpOpen, F!CpStat, F!CpCreate, F!CpRead, F!CpWrite, F!CloseBoth, F!Goto, F!Return,
                    Steps, Opened, F!args
<1>3. F!Named = {dst} /\ dst \in F!TreePaths
  BY <1>a, <1>b DEF F!Named, Given
<1>4. CASE F!CpOpen \/ F!CpStat
  <2>1. UNCHANGED F!tree /\ UNCHANGED F!copy
    BY <1>4 DEF F!CpOpen, F!CpStat
  <2>2. TreeInv' /\ F!OnlyNamed'
    BY <1>a, <1>b, <2>1, TreeLeft
  <2>3. Copying' /\ F!CopiedWhole'
    BY <1>a, <1>b, <1>4, <2>1 DEF F!CpOpen, F!CpStat, F!Goto, F!Return, Copying, F!CopiedWhole, F!Done,
                                  F!args, F!tree, F!copy
  <2>. QED BY <1>1, <1>2, <2>2, <2>3 DEF CommandInv
<1>5. CASE F!CpCreate
  <2>0. UNCHANGED <<short, lost>>
    BY <1>5 DEF F!CpCreate
  <2>1. CASE UNCHANGED size /\ F!Return("error")
    <3>1. UNCHANGED F!tree /\ ret' = "error" /\ step' = "returned" /\ UNCHANGED <<short, lost>>
      BY <1>b, <2>0, <2>1 DEF F!Return, F!tree
    <3>2. TreeInv' /\ F!OnlyNamed'
      BY <1>a, <1>b, <3>1, TreeLeft
    <3>3. Copying' /\ F!CopiedWhole'
      BY <1>a, <3>1 DEF Copying, F!CopiedWhole, F!Done
    <3>. QED BY <1>1, <1>2, <3>2, <3>3 DEF CommandInv
  <2>2. CASE /\ F!Creatable(dst) /\ dst # arg /\ F!Create(dst)
             /\ (F!Goto("read") /\ left' = size[arg]) \/ F!Return("error")
    <3>1. /\ TreeInv' /\ dst \in DOMAIN size' /\ size'[dst] = 0
          /\ \A q \in F!TreePaths : q # dst => Kept(q)
      BY <1>a, <1>b, <1>3, <2>2, FileCreated
    <3>2. F!OnlyNamed'
      BY <1>a, <1>b, <1>3, <3>1, NamedChanged
    <3>3. /\ arg \in DOMAIN size' /\ size'[arg] = size[arg] /\ size[arg] \in Nat
          /\ UNCHANGED <<short, lost, arg, dst>>
      BY <1>a, <1>5, <2>2, <3>1 DEF Copying, Given, Kept, TreeInv, F!CpCreate, F!args
    <3>4. (step' = "read" /\ left' = size[arg]) \/ (step' = "returned" /\ ret' = "error")
      BY <2>2 DEF F!Goto, F!Return
    <3>5. Copying' /\ F!CopiedWhole'
      BY <1>a, <2>2, <3>1, <3>3, <3>4 DEF Copying, F!CopiedWhole, F!Done
    <3>. QED BY <1>1, <1>2, <3>1, <3>2, <3>5 DEF CommandInv
  <2>. QED BY <1>5, <2>1, <2>2 DEF F!CpCreate
<1>6. ASSUME step \in {"read", "write"}, NEW r \in {"ok", "error"}, F!CloseBoth(r),
             r = "ok" => short' \/ size[dst] = size[arg], short' \in BOOLEAN
      PROVE  CommandInv'
  <2>1. /\ step' = "returned" /\ ret' = r /\ arg' = arg /\ dst' = dst
        /\ dst \in DOMAIN size /\ dst # arg /\ arg \in DOMAIN size
    BY <1>a, <1>b, <1>6 DEF F!CloseBoth, F!Return, Copying, F!args
  <2>2. CASE UNCHANGED <<size, lost>>
    <3>1. TreeInv' /\ F!OnlyNamed'
      BY <1>a, <1>b, <2>2, TreeLeft DEF F!tree
    <3>2. Copying' /\ F!CopiedWhole'
      BY <1>a, <1>6, <2>1, <2>2 DEF Copying, F!CopiedWhole, F!Done
    <3>. QED BY <1>1, <1>2, <3>1, <3>2 DEF CommandInv
  <2>3. CASE size' = [size EXCEPT ![dst] = 0] /\ lost' = TRUE
    <3>1. TreeInv' /\ \A q \in F!TreePaths : q # dst => Kept(q)
      BY <1>a, <1>b, <2>1, <2>3, Written
    <3>2. F!OnlyNamed'
      BY <1>a, <1>b, <1>3, <3>1, NamedChanged
    <3>3. Copying' /\ F!CopiedWhole'
      BY <1>6, <2>1, <2>3 DEF Copying, F!CopiedWhole, F!Done
    <3>. QED BY <1>1, <1>2, <3>1, <3>2, <3>3 DEF CommandInv
  <2>. QED BY <1>6, <2>2, <2>3 DEF F!CloseBoth
<1>7. CASE F!CpRead
  <2>1. CASE F!CloseBoth("error")
    <3>1. short' \in BOOLEAN /\ step = "read"
      BY <1>a, <1>7 DEF F!CpRead, Copying
    <3>. QED BY <1>6, <2>1, <3>1
  <2>2. CASE /\ piece' = IF left = 0 THEN 0 ELSE 1
             /\ left' = left - piece' /\ F!Goto("write") /\ UNCHANGED <<open, size, lost>>
    <3>1. TreeInv' /\ F!OnlyNamed'
      BY <1>a, <1>b, <2>2, TreeLeft DEF F!tree
    <3>2. /\ step = "read" /\ step' = "write" /\ UNCHANGED <<size, short, lost, arg, dst>>
          /\ left \in Nat /\ size[dst] \in Nat /\ size[arg] \in Nat
      BY <1>a, <1>b, <1>7, <2>2 DEF F!CpRead, F!Goto, Copying, TreeInv, F!args
    <3>3. left' \in Nat /\ piece' \in Nat /\ (piece' = 0 => left' = 0) /\ piece' + left' = left
      BY <2>2, <3>2
    <3>4. short \/ size[dst] + piece' + left' = size[arg]
      <4>1. size[dst] + left = size[arg] => size[dst] + piece' + left' = size[arg]
        <5>1. \A x, y, z \in Nat : x + y + z = x + (y + z)
          OBVIOUS
        <5>2. size[dst] + piece' + left' = size[dst] + (piece' + left')
          BY <3>2, <3>3, <5>1
        <5>. QED BY <3>3, <5>2
      <4>2. short \/ size[dst] + left = size[arg]
        BY <1>a, <3>2 DEF Copying
      <4>. QED BY <4>1, <4>2, Zenon
    <3>5. short \in BOOLEAN /\ lost \in BOOLEAN /\ dst \in DOMAIN size /\ dst # arg
          /\ arg \in DOMAIN size
      BY <1>a, <3>2 DEF Copying
    <3>6. Copying' /\ F!CopiedWhole'
      BY <3>2, <3>3, <3>4, <3>5 DEF Copying, F!CopiedWhole, F!Done
    <3>. QED BY <1>1, <1>2, <3>1, <3>6 DEF CommandInv
  <2>. QED BY <1>7, <2>1, <2>2 DEF F!CpRead
<1>8. CASE F!CpWrite
  <2>0. step = "write" /\ left \in Nat /\ piece \in Nat /\ short \in BOOLEAN
    BY <1>a, <1>8 DEF F!CpWrite, Copying
  <2>1. CASE F!CloseBoth("error") /\ UNCHANGED short
    BY <1>6, <2>0, <2>1
  <2>2. ASSUME NEW n \in 0..piece, short' = (short \/ n < piece), piece = 0, F!CloseBoth("ok")
        PROVE  CommandInv'
    <3>1. short' = short
      BY <2>0, <2>2
    <3>2. short \/ size[dst] + 0 + 0 = size[arg]
      BY <1>a, <2>0, <2>2 DEF Copying
    <3>3. size[dst] \in Nat
      BY <1>a, <2>0 DEF Copying, TreeInv
    <3>. QED BY <1>6, <2>0, <2>2, <3>1, <3>2, <3>3
  <2>3. ASSUME NEW n \in 0..piece, short' = (short \/ n < piece), piece > 0,
               size' = [size EXCEPT ![dst] = @ + n], F!Goto("read"), UNCHANGED lost
        PROVE  CommandInv'
    <3>1. /\ dst \in DOMAIN size /\ dst # arg /\ arg \in DOMAIN size
          /\ size[dst] \in Nat /\ size[arg] \in Nat
      BY <1>a, <2>0 DEF Copying, TreeInv
    <3>2. size' = [size EXCEPT ![dst] = size[dst] + n] /\ size[dst] + n \in Nat
      BY <2>0, <2>3, <3>1
    <3>3. /\ TreeInv' /\ DOMAIN size' = DOMAIN size /\ size'[dst] = size[dst] + n
          /\ \A q \in F!TreePaths : q # dst => Kept(q)
      BY <1>a, <1>b, <3>1, <3>2, Written
    <3>4. F!OnlyNamed'
      BY <1>a, <1>b, <1>3, <3>3, NamedChanged
    <3>5. /\ step' = "read" /\ UNCHANGED <<left, arg, dst, lost>> /\ size'[arg] = size[arg]
          /\ left \in Nat /\ short' \in BOOLEAN
      BY <1>a, <1>b, <1>8, <2>0, <2>3, <3>1, <3>3 DEF F!CpWrite, F!Goto, F!args, Given, Kept
    <3>6. short' \/ size'[dst] + left = size[arg]
      <4>1. short \/ size[dst] + piece + left = size[arg]
        BY <1>a, <2>0 DEF Copying
      <4>2. short' \/ n = piece
        <5>1. CASE n < piece
          BY <2>3, <5>1, Zenon
        <5>2. CASE ~(n < piece)
          BY <2>0, <2>3, <5>2
        <5>. QED BY <5>1, <5>2
      <4>3. short => short'
        BY <2>3
      <4>. QED BY <3>3, <4>1, <4>2, <4>3
    <3>7. Copying' /\ F!CopiedWhole'
      BY <1>a, <3>1, <3>3, <3>5, <3>6 DEF Copying, F!CopiedWhole, F!Done
    <3>. QED BY <1>1, <1>2, <3>3, <3>4, <3>7 DEF CommandInv
  <2>4. piece = 0 \/ piece > 0
    BY <2>0
  <2>. QED BY <1>8, <2>1, <2>2, <2>3, <2>4 DEF F!CpWrite
<1>. QED BY <1>4, <1>5, <1>7, <1>8

\* A step of rm -r that changes nothing but what lies under its argument.
LEMMA UnderChanged ==
  ASSUME F!CommandsAssumption, CommandInv, UNCHANGED F!args, cmd = "rm -r",
         NEW p \in F!Under(arg), NEW r, F!f_unlink(p, r)
  PROVE  /\ TreeInv' /\ F!OnlyNamed'
         /\ r = "ok" => p # <<>> /\ F!Under(p) \cap F!Entries' = {}
<1>1. /\ TreeInv' /\ \A q \in F!TreePaths : q # p => Kept(q)
      /\ r = "ok" => p # <<>> /\ F!Under(p) \cap F!Entries' = {}
  <2>1. p \in F!TreePaths
    BY DEF F!Under
  <2>. QED BY <2>1, Unlinked DEF CommandInv
<1>2. F!Named = F!Under(arg)
  BY DEF F!Named
<1>3. F!OnlyNamed'
  BY <1>1, <1>2, NamedChanged DEF CommandInv
<1>. QED BY <1>1, <1>3

LEMMA Removes ==
  ASSUME F!CommandsAssumption, CommandInv,
         F!IsDir \/ F!OpenNext \/ F!Entry \/ F!LastEntry \/ F!Rmdir
  PROVE  CommandInv'
<1>a. Given /\ TreeInv /\ Steps /\ Opened /\ Walking /\ Copying /\ F!Removed /\ F!OnlyNamed /\ F!CopiedWhole
  BY DEF CommandInv
<1>b. UNCHANGED F!args /\ UNCHANGED F!copy /\ cmd = "rm -r" /\ arg \in F!TreePaths
  BY <1>a DEF F!IsDir, F!OpenNext, F!Entry, F!LastEntry, F!Rmdir, Steps, Given
<1>1. Given' /\ F!CopiedWhole'
  BY <1>a, <1>b DEF Given, F!CopiedWhole, F!args
<1>2. Steps' /\ Opened'
  BY <1>a, <1>b DEF F!IsDir, F!OpenNext, F!Entry, F!LastEntry, F!Rmdir, F!Goto, F!Return, Steps, Opened, F!args,
                    F!Results
<1>3. Copying'
  BY <1>a, <1>b, <1>2 DEF Copying, Steps, F!args, F!copy
<1>4. CASE F!IsDir
  <2>0. step = "entered" /\ at = arg /\ seg = <<>> /\ UNCHANGED F!walk /\ arg' = arg
    BY <1>a, <1>b, <1>4 DEF F!IsDir, Walking, F!args
  <2>1. CASE UNCHANGED F!tree /\ (F!Goto("head") \/ F!Return("error"))
    <3>1. TreeInv' /\ F!OnlyNamed'
      BY <1>a, <1>b, <2>1, TreeLeft
    <3>2. at' \in F!Under(arg)' /\ seg' = <<>>
      BY <1>b, <2>0, UnderItself DEF F!walk, F!Under
    <3>3. Walking' /\ F!Removed'
      BY <2>0, <2>1, <3>2 DEF Walking, F!Removed, F!Done, F!Goto, F!Return
    <3>. QED BY <1>1, <1>2, <1>3, <3>1, <3>3 DEF CommandInv
  <2>2. ASSUME NEW r \in F!Results, F!f_unlink(arg, r), F!Return(r)
        PROVE  CommandInv'
    <3>1. /\ TreeInv' /\ F!OnlyNamed'
          /\ r = "ok" => arg # <<>> /\ F!Under(arg) \cap F!Entries' = {}
      BY <1>b, <2>2, UnderItself, UnderChanged
    <3>2. Walking' /\ F!Removed'
      BY <2>0, <2>2, <3>1 DEF Walking, F!Removed, F!Done, F!Return, F!Under
    <3>. QED BY <1>1, <1>2, <1>3, <3>1, <3>2 DEF CommandInv
  <2>. QED BY <1>4, <2>1, <2>2 DEF F!IsDir
<1>5. CASE F!OpenNext
  <2>0. UNCHANGED F!tree /\ step = "head" /\ arg' = arg
    BY <1>b, <1>5 DEF F!OpenNext, F!args
  <2>1. TreeInv' /\ F!OnlyNamed'
    BY <1>a, <1>b, <2>0, TreeLeft
  <2>2. CASE Len(at) < Len(arg) /\ F!Return("ok")
    <3>1. at \notin F!Under(arg)
      <4>1. ASSUME at \in F!Under(arg)
            PROVE  at \in F!TreePaths /\ Len(arg) <= Len(at)
        BY <4>1, <1>b, UnderIs DEF F!Under
      <4>2. Len(arg) \in Nat /\ (at \in F!TreePaths => Len(at) \in Nat)
        <5>1. arg \in Seq(Names) /\ (at \in F!TreePaths => at \in Seq(Names))
          BY <1>b, TreePath
        <5>. QED BY <5>1
      <4>. QED BY <2>2, <4>1, <4>2
    <3>2. Gone
      BY <1>a, <1>b, <2>0, <3>1 DEF Walking
    <3>3. Walking' /\ F!Removed'
      BY <2>0, <2>2, <3>2 DEF Walking, F!Removed, Gone, F!Done, F!Return, F!Under, F!Entries, F!tree
    <3>. QED BY <1>1, <1>2, <1>3, <2>1, <3>3 DEF CommandInv
  <2>3. CASE F!Return("error")
    <3>1. Walking' /\ F!Removed'
      BY <2>3 DEF Walking, F!Removed, F!Done, F!Return
    <3>. QED BY <1>1, <1>2, <1>3, <2>1, <3>1 DEF CommandInv
  <2>4. CASE /\ Len(at) >= Len(arg) /\ at' = at \o seg /\ seg' = <<>>
             /\ at' \in dirs /\ unread' = F!Children(at') /\ F!Goto("next")
    <3>1. at \in F!Under(arg)
      <4>1. arg \in Seq(Names)
        BY <1>b, TreePath
      <4>2. ASSUME Len(at) < Len(arg) PROVE FALSE
        <5>1. Len(arg) \in Int /\ Len(at) \in Int
          BY <4>1
        <5>. QED BY <2>4, <4>2, <5>1
      <4>. QED BY <1>a, <1>b, <2>0, <4>2 DEF Walking
    <3>2. at \in Seq(Names)
      BY <3>1, TreePath DEF F!Under
    <3>3. at \o <<>> = at
      BY <3>2, ConcatEmptySeq
    <3>4. ASSUME NEW n \in Names, seg = <<n>>
          PROVE  at' \in F!Under(arg)
      <4>1. at' = Append(at, n)
        BY <2>4, <3>2, <3>4, AppendIsConcat
      <4>2. at' \in F!TreePaths
        BY <1>a, <2>4 DEF TreeInv
      <4>. QED BY <1>b, <3>1, <4>1, <4>2, UnderAppend
    <3>5. at' \in F!Under(arg)
      <4>1. CASE seg = <<>>
        BY <2>4, <3>1, <3>3, <4>1, Zenon
      <4>2. seg = <<>> \/ \E n \in Names : seg = <<n>>
        BY <1>a, <1>b, <2>0 DEF Walking
      <4>. QED BY <3>4, <4>1, <4>2
    <3>6. unread' \subseteq Names
      BY <2>4 DEF F!Children
    <3>7. Walking' /\ F!Removed'
      BY <2>0, <2>4, <3>5, <3>6 DEF Walking, F!Removed, F!Done, F!Goto, F!Under
    <3>. QED BY <1>1, <1>2, <1>3, <2>1, <3>7 DEF CommandInv
  <2>. QED BY <1>5, <2>2, <2>3, <2>4 DEF F!OpenNext
<1>6. CASE F!Entry
  <2>0. /\ step = "next" /\ at \in F!Under(arg) /\ at' = at /\ arg' = arg
        /\ unread \subseteq Names /\ (seg = <<>> \/ \E n \in Names : seg = <<n>>)
    BY <1>a, <1>b, <1>6 DEF F!Entry, Walking, F!args
  <2>1. PICK n \in unread :
          LET p == Append(at, n)
          IN \/ /\ p \in dirs /\ seg' = (IF seg = <<>> THEN <<n>> ELSE seg)
                /\ unread' = unread \ {n} /\ F!Goto("next") /\ UNCHANGED <<F!tree, open>>
             \/ /\ p \in DOMAIN size /\ F!f_unlink(p, "ok")
                /\ unread' = unread \ {n} /\ F!Goto("next") /\ UNCHANGED <<seg, open>>
             \/ open' = {} /\ F!Return("error") /\ UNCHANGED <<F!tree, seg, unread>>
    BY <1>6 DEF F!Entry
  <2>2. TreeInv' /\ F!OnlyNamed'
    <3>1. CASE UNCHANGED F!tree
      BY <1>a, <1>b, <3>1, TreeLeft
    <3>2. CASE Append(at, n) \in DOMAIN size /\ F!f_unlink(Append(at, n), "ok")
      <4>1. Append(at, n) \in F!TreePaths
        BY <1>a, <3>2 DEF TreeInv
      <4>2. Append(at, n) \in F!Under(arg)
        BY <1>b, <2>0, <4>1, UnderAppend
      <4>. QED BY <1>b, <3>2, <4>2, UnderChanged
    <3>. QED BY <2>1, <3>1, <3>2
  <2>3. step' = "next" \/ (step' = "returned" /\ ret' = "error")
    BY <2>1, Zenon DEF F!Goto, F!Return
  <2>4. unread' \subseteq Names /\ (seg' = <<>> \/ \E m \in Names : seg' = <<m>>)
    BY <2>0, <2>1
  <2>5. Walking' /\ F!Removed'
    BY <2>0, <2>3, <2>4 DEF Walking, F!Removed, F!Done, F!Under
  <2>. QED BY <1>1, <1>2, <1>3, <2>2, <2>5 DEF CommandInv
<1>7. CASE F!LastEntry
  <2>1. TreeInv' /\ F!OnlyNamed'
    BY <1>a, <1>b, <1>7, TreeLeft DEF F!LastEntry
  <2>2. Walking' /\ F!Removed'
    <3>1. /\ step = "next" /\ at' = at /\ seg' = seg /\ arg' = arg
          /\ step' = IF seg = <<>> THEN "empty" ELSE "head"
      BY <1>b, <1>7 DEF F!LastEntry, F!Goto, F!args, F!walk
    <3>2. at \in F!Under(arg) /\ (seg = <<>> \/ \E n \in Names : seg = <<n>>)
      BY <1>a, <1>b, <3>1 DEF Walking
    <3>. QED BY <3>1, <3>2 DEF Walking, F!Removed, F!Done, F!Under
  <2>. QED BY <1>1, <1>2, <1>3, <2>1, <2>2 DEF CommandInv
<1>8. CASE F!Rmdir
  <2>0. /\ step = "empty" /\ at \in F!Under(arg) /\ arg' = arg /\ seg' = seg
        /\ seg = <<>> \/ \E n \in Names : seg = <<n>>
    BY <1>a, <1>b, <1>8 DEF F!Rmdir, Steps, Walking, F!args
  <2>1. PICK r \in F!Results :
          F!f_unlink(at, r) /\ IF r = "ok" THEN at' = F!Front(at) /\ F!Goto("head")
                             ELSE at' = at /\ F!Return("error")
    BY <1>8 DEF F!Rmdir
  <2>2. /\ TreeInv' /\ F!OnlyNamed'
        /\ r = "ok" => at # <<>> /\ F!Under(at) \cap F!Entries' = {}
    BY <1>b, <2>0, <2>1, UnderChanged
  <2>3. CASE r = "ok"
    <3>1. IF at = arg THEN Len(at') < Len(arg) ELSE at' \in F!Under(arg)
      BY <1>b, <2>0, <2>1, <2>2, <2>3, UnderFront
    <3>2. at' \in F!Under(arg) \/ (Len(at') < Len(arg) /\ Gone')
      <4>1. CASE at = arg
        BY <2>0, <2>2, <2>3, <3>1, <4>1 DEF Gone, F!Under
      <4>2. CASE at # arg
        BY <3>1, <4>2
      <4>. QED BY <4>1, <4>2
    <3>3. Walking' /\ F!Removed'
      BY <2>0, <2>1, <2>3, <3>2 DEF Walking, F!Removed, F!Done, F!Goto, F!Under
    <3>. QED BY <1>1, <1>2, <1>3, <2>2, <3>3 DEF CommandInv
  <2>4. CASE r # "ok"
    <3>1. Walking' /\ F!Removed'
      BY <2>1, <2>4 DEF Walking, F!Removed, F!Done, F!Return
    <3>. QED BY <1>1, <1>2, <1>3, <2>2, <3>1 DEF CommandInv
  <2>. QED BY <2>3, <2>4
<1>. QED BY <1>4, <1>5, <1>6, <1>7, <1>8

LEMMA CommandStep ==
  ASSUME F!CommandsAssumption, CommandInv, [F!Next]_commandVars
  PROVE  CommandInv'
<1>1. CASE F!Next
  BY <1>1, Reads, Copies, NamesOnly, Removes, Lists DEF F!Next
<1>2. CASE UNCHANGED commandVars
  <2>0. UNCHANGED <<cmd, arg, dst, slash, before, dirs, size, open, step, ret,
                    at, seg, unread, left, piece, short, lost>>
    BY <1>2 DEF commandVars
  <2>1. Given' /\ TreeInv' /\ F!OnlyNamed'
    BY <2>0, TreeLeft DEF CommandInv, F!args, F!tree
  <2>2. UNCHANGED <<F!args, F!tree, F!walk, F!copy, open, step, ret>> /\ UNCHANGED <<F!Under(arg), F!Entries>>
    BY <2>0 DEF F!args, F!tree, F!walk, F!copy, F!Under, F!Entries
  <2>. QED BY ZenonT(60), <2>1, <2>2 DEF CommandInv, Steps, Opened, Walking, Gone, Copying, F!Removed,
                             F!CopiedWhole, F!Done, F!args, F!tree, F!walk, F!copy
<1>. QED BY <1>1, <1>2
-----------------------------------------------------------------------------
(* The clock.                                                              *)

Moments == [day : Nat, sec : Int]

Values ==
  /\ day \in Nat /\ sec \in Int /\ latch \in Nat \cup {R!NoDay}
  /\ tick \in Nat /\ _tick_count_previous \in Nat
  /\ got \in [R!Tasks -> Moments]
  /\ current \in [R!Tasks -> Nat] /\ ms \in [R!Tasks -> Int]

Places ==
  /\ rtcPc \in [R!Tasks -> {"idle", "gettime", "getdate", "ticks", "compare", "behind", "ahead",
                         "change", "reread", "setdate", "settime", "return"}]
  /\ op \in [R!Tasks -> {"none", "get", "date", "time"}]
  /\ rtcRet \in [R!Tasks -> {"none", "ok", "error"}]
  /\ late \in [R!Tasks -> BOOLEAN]
  /\ \A t \in R!Tasks : rtcPc[t] \in {"change", "reread", "setdate", "settime"} => op[t] # "get"
  /\ \A t \in R!Tasks : rtcRet[t] = "ok" => rtcPc[t] = "return" /\ op[t] # "get"

\* The mutex is held from one register to the other; the latch closes between them.
Holding ==
  /\ \A t \in R!Tasks : rtcPc[t] \in {"getdate", "setdate", "settime"} <=> _rtc_mutex = t
  /\ latch # R!NoDay <=> \E t \in R!Tasks : rtcPc[t] = "getdate"

\* The calendar is noted, unless it is being set; so is what a task has latched, and
\* has read.
Noted ==
  /\ (\A u \in R!Tasks : rtcPc[u] # "settime") =>
       \A t \in R!Tasks : rtcPc[t] # "idle" => R!Now \in instants[t]
  /\ \A t \in R!Tasks : rtcPc[t] = "getdate" => R!Moment(latch, got[t].sec) \in instants[t]

\* A setter between its writes has set the date, unless midnight passes.
Halfway == \A t \in R!Tasks : rtcPc[t] = "settime" /\ ~late[t] => day = got[t].day

RtcInv == Values /\ Places /\ Holding /\ Noted /\ Halfway /\ R!Instant /\ R!Set

\* What is noted once stays so until the call returns.
LEMMA NoteKeeps ==
  ASSUME R!Note, NEW t \in R!Tasks, rtcPc'[t] # "idle"
  PROVE  /\ instants[t] \subseteq instants'[t]
         /\ (\A u \in R!Tasks : rtcPc'[u] # "settime") => R!Now' \in instants'[t]
BY DEF R!Note, R!Now

LEMMA RtcInit ==
  ASSUME R!RtcAssumption, R!Init
  PROVE  RtcInv
<1>1. Values
  BY DEF R!RtcAssumption, R!Init, Values, Moments, R!Moment, R!Seconds, R!NoDay
<1>2. Places /\ Holding
  BY DEF R!RtcAssumption, R!Init, Places, Holding, R!NoDay
<1>3. Noted /\ Halfway /\ R!Instant /\ R!Set
  BY DEF R!Init, Noted, Halfway, R!Instant, R!Set
<1>. QED BY <1>1, <1>2, <1>3 DEF RtcInv

\* The hardware and the interrupt.
LEMMA RtcHardware ==
  ASSUME R!RtcAssumption, RtcInv, R!Second \/ R!Tick \/ R!rtc_wakeuptimer_event_callback
  PROVE  RtcInv'
<1>a. Values /\ Places /\ Holding /\ Noted /\ Halfway /\ R!Instant /\ R!Set
  BY DEF RtcInv
<1>1. CASE R!Second
  <2>1. UNCHANGED <<latch, tick, _tick_count_previous, _rtc_mutex, op, rtcPc, got, current, ms, rtcRet>>
    BY <1>1 DEF R!Second, R!clock, R!calls
  <2>2. /\ S \in Nat \ {0} /\ sec' = (sec + 1) % S
        /\ day' = IF sec = S - 1 THEN day + 1 ELSE day
        /\ late' = [t \in R!Tasks |-> late[t] \/ (sec = S - 1 /\ rtcPc[t] = "settime")]
        /\ R!Note
    BY <1>1 DEF R!Second, R!RtcAssumption
  <2>3. Values'
    BY <1>a, <2>1, <2>2 DEF Values
  <2>4. Places' /\ Holding'
    BY <1>a, <2>1, <2>2 DEF Places, Holding
  <2>5. Noted'
    BY <1>a, <2>1, <2>2, NoteKeeps DEF Noted, Places
  <2>6. Halfway' /\ R!Set'
    BY <1>a, <2>1, <2>2, NoteKeeps DEF Halfway, Places, R!Set
  <2>7. R!Instant'
    BY <1>a, <2>1, <2>2, NoteKeeps DEF R!Instant, Places
  <2>. QED BY <2>3, <2>4, <2>5, <2>6, <2>7 DEF RtcInv
<1>2. CASE R!Tick \/ R!rtc_wakeuptimer_event_callback
  <2>1. /\ UNCHANGED <<day, sec, latch, _rtc_mutex, op, rtcPc, got, current, ms, rtcRet, instants, late>>
        /\ tick' \in Nat /\ _tick_count_previous' \in Nat
    BY <1>a, <1>2 DEF R!Tick, R!rtc_wakeuptimer_event_callback, R!hw, R!calls, Values
  <2>. QED BY <1>a, <2>1 DEF RtcInv, Values, Places, Holding, Noted, Halfway, R!Instant, R!Set,
                             R!Now, R!Moment
<1>. QED BY <1>1, <1>2

\* A call begins, and returns.
LEMMA RtcCall ==
  ASSUME R!RtcAssumption, RtcInv, NEW t \in R!Tasks,
         (\E o \in {"get", "date", "time"} : R!Call(t, o)) \/ R!Return(t)
  PROVE  RtcInv'
<1>a. Values /\ Places /\ Holding /\ Noted /\ Halfway /\ R!Instant /\ R!Set
  BY DEF RtcInv
<1>1. ASSUME NEW o \in {"get", "date", "time"}, R!Call(t, o)
      PROVE  RtcInv'
  <2>1. /\ UNCHANGED <<day, sec, latch, tick, _tick_count_previous, _rtc_mutex, got, current, ms,
                       late>>
        /\ rtcPc[t] = "idle" /\ rtcPc' = [rtcPc EXCEPT ![t] = "gettime"]
        /\ op' = [op EXCEPT ![t] = o] /\ rtcRet' = [rtcRet EXCEPT ![t] = "none"] /\ R!Note
    BY <1>1 DEF R!Call, R!hw, R!clock, R!Goto
  <2>2. Values'
    BY <1>a, <2>1 DEF Values
  <2>3. Places' /\ Holding'
    BY <1>a, <2>1 DEF Places, Holding
  <2>4. Noted'
    BY <1>a, <2>1, NoteKeeps DEF Noted, Places
  <2>5. Halfway' /\ R!Set' /\ R!Instant'
    BY <1>a, <2>1, NoteKeeps DEF Halfway, Places, R!Set, R!Instant
  <2>. QED BY <2>2, <2>3, <2>4, <2>5 DEF RtcInv
<1>2. CASE R!Return(t)
  <2>1. /\ UNCHANGED <<day, sec, latch, tick, _tick_count_previous, _rtc_mutex>>
        /\ rtcPc[t] = "return" /\ rtcPc' = [rtcPc EXCEPT ![t] = "idle"]
        /\ instants' = [instants EXCEPT ![t] = {}]
        /\ got' = [got EXCEPT ![t] = R!Moment(0, 0)]
        /\ current' = [current EXCEPT ![t] = 0] /\ ms' = [ms EXCEPT ![t] = 0]
        /\ op' = [op EXCEPT ![t] = "none"] /\ rtcRet' = [rtcRet EXCEPT ![t] = "none"]
        /\ late' = [late EXCEPT ![t] = FALSE]
    BY <1>2 DEF R!Return, R!hw, R!clock, R!Goto
  <2>2. Values'
    BY <1>a, <2>1 DEF Values, Moments, R!Moment
  <2>3. Places'
    BY <1>a, <2>1 DEF Places
  <2>4. Holding'
    BY <1>a, <2>1 DEF Places, Holding
  <2>5. \A u \in R!Tasks : rtcPc'[u] # "idle" =>
          u # t /\ rtcPc'[u] = rtcPc[u] /\ got'[u] = got[u] /\ instants'[u] = instants[u]
    BY <1>a, <2>1 DEF Places
  <2>6. (\A u \in R!Tasks : rtcPc'[u] # "settime") => \A u \in R!Tasks : rtcPc[u] # "settime"
    BY <1>a, <2>1 DEF Places
  <2>7. Noted'
    BY <1>a, <2>1, <2>5, <2>6 DEF Noted, R!Now, R!Moment
  <2>8. Halfway' /\ R!Set' /\ R!Instant'
    BY <1>a, <2>1, <2>5 DEF Halfway, Places, R!Set, R!Instant
  <2>. QED BY <2>2, <2>3, <2>4, <2>7, <2>8 DEF RtcInv
<1>. QED BY <1>1, <1>2

\* The two reads under the mutex.
LEMMA RtcRead ==
  ASSUME R!RtcAssumption, RtcInv, NEW t \in R!Tasks, R!GetTime(t) \/ R!GetDate(t)
  PROVE  RtcInv'
<1>a. Values /\ Places /\ Holding /\ Noted /\ Halfway /\ R!Instant /\ R!Set
  BY DEF RtcInv
<1>b. Nobody \notin R!Tasks /\ R!NoDay \notin Nat
  BY DEF R!RtcAssumption, R!NoDay
<1>1. CASE R!GetTime(t)
  <2>1. /\ UNCHANGED <<day, sec, tick, _tick_count_previous, op, current, ms, rtcRet, instants, late>>
        /\ rtcPc[t] = "gettime" /\ rtcPc' = [rtcPc EXCEPT ![t] = "getdate"]
        /\ _rtc_mutex = Nobody /\ _rtc_mutex' = t
        /\ got' = [got EXCEPT ![t].sec = sec]
        /\ latch' = IF latch = R!NoDay THEN day ELSE latch
    BY <1>1 DEF R!GetTime, R!Lock, R!Goto, R!clock
  <2>2. /\ \A u \in R!Tasks : rtcPc[u] \notin {"getdate", "setdate", "settime"}
        /\ latch' = day
    BY <1>a, <1>b, <2>1 DEF Holding
  <2>3. got'[t].sec = sec /\ got' \in [R!Tasks -> Moments]
        /\ \A u \in R!Tasks : u # t => got'[u] = got[u]
    BY <1>a, <2>1 DEF Values, Moments
  <2>4. Values'
    BY <1>a, <2>1, <2>2, <2>3 DEF Values
  <2>5. Places'
    BY <1>a, <2>1 DEF Places
  <2>6. Holding'
    BY <1>a, <1>b, <2>1, <2>2 DEF Holding, Places, Values
  <2>7. R!Moment(latch', got'[t].sec) \in instants[t]
    BY <1>a, <2>1, <2>2, <2>3 DEF Noted, R!Now
  <2>8. Noted'
    BY <1>a, <2>1, <2>2, <2>3, <2>7 DEF Noted, Places, R!Now
  <2>9. Halfway' /\ R!Set' /\ R!Instant'
    BY <1>a, <2>1, <2>3 DEF Halfway, Places, R!Set, R!Instant
  <2>. QED BY <2>4, <2>5, <2>6, <2>8, <2>9 DEF RtcInv
<1>2. CASE R!GetDate(t)
  <2>1. /\ UNCHANGED <<day, sec, tick, _tick_count_previous, op, current, ms, rtcRet, instants, late>>
        /\ rtcPc[t] = "getdate" /\ _rtc_mutex' = Nobody /\ latch' = R!NoDay
        /\ rtcPc' = [rtcPc EXCEPT ![t] = IF op[t] = "get" THEN "ticks" ELSE "change"]
        /\ got' = [got EXCEPT ![t].day = IF latch = R!NoDay THEN day ELSE latch]
    BY <1>2 DEF R!GetDate, R!Unlock, R!Goto, R!clock
  <2>2. /\ _rtc_mutex = t /\ latch # R!NoDay /\ latch \in Nat
        /\ \A u \in R!Tasks : u # t => rtcPc[u] \notin {"getdate", "setdate", "settime"}
    BY <1>a, <2>1 DEF Holding, Values
  <2>3. /\ got' \in [R!Tasks -> Moments]
        /\ got'[t] = R!Moment(latch, got[t].sec)
        /\ \A u \in R!Tasks : u # t => got'[u] = got[u]
    BY <1>a, <2>1, <2>2 DEF Values, Moments, R!Moment
  <2>4. Values'
    BY <1>a, <2>1, <2>2, <2>3 DEF Values
  <2>5. Places'
    BY <1>a, <2>1 DEF Places
  <2>6. Holding'
    BY <1>a, <1>b, <2>1, <2>2 DEF Holding, Places
  <2>7. Noted'
    BY <1>a, <2>1, <2>2, <2>3 DEF Noted, Places, R!Now
  <2>8. got'[t] \in instants[t]
    BY <1>a, <2>1, <2>3 DEF Noted
  <2>9. Halfway' /\ R!Set' /\ R!Instant'
    BY <1>a, <2>1, <2>3, <2>8 DEF Halfway, Places, R!Set, R!Instant
  <2>. QED BY <2>4, <2>5, <2>6, <2>7, <2>9 DEF RtcInv
<1>. QED BY <1>1, <1>2

\* The milliseconds, and what is to be set: nothing of the calendar changes.
LEMMA RtcReckon ==
  ASSUME R!RtcAssumption, RtcInv, NEW t \in R!Tasks,
         R!ReadTicks(t) \/ R!Compare(t) \/ R!Subtract(t) \/ R!Change(t)
  PROVE  RtcInv'
<1>a. Values /\ Places /\ Holding /\ Noted /\ Halfway /\ R!Instant /\ R!Set
  BY DEF RtcInv
<1>b. /\ UNCHANGED <<day, sec, latch, tick, _tick_count_previous, _rtc_mutex, op, rtcRet, instants,
                      late>>
      /\ \E l \in {"compare", "behind", "ahead", "return", "reread"} : rtcPc' = [rtcPc EXCEPT ![t] = l]
  BY DEF R!ReadTicks, R!Compare, R!Subtract, R!Change, R!hw, R!clock, R!Goto
<1>c. /\ rtcPc[t] \in {"ticks", "compare", "behind", "ahead", "change"}
      /\ rtcPc[t] = "change" <=> rtcPc'[t] = "reread"
      /\ rtcPc[t] # "change" => got' = got
  BY <1>a DEF R!ReadTicks, R!Compare, R!Subtract, R!Change, R!Goto, Places
<1>1. /\ got' \in [R!Tasks -> Moments] /\ \A u \in R!Tasks : u # t => got'[u] = got[u]
      /\ current' \in [R!Tasks -> Nat]
  <2>1. CASE R!Change(t)
    <3>1. ASSUME NEW m \in Moments, got' = [got EXCEPT ![t] = m]
          PROVE  got' \in [R!Tasks -> Moments] /\ \A u \in R!Tasks : u # t => got'[u] = got[u]
      BY <1>a, <3>1 DEF Values
    <3>2. ASSUME NEW d \in R!Days PROVE R!Moment(d, got[t].sec) \in Moments
      BY <1>a DEF R!Moment, R!Days, R!RtcAssumption, Values, Moments
    <3>3. ASSUME NEW d \in R!Seconds PROVE R!Moment(got[t].day, d) \in Moments
      BY <1>a DEF R!Moment, R!Seconds, R!RtcAssumption, Values, Moments
    <3>4. \E m \in Moments : got' = [got EXCEPT ![t] = m]
      BY <2>1, <3>2, <3>3 DEF R!Change
    <3>. QED BY <1>a, <2>1, <3>1, <3>4 DEF R!Change, Values
  <2>2. CASE R!ReadTicks(t) \/ R!Compare(t) \/ R!Subtract(t)
    BY <1>a, <2>2 DEF R!ReadTicks, R!Compare, R!Subtract, Values
  <2>. QED BY <2>1, <2>2
<1>2. ms' \in [R!Tasks -> Int]
  <2>1. CASE R!Subtract(t)
    <3>1. current[t] - _tick_count_previous \in Int /\ W16 \in Nat \ {0}
      BY <1>a DEF Values, R!RtcAssumption
    <3>2. \A d \in Int : d % W16 \in Int /\ -d \in Int
      BY <3>1
    <3>3. (IF rtcPc[t] = "behind" THEN current[t] - _tick_count_previous
                               ELSE -(current[t] - _tick_count_previous)) % W16 \in Int
      BY <3>1, <3>2
    <3>. QED BY <1>a, <2>1, <3>3 DEF R!Subtract, Values
  <2>2. CASE R!ReadTicks(t) \/ R!Compare(t) \/ R!Change(t)
    BY <1>a, <2>2 DEF R!ReadTicks, R!Compare, R!Change, Values
  <2>. QED BY <2>1, <2>2
<1>3. Values'
  BY <1>a, <1>b, <1>1, <1>2 DEF Values
<1>4. Places'
  BY <1>a, <1>b, <1>c DEF Places
<1>5. /\ \A u \in R!Tasks : rtcPc'[u] # "idle" <=> rtcPc[u] # "idle"
      /\ \A u \in R!Tasks, l \in {"getdate", "setdate", "settime"} : rtcPc'[u] = l <=> rtcPc[u] = l
      /\ \A u \in R!Tasks : u # t => rtcPc'[u] = rtcPc[u]
  BY <1>a, <1>b, <1>c DEF Places
<1>6. Holding'
  BY <1>b, <1>a, <1>5 DEF Holding
<1>7. Noted'
  BY <1>a, <1>b, <1>c, <1>1, <1>5 DEF Noted, R!Now
<1>8. Halfway'
  BY <1>a, <1>b, <1>c, <1>1, <1>5 DEF Halfway
<1>9. R!Instant'
  <2>1. rtcPc[t] = "change" => op[t] # "get"
    BY <1>a DEF Places
  <2>2. rtcPc[t] = "ticks" \/ rtcPc[t] = "compare" \/ rtcPc[t] = "behind" \/ rtcPc[t] = "ahead" => got' = got
    BY <1>c
  <2>3. ASSUME op[t] = "get"
        PROVE  got'[t] \in instants[t]
    BY <1>a, <1>c, <2>1, <2>2, <2>3 DEF R!Instant
  <2>4. \A u \in R!Tasks : u # t => rtcPc'[u] = rtcPc[u] /\ got'[u] = got[u]
    BY <1>1, <1>5
  <2>. QED BY <1>a, <1>b, <2>3, <2>4 DEF R!Instant
<1>10. R!Set'
  <2>1. rtcRet[t] # "ok"
    BY <1>a, <1>c DEF Places
  <2>. QED BY <1>a, <1>b, <1>1, <1>5, <2>1 DEF R!Set
<1>. QED BY <1>3, <1>4, <1>6, <1>7, <1>8, <1>9, <1>10 DEF RtcInv

\* The second read and the two writes under the mutex.
LEMMA RtcWrite ==
  ASSUME R!RtcAssumption, RtcInv, NEW t \in R!Tasks,
         R!Reread(t) \/ R!SetDate(t) \/ R!SetTime(t)
  PROVE  RtcInv'
<1>a. Values /\ Places /\ Holding /\ Noted /\ Halfway /\ R!Instant /\ R!Set
  BY DEF RtcInv
<1>b. Nobody \notin R!Tasks
  BY DEF R!RtcAssumption
<1>1. CASE R!Reread(t)
  <2>1. /\ UNCHANGED <<day, sec, tick, _tick_count_previous, op, got, current, ms, rtcRet, instants,
                       late>>
        /\ rtcPc[t] = "reread" /\ rtcPc' = [rtcPc EXCEPT ![t] = "setdate"]
        /\ _rtc_mutex = Nobody /\ _rtc_mutex' = t /\ latch' = R!NoDay
    BY <1>1 DEF R!Reread, R!Lock, R!Goto, R!clock
  <2>2. \A u \in R!Tasks : rtcPc[u] \notin {"getdate", "setdate", "settime"}
    BY <1>a, <1>b, <2>1 DEF Holding
  <2>3. Values' /\ Places'
    BY <1>a, <2>1 DEF Values, Places
  <2>4. Holding'
    BY <1>a, <1>b, <2>1, <2>2 DEF Holding, Places
  <2>5. Noted'
    BY <1>a, <2>1, <2>2 DEF Noted, Places, R!Now
  <2>6. Halfway' /\ R!Set' /\ R!Instant'
    BY <1>a, <2>1 DEF Halfway, Places, R!Set, R!Instant
  <2>. QED BY <2>3, <2>4, <2>5, <2>6 DEF RtcInv
<1>2. CASE R!SetDate(t)
  <2>1. /\ UNCHANGED <<sec, latch, tick, _tick_count_previous, op, got, current, ms>>
        /\ rtcPc[t] = "setdate" /\ R!Note /\ late' = [late EXCEPT ![t] = FALSE]
        /\ \/ /\ day' = got[t].day /\ rtcPc' = [rtcPc EXCEPT ![t] = "settime"]
              /\ UNCHANGED <<_rtc_mutex, rtcRet>>
           \/ /\ day' \in {day, got[t].day} /\ rtcPc' = [rtcPc EXCEPT ![t] = "return"]
              /\ rtcRet' = [rtcRet EXCEPT ![t] = "error"] /\ _rtc_mutex' = Nobody
    BY <1>2 DEF R!SetDate, R!Unlock, R!Goto, R!clock
  <2>2. /\ _rtc_mutex = t
        /\ \A u \in R!Tasks : u # t => rtcPc[u] \notin {"getdate", "setdate", "settime"}
        /\ \A u \in R!Tasks : u # t => rtcPc'[u] = rtcPc[u] /\ late'[u] = late[u] /\ rtcRet'[u] = rtcRet[u]
        /\ rtcPc'[t] \in {"settime", "return"} /\ op[t] # "get"
        /\ rtcPc'[t] = "return" => rtcRet'[t] = "error"
    BY <1>a, <2>1 DEF Holding, Places
  <2>3. day' \in Nat
    BY <1>a, <2>1 DEF Values, Moments
  <2>4. Values'
    BY <1>a, <2>1, <2>3 DEF Values
  <2>5. Places'
    BY <1>a, <2>1 DEF Places
  <2>6. Holding'
    BY <1>a, <1>b, <2>1, <2>2 DEF Holding, Places
  <2>7. Noted'
    BY <2>1, <2>2, NoteKeeps DEF Noted
  <2>8. Halfway'
    BY <1>a, <2>1, <2>2 DEF Halfway, Places
  <2>9. R!Set' /\ R!Instant'
    BY <1>a, <2>1, <2>2, NoteKeeps DEF R!Set, R!Instant
  <2>. QED BY <2>4, <2>5, <2>6, <2>7, <2>8, <2>9 DEF RtcInv
<1>3. CASE R!SetTime(t)
  <2>1. /\ UNCHANGED <<day, latch, tick, _tick_count_previous, op, got, current, ms, late>>
        /\ rtcPc[t] = "settime" /\ R!Note
        /\ rtcPc' = [rtcPc EXCEPT ![t] = "return"] /\ _rtc_mutex' = Nobody
        /\ \/ sec' = got[t].sec /\ rtcRet' = [rtcRet EXCEPT ![t] = "ok"]
           \/ sec' \in {sec, got[t].sec} /\ rtcRet' = [rtcRet EXCEPT ![t] = "error"]
    BY <1>3 DEF R!SetTime, R!Unlock, R!Goto, R!clock
  <2>2. /\ _rtc_mutex = t
        /\ \A u \in R!Tasks : u # t => rtcPc[u] \notin {"getdate", "setdate", "settime"}
        /\ \A u \in R!Tasks : u # t => rtcPc'[u] = rtcPc[u] /\ rtcRet'[u] = rtcRet[u]
        /\ rtcPc'[t] = "return" /\ op[t] # "get"
    BY <1>a, <2>1 DEF Holding, Places
  <2>3. sec' \in Int
    BY <1>a, <2>1 DEF Values, Moments
  <2>4. Values'
    BY <1>a, <2>1, <2>3 DEF Values
  <2>5. Places'
    BY <1>a, <2>1, <2>2 DEF Places
  <2>6. Holding'
    BY <1>a, <1>b, <2>1, <2>2 DEF Holding, Places
  <2>7. Noted' /\ Halfway'
    BY <2>1, <2>2, NoteKeeps DEF Noted, Halfway
  <2>8. R!Now' \in instants'[t]
    BY <2>1, <2>2, NoteKeeps
  <2>9. rtcRet'[t] = "ok" /\ ~late[t] => R!Now' = got[t]
    BY <1>a, <2>1 DEF Places, Halfway, R!Now, R!Moment, Values, Moments
  <2>10. R!Set'
    BY <1>a, <2>1, <2>2, <2>8, <2>9, NoteKeeps DEF R!Set
  <2>11. R!Instant'
    BY <1>a, <2>1, <2>2, NoteKeeps DEF R!Instant
  <2>. QED BY <2>4, <2>5, <2>6, <2>7, <2>10, <2>11 DEF RtcInv
<1>. QED BY <1>1, <1>2, <1>3

LEMMA RtcStep ==
  ASSUME R!RtcAssumption, RtcInv, [R!Next]_(R!vars)
  PROVE  RtcInv'
<1>1. CASE R!Next
  BY <1>1, RtcHardware, RtcCall, RtcRead, RtcReckon, RtcWrite DEF R!Next
<1>2. CASE UNCHANGED R!vars
  BY <1>2 DEF R!vars, R!hw, R!clock, R!calls, RtcInv, Values, Places, Holding, Noted, Halfway,
              R!Instant, R!Set, R!Now, R!Moment
<1>. QED BY <1>1, <1>2
-----------------------------------------------------------------------------
(* The calendar: years, months and days by number, which grows from day to *)
(* day and tells them apart.                                               *)

LEMMA LeapYear == ASSUME NEW y \in Nat PROVE C!_is_leap_year(y) = (IF C!Leap(y) THEN 1 ELSE 0)
<1>1. y % 4 = 0 => (y % 100 = 0 <=> y % 25 = 0)
  OBVIOUS
<1>2. y % 25 = 0 => (y % 400 = 0 <=> y % 16 = 0)
  OBVIOUS
<1>. QED BY <1>1, <1>2 DEF C!_is_leap_year, C!Leap

LEMMA LeapsBefore ==
  ASSUME NEW y \in Nat
  PROVE  C!_leap_years_before(y + 1) = C!_leap_years_before(y) + (IF C!Leap(y) THEN 1 ELSE 0)
<1>1. y \div 4 = (y - 1) \div 4 + (IF y % 4 = 0 THEN 1 ELSE 0)
  OBVIOUS
<1>2. y \div 100 = (y - 1) \div 100 + (IF y % 100 = 0 THEN 1 ELSE 0)
  OBVIOUS
<1>3. y \div 400 = (y - 1) \div 400 + (IF y % 400 = 0 THEN 1 ELSE 0)
  OBVIOUS
<1>4. (y % 400 = 0 => y % 100 = 0) /\ (y % 100 = 0 => y % 4 = 0)
  OBVIOUS
<1>. QED BY <1>1, <1>2, <1>3, <1>4 DEF C!_leap_years_before, C!Leap

Months == 0..11

LEMMA Lengths ==
  ASSUME NEW y \in Nat, NEW m \in Months
  PROVE  /\ C!_month_length(m, y) = C!Length(y, m)
         /\ C!Length(y, m) \in 28..31
         /\ m < 11 => C!_yday(1, m + 1, y) = C!_yday(1, m, y) + C!Length(y, m)
         /\ C!_yday(1, 0, y) = 0
         /\ m = 11 => C!_yday(1, m, y) + C!Length(y, m) = 365 + C!_is_leap_year(y)
<1>1. C!_is_leap_year(y) = (IF C!Leap(y) THEN 1 ELSE 0) /\ C!_is_leap_year(y) \in {0, 1}
  BY LeapYear
<1>. DEFINE Good(k) ==
         /\ C!_month_length(k, y) = C!Length(y, k)
         /\ C!Length(y, k) \in 28..31
         /\ k < 11 => C!_yday(1, k + 1, y) = C!_yday(1, k, y) + C!Length(y, k)
         /\ C!_yday(1, 0, y) = 0
         /\ k = 11 => C!_yday(1, k, y) + C!Length(y, k) = 365 + C!_is_leap_year(y)
<1>2. Good(0) /\ Good(1) /\ Good(2) /\ Good(3)
  BY <1>1 DEF C!_month_length, C!Length, C!_yday
<1>3. Good(4) /\ Good(5) /\ Good(6) /\ Good(7)
  BY <1>1 DEF C!_month_length, C!Length, C!_yday
<1>4. Good(8) /\ Good(9) /\ Good(10) /\ Good(11)
  BY <1>1 DEF C!_month_length, C!Length, C!_yday
<1>5. m \in {0, 1, 2, 3, 4, 5, 6, 7, 8, 9, 10, 11}
  BY DEF Months
<1>. HIDE DEF Good
<1>6. Good(m)
  BY <1>2, <1>3, <1>4, <1>5
<1>. QED BY <1>6 DEF Good

LEMMA DayOfYear ==
  ASSUME NEW y \in Nat, NEW m \in Months, NEW d \in Nat
  PROVE  C!_yday(d, m, y) = C!_yday(1, m, y) + d - 1 /\ C!_yday(1, m, y) \in 0..335
<1>1. C!_is_leap_year(y) \in {0, 1}
  BY DEF C!_is_leap_year
<1>. DEFINE Table(k) == <<0, 31, 59, 90, 120, 151, 181, 212, 243, 17, 48, 78>>[k + 1]
<1>2. \A k \in {0, 1, 2, 3, 4, 5, 6, 7, 8, 9, 10, 11} :
         Table(k) \in Nat /\ (k <= 8 => Table(k) <= 243) /\ (k > 8 => Table(k) + 256 <= 334)
  OBVIOUS
<1>. HIDE DEF Table
<1>3. m \in {0, 1, 2, 3, 4, 5, 6, 7, 8, 9, 10, 11}
  BY DEF Months
<1>4. Table(m) \in Nat /\ (m <= 8 => Table(m) <= 243) /\ (m > 8 => Table(m) + 256 <= 334)
  BY <1>2, <1>3
<1>. DEFINE l == IF m > 1 THEN C!_is_leap_year(y) ELSE 0
            c == IF m > 8 THEN 256 ELSE 0
<1>5. \A e \in Nat : C!_yday(e, m, y) = Table(m) + (e + l) + c - 1
  BY DEF C!_yday, Table
<1>6. l \in {0, 1} /\ c \in {0, 256} /\ (c = 256 <=> m > 8)
  BY <1>1
<1>. HIDE DEF l, c
<1>7. C!_yday(1, m, y) = Table(m) + (1 + l) + c - 1 /\ C!_yday(d, m, y) = Table(m) + (d + l) + c - 1
  BY <1>5
<1>8. Table(m) \in Nat /\ Table(m) + c <= 334
  BY <1>4, <1>6 DEF Months
<1>. QED BY <1>6, <1>7, <1>8

LEMMA MonthStarts == ASSUME NEW y \in Nat, NEW m \in Months PROVE C!_yday(1, m, y) \in 0..335
<1>1. 1 \in Nat
  OBVIOUS
<1>. QED BY <1>1, DayOfYear

-----------------------------------------------------------------------------
Since(y) == 365 * (y - EpochYear) + C!_leap_years_before(y) - C!_leap_years_before(EpochYear)

\* The days of the calendar, and which day since the epoch each of them is.
Dates == [year : Nat, mon : Months, mday : 1..31]
Real(d) == d \in Dates /\ d.mday <= C!Length(d.year, d.mon)
DayNo(d) == Since(d.year) + (C!_yday(1, d.mon, d.year) + (d.mday - 1))

LEMMA Years ==
  ASSUME C!CalendarAssumption, NEW y \in Nat
  PROVE  /\ Since(y) \in Int
         /\ Since(y + 1) = Since(y) + (365 + C!_is_leap_year(y))
         /\ C!_is_leap_year(y) \in {0, 1}
         /\ Since(EpochYear) = 0
<1>1. C!_leap_years_before(y) \in Int /\ C!_leap_years_before(EpochYear) \in Int
  BY DEF C!_leap_years_before, C!CalendarAssumption
<1>2. C!_leap_years_before(y + 1) = C!_leap_years_before(y) + C!_is_leap_year(y)
  BY LeapsBefore, LeapYear
<1>3. C!_is_leap_year(y) \in {0, 1}
  BY DEF C!_is_leap_year
<1>. QED BY <1>1, <1>2, <1>3 DEF Since, C!CalendarAssumption

LEMMA YearsGrow ==
  ASSUME C!CalendarAssumption, NEW y \in Nat, NEW z \in Nat, y < z
  PROVE  Since(y + 1) <= Since(z)
<1>. DEFINE D == {n \in Nat : Since(y + 1) <= Since((y + 1) + n)}
<1>1. 0 \in D
  BY Years
<1>2. ASSUME NEW n \in D PROVE n + 1 \in D
  <2>. DEFINE x == (y + 1) + n
  <2>1. x \in Nat /\ (y + 1) + (n + 1) = x + 1 /\ Since(y + 1) <= Since(x)
    OBVIOUS
  <2>. HIDE DEF x
  <2>2. Since(x) <= Since(x + 1) /\ Since(x) \in Int /\ Since(x + 1) \in Int /\ Since(y + 1) \in Int
    BY <2>1, Years
  <2>3. Since(y + 1) <= Since(x + 1)
    BY <2>1, <2>2
  <2>. QED BY <2>1, <2>3
<1>3. D = Nat
  <2>. HIDE DEF D
  <2>1. D \in SUBSET Nat
    BY DEF D
  <2>. QED BY <1>1, <1>2, <2>1, Numbers
<1>4. z - (y + 1) \in Nat /\ (y + 1) + (z - (y + 1)) = z
  OBVIOUS
<1>5. z - (y + 1) \in D
  BY <1>3, <1>4
<1>. QED BY <1>4, <1>5

LEMMA MonthsGrow ==
  ASSUME NEW y \in Nat, NEW m \in Months, NEW n \in Months, m < n
  PROVE  C!_yday(1, m, y) + C!Length(y, m) <= C!_yday(1, n, y)
<1>. DEFINE c(k) == C!_yday(1, k, y)
            l(k) == C!Length(y, k)
            D == {k \in Nat : (m + 1) + k <= 11 => c(m) + l(m) <= c((m + 1) + k)}
<1>1. \A k \in Months : c(k) \in Nat /\ l(k) \in Nat /\ (k < 11 => c(k + 1) = c(k) + l(k))
  <2>1. \A k \in Months : C!_yday(1, k, y) \in 0..335
    BY MonthStarts
  <2>2. \A k \in Months : C!Length(y, k) \in 28..31
    BY Lengths
  <2>3. \A k \in Months : k < 11 => C!_yday(1, k + 1, y) = C!_yday(1, k, y) + C!Length(y, k)
    BY Lengths
  <2>. QED BY <2>1, <2>2, <2>3
<1>. HIDE DEF c, l
<1>2. 0 \in D
  BY <1>1 DEF Months
<1>3. ASSUME NEW k \in D PROVE k + 1 \in D
  <2>. DEFINE x == (m + 1) + k
  <2>1. x \in Nat /\ (m + 1) + (k + 1) = x + 1 /\ (x <= 11 => c(m) + l(m) <= c(x))
    BY DEF Months
  <2>. HIDE DEF x
  <2>2. ASSUME x + 1 <= 11 PROVE c(m) + l(m) <= c(x + 1)
    <3>1. x \in Months /\ x + 1 \in Months /\ x < 11
      BY <2>1, <2>2 DEF Months
    <3>2. c(x) \in Nat /\ l(x) \in Nat /\ c(x + 1) = c(x) + l(x) /\ c(m) \in Nat /\ l(m) \in Nat
      BY <1>1, <3>1
    <3>. QED BY <2>1, <2>2, <3>2
  <2>. QED BY <2>1, <2>2
<1>4. D = Nat
  <2>. HIDE DEF D
  <2>1. D \in SUBSET Nat
    BY DEF D
  <2>. QED BY <1>2, <1>3, <2>1, Numbers
<1>5. n - (m + 1) \in Nat /\ (m + 1) + (n - (m + 1)) = n
  BY DEF Months
<1>6. n - (m + 1) \in D
  BY <1>4, <1>5
<1>7. c(m) + l(m) <= c(n)
  BY <1>5, <1>6 DEF Months
<1>. QED BY <1>7 DEF c, l

LEMMA InYear ==
  ASSUME C!CalendarAssumption, NEW d, Real(d)
  PROVE  /\ DayNo(d) \in Int
         /\ Since(d.year) <= DayNo(d) /\ DayNo(d) < Since(d.year + 1)
<1>1. d.year \in Nat /\ d.mon \in Months /\ d.mday \in 1..C!Length(d.year, d.mon)
  BY DEF Real, Dates
<1>. DEFINE c(k) == C!_yday(1, k, d.year)
            l(k) == C!Length(d.year, k)
<1>2. /\ Since(d.year) \in Int /\ Since(d.year + 1) = Since(d.year) + (365 + C!_is_leap_year(d.year))
      /\ C!_is_leap_year(d.year) \in {0, 1}
  BY <1>1, Years
<1>3. \A k \in Months : c(k) \in Nat /\ l(k) \in Nat
  <2>1. \A k \in Months : C!_yday(1, k, d.year) \in 0..335
    BY <1>1, MonthStarts
  <2>2. \A k \in Months : C!Length(d.year, k) \in 28..31
    BY <1>1, Lengths
  <2>. QED BY <2>1, <2>2
<1>4. c(11) + l(11) = 365 + C!_is_leap_year(d.year)
  BY <1>1, Lengths DEF Months
<1>5. d.mon < 11 => c(d.mon) + l(d.mon) <= c(11)
  BY <1>1, MonthsGrow DEF Months
<1>6. c(d.mon) + l(d.mon) <= 365 + C!_is_leap_year(d.year)
  BY <1>1, <1>2, <1>3, <1>4, <1>5 DEF Months
<1>7. DayNo(d) = Since(d.year) + (c(d.mon) + (d.mday - 1)) /\ d.mday \in 1..l(d.mon)
  BY <1>1 DEF DayNo
<1>. HIDE DEF c, l
<1>. QED BY <1>1, <1>2, <1>3, <1>6, <1>7

\* A date is told by its number.
LEMMA OneDate ==
  ASSUME C!CalendarAssumption, NEW d, NEW e, Real(d), Real(e), DayNo(d) = DayNo(e)
  PROVE  d = e
<1>1. \A x \in {d, e} : /\ x \in Dates
                        /\ x.year \in Nat /\ x.mon \in Months /\ x.mday \in 1..C!Length(x.year, x.mon)
  BY DEF Real, Dates
<1>2. d.year = e.year
  <2>1. ASSUME NEW a \in {d, e}, NEW b \in {d, e}, a.year < b.year
        PROVE  DayNo(a) # DayNo(b)
    <3>1. /\ DayNo(a) \in Int /\ DayNo(b) \in Int /\ DayNo(a) < Since(a.year + 1)
          /\ Since(b.year) <= DayNo(b)
      BY <2>1, InYear
    <3>2. Since(a.year + 1) <= Since(b.year) /\ Since(a.year + 1) \in Int /\ Since(b.year) \in Int
      BY <1>1, <2>1, YearsGrow, Years
    <3>. QED BY <3>1, <3>2
  <2>. QED BY <1>1, <2>1
<1>. DEFINE c(k) == C!_yday(1, k, d.year)
            l(k) == C!Length(d.year, k)
<1>3. c(d.mon) + (d.mday - 1) = c(e.mon) + (e.mday - 1)
  <2>1. d.year \in Nat /\ d.mon \in Months /\ e.mon \in Months
    BY <1>1
  <2>2. C!_yday(1, d.mon, d.year) \in 0..335 /\ C!_yday(1, e.mon, d.year) \in 0..335
    BY <2>1, MonthStarts
  <2>3. Since(d.year) \in Int
    BY <2>1, Years
  <2>4. Since(d.year) + (c(d.mon) + (d.mday - 1)) = Since(d.year) + (c(e.mon) + (e.mday - 1))
    BY <1>2 DEF DayNo
  <2>5. c(d.mon) \in Nat /\ c(e.mon) \in Nat
    BY <2>2
  <2>. HIDE DEF c
  <2>. QED BY <1>1, <2>3, <2>4, <2>5
<1>4. \A m, n \in Months : m < n => c(m) + l(m) <= c(n)
  BY <1>1, MonthsGrow
<1>5. \A m \in Months : c(m) \in Nat /\ l(m) \in Nat
  <2>1. \A m \in Months : C!_yday(1, m, d.year) \in 0..335
    BY <1>1, MonthStarts
  <2>2. \A m \in Months : C!Length(d.year, m) \in 28..31
    BY <1>1, Lengths
  <2>. QED BY <2>1, <2>2
<1>6. d.mday \in 1..l(d.mon) /\ e.mday \in 1..l(e.mon)
  BY <1>1, <1>2
<1>. HIDE DEF c, l
<1>7. ~(d.mon < e.mon) /\ ~(e.mon < d.mon)
  BY <1>1, <1>3, <1>4, <1>5, <1>6
<1>8. d.mon = e.mon
  BY <1>1, <1>7 DEF Months
<1>9. d.mday = e.mday
  BY <1>1, <1>3, <1>5, <1>8
<1>. QED BY <1>1, <1>2, <1>8, <1>9 DEF Dates

LEMMA NextDay ==
  ASSUME C!CalendarAssumption, NEW d, Real(d)
  PROVE  Real(C!Tomorrow(d)) /\ DayNo(C!Tomorrow(d)) = DayNo(d) + 1
<1>1. d \in Dates /\ d.year \in Nat /\ d.mon \in Months /\ d.mday \in 1..C!Length(d.year, d.mon)
  BY DEF Real, Dates
<1>2. /\ C!Length(d.year, d.mon) \in 28..31
      /\ d.mon < 11 => C!_yday(1, d.mon + 1, d.year) = C!_yday(1, d.mon, d.year) + C!Length(d.year, d.mon)
      /\ d.mon = 11 => C!_yday(1, d.mon, d.year) + C!Length(d.year, d.mon) = 365 + C!_is_leap_year(d.year)
  BY <1>1, Lengths
<1>3. C!_yday(1, d.mon, d.year) \in Nat /\ Since(d.year) \in Int /\ C!_is_leap_year(d.year) \in {0, 1}
  <2>1. C!_yday(1, d.mon, d.year) \in 0..335
    BY <1>1, MonthStarts
  <2>. QED BY <1>1, <2>1, Years
<1>4. CASE d.mday < C!Length(d.year, d.mon)
  <2>1. C!Tomorrow(d) = [year |-> d.year, mon |-> d.mon, mday |-> d.mday + 1]
    BY <1>4 DEF C!Tomorrow, C!Date
  <2>. QED BY <1>1, <1>2, <1>3, <1>4, <2>1 DEF Real, Dates, DayNo
<1>5. CASE d.mday = C!Length(d.year, d.mon) /\ d.mon < 11
  <2>1. C!Tomorrow(d) = [year |-> d.year, mon |-> d.mon + 1, mday |-> 1]
    BY <1>5, <1>1, <1>2 DEF C!Tomorrow, C!Date
  <2>2. d.mon + 1 \in Months /\ C!Length(d.year, d.mon + 1) \in 28..31
    BY <1>1, <1>5, Lengths DEF Months
  <2>3. Real(C!Tomorrow(d))
    BY <1>1, <2>1, <2>2 DEF Real, Dates
  <2>. QED BY <1>1, <1>2, <1>3, <1>5, <2>1, <2>3 DEF DayNo
<1>6. CASE d.mday = C!Length(d.year, d.mon) /\ d.mon = 11
  <2>1. C!Tomorrow(d) = [year |-> d.year + 1, mon |-> 0, mday |-> 1]
    BY <1>6, <1>1, <1>2 DEF C!Tomorrow, C!Date
  <2>2. 0 \in Months /\ C!Length(d.year + 1, 0) \in 28..31 /\ C!_yday(1, 0, d.year + 1) = 0
    BY <1>1, Lengths DEF Months
  <2>3. Real(C!Tomorrow(d))
    BY <1>1, <2>1, <2>2 DEF Real, Dates
  <2>4. Since(d.year + 1) = Since(d.year) + (365 + C!_is_leap_year(d.year))
    BY <1>1, Years
  <2>. QED BY <1>1, <1>2, <1>3, <1>6, <2>1, <2>2, <2>3, <2>4 DEF DayNo
<1>. QED BY <1>1, <1>2, <1>4, <1>5, <1>6 DEF Months

-----------------------------------------------------------------------------
(* Division by a number of unknown size.                                   *)

LEMMA Parted ==
  ASSUME NEW n \in Nat \ {0}, NEW a \in Nat, NEW b \in 0..(n - 1)
  PROVE  /\ a * n + b \in Nat
         /\ C!Quot(a * n + b, n) = a /\ C!Rem(a * n + b, n) = b
<1>. DEFINE x == a * n + b
            q == x \div n
<1>1. a * n \in Nat /\ x \in Nat
  OBVIOUS
<1>2. q \in Nat /\ x % n \in 0..(n - 1) /\ x = q * n + (x % n)
  BY <1>1
<1>3. \A c, d \in Nat : c < d => c * n + n <= d * n
  <2>1. ASSUME NEW c \in Nat, NEW d \in Nat, c < d PROVE c * n + n <= d * n
    <3>. DEFINE e == d - c
    <3>1. e \in Nat /\ e >= 1 /\ d = c + e
      BY <2>1
    <3>. HIDE DEF e
    <3>2. d * n = c * n + e * n
      BY <3>1
    <3>3. e * n = (e - 1) * n + n /\ (e - 1) * n >= 0 /\ c * n \in Nat
      BY <3>1
    <3>4. (e - 1) * n \in Nat
      BY <3>1
    <3>. QED BY <3>2, <3>3, <3>4
  <2>. QED BY <2>1
<1>4. q * n \in Nat
  BY <1>2
<1>5. ~(a < q) /\ ~(q < a)
  <2>1. a < q => a * n + n <= q * n
    BY <1>2, <1>3
  <2>2. q < a => q * n + n <= a * n
    BY <1>2, <1>3
  <2>. HIDE DEF q
  <2>. QED BY <1>1, <1>2, <1>4, <2>1, <2>2
<1>6. q = a
  <2>. HIDE DEF q
  <2>. QED BY <1>2, <1>5
<1>7. C!Quot(x, n) = a
  <2>. HIDE DEF x
  <2>. QED BY <1>1, <1>6 DEF C!Quot
<1>8. C!Rem(x, n) = b
  <2>1. x - a * n = b
    BY <1>1
  <2>. HIDE DEF x
  <2>. QED BY <1>7, <2>1 DEF C!Rem
<1>. QED BY <1>1, <1>7, <1>8

-----------------------------------------------------------------------------
(* The loop of rtc_tm_normalize.                                           *)

\* The first day of the m-th month from January of year.
FirstDay(year, m) == DayNo(C!Date(year + m \div 12, m % 12, 1))

LEMMA NextMonth ==
  ASSUME C!CalendarAssumption, NEW y \in Nat, NEW m \in Nat
  PROVE  /\ m % 12 \in Months /\ y + m \div 12 \in Nat
         /\ FirstDay(y, m) \in Int
         /\ FirstDay(y, m + 1) = FirstDay(y, m) + C!_month_length(m % 12, y + m \div 12)
<1>. DEFINE z == y + m \div 12
            k == m % 12
<1>1. k \in Months /\ z \in Nat
  BY DEF Months
<1>2. CASE k < 11
  <2>1. (m + 1) \div 12 = m \div 12 /\ (m + 1) % 12 = k + 1
    BY <1>2
  <2>2. C!_yday(1, k + 1, z) = C!_yday(1, k, z) + C!_month_length(k, z)
    BY <1>1, <1>2, Lengths
  <2>3. C!_yday(1, k, z) \in Nat /\ Since(z) \in Int /\ C!_month_length(k, z) \in Nat
    <3>1. C!_yday(1, k, z) \in 0..335
      BY <1>1, MonthStarts
    <3>2. C!_month_length(k, z) \in 28..31
      BY <1>1, Lengths
    <3>. QED BY <1>1, <3>1, <3>2, Years
  <2>4. FirstDay(y, m) = Since(z) + (C!_yday(1, k, z) + 0)
    BY DEF FirstDay, C!Date, DayNo
  <2>5. FirstDay(y, m + 1) = Since(z) + (C!_yday(1, k + 1, z) + 0)
    BY <2>1 DEF FirstDay, C!Date, DayNo
  <2>. HIDE DEF z, k
  <2>6. FirstDay(y, m) \in Int /\ FirstDay(y, m + 1) = FirstDay(y, m) + C!_month_length(k, z)
    BY <2>2, <2>3, <2>4, <2>5
  <2>. QED BY <1>1, <2>6 DEF z, k
<1>3. CASE k = 11
  <2>1. y + (m + 1) \div 12 = z + 1 /\ (m + 1) % 12 = 0
    BY <1>3
  <2>2. C!_yday(1, k, z) + C!_month_length(k, z) = 365 + C!_is_leap_year(z)
    BY <1>1, <1>3, Lengths
  <2>3. C!_yday(1, k, z) \in Nat /\ Since(z) \in Int /\ C!_month_length(k, z) \in Nat
    <3>1. C!_yday(1, k, z) \in 0..335
      BY <1>1, MonthStarts
    <3>2. C!_month_length(k, z) \in 28..31
      BY <1>1, Lengths
    <3>. QED BY <1>1, <3>1, <3>2, Years
  <2>4. FirstDay(y, m) = Since(z) + (C!_yday(1, k, z) + 0)
    BY DEF FirstDay, C!Date, DayNo
  <2>5. FirstDay(y, m + 1) = Since(z + 1) + (C!_yday(1, 0, z + 1) + 0)
    BY <2>1 DEF FirstDay, C!Date, DayNo
  <2>6. Since(z + 1) = Since(z) + (365 + C!_is_leap_year(z)) /\ C!_is_leap_year(z) \in {0, 1}
    BY <1>1, Years
  <2>7. C!_yday(1, 0, z + 1) = 0
    BY <1>1, Lengths
  <2>. HIDE DEF z, k
  <2>8. FirstDay(y, m) \in Int /\ FirstDay(y, m + 1) = FirstDay(y, m) + C!_month_length(k, z)
    BY <2>2, <2>3, <2>4, <2>5, <2>6, <2>7
  <2>. QED BY <1>1, <2>8 DEF z, k
<1>4. k < 11 \/ k = 11
  BY <1>1 DEF Months
<1>. QED BY <1>2, <1>3, <1>4

Carries(year, f) ==
  f = [p \in Nat \X Nat |->
        LET m == p[1] % 12
            y == year + p[1] \div 12
            len == C!_month_length(m, y)
        IN IF p[2] <= len THEN C!Date(y, m, p[2]) ELSE f[<<p[1] + 1, p[2] - len>>]]

\* A day of a month is a date.
LEMMA DayOfMonth ==
  ASSUME C!CalendarAssumption, NEW y \in Nat, NEW m \in Nat,
         NEW d \in 1..C!_month_length(m % 12, y + m \div 12)
  PROVE  LET x == C!Date(y + m \div 12, m % 12, d)
         IN Real(x) /\ DayNo(x) = FirstDay(y, m) + (d - 1)
<1>. DEFINE z == y + m \div 12
            k == m % 12
<1>1. k \in Months /\ z \in Nat
  BY NextMonth
<1>2. C!_month_length(k, z) = C!Length(z, k) /\ C!Length(z, k) \in 28..31
  BY <1>1, Lengths
<1>3. C!_yday(1, k, z) \in 0..335 /\ Since(z) \in Int
  BY <1>1, MonthStarts, Years
<1>4. FirstDay(y, m) = Since(z) + (C!_yday(1, k, z) + 0)
  BY DEF FirstDay, C!Date, DayNo
<1>5. d \in 1..C!Length(z, k)
  BY <1>2
<1>. HIDE DEF z, k
<1>6. Real(C!Date(z, k, d))
  BY <1>1, <1>2, <1>5 DEF Real, Dates, C!Date
<1>7. DayNo(C!Date(z, k, d)) = FirstDay(y, m) + (d - 1)
  BY <1>3, <1>4, <1>5 DEF DayNo, C!Date
<1>. QED BY <1>6, <1>7 DEF z, k

\* There is such a function.
LEMMA CarryIs ==
  ASSUME C!CalendarAssumption, NEW y \in Nat
  PROVE  \E f : Carries(y, f)
<1>. DEFINE Long(p) == C!_month_length(p[1] % 12, y + p[1] \div 12)
            On(m, d) == CHOOSE x : Real(x) /\ DayNo(x) = FirstDay(y, m) + (d - 1)
            Val(p) == IF p[2] = 0 THEN C!Date(y + p[1] \div 12, p[1] % 12, 0) ELSE On(p[1], p[2])
            f == [p \in Nat \X Nat |-> Val(p)]
<1>1. ASSUME NEW p \in Nat \X Nat
      PROVE  Val(p) = IF p[2] <= Long(p) THEN C!Date(y + p[1] \div 12, p[1] % 12, p[2])
                      ELSE f[<<p[1] + 1, p[2] - Long(p)>>]
  <2>1. p[1] \in Nat /\ p[2] \in Nat
    OBVIOUS
  <2>2. Long(p) \in 28..31
    <3>1. p[1] % 12 \in Months /\ y + p[1] \div 12 \in Nat
      BY <2>1, NextMonth
    <3>. QED BY <3>1, Lengths
  <2>3. CASE p[2] = 0
    BY <2>2, <2>3
  <2>4. CASE p[2] \in 1..Long(p)
    <3>. DEFINE x == C!Date(y + p[1] \div 12, p[1] % 12, p[2])
    <3>1. Real(x) /\ DayNo(x) = FirstDay(y, p[1]) + (p[2] - 1)
      BY <2>1, <2>4, DayOfMonth
    <3>. HIDE DEF x
    <3>2. \A z : Real(z) /\ DayNo(z) = FirstDay(y, p[1]) + (p[2] - 1) => z = x
      BY <3>1, OneDate
    <3>3. On(p[1], p[2]) = x
      BY <3>1, <3>2
    <3>4. p[2] # 0 /\ p[2] <= Long(p)
      BY <2>2, <2>4
    <3>. HIDE DEF On, Long
    <3>. QED BY <3>3, <3>4 DEF x
  <2>5. CASE p[2] > Long(p)
    <3>. DEFINE r == <<p[1] + 1, p[2] - Long(p)>>
    <3>1. r \in Nat \X Nat /\ r[2] # 0 /\ p[2] # 0
      BY <2>1, <2>2, <2>5
    <3>2. r[1] = p[1] + 1 /\ r[2] = p[2] - Long(p)
      OBVIOUS
    <3>3. FirstDay(y, p[1] + 1) + (r[2] - 1) = FirstDay(y, p[1]) + (p[2] - 1)
      <4>1. FirstDay(y, p[1]) \in Int /\ FirstDay(y, p[1] + 1) = FirstDay(y, p[1]) + Long(p)
        BY <2>1, NextMonth
      <4>. HIDE DEF Long
      <4>. QED BY <2>1, <2>2, <3>2, <4>1
    <3>4. On(r[1], r[2]) = On(p[1], p[2])
      BY <3>2, <3>3
    <3>. HIDE DEF On, Long
    <3>5. f[r] = On(r[1], r[2])
      <4>. HIDE DEF r
      <4>. QED BY <3>1
    <3>6. Val(p) = On(p[1], p[2])
      BY <3>1
    <3>7. ~(p[2] <= Long(p))
      BY <2>1, <2>2, <2>5
    <3>. QED BY <3>4, <3>5, <3>6, <3>7
  <2>. HIDE DEF Long
  <2>. QED BY <2>1, <2>2, <2>3, <2>4, <2>5
<1>2. f = [p \in Nat \X Nat |-> IF p[2] <= Long(p) THEN C!Date(y + p[1] \div 12, p[1] % 12, p[2])
                                ELSE f[<<p[1] + 1, p[2] - Long(p)>>]]
  <2>. DEFINE Rest(p) == IF p[2] <= Long(p) THEN C!Date(y + p[1] \div 12, p[1] % 12, p[2])
                         ELSE f[<<p[1] + 1, p[2] - Long(p)>>]
  <2>1. \A p \in Nat \X Nat : Val(p) = Rest(p)
    BY <1>1
  <2>. HIDE DEF Val, Rest
  <2>2. [p \in Nat \X Nat |-> Val(p)] = [p \in Nat \X Nat |-> Rest(p)]
    BY <2>1
  <2>. QED BY <2>2 DEF Rest
<1>3. Carries(y, f)
  BY <1>2 DEF Carries
<1>. QED BY <1>3

\* Days that exceed a month come out as the date they lead to.
LEMMA OverflowIs ==
  ASSUME C!CalendarAssumption, NEW y \in Nat, NEW m \in Nat, NEW d \in Nat \ {0},
         NEW e, Real(e), DayNo(e) = FirstDay(y, m) + (d - 1)
  PROVE  C!Overflow(y, m, d) = e
<1>. DEFINE f == CHOOSE g : Carries(y, g)
<1>1. Carries(y, f)
  BY CarryIs
<1>2. C!Overflow(y, m, d) = f[<<m, d>>]
  BY DEF C!Overflow, Carries
<1>. HIDE DEF f
<1>. DEFINE Long(k) == C!_month_length(k % 12, y + k \div 12)
            D == {n \in Nat : \A k, a \in Nat : a # 0 /\ a <= n /\ DayNo(e) = FirstDay(y, k) + (a - 1)
                                               => f[<<k, a>>] = e}
<1>3. 0 \in D
  OBVIOUS
<1>4. ASSUME NEW n \in D PROVE n + 1 \in D
  <2>1. ASSUME NEW k \in Nat, NEW a \in Nat, a # 0, a <= n + 1,
               DayNo(e) = FirstDay(y, k) + (a - 1)
        PROVE  f[<<k, a>>] = e
    <3>1. f[<<k, a>>] = IF a <= Long(k) THEN C!Date(y + k \div 12, k % 12, a)
                        ELSE f[<<k + 1, a - Long(k)>>]
      <4>. DEFINE p == <<k, a>>
      <4>1. p \in Nat \X Nat /\ p[1] = k /\ p[2] = a
        OBVIOUS
      <4>. HIDE DEF p
      <4>2. f[p] = LET mm == p[1] % 12
                       yy == y + p[1] \div 12
                       len == C!_month_length(mm, yy)
                   IN IF p[2] <= len THEN C!Date(yy, mm, p[2]) ELSE f[<<p[1] + 1, p[2] - len>>]
        BY <1>1, <4>1 DEF Carries
      <4>. QED BY <4>1, <4>2 DEF p
    <3>2. /\ Long(k) \in 28..31 /\ FirstDay(y, k) \in Int
          /\ FirstDay(y, k + 1) = FirstDay(y, k) + Long(k)
      <4>1. k % 12 \in Months /\ y + k \div 12 \in Nat
        BY NextMonth
      <4>2. Long(k) \in 28..31
        BY <4>1, Lengths
      <4>. QED BY <4>2, NextMonth
    <3>3. CASE a <= Long(k)
      <4>. DEFINE x == C!Date(y + k \div 12, k % 12, a)
      <4>1. a \in 1..Long(k)
        BY <2>1, <3>2, <3>3
      <4>2. Real(x) /\ DayNo(x) = FirstDay(y, k) + (a - 1)
        BY <4>1, DayOfMonth
      <4>. HIDE DEF x
      <4>3. x = e
        BY <2>1, <4>2, OneDate
      <4>. QED BY <3>1, <3>3, <4>3 DEF x
    <3>4. CASE a > Long(k)
      <4>. DEFINE b == a - Long(k)
      <4>. HIDE DEF Long
      <4>1. b \in Nat /\ b # 0 /\ b <= n
        BY <2>1, <3>2, <3>4
      <4>2. DayNo(e) = FirstDay(y, k + 1) + (b - 1)
        BY <2>1, <3>2
      <4>3. f[<<k + 1, b>>] = e
        <5>. HIDE DEF b
        <5>. QED BY <4>1, <4>2
      <4>4. ~(a <= Long(k))
        BY <3>2, <3>4
      <4>. QED BY <3>1, <4>3, <4>4
    <3>. HIDE DEF Long
    <3>. QED BY <3>2, <3>3, <3>4
  <2>. QED BY <2>1
<1>5. D = Nat
  <2>. HIDE DEF D
  <2>1. D \in SUBSET Nat
    BY DEF D
  <2>. QED BY <1>3, <1>4, <2>1, Numbers
<1>6. d \in D
  BY <1>5
<1>. QED BY <1>2, <1>6

-----------------------------------------------------------------------------
(* Times of the day, in seconds and apart.                                 *)

Hours == 0..(HourPerDay - 1)
Minutes == 0..(MinPerHour - 1)
Seconds == 0..(SecPerMin - 1)

LEMMA Units ==
  ASSUME C!CalendarAssumption
  PROVE  /\ SecPerMin \in Nat \ {0, 1} /\ MinPerHour \in Nat \ {0, 1} /\ HourPerDay \in Nat \ {0, 1}
         /\ C!Hour \in Nat /\ C!Day \in Nat /\ C!Hour > 0 /\ C!Day > 0
         /\ W \in Nat /\ EpochYear \in Nat \ {0} /\ MaxDays \in Nat
<1>1. /\ SecPerMin \in Nat \ {0, 1} /\ MinPerHour \in Nat \ {0, 1} /\ HourPerDay \in Nat \ {0, 1}
      /\ W \in Nat /\ EpochYear \in Nat \ {0} /\ MaxDays \in Nat
  BY DEF C!CalendarAssumption
<1>2. C!Hour \in Nat /\ C!Hour > 0
  BY <1>1 DEF C!Hour
<1>3. C!Day \in Nat /\ C!Day > 0
  BY <1>1, <1>2 DEF C!Day
<1>. QED BY <1>1, <1>2, <1>3

LEMMA InDay ==
  ASSUME C!CalendarAssumption, NEW h \in Hours, NEW mi \in Minutes, NEW se \in Seconds
  PROVE  h * C!Hour + mi * SecPerMin + se \in 0..(C!Day - 1)
<1>1. mi * SecPerMin + se \in 0..(C!Hour - 1)
  <2>1. mi * SecPerMin + SecPerMin <= MinPerHour * SecPerMin
    <3>1. (MinPerHour - mi) * SecPerMin >= SecPerMin
      <4>. DEFINE k == MinPerHour - mi
      <4>1. k \in Nat /\ k >= 1
        BY Units DEF Minutes
      <4>. HIDE DEF k
      <4>2. k * SecPerMin = (k - 1) * SecPerMin + SecPerMin /\ (k - 1) * SecPerMin \in Nat
        BY <4>1, Units
      <4>3. k * SecPerMin >= SecPerMin
        BY <4>1, <4>2, Units
      <4>. QED BY <4>3 DEF k
    <3>2. (MinPerHour - mi) * SecPerMin = MinPerHour * SecPerMin - mi * SecPerMin
      BY Units DEF Minutes
    <3>3. MinPerHour * SecPerMin \in Nat /\ mi * SecPerMin \in Nat
      BY Units DEF Minutes
    <3>. QED BY <3>1, <3>2, <3>3, Units
  <2>2. MinPerHour * SecPerMin = C!Hour
    BY Units DEF C!Hour
  <2>3. mi * SecPerMin \in Nat /\ se \in Nat /\ se < SecPerMin
    BY Units DEF Minutes, Seconds
  <2>. QED BY <2>1, <2>2, <2>3, Units
<1>2. h * C!Hour + C!Hour <= C!Day
  <2>1. (HourPerDay - h) * C!Hour >= C!Hour
    <3>. DEFINE k == HourPerDay - h
    <3>1. k \in Nat /\ k >= 1
      BY Units DEF Hours
    <3>. HIDE DEF k
    <3>2. k * C!Hour = (k - 1) * C!Hour + C!Hour /\ (k - 1) * C!Hour \in Nat
      BY <3>1, Units
    <3>3. k * C!Hour >= C!Hour
      BY <3>1, <3>2, Units
    <3>. QED BY <3>3 DEF k
  <2>2. (HourPerDay - h) * C!Hour = HourPerDay * C!Hour - h * C!Hour
    BY Units DEF Hours
  <2>3. HourPerDay * C!Hour \in Nat /\ h * C!Hour \in Nat /\ HourPerDay * C!Hour = C!Day
    BY Units DEF Hours, C!Day
  <2>. QED BY <2>1, <2>2, <2>3, Units
<1>3. h * C!Hour \in Nat
  BY Units DEF Hours
<1>. DEFINE a == h * C!Hour
            b == mi * SecPerMin
<1>4. b \in Int /\ se \in Int
  BY Units DEF Minutes, Seconds
<1>. HIDE DEF a, b
<1>5. a + b + se \in 0..(C!Day - 1)
  BY <1>1, <1>2, <1>3, <1>4, Units DEF a, b
<1>. QED BY <1>5 DEF a, b

LEMMA Split ==
  ASSUME C!CalendarAssumption, NEW q \in Nat, NEW h \in Hours, NEW mi \in Minutes, NEW se \in Seconds
  PROVE  /\ q * HourPerDay + h \in Nat
         /\ q * C!Day + (h * C!Hour + mi * SecPerMin + se)
              = ((q * HourPerDay + h) * MinPerHour + mi) * SecPerMin + se
<1>1. /\ SecPerMin \in Nat /\ MinPerHour \in Nat /\ HourPerDay \in Nat
      /\ h \in Nat /\ mi \in Nat /\ se \in Nat
  BY Units DEF Hours, Minutes, Seconds
<1>2. (q * HourPerDay + h) * MinPerHour = q * (HourPerDay * MinPerHour) + h * MinPerHour
  BY <1>1
<1>3. ((q * HourPerDay + h) * MinPerHour + mi) * SecPerMin
        = (q * (HourPerDay * MinPerHour)) * SecPerMin + (h * MinPerHour) * SecPerMin + mi * SecPerMin
  BY <1>1, <1>2
<1>4. (q * (HourPerDay * MinPerHour)) * SecPerMin = q * C!Day /\ (h * MinPerHour) * SecPerMin = h * C!Hour
  BY <1>1 DEF C!Day, C!Hour
<1>5. q * C!Day \in Nat /\ h * C!Hour \in Nat /\ mi * SecPerMin \in Nat /\ q * HourPerDay \in Nat
  BY <1>1, Units
<1>. QED BY <1>1, <1>3, <1>4, <1>5

\* rtc_tm_normalize, of a date and a number of hours and of seconds.
LEMMA Normalized ==
  ASSUME C!CalendarAssumption, NEW y \in Nat, NEW m \in Months, NEW d \in Nat, NEW ho \in Nat,
         NEW n \in Nat, NEW q \in Nat, NEW h \in Hours, NEW mi \in Minutes, NEW se \in Seconds,
         ho + n = q * HourPerDay + h
  PROVE  C!rtc_tm_normalize(C!Tm(C!Date(y, m, d), ho, 0, (n * MinPerHour + mi) * SecPerMin + se))
           = C!Tm(C!Overflow(y, m, (IF d = 0 THEN 1 ELSE d) + q), h, mi, se)
<1>. DEFINE s == (n * MinPerHour + mi) * SecPerMin + se
            t == C!Tm(C!Date(y, m, d), ho, 0, s)
            e == IF d = 0 THEN 1 ELSE d
<1>1. t.year = y /\ t.mon = m /\ t.mday = d /\ t.hour = ho /\ t.min = 0 /\ t.sec = s
  BY DEF C!Tm, C!Date
<1>2. n * MinPerHour + mi \in Nat /\ C!Quot(n * MinPerHour + mi, MinPerHour) = n
      /\ C!Rem(n * MinPerHour + mi, MinPerHour) = mi
  BY Parted, Units DEF Minutes
<1>3. s \in Nat /\ C!Quot(s, SecPerMin) = n * MinPerHour + mi /\ C!Rem(s, SecPerMin) = se
  <2>. DEFINE a == n * MinPerHour + mi
  <2>1. a \in Nat /\ SecPerMin \in Nat \ {0} /\ se \in 0..(SecPerMin - 1)
    BY <1>2, Units DEF Seconds
  <2>. HIDE DEF a
  <2>2. a * SecPerMin + se \in Nat /\ C!Quot(a * SecPerMin + se, SecPerMin) = a
        /\ C!Rem(a * SecPerMin + se, SecPerMin) = se
    BY <2>1, Parted
  <2>. QED BY <2>2 DEF a
<1>4. C!Quot(ho + n, HourPerDay) = q /\ C!Rem(ho + n, HourPerDay) = h
  <2>1. C!Quot(q * HourPerDay + h, HourPerDay) = q /\ C!Rem(q * HourPerDay + h, HourPerDay) = h
    BY Parted, Units DEF Hours
  <2>. QED BY <2>1
<1>5. C!Quot(m, 12) = 0 /\ C!Rem(m, 12) = m
  BY DEF C!Quot, C!Rem, Months
<1>. HIDE DEF s, t, e
<1>6. C!rtc_tm_normalize(t) = C!Tm(C!Overflow(y + 0, m, e + q), h, mi, se)
  <2>1. t.min + C!Quot(t.sec, SecPerMin) = n * MinPerHour + mi
    BY <1>1, <1>2, <1>3
  <2>2. t.hour + C!Quot(n * MinPerHour + mi, MinPerHour) = ho + n
    BY <1>1, <1>2
  <2>. QED BY <1>1, <1>2, <1>3, <1>4, <1>5, <2>1, <2>2 DEF C!rtc_tm_normalize, e
<1>7. y + 0 = y
  OBVIOUS
<1>. QED BY <1>6, <1>7 DEF s, t, e

\* Seconds that exceed a day come out as the time of the day that they lead to.
LEMMA SecondsCarried ==
  ASSUME C!CalendarAssumption, NEW y \in Nat, NEW m \in Months, NEW d \in Nat,
         NEW q \in Nat, NEW h \in Hours, NEW mi \in Minutes, NEW se \in Seconds
  PROVE  C!rtc_tm_normalize(C!Tm(C!Date(y, m, d), 0, 0, q * C!Day + (h * C!Hour + mi * SecPerMin + se)))
           = C!Tm(C!Overflow(y, m, (IF d = 0 THEN 1 ELSE d) + q), h, mi, se)
<1>. DEFINE n == q * HourPerDay + h
<1>1. n \in Nat /\ 0 + n = q * HourPerDay + h /\ 0 \in Nat
  BY Split
<1>2. q * C!Day + (h * C!Hour + mi * SecPerMin + se) = (n * MinPerHour + mi) * SecPerMin + se
  BY Split
<1>. HIDE DEF n
<1>. QED BY <1>1, <1>2, Normalized

-----------------------------------------------------------------------------
(* The loop of rtc_localtime.                                              *)

YearSecs(y) == (365 + C!_is_leap_year(y)) * C!Day

Downs(g) ==
  g = [p \in Nat \X Nat |->
        LET secs == (365 + C!_is_leap_year(p[2])) * C!Day
        IN IF p[1] > secs THEN g[<<p[1] - secs, p[2] + 1>>]
           ELSE C!rtc_tm_normalize(C!Tm(C!Date(p[2], 0, 0), 0, 0, p[1]))]

LEMMA YearLengths ==
  ASSUME C!CalendarAssumption, NEW y \in Nat
  PROVE  /\ YearSecs(y) \in Nat /\ YearSecs(y) > 0
         /\ Since(y) * C!Day \in Int
         /\ Since(y + 1) * C!Day = Since(y) * C!Day + YearSecs(y)
<1>. DEFINE k == 365 + C!_is_leap_year(y)
<1>1. k \in Nat /\ k > 0 /\ Since(y) \in Int /\ Since(y + 1) = Since(y) + k
  BY Years
<1>. HIDE DEF k
<1>2. (Since(y) + k) * C!Day = Since(y) * C!Day + k * C!Day
  BY <1>1, Units
<1>3. k * C!Day \in Nat /\ k * C!Day > 0 /\ Since(y) * C!Day \in Int
  BY <1>1, Units
<1>. QED BY <1>1, <1>2, <1>3 DEF YearSecs, k

LEMMA YearOrder ==
  ASSUME C!CalendarAssumption, NEW y \in Nat, NEW z \in Nat, y < z
  PROVE  Since(y) * C!Day + YearSecs(y) <= Since(z) * C!Day
<1>. DEFINE a == Since(y + 1)
            k == Since(z) - Since(y + 1)
<1>1. a \in Int /\ k \in Nat /\ Since(z) = a + k
  BY Years, YearsGrow
<1>. HIDE DEF a, k
<1>2. (a + k) * C!Day = a * C!Day + k * C!Day /\ k * C!Day \in Nat /\ a * C!Day \in Int
  BY <1>1, Units
<1>3. a * C!Day = Since(y) * C!Day + YearSecs(y)
  BY YearLengths DEF a
<1>. QED BY <1>1, <1>2, <1>3

LEMMA DownIs ==
  ASSUME C!CalendarAssumption
  PROVE  \E g : Downs(g)
<1>. DEFINE New(y, s) == C!rtc_tm_normalize(C!Tm(C!Date(y, 0, 0), 0, 0, s))
            In(x, y) == y \in Nat /\ x - Since(y) * C!Day \in 1..YearSecs(y)
            At(x) == New(CHOOSE y : In(x, y), x - Since(CHOOSE y : In(x, y)) * C!Day)
            Val(p) == IF p[1] = 0 THEN New(p[2], 0) ELSE At(Since(p[2]) * C!Day + p[1])
            g == [p \in Nat \X Nat |-> Val(p)]
            Rest(p) == IF p[1] > YearSecs(p[2]) THEN g[<<p[1] - YearSecs(p[2]), p[2] + 1>>]
                       ELSE New(p[2], p[1])
<1>1. \A x \in Int, y, z \in Nat : In(x, y) /\ In(x, z) => y = z
  <2>1. ASSUME NEW x \in Int, NEW y \in Nat, NEW z \in Nat, In(x, y), In(x, z), y < z PROVE FALSE
    <3>1. Since(y) * C!Day + YearSecs(y) <= Since(z) * C!Day
      BY <2>1, YearOrder
    <3>2. Since(y) * C!Day \in Int /\ Since(z) * C!Day \in Int /\ YearSecs(y) \in Nat /\ YearSecs(z) \in Nat
      BY YearLengths
    <3>3. x <= Since(y) * C!Day + YearSecs(y) /\ x > Since(z) * C!Day
      BY <2>1, <3>2
    <3>. QED BY <3>1, <3>2, <3>3
  <2>. HIDE DEF In
  <2>2. ASSUME NEW x \in Int, NEW y \in Nat, NEW z \in Nat, In(x, y), In(x, z) PROVE y = z
    <3>1. ~(y < z) /\ ~(z < y)
      BY <2>1, <2>2
    <3>. QED BY <3>1
  <2>. QED BY <2>2
<1>2. ASSUME NEW p \in Nat \X Nat PROVE Val(p) = Rest(p)
  <2>. DEFINE s == p[1]
              y == p[2]
              x == Since(y) * C!Day + s
  <2>1. s \in Nat /\ y \in Nat
    OBVIOUS
  <2>2. /\ Since(y) * C!Day \in Int /\ YearSecs(y) \in Nat /\ YearSecs(y) > 0
        /\ Since(y + 1) * C!Day = Since(y) * C!Day + YearSecs(y)
    BY <2>1, YearLengths
  <2>3. CASE s = 0
    BY <2>2, <2>3
  <2>4. CASE s \in 1..YearSecs(y)
    <3>1. x \in Int /\ x - Since(y) * C!Day = s
      BY <2>1, <2>2
    <3>2. In(x, y)
      BY <2>1, <2>4, <3>1
    <3>3. \A z : In(x, z) => z = y
      <4>1. \A z : In(x, z) => z \in Nat
        OBVIOUS
      <4>. HIDE DEF In, x, y
      <4>. QED BY <1>1, <2>1, <3>1, <3>2, <4>1
    <3>4. (CHOOSE z : In(x, z)) = y
      <4>. HIDE DEF In, x, y
      <4>. QED BY <3>2, <3>3
    <3>5. At(x) = New(y, s)
      BY <3>1, <3>4
    <3>6. s # 0 /\ ~(s > YearSecs(y))
      BY <2>2, <2>4
    <3>. HIDE DEF At, New
    <3>. QED BY <3>5, <3>6
  <2>5. CASE s > YearSecs(y)
    <3>. DEFINE r == <<s - YearSecs(y), y + 1>>
    <3>1. r \in Nat \X Nat /\ r[1] # 0 /\ s # 0
      BY <2>1, <2>2, <2>5
    <3>2. r[1] = s - YearSecs(y) /\ r[2] = y + 1
      OBVIOUS
    <3>3. Since(r[2]) * C!Day + r[1] = x
      BY <2>1, <2>2, <3>2
    <3>. HIDE DEF At, New
    <3>4. g[r] = At(Since(r[2]) * C!Day + r[1])
      <4>. HIDE DEF r
      <4>. QED BY <3>1
    <3>5. Val(p) = At(x)
      BY <3>1
    <3>. QED BY <2>5, <3>3, <3>4, <3>5
  <2>. HIDE DEF Val, Rest
  <2>. QED BY <2>1, <2>2, <2>3, <2>4, <2>5
<1>3. [p \in Nat \X Nat |-> Val(p)] = [p \in Nat \X Nat |-> Rest(p)]
  <2>. HIDE DEF Val, Rest
  <2>. QED BY <1>2
<1>4. g = [p \in Nat \X Nat |->
             LET secs == (365 + C!_is_leap_year(p[2])) * C!Day
             IN IF p[1] > secs THEN g[<<p[1] - secs, p[2] + 1>>]
                ELSE C!rtc_tm_normalize(C!Tm(C!Date(p[2], 0, 0), 0, 0, p[1]))]
  <2>1. g = [p \in Nat \X Nat |-> Rest(p)]
    BY <1>3
  <2>. HIDE DEF g
  <2>. QED BY <2>1 DEF YearSecs
<1>5. Downs(g)
  <2>. HIDE DEF g
  <2>. QED BY <1>4 DEF Downs
<1>. QED BY <1>5

LEMMA LocalIs ==
  ASSUME C!CalendarAssumption, NEW e, Real(e), NEW h \in Hours, NEW mi \in Minutes, NEW se \in Seconds,
         NEW time \in Nat, time = DayNo(e) * C!Day + (h * C!Hour + mi * SecPerMin + se)
  PROVE  C!rtc_localtime(time) = C!Tm(e, h, mi, se)
<1>. DEFINE g == CHOOSE x : Downs(x)
            x == h * C!Hour + mi * SecPerMin + se
            c == DayNo(e)
            D == {n \in Nat : \A s, y \in Nat : s <= n /\ Since(y) * C!Day + s = c * C!Day + x
                                               => g[<<s, y>>] = C!Tm(e, h, mi, se)}
<1>1. Downs(g)
  BY DownIs
<1>2. C!rtc_localtime(time) = g[<<time, EpochYear>>]
  BY DEF C!rtc_localtime, Downs
<1>3. x \in 0..(C!Day - 1) /\ c \in Int
  BY InDay, InYear
<1>. HIDE DEF g, c
<1>4. ASSUME NEW s \in Nat, NEW y \in Nat, Since(y) * C!Day + s = c * C!Day + x, s <= YearSecs(y)
      PROVE  g[<<s, y>>] = C!Tm(e, h, mi, se)
  <2>. DEFINE q == c - Since(y)
  <2>1. Since(y) \in Int /\ q \in Int /\ YearSecs(y) \in Nat
    BY <1>3, Years, YearLengths
  <2>2. s = q * C!Day + x
    <3>1. q * C!Day = c * C!Day - Since(y) * C!Day /\ c * C!Day \in Int /\ Since(y) * C!Day \in Int
      BY <1>3, <2>1, Units
    <3>. HIDE DEF x, q
    <3>. QED BY <1>3, <1>4, <3>1
  <2>3. q \in Nat
    <3>1. SUFFICES ASSUME q < 0 PROVE FALSE
      BY <2>1
    <3>. DEFINE k == (-q) - 1
    <3>2. k \in Nat /\ q = (-1) - k
      BY <2>1, <3>1
    <3>. HIDE DEF x, q, k
    <3>3. q * C!Day = (-1) * C!Day - k * C!Day /\ k * C!Day \in Nat
      BY <3>2, Units
    <3>. QED BY <1>3, <2>2, <3>3, Units
  <2>4. g[<<s, y>>] = C!rtc_tm_normalize(C!Tm(C!Date(y, 0, 0), 0, 0, s))
    <3>. DEFINE p == <<s, y>>
    <3>1. p \in Nat \X Nat /\ p[1] = s /\ p[2] = y
      OBVIOUS
    <3>. HIDE DEF p
    <3>2. g[p] = IF p[1] > YearSecs(p[2]) THEN g[<<p[1] - YearSecs(p[2]), p[2] + 1>>]
                 ELSE C!rtc_tm_normalize(C!Tm(C!Date(p[2], 0, 0), 0, 0, p[1]))
      BY <1>1, <3>1 DEF Downs, YearSecs
    <3>3. ~(s > YearSecs(y))
      BY <1>4, <2>1
    <3>. QED BY <3>1, <3>2, <3>3 DEF p
  <2>. HIDE DEF q
  <2>5. 0 \in Months /\ 0 \in Nat /\ 1 + q \in Nat \ {0}
    BY <2>3 DEF Months
  <2>6. C!rtc_tm_normalize(C!Tm(C!Date(y, 0, 0), 0, 0, q * C!Day + x))
          = C!Tm(C!Overflow(y, 0, 1 + q), h, mi, se)
    BY <2>3, <2>5, SecondsCarried
  <2>7. FirstDay(y, 0) = Since(y)
    <3>1. y + 0 \div 12 = y /\ 0 % 12 = 0 /\ C!_yday(1, 0, y) = 0
      BY <2>5, Lengths
    <3>2. DayNo(C!Date(y, 0, 1)) = Since(y) + (C!_yday(1, 0, y) + 0)
      BY DEF DayNo, C!Date
    <3>. QED BY <2>1, <3>1, <3>2 DEF FirstDay
  <2>8. C!Overflow(y, 0, 1 + q) = e
    <3>1. DayNo(e) = FirstDay(y, 0) + ((1 + q) - 1)
      <4>1. c = Since(y) + ((1 + q) - 1)
        BY <1>3, <2>1 DEF q
      <4>. QED BY <2>7, <4>1 DEF c
    <3>. QED BY <2>5, <3>1, OverflowIs
  <2>. QED BY <2>2, <2>4, <2>6, <2>8
<1>. HIDE DEF x
<1>5. ASSUME NEW s \in Nat, NEW y \in Nat, Since(y) * C!Day + s = c * C!Day + x, s > YearSecs(y)
      PROVE  /\ s - YearSecs(y) \in Nat /\ s - YearSecs(y) < s
             /\ Since(y + 1) * C!Day + (s - YearSecs(y)) = c * C!Day + x
             /\ g[<<s, y>>] = g[<<s - YearSecs(y), y + 1>>]
  <2>1. /\ Since(y) * C!Day \in Int /\ YearSecs(y) \in Nat /\ YearSecs(y) > 0
        /\ Since(y + 1) * C!Day = Since(y) * C!Day + YearSecs(y)
    BY YearLengths
  <2>2. g[<<s, y>>] = g[<<s - YearSecs(y), y + 1>>]
    <3>. DEFINE p == <<s, y>>
    <3>1. p \in Nat \X Nat /\ p[1] = s /\ p[2] = y
      OBVIOUS
    <3>. HIDE DEF p
    <3>2. g[p] = IF p[1] > YearSecs(p[2]) THEN g[<<p[1] - YearSecs(p[2]), p[2] + 1>>]
                 ELSE C!rtc_tm_normalize(C!Tm(C!Date(p[2], 0, 0), 0, 0, p[1]))
      BY <1>1, <3>1 DEF Downs, YearSecs
    <3>. QED BY <1>5, <3>1, <3>2 DEF p
  <2>3. s - YearSecs(y) \in Nat /\ s - YearSecs(y) < s
    BY <1>5, <2>1
  <2>4. c * C!Day + x \in Int
    BY <1>3, Units
  <2>5. Since(y + 1) * C!Day + (s - YearSecs(y)) = c * C!Day + x
    BY <1>5, <2>1, <2>4
  <2>. QED BY <2>2, <2>3, <2>5
<1>6. 0 \in D
  <2>1. ASSUME NEW s \in Nat, NEW y \in Nat, s <= 0, Since(y) * C!Day + s = c * C!Day + x
        PROVE  g[<<s, y>>] = C!Tm(e, h, mi, se)
    <3>1. s <= YearSecs(y)
      BY <2>1, YearLengths
    <3>. QED BY <1>4, <2>1, <3>1
  <2>. QED BY <2>1
<1>7. ASSUME NEW n \in D PROVE n + 1 \in D
  <2>1. ASSUME NEW s \in Nat, NEW y \in Nat, s <= n + 1, Since(y) * C!Day + s = c * C!Day + x
        PROVE  g[<<s, y>>] = C!Tm(e, h, mi, se)
    <3>1. CASE s <= YearSecs(y)
      BY <1>4, <2>1, <3>1
    <3>2. CASE s > YearSecs(y)
      <4>. DEFINE r == s - YearSecs(y)
      <4>1. /\ r \in Nat /\ r < s /\ Since(y + 1) * C!Day + r = c * C!Day + x
            /\ g[<<s, y>>] = g[<<r, y + 1>>]
        BY <1>5, <2>1, <3>2
      <4>2. r <= n /\ y + 1 \in Nat
        <5>. HIDE DEF r
        <5>. QED BY <2>1, <4>1
      <4>3. g[<<r, y + 1>>] = C!Tm(e, h, mi, se)
        <5>. HIDE DEF r
        <5>. QED BY <4>1, <4>2
      <4>. QED BY <4>1, <4>3
    <3>3. YearSecs(y) \in Nat
      BY YearLengths
    <3>. QED BY <3>1, <3>2, <3>3
  <2>. QED BY <2>1
<1>8. D = Nat
  <2>. HIDE DEF D
  <2>1. D \in SUBSET Nat
    BY DEF D
  <2>. QED BY <1>6, <1>7, <2>1, Numbers
<1>9. Since(EpochYear) * C!Day + time = c * C!Day + x
  <2>1. Since(EpochYear) = 0 /\ 0 * C!Day = 0 /\ EpochYear \in Nat
    BY Years, Units
  <2>2. c * C!Day + x \in Int
    BY <1>3, Units
  <2>. QED BY <2>1, <2>2 DEF c, x
<1>10. time \in D /\ EpochYear \in Nat
  BY <1>8, Units
<1>. QED BY <1>2, <1>9, <1>10

-----------------------------------------------------------------------------
(* What the functions give for a date.                                     *)

\* rtc_mktime, while the seconds fit its width.
LEMMA Mktime ==
  ASSUME C!CalendarAssumption, NEW d, Real(d), d.year >= EpochYear,
         NEW h \in Hours, NEW mi \in Minutes, NEW se \in Seconds, (DayNo(d) + 1) * C!Day <= W
  PROVE  /\ DayNo(d) \in Nat
         /\ DayNo(d) * C!Day + (h * C!Hour + mi * SecPerMin + se) \in Nat
         /\ C!rtc_mktime(C!Tm(d, h, mi, se)) = DayNo(d) * C!Day + (h * C!Hour + mi * SecPerMin + se)
<1>. DEFINE t == C!Tm(d, h, mi, se)
            x == h * C!Hour + mi * SecPerMin + se
            leap == C!_leap_years_since_epoch(d.year)
            common == d.year - EpochYear - leap
            n == C!_yday(d.mday, d.mon, d.year)
            u == DayNo(d) * C!Day + x
<1>1. /\ t.year = d.year /\ t.mon = d.mon /\ t.mday = d.mday
      /\ t.hour = h /\ t.min = mi /\ t.sec = se
  BY DEF C!Tm
<1>2. d.year \in Nat /\ d.mon \in Months /\ d.mday \in Nat /\ d.mday >= 1
  BY DEF Real, Dates
<1>3. leap = C!_leap_years_before(d.year) - C!_leap_years_before(EpochYear) /\ leap \in Int
  BY <1>2, Units DEF C!_leap_years_since_epoch, C!_leap_years_before
<1>4. leap * 366 + common * 365 = Since(d.year) /\ leap * 366 + common * 365 \in Int
  <2>1. 365 * (d.year - EpochYear) + leap = Since(d.year)
    BY <1>2, <1>3, Units DEF Since, C!_leap_years_before
  <2>. HIDE DEF leap
  <2>. QED BY <1>2, <1>3, <2>1, Units
<1>5. n \in Int /\ Since(d.year) + n = DayNo(d)
  <2>1. n = C!_yday(1, d.mon, d.year) + d.mday - 1 /\ C!_yday(1, d.mon, d.year) \in 0..335
    BY <1>2, DayOfYear
  <2>2. Since(d.year) \in Int
    BY <1>2, Years
  <2>. HIDE DEF n
  <2>. QED BY <1>2, <2>1, <2>2 DEF DayNo
<1>6. DayNo(d) \in Nat
  <2>1. Since(EpochYear) = 0 /\ Since(d.year) \in Int /\ Since(d.year) <= DayNo(d) /\ DayNo(d) \in Int
    BY <1>2, Years, InYear, Units
  <2>2. d.year # EpochYear => EpochYear < d.year
    BY <1>2, Units
  <2>3. EpochYear < d.year => 0 <= Since(d.year)
    <3>1. /\ Since(EpochYear + 1) \in Int
          /\ Since(EpochYear + 1) = Since(EpochYear) + (365 + C!_is_leap_year(EpochYear))
          /\ C!_is_leap_year(EpochYear) \in {0, 1}
      BY Years, Units
    <3>2. EpochYear < d.year => Since(EpochYear + 1) <= Since(d.year)
      BY <1>2, YearsGrow, Units
    <3>. QED BY <2>1, <3>1, <3>2
  <2>. QED BY <2>1, <2>2, <2>3
<1>7. x \in 0..(C!Day - 1)
  BY InDay
<1>8. u \in Nat /\ u < W
  <2>. HIDE DEF x
  <2>1. (DayNo(d) + 1) * C!Day = DayNo(d) * C!Day + C!Day /\ DayNo(d) * C!Day \in Nat
    BY <1>6, Units
  <2>. QED BY <1>7, <2>1, Units
<1>9. h * C!Hour \in Int /\ mi * SecPerMin \in Int /\ h \in Int /\ mi \in Int /\ se \in Int
  BY Units DEF Hours, Minutes, Seconds
<1>10. n * C!Day + (leap * 366 + common * 365) * C!Day = DayNo(d) * C!Day
  <2>1. (Since(d.year) + n) * C!Day = Since(d.year) * C!Day + n * C!Day
    BY <1>4, <1>5, Units
  <2>2. Since(d.year) * C!Day \in Int /\ n * C!Day \in Int
    BY <1>4, <1>5, Units
  <2>. HIDE DEF leap, common, n
  <2>. QED BY <1>4, <1>5, <2>1, <2>2
<1>11. (se + mi * SecPerMin + h * C!Hour + n * C!Day + (leap * 366 + common * 365) * C!Day) = u
  <2>. DEFINE a == h * C!Hour
              b == mi * SecPerMin
              v == n * C!Day
              w == (leap * 366 + common * 365) * C!Day
              z == DayNo(d) * C!Day
  <2>1. a \in Int /\ b \in Int /\ se \in Int /\ v \in Int /\ w \in Int /\ z \in Int /\ v + w = z
    BY <1>4, <1>5, <1>6, <1>9, <1>10, Units
  <2>. HIDE DEF a, b, v, w, z
  <2>2. (se + b + a + v + w) = z + (a + b + se)
    BY <2>1
  <2>. QED BY <2>2 DEF a, b, v, w, z
<1>12. C!rtc_mktime(t) = (t.sec + t.min * SecPerMin + t.hour * C!Hour + C!_yday(t.mday, t.mon, t.year) * C!Day
         + (C!_leap_years_since_epoch(t.year) * 366
             + (t.year - EpochYear - C!_leap_years_since_epoch(t.year)) * 365) * C!Day) % W
  BY DEF C!rtc_mktime
<1>13. C!rtc_mktime(t) = u % W
  <2>. HIDE DEF t, u
  <2>. QED BY <1>1, <1>11, <1>12
<1>14. u % W = u
  <2>. HIDE DEF u
  <2>. QED BY <1>8, Units
<1>. QED BY <1>6, <1>8, <1>13, <1>14

LEMMA WeekdayRange == ASSUME NEW d, Real(d) PROVE C!_wday(d.mday, d.mon, d.year) \in 0..6
<1>. DEFINE Table(k) == <<0, 3, 2, 5, 0, 3, 5, 1, 4, 6, 2, 4>>[k + 1]
            y == IF d.mon < 2 THEN d.year - 1 ELSE d.year
<1>1. d.year \in Nat /\ d.mday \in Nat /\ d.mon \in {0, 1, 2, 3, 4, 5, 6, 7, 8, 9, 10, 11}
  BY DEF Real, Dates, Months
<1>2. \A k \in {0, 1, 2, 3, 4, 5, 6, 7, 8, 9, 10, 11} : Table(k) \in Nat
  OBVIOUS
<1>3. y \in Int
  BY <1>1
<1>4. C!_wday(d.mday, d.mon, d.year) = (y + y \div 4 - y \div 100 + y \div 400 + Table(d.mon) + d.mday) % 7
  BY DEF C!_wday
<1>. HIDE DEF Table, y
<1>. QED BY <1>1, <1>2, <1>3, <1>4

\* The day of the week goes on by one.
LEMMA NextWeekday ==
  ASSUME NEW d, Real(d)
  PROVE  LET e == C!Tomorrow(d)
         IN C!_wday(e.mday, e.mon, e.year) = (C!_wday(d.mday, d.mon, d.year) + 1) % 7
<1>. DEFINE Shift(y) == y + y \div 4 - y \div 100 + y \div 400
            Table(k) == <<0, 3, 2, 5, 0, 3, 5, 1, 4, 6, 2, 4>>[k + 1]
            y == d.year
            m == d.mon
            a == d.mday
<1>1. y \in Nat /\ m \in {0, 1, 2, 3, 4, 5, 6, 7, 8, 9, 10, 11} /\ a \in Nat /\ a \in 1..C!Length(y, m)
  BY DEF Real, Dates, Months
<1>2. \A k \in Nat : Shift(k) \in Int
  OBVIOUS
<1>. DEFINE i == IF C!Leap(y) THEN 1 ELSE 0
<1>3. Shift(y) = Shift(y - 1) + (1 + i) /\ Shift(y - 1) \in Int /\ Shift(y) \in Int /\ i \in {0, 1}
  <2>1. C!_leap_years_before(y + 1) = C!_leap_years_before(y) + i
    BY <1>1, LeapsBefore
  <2>2. Shift(y - 1) = (y - 1) + C!_leap_years_before(y) /\ Shift(y) = y + C!_leap_years_before(y + 1)
    BY <1>1 DEF C!_leap_years_before
  <2>3. C!_leap_years_before(y) \in Int /\ i \in {0, 1}
    BY <1>1 DEF C!_leap_years_before
  <2>. HIDE DEF Shift, i
  <2>. QED BY <1>1, <2>1, <2>2, <2>3
<1>. DEFINE G(k) == Shift(IF k < 2 THEN y - 1 ELSE y) + Table(k)
<1>4. \A k \in 0..11, b \in Nat : C!_wday(b, k, y) = (G(k) + b) % 7
  BY <1>1 DEF C!_wday
<1>5. C!Length(y, 1) = 28 + i /\ C!Length(y, m) \in 28..31
  <2>1. m \in Months
    BY <1>1 DEF Months
  <2>. QED BY <1>1, <2>1, Lengths DEF C!Length
<1>6. \A k \in {0, 2, 3, 4, 5, 6, 7, 8, 9, 10} :
        Table(k + 1) \in Nat /\ (Table(k) + C!Length(y, k)) % 7 = Table(k + 1) % 7
  <2>. DEFINE Good(k) == Table(k + 1) \in Nat /\ (Table(k) + C!Length(y, k)) % 7 = Table(k + 1) % 7
  <2>1. Good(0) /\ Good(2) /\ Good(3)
    BY DEF C!Length
  <2>2. Good(4) /\ Good(5) /\ Good(6) /\ Good(7)
    BY DEF C!Length
  <2>3. Good(8) /\ Good(9) /\ Good(10)
    BY DEF C!Length
  <2>. HIDE DEF Good
  <2>4. \A k \in {0, 2, 3, 4, 5, 6, 7, 8, 9, 10} : Good(k)
    BY <2>1, <2>2, <2>3
  <2>. QED BY <2>4 DEF Good
<1>7. Table(m) \in Nat /\ Table(0) = 0 /\ Table(1) = 3 /\ Table(2) = 2 /\ Table(11) = 4
  <2>1. \A k \in {0, 1, 2, 3, 4, 5, 6, 7, 8, 9, 10, 11} : Table(k) \in Nat
    OBVIOUS
  <2>2. Table(0) = 0 /\ Table(1) = 3 /\ Table(2) = 2 /\ Table(11) = 4
    OBVIOUS
  <2>. HIDE DEF Table
  <2>. QED BY <1>1, <2>1, <2>2
<1>8. G(m) \in Int
  <2>. HIDE DEF Shift, Table
  <2>. QED BY <1>3, <1>7
<1>9. \A u \in Int, v \in Int : (u % 7 = v % 7) => \A z \in Int : (z + u) % 7 = (z + v) % 7
  OBVIOUS
<1>. HIDE DEF Shift, Table, i
<1>10. CASE a < C!Length(y, m)
  <2>1. C!Tomorrow(d) = [year |-> y, mon |-> m, mday |-> a + 1]
    BY <1>10 DEF C!Tomorrow, C!Date
  <2>2. C!_wday(a, m, y) = (G(m) + a) % 7 /\ C!_wday(a + 1, m, y) = (G(m) + (a + 1)) % 7
    BY <1>1, <1>4
  <2>3. (G(m) + (a + 1)) % 7 = (((G(m) + a) % 7) + 1) % 7
    <3>. HIDE DEF G
    <3>. QED BY <1>1, <1>8
  <2>. QED BY <2>1, <2>2, <2>3
<1>11. CASE a = C!Length(y, m) /\ m < 11
  <2>1. C!Tomorrow(d) = [year |-> y, mon |-> m + 1, mday |-> 1]
    BY <1>5, <1>11 DEF C!Tomorrow, C!Date
  <2>2. C!_wday(a, m, y) = (G(m) + a) % 7 /\ C!_wday(1, m + 1, y) = (G(m + 1) + 1) % 7
    BY <1>1, <1>4, <1>11
  <2>3. (G(m) + a) % 7 = G(m + 1) % 7 /\ G(m + 1) \in Int
    <3>1. CASE m = 1
      <4>1. G(m) = Shift(y - 1) + 3 /\ G(m + 1) = Shift(y) + 2 /\ a = 28 + i
        BY <1>5, <1>7, <1>11, <3>1
      <4>2. G(m) + a = G(m + 1) + 28 /\ G(m + 1) \in Int
        BY <1>3, <4>1
      <4>. HIDE DEF G
      <4>. QED BY <4>2
    <3>2. CASE m # 1
      <4>. DEFINE z == Shift(IF m < 2 THEN y - 1 ELSE y)
      <4>1. z \in Int
        BY <1>3
      <4>2. z = Shift(IF m + 1 < 2 THEN y - 1 ELSE y)
        BY <1>1, <3>2
      <4>3. G(m) + a = z + (Table(m) + C!Length(y, m)) /\ G(m + 1) = z + Table(m + 1)
        BY <1>5, <1>7, <1>11, <4>1, <4>2
      <4>4. Table(m + 1) \in Nat /\ (Table(m) + C!Length(y, m)) % 7 = Table(m + 1) % 7
        BY <1>1, <1>6, <1>11, <3>2
      <4>5. Table(m) + C!Length(y, m) \in Int
        BY <1>5, <1>7
      <4>. HIDE DEF G, z
      <4>. QED BY <1>9, <4>1, <4>3, <4>4, <4>5
    <3>. QED BY <3>1, <3>2
  <2>4. (G(m + 1) + 1) % 7 = (((G(m) + a) % 7) + 1) % 7
    <3>. HIDE DEF G
    <3>. QED BY <2>3
  <2>. QED BY <2>1, <2>2, <2>4
<1>12. CASE a = C!Length(y, m) /\ m = 11
  <2>1. C!Tomorrow(d) = [year |-> y + 1, mon |-> 0, mday |-> 1]
    BY <1>5, <1>12 DEF C!Tomorrow, C!Date
  <2>2. C!_wday(a, m, y) = (G(m) + a) % 7
    BY <1>1, <1>4
  <2>3. a = 31 /\ G(m) = Shift(y) + 4
    BY <1>7, <1>12 DEF C!Length
  <2>4. C!_wday(1, 0, y + 1) = (Shift(y) + 1) % 7
    <3>1. (y + 1) - 1 = y
      BY <1>1
    <3>2. C!_wday(1, 0, y + 1) = (Shift((y + 1) - 1) + Table(0) + 1) % 7
      BY DEF C!_wday, Shift, Table
    <3>. QED BY <1>3, <1>7, <3>1, <3>2
  <2>5. (Shift(y) + 1) % 7 = ((((Shift(y) + 4) + 31) % 7) + 1) % 7
    BY <1>3
  <2>. HIDE DEF G
  <2>. QED BY <2>1, <2>2, <2>3, <2>4, <2>5
<1>13. m < 11 \/ m = 11
  BY <1>1
<1>14. a < C!Length(y, m) \/ a = C!Length(y, m)
  BY <1>1, <1>5
<1>. QED BY <1>10, <1>11, <1>12, <1>13, <1>14

-----------------------------------------------------------------------------
(* The walk.                                                               *)

\* Walks begin at dates since the epoch, and uint32_t holds the seconds to their ends.
WalksFit ==
  /\ EpochYear >= 1900
  /\ \A d \in Starts : /\ Real(d) /\ d.year >= EpochYear
                       /\ (DayNo(d) + MaxDays + 1) * C!Day <= W

CalendarInv ==
  /\ start \in Starts /\ days \in 0..MaxDays
  /\ Real(today) /\ today.year >= EpochYear
  /\ DayNo(today) = DayNo(start) + days
  /\ C!Weekdays

LEMMA CalendarInit == C!CalendarAssumption /\ WalksFit /\ C!Init => CalendarInv
<1>. SUFFICES ASSUME C!CalendarAssumption, WalksFit, C!Init PROVE CalendarInv
  OBVIOUS
<1>1. start \in Starts /\ today = start /\ days = 0 /\ Real(start) /\ start.year >= EpochYear
  BY DEF C!Init, WalksFit
<1>2. DayNo(start) \in Int /\ MaxDays \in Nat
  BY <1>1, InYear, Units
<1>3. C!Weekdays
  <2>. DEFINE u == C!_wday(start.mday, start.mon, start.year)
  <2>1. u \in 0..6
    BY <1>1, WeekdayRange
  <2>. HIDE DEF u
  <2>2. u = (u + 0) % 7
    BY <2>1
  <2>. QED BY <1>1, <2>2 DEF C!Weekdays, u
<1>. QED BY <1>1, <1>2, <1>3 DEF CalendarInv

LEMMA CalendarStep ==
  C!CalendarAssumption /\ WalksFit /\ CalendarInv /\ [C!Next]_(C!vars) => CalendarInv'
<1>. SUFFICES ASSUME C!CalendarAssumption, WalksFit, CalendarInv, [C!Next]_(C!vars) PROVE CalendarInv'
  OBVIOUS
<1>1. CASE UNCHANGED C!vars
  BY <1>1 DEF C!vars, CalendarInv, C!Weekdays
<1>2. CASE C!Next
  <2>1. days < MaxDays /\ days' = days + 1 /\ today' = C!Tomorrow(today) /\ start' = start
    BY <1>2 DEF C!Next
  <2>2. /\ start \in Starts /\ days \in 0..MaxDays /\ Real(today) /\ today.year >= EpochYear
        /\ DayNo(today) = DayNo(start) + days /\ C!Weekdays
    BY DEF CalendarInv
  <2>3. Real(C!Tomorrow(today)) /\ DayNo(C!Tomorrow(today)) = DayNo(today) + 1
    BY <2>2, NextDay
  <2>4. DayNo(start) \in Int /\ MaxDays \in Nat
    BY <2>2, InYear, Units DEF WalksFit
  <2>5. days' \in 0..MaxDays
    BY <2>1, <2>2, <2>4
  <2>6. DayNo(today') = DayNo(start) + days'
    BY <2>1, <2>2, <2>3, <2>4
  <2>7. C!Tomorrow(today).year >= EpochYear
    BY <2>2, Units DEF C!Tomorrow, C!Date, Real, Dates
  <2>8. C!Weekdays'
    <3>. DEFINE u == C!_wday(start.mday, start.mon, start.year)
                v == C!_wday(today.mday, today.mon, today.year)
                e == C!Tomorrow(today)
    <3>1. C!_wday(e.mday, e.mon, e.year) = (v + 1) % 7 /\ v = (u + days) % 7
      BY <2>2, NextWeekday DEF C!Weekdays
    <3>2. u \in 0..6
      BY <2>2, WeekdayRange DEF WalksFit
    <3>. HIDE DEF u, v, e
    <3>3. (v + 1) % 7 = (u + (days + 1)) % 7
      BY <2>2, <3>1, <3>2
    <3>. QED BY <2>1, <3>1, <3>3 DEF C!Weekdays, u, e
  <2>. QED BY <2>1, <2>2, <2>3, <2>5, <2>6, <2>7, <2>8 DEF CalendarInv
<1>. QED BY <1>1, <1>2

LEMMA TimesOfDay ==
  ASSUME C!CalendarAssumption, NEW t \in C!Times
  PROVE  \E h \in Hours, mi \in Minutes, se \in Seconds : t = C!Tm(today, h, mi, se)
<1>1. /\ 0 \in Hours /\ HourPerDay - 1 \in Hours /\ 0 \in Minutes /\ MinPerHour - 1 \in Minutes
      /\ 0 \in Seconds /\ 1 \in Seconds /\ SecPerMin - 1 \in Seconds
  BY Units DEF Hours, Minutes, Seconds
<1>. QED BY <1>1 DEF C!Times

LEMMA InWalk ==
  ASSUME C!CalendarAssumption, WalksFit, CalendarInv
  PROVE  /\ Real(start) /\ start.year >= EpochYear /\ days \in Nat /\ DayNo(start) \in Nat
         /\ (DayNo(start) + 1) * C!Day <= W /\ (DayNo(today) + 1) * C!Day <= W
<1>1. start \in Starts /\ days \in 0..MaxDays /\ DayNo(today) = DayNo(start) + days
  BY DEF CalendarInv
<1>2. Real(start) /\ start.year >= EpochYear /\ (DayNo(start) + MaxDays + 1) * C!Day <= W
  BY <1>1 DEF WalksFit
<1>3. DayNo(start) \in Int /\ MaxDays \in Nat
  BY <1>2, InYear, Units
<1>4. \A n \in 0..MaxDays : (DayNo(start) + n + 1) * C!Day <= W
  <2>1. ASSUME NEW n \in 0..MaxDays PROVE (DayNo(start) + n + 1) * C!Day <= W
    <3>. DEFINE a == DayNo(start) + n + 1
                k == MaxDays - n
    <3>1. a \in Int /\ k \in Nat /\ a + k = DayNo(start) + MaxDays + 1
      BY <1>3
    <3>. HIDE DEF a, k
    <3>2. (a + k) * C!Day = a * C!Day + k * C!Day /\ k * C!Day \in Nat /\ a * C!Day \in Int
      BY <3>1, Units
    <3>3. a * C!Day <= W
      BY <1>2, <3>1, <3>2, Units
    <3>. QED BY <3>3 DEF a
  <2>. QED BY <2>1
<1>5. (DayNo(start) + 0 + 1) * C!Day <= W /\ (DayNo(start) + days + 1) * C!Day <= W
  BY <1>1, <1>3, <1>4
<1>6. DayNo(start) + 0 + 1 = DayNo(start) + 1 /\ DayNo(start) + days + 1 = DayNo(today) + 1
  BY <1>1, <1>3
<1>7. (DayNo(start) + 1) * C!Day <= W /\ (DayNo(today) + 1) * C!Day <= W
  BY <1>5, <1>6
<1>8. DayNo(start) \in Nat
  <2>1. 0 \in Hours /\ 0 \in Minutes /\ 0 \in Seconds
    BY Units DEF Hours, Minutes, Seconds
  <2>. QED BY <1>2, <1>7, <2>1, Mktime
<1>. QED BY <1>1, <1>2, <1>7, <1>8

LEMMA CountedHolds ==
  ASSUME C!CalendarAssumption, WalksFit, CalendarInv PROVE C!Counted
<1>1. 0 \in Hours /\ 0 \in Minutes /\ 0 \in Seconds
  BY Units DEF Hours, Minutes, Seconds
<1>2. 0 * C!Hour = 0 /\ 0 * SecPerMin = 0
  BY Units
<1>3. C!rtc_mktime(C!Tm(start, 0, 0, 0)) = DayNo(start) * C!Day + (0 * C!Hour + 0 * SecPerMin + 0)
  BY <1>1, InWalk, Mktime
<1>4. /\ C!rtc_mktime(C!Tm(today, 0, 0, 0)) = DayNo(today) * C!Day + (0 * C!Hour + 0 * SecPerMin + 0)
      /\ DayNo(today) \in Nat
  BY <1>1, InWalk, Mktime DEF CalendarInv
<1>. DEFINE u == DayNo(today) * C!Day
<1>5. u = DayNo(start) * C!Day + days * C!Day /\ DayNo(start) * C!Day \in Nat /\ days * C!Day \in Nat
  BY InWalk, Units DEF CalendarInv
<1>6. u \in Nat /\ u < W
  <2>1. (DayNo(today) + 1) * C!Day = u + C!Day
    BY <1>4, Units
  <2>2. u \in Nat
    BY <1>4, Units
  <2>. HIDE DEF u
  <2>. QED BY <2>1, <2>2, InWalk, Units
<1>. HIDE DEF u
<1>7. C!rtc_mktime(C!Tm(start, 0, 0, 0)) + days * C!Day = u /\ C!rtc_mktime(C!Tm(today, 0, 0, 0)) = u
  BY <1>2, <1>3, <1>4, <1>5, <1>6 DEF u
<1>8. u % W = u
  BY <1>6, Units
<1>. QED BY <1>7, <1>8 DEF C!Counted

LEMMA RoundTripHolds ==
  ASSUME C!CalendarAssumption, WalksFit, CalendarInv PROVE C!RoundTrip
<1>1. ASSUME NEW t \in C!Times PROVE C!rtc_localtime(C!rtc_mktime(t)) = t
  <2>1. PICK h \in Hours, mi \in Minutes, se \in Seconds : t = C!Tm(today, h, mi, se)
    BY TimesOfDay
  <2>. DEFINE x == DayNo(today) * C!Day + (h * C!Hour + mi * SecPerMin + se)
  <2>2. x \in Nat /\ C!rtc_mktime(t) = x
    BY <2>1, InWalk, Mktime DEF CalendarInv
  <2>3. C!rtc_localtime(x) = C!Tm(today, h, mi, se)
    BY <2>2, LocalIs DEF CalendarInv
  <2>. QED BY <2>1, <2>2, <2>3
<1>. QED BY <1>1 DEF C!RoundTrip

\* One more day is what a day of so many more seconds comes out as.
LEMMA DaysCarried ==
  ASSUME C!CalendarAssumption, WalksFit, CalendarInv,
         NEW h \in Hours, NEW mi \in Minutes, NEW se \in Seconds
  PROVE  /\ C!Overflow(start.year, start.mon, start.mday + days) = today
         /\ C!rtc_tm_normalize(C!Tm(start, 0, 0, days * C!Day + (h * C!Hour + mi * SecPerMin + se)))
              = C!Tm(today, h, mi, se)
<1>1. start.year \in Nat /\ start.mon \in Months /\ start.mday \in Nat \ {0}
  BY InWalk DEF Real, Dates
<1>2. days \in Nat /\ Real(today) /\ DayNo(today) = DayNo(start) + days /\ DayNo(start) \in Nat
  BY InWalk DEF CalendarInv
<1>3. C!Overflow(start.year, start.mon, start.mday + days) = today
  <2>. DEFINE y == start.year
              m == start.mon
              a == start.mday
              c == Since(y) + C!_yday(1, m, y)
  <2>1. m \div 12 = 0 /\ m % 12 = m /\ y + 0 = y
    BY <1>1 DEF Months
  <2>2. Since(y) \in Int /\ C!_yday(1, m, y) \in 0..335
    BY <1>1, Years, MonthStarts
  <2>3. FirstDay(y, m) = c /\ DayNo(start) = c + (a - 1)
    <3>1. FirstDay(y, m) = Since(y) + (C!_yday(1, m, y) + 0)
      BY <2>1 DEF FirstDay, DayNo, C!Date
    <3>2. DayNo(start) = Since(y) + (C!_yday(1, m, y) + (a - 1))
      BY DEF DayNo
    <3>. QED BY <1>1, <2>2, <3>1, <3>2
  <2>4. DayNo(today) = FirstDay(y, m) + ((a + days) - 1)
    <3>1. c \in Int
      BY <2>2
    <3>. HIDE DEF c
    <3>. QED BY <1>1, <1>2, <2>3, <3>1
  <2>5. a + days \in Nat \ {0} /\ m \in Nat
    BY <1>1, <1>2 DEF Months
  <2>. QED BY <1>1, <1>2, <2>4, <2>5, OverflowIs
<1>4. C!Tm(start, 0, 0, days * C!Day + (h * C!Hour + mi * SecPerMin + se))
        = C!Tm(C!Date(start.year, start.mon, start.mday), 0, 0, days * C!Day + (h * C!Hour + mi * SecPerMin + se))
  BY DEF C!Tm, C!Date
<1>5. (IF start.mday = 0 THEN 1 ELSE start.mday) + days = start.mday + days
  BY <1>1
<1>6. C!rtc_tm_normalize(C!Tm(C!Date(start.year, start.mon, start.mday), 0, 0,
                         days * C!Day + (h * C!Hour + mi * SecPerMin + se)))
        = C!Tm(C!Overflow(start.year, start.mon, (IF start.mday = 0 THEN 1 ELSE start.mday) + days), h, mi, se)
  BY <1>1, <1>2, SecondsCarried
<1>. QED BY <1>3, <1>4, <1>5, <1>6

LEMMA CarriedHolds ==
  ASSUME C!CalendarAssumption, WalksFit, CalendarInv PROVE C!Carried
<1>1. 0 \in Hours /\ 0 \in Minutes /\ 0 \in Seconds
  BY Units DEF Hours, Minutes, Seconds
<1>2. C!DateOf(C!rtc_tm_normalize([C!Tm(start, 0, 0, 0) EXCEPT !.mday = @ + days])) = today
  <2>. DEFINE t == [C!Tm(start, 0, 0, 0) EXCEPT !.mday = @ + days]
              d == start.mday + days
  <2>1. start.year \in Nat /\ start.mon \in Months /\ start.mday \in Nat \ {0} /\ d \in Nat \ {0}
    BY InWalk DEF Real, Dates
  <2>2. t = C!Tm(C!Date(start.year, start.mon, d), 0, 0, 0)
    BY DEF C!Tm, C!Date
  <2>3. 0 * C!Day + (0 * C!Hour + 0 * SecPerMin + 0) = 0
    BY Units
  <2>. HIDE DEF d
  <2>4. C!rtc_tm_normalize(C!Tm(C!Date(start.year, start.mon, d), 0, 0,
                                0 * C!Day + (0 * C!Hour + 0 * SecPerMin + 0)))
          = C!Tm(C!Overflow(start.year, start.mon, (IF d = 0 THEN 1 ELSE d) + 0), 0, 0, 0)
    BY <1>1, <2>1, SecondsCarried
  <2>5. (IF d = 0 THEN 1 ELSE d) + 0 = d
    BY <2>1
  <2>6. C!Overflow(start.year, start.mon, d) = today
    BY <1>1, DaysCarried DEF d
  <2>7. C!DateOf(C!Tm(today, 0, 0, 0)) = today
    BY DEF C!DateOf, C!Tm, C!Date, CalendarInv, Real, Dates
  <2>. HIDE DEF t
  <2>8. C!rtc_tm_normalize(t) = C!Tm(today, 0, 0, 0)
    BY <2>2, <2>3, <2>4, <2>5, <2>6
  <2>. QED BY <2>7, <2>8 DEF t
<1>3. ASSUME NEW t \in C!Times
      PROVE  C!rtc_tm_normalize(C!Tm(start, 0, 0, days * C!Day + t.hour * C!Hour
                                                    + t.min * SecPerMin + t.sec)) = t
  <2>1. PICK h \in Hours, mi \in Minutes, se \in Seconds : t = C!Tm(today, h, mi, se)
    BY TimesOfDay
  <2>2. t.hour = h /\ t.min = mi /\ t.sec = se
    BY <2>1 DEF C!Tm
  <2>3. days * C!Day + h * C!Hour + mi * SecPerMin + se = days * C!Day + (h * C!Hour + mi * SecPerMin + se)
    <3>. DEFINE a == days * C!Day
                b == h * C!Hour
                c == mi * SecPerMin
    <3>1. a \in Int /\ b \in Int /\ c \in Int /\ se \in Int
      BY InWalk, Units DEF Hours, Minutes, Seconds
    <3>. HIDE DEF a, b, c
    <3>2. a + b + c + se = a + (b + c + se)
      BY <3>1
    <3>. QED BY <3>2 DEF a, b, c
  <2>. QED BY <2>1, <2>2, <2>3, DaysCarried
<1>. QED BY <1>2, <1>3 DEF C!Carried

LEMMA FileTimeHolds ==
  ASSUME C!CalendarAssumption, CalendarInv PROVE C!FileTime
<1>1. ASSUME today.year \in 1980..2107, NEW t \in C!Times
      PROVE  \E s \in 0..t.sec : C!_fatfs_time_to_timespec(C!get_fattime(t)) = [t EXCEPT !.sec = s]
  <2>1. PICK h \in Hours, mi \in Minutes, se \in Seconds : t = C!Tm(today, h, mi, se)
    BY TimesOfDay
  <2>2. /\ t = [year |-> today.year, mon |-> today.mon, mday |-> today.mday, hour |-> h, min |-> mi, sec |-> se]
    BY <2>1 DEF C!Tm
  <2>3. se \div 2 \in 0..se /\ se \in Nat
    BY Units DEF Seconds
  <2>4. ((today.year - 1980) % 128) + 1980 = today.year
    BY <1>1
  <2>5. (today.mon + 1) - 1 = today.mon
    BY DEF CalendarInv, Real, Dates, Months
  <2>6. C!_fatfs_time_to_timespec(C!get_fattime(t)) = [t EXCEPT !.sec = se \div 2]
    <3>. DEFINE f == [year |-> (today.year - 1980) % 128, mon |-> today.mon + 1, mday |-> today.mday,
                      hour |-> h, min |-> mi, half |-> se \div 2]
    <3>1. C!get_fattime(t) = f
      BY <2>2 DEF C!get_fattime
    <3>2. C!_fatfs_time_to_timespec(f) = [year |-> today.year, mon |-> today.mon, mday |-> today.mday,
                                        hour |-> h, min |-> mi, sec |-> se \div 2]
      <4>1. /\ f.year = (today.year - 1980) % 128 /\ f.mon = today.mon + 1 /\ f.mday = today.mday
            /\ f.hour = h /\ f.min = mi /\ f.half = se \div 2
        OBVIOUS
      <4>. HIDE DEF f
      <4>2. f.year + 1980 = today.year /\ f.mon - 1 = today.mon
        BY <2>4, <2>5, <4>1
      <4>. QED BY <4>1, <4>2 DEF C!_fatfs_time_to_timespec, C!Tm, C!Date
    <3>. HIDE DEF f
    <3>. QED BY <2>2, <3>1, <3>2
  <2>7. t.sec = se
    BY <2>2
  <2>. QED BY <2>3, <2>6, <2>7
<1>. QED BY <1>1 DEF C!FileTime

LEMMA MonthAfter ==
  ASSUME C!CalendarAssumption, NEW y \in Nat, NEW m \in Months
  PROVE  FirstDay(y, m + 1) = FirstDay(y, m) + C!Length(y, m) /\ FirstDay(y, m) \in Int
<1>1. m \in Nat
  BY DEF Months
<1>2. /\ FirstDay(y, m) \in Int
      /\ FirstDay(y, m + 1) = FirstDay(y, m) + C!_month_length(m % 12, y + m \div 12)
  BY <1>1, NextMonth
<1>3. m % 12 = m /\ y + m \div 12 = y
  BY DEF Months
<1>4. C!_month_length(m, y) = C!Length(y, m)
  BY Lengths
<1>. QED BY <1>2, <1>3, <1>4

\* rtc_tm_valid, of a day and an hour.
LEMMA ValidIs ==
  ASSUME C!CalendarAssumption, NEW y \in Nat, y >= 1900, NEW m \in Months,
         NEW d \in 0..32, NEW h \in {-1, 0, HourPerDay - 1, HourPerDay}
  PROVE  C!rtc_tm_valid(C!Tm(C!Date(y, m, d), h, 0, 0)) <=> (d \in 1..C!Length(y, m) /\ h \in Hours)
<1>. DEFINE t == C!Tm(C!Date(y, m, d), h, 0, 0)
            e == IF d = 0 THEN 1 ELSE d
<1>1. t = [year |-> y, mon |-> m, mday |-> d, hour |-> h, min |-> 0, sec |-> 0]
  BY DEF C!Tm, C!Date
<1>2. HourPerDay \in Nat /\ HourPerDay >= 2
  BY Units
<1>3. CASE h = -1
  <2>1. t["hour"] = -1
    BY <1>1, <1>3
  <2>2. ~C!rtc_tm_valid(t)
    BY <2>1 DEF C!rtc_tm_valid
  <2>. QED BY <1>2, <1>3, <2>2 DEF Hours
<1>4. ASSUME NEW q \in Nat, NEW k \in Hours, h \in Nat, h + 0 = q * HourPerDay + k
      PROVE  C!rtc_tm_normalize(t) = C!Tm(C!Overflow(y, m, e + q), k, 0, 0)
  <2>1. 0 \in Nat /\ 0 \in Minutes /\ 0 \in Seconds /\ d \in Nat
    BY Units DEF Minutes, Seconds
  <2>2. (0 * MinPerHour + 0) * SecPerMin + 0 = 0
    BY Units
  <2>3. C!rtc_tm_normalize(C!Tm(C!Date(y, m, d), h, 0, (0 * MinPerHour + 0) * SecPerMin + 0))
          = C!Tm(C!Overflow(y, m, e + q), k, 0, 0)
    BY <1>4, <2>1, Normalized
  <2>. QED BY <2>2, <2>3
<1>5. CASE h = HourPerDay
  <2>1. 0 \in Hours /\ 1 \in Nat /\ h \in Nat /\ h + 0 = 1 * HourPerDay + 0
    BY <1>2, <1>5 DEF Hours
  <2>2. C!rtc_tm_normalize(t) = C!Tm(C!Overflow(y, m, e + 1), 0, 0, 0)
    BY <1>4, <2>1
  <2>3. C!Tm(C!Overflow(y, m, e + 1), 0, 0, 0).hour = 0 /\ t.hour = h
    BY <1>1 DEF C!Tm
  <2>4. ~C!rtc_tm_valid(t)
    BY <1>2, <1>5, <2>2, <2>3 DEF C!rtc_tm_valid
  <2>. QED BY <1>2, <1>5, <2>4 DEF Hours
<1>6. CASE h \in {0, HourPerDay - 1}
  <2>1. h \in Hours /\ h \in Nat /\ 0 \in Nat /\ h + 0 = 0 * HourPerDay + h
    BY <1>2, <1>6 DEF Hours
  <2>2. C!rtc_tm_normalize(t) = C!Tm(C!Overflow(y, m, e + 0), h, 0, 0)
    BY <1>4, <2>1
  <2>3. m \div 12 = 0 /\ m % 12 = m /\ y + 0 = y /\ m \in Nat
    BY DEF Months
  <2>4. C!_month_length(m, y) = C!Length(y, m) /\ C!Length(y, m) \in 28..31
    BY Lengths
  <2>5. CASE d \in 1..C!Length(y, m)
    <3>1. Real(C!Date(y, m, d)) /\ DayNo(C!Date(y, m, d)) = FirstDay(y, m) + (d - 1)
      BY <2>3, <2>4, <2>5, DayOfMonth
    <3>2. d \in Nat \ {0} /\ e + 0 = d
      BY <2>5
    <3>3. C!Overflow(y, m, d) = C!Date(y, m, d)
      BY <2>3, <3>1, <3>2, OverflowIs
    <3>4. C!rtc_tm_normalize(t) = t
      BY <2>2, <3>2, <3>3
    <3>5. \A f \in {"sec", "min", "hour", "mday", "mon"} : t[f] >= 0
      <4>1. t["sec"] = 0 /\ t["min"] = 0 /\ t["hour"] = h /\ t["mday"] = d /\ t["mon"] = m
        BY <1>1
      <4>2. h >= 0 /\ d >= 0 /\ m >= 0
        BY <2>1, <2>3, <3>2
      <4>. QED BY <4>1, <4>2
    <3>6. C!rtc_tm_valid(t)
      BY <1>1, <3>4, <3>5 DEF C!rtc_tm_valid
    <3>. QED BY <2>1, <2>5, <3>6
  <2>6. CASE d = 0
    <3>1. e + 0 = 1 /\ 1 \in 1..C!Length(y, m) /\ 1 \in Nat \ {0}
      BY <2>4, <2>6
    <3>2. Real(C!Date(y, m, 1)) /\ DayNo(C!Date(y, m, 1)) = FirstDay(y, m) + (1 - 1)
      BY <2>3, <2>4, <3>1, DayOfMonth
    <3>3. C!Overflow(y, m, 1) = C!Date(y, m, 1)
      BY <2>3, <3>1, <3>2, OverflowIs
    <3>4. C!rtc_tm_normalize(t).mday = 1 /\ t.mday = 0
      BY <1>1, <2>2, <2>6, <3>1, <3>3 DEF C!Tm, C!Date
    <3>5. ~C!rtc_tm_valid(t)
      BY <3>4 DEF C!rtc_tm_valid
    <3>. QED BY <2>6, <3>5
  <2>7. CASE d > C!Length(y, m)
    <3>. DEFINE b == d - C!Length(y, m)
                k == (m + 1) % 12
                z == y + (m + 1) \div 12
                x == C!Date(z, k, b)
    <3>1. k \in Months /\ z \in Nat /\ k # m /\ m + 1 \in Nat
      BY DEF Months
    <3>2. b \in 1..C!_month_length(k, z)
      <4>1. C!_month_length(k, z) \in 28..31
        BY <3>1, Lengths
      <4>. QED BY <2>4, <2>7, <4>1
    <3>3. Real(x) /\ DayNo(x) = FirstDay(y, m + 1) + (b - 1)
      BY <3>1, <3>2, DayOfMonth
    <3>4. FirstDay(y, m + 1) = FirstDay(y, m) + C!Length(y, m) /\ FirstDay(y, m) \in Int
      BY MonthAfter
    <3>5. DayNo(x) = FirstDay(y, m) + (d - 1) /\ d \in Nat \ {0} /\ e + 0 = d
      <4>1. FirstDay(y, m + 1) + (b - 1) = FirstDay(y, m) + (d - 1)
        BY <2>4, <2>7, <3>4
      <4>. HIDE DEF x
      <4>. QED BY <2>4, <2>7, <3>3, <4>1
    <3>6. x.mon = k
      BY DEF C!Date
    <3>. HIDE DEF x
    <3>7. C!Overflow(y, m, d) = x
      BY <2>3, <3>3, <3>5, OverflowIs
    <3>8. C!rtc_tm_normalize(t).mon = k /\ t.mon = m
      BY <1>1, <2>2, <3>5, <3>6, <3>7 DEF C!Tm
    <3>9. ~C!rtc_tm_valid(t)
      BY <3>1, <3>8 DEF C!rtc_tm_valid
    <3>. QED BY <2>4, <2>7, <3>9
  <2>. QED BY <2>4, <2>5, <2>6, <2>7
<1>. QED BY <1>3, <1>5, <1>6

LEMMA ValidHolds ==
  ASSUME C!CalendarAssumption, WalksFit, CalendarInv PROVE C!Valid
<1>1. today.year \in Nat /\ today.mon \in Months /\ today.year >= 1900
  BY Units DEF CalendarInv, WalksFit, Real, Dates
<1>2. \A d \in 0..32, h \in {-1, 0, HourPerDay - 1, HourPerDay} :
         C!rtc_tm_valid(C!Tm(C!Date(today.year, today.mon, d), h, 0, 0))
           <=> (d \in 1..C!Length(today.year, today.mon) /\ h \in Hours)
  BY <1>1, ValidIs
<1>3. ASSUME NEW d \in 0..32, NEW h \in {-1, 0, HourPerDay - 1, HourPerDay}
      PROVE  C!rtc_tm_valid(C!Tm(C!Date(today.year, today.mon, d), h, 0, 0))
               = (d \in 1..C!Length(today.year, today.mon) /\ h \in Hours)
  <2>. DEFINE v == C!rtc_tm_valid(C!Tm(C!Date(today.year, today.mon, d), h, 0, 0))
              r == d \in 1..C!Length(today.year, today.mon) /\ h \in Hours
  <2>1. v \in BOOLEAN
    BY DEF C!rtc_tm_valid
  <2>2. r \in BOOLEAN
    OBVIOUS
  <2>3. v <=> r
    BY <1>2
  <2>. HIDE DEF v, r
  <2>4. v = r
    BY <2>1, <2>2, <2>3
  <2>. QED BY <2>4 DEF v, r
<1>. QED BY <1>3 DEF C!Valid, Hours

\* rtc_utils.c agrees with the Gregorian calendar on every day that uint32_t has the
\* seconds for, and at the first, last and some other moment of it.
-----------------------------------------------------------------------------
(* The parts side by side.  A behaviour is one of the part that runs; that *)
(* part begins as it does on its own, and each step is one of its own or   *)
(* leaves it alone.                                                        *)

LEMMA PartsBegin ==
  ASSUME PartsInit
  PROVE  /\ which = "list" => L!Init
         /\ which = "calendar" => C!Init
         /\ which = "monitor" => M!Init
         /\ which = "commands" => F!Init
         /\ which = "rtc" => R!Init
BY DEF PartsInit, InitList, InitCalendar, InitMonitor, InitCommands, InitRtc

LEMMA PartsStep ==
  ASSUME [PartsNext]_allVars
  PROVE  /\ which' = which
         /\ which = "list" => [L!Next]_listVars
         /\ which = "calendar" => [C!Next]_(C!vars)
         /\ which = "monitor" => [M!Next]_(M!vars)
         /\ which = "commands" => [F!Next]_commandVars
         /\ which = "rtc" => [R!Next]_(R!vars)
<1>1. /\ which' = which
      /\ which = "list" => [L!Next]_listVars
      /\ which = "calendar" => [C!Next]_calendarVars
      /\ which = "monitor" => [M!Next]_monitorVars
      /\ which = "commands" => [F!Next]_commandVars
      /\ which = "rtc" => [R!Next]_rtcVars
  <2>1. CASE PartsNext
    BY <2>1 DEF PartsNext, StepClocks, StepList, StepCalendar, StepMonitor, StepCommands,
                StepRtc
  <2>2. CASE UNCHANGED allVars
    BY <2>2 DEF allVars
  <2>. QED BY <2>1, <2>2
<1>2. UNCHANGED monitorVars => UNCHANGED M!vars
  BY DEF monitorVars, M!vars, M!signal, M!note, M!stack, M!env
<1>3. UNCHANGED rtcVars => UNCHANGED R!vars
  BY DEF rtcVars, R!vars, R!hw, R!clock, R!calls
<1>4. UNCHANGED calendarVars => UNCHANGED C!vars
  BY DEF calendarVars, C!vars
<1>. QED BY <1>1, <1>2, <1>3, <1>4

\* clist.h:31-76: whatever calls are made on a list of any length, walking it visits
\* what was pushed and not removed, in order, and clist_find and clist_count agree.
THEOREM ListStands == PartsSpec => []ListRight
<1>. DEFINE Keeps == which = "list" => ListInv
<1>1. PartsInit => Keeps
  BY PartsAssumption, PartsBegin, ListInit
<1>2. Keeps /\ [PartsNext]_allVars => Keeps'
  <2>. SUFFICES ASSUME Keeps, [PartsNext]_allVars, which' = "list" PROVE ListInv'
    OBVIOUS
  <2>1. which = "list" /\ [L!Next]_listVars
    BY PartsStep
  <2>2. CASE UNCHANGED listVars
    BY <2>1, <2>2 DEF listVars, ListInv
  <2>. QED BY <2>1, <2>2, PartsAssumption, ListStep
<1>3. Keeps => ListRight
  BY PartsAssumption, ListHolds DEF ListRight
<1>. HIDE DEF Keeps
<1>. QED BY <1>1, <1>2, <1>3, PTL DEF PartsSpec

\* sdcard_monitor.c: a lookup that finds the card's volume finds a device under it,
\* whatever window and time the debounce has and however mounts and unmounts fail.
THEOREM CardUsable == PartsSpec => []ListedUsable
<1>. DEFINE Keeps == which = "monitor" => MonitorInv
<1>1. PartsInit => Keeps
  BY PartsAssumption, PartsBegin, MonitorInit
<1>2. Keeps /\ [PartsNext]_allVars => Keeps'
  BY PartsAssumption, PartsStep, MonitorStep
<1>3. Keeps => ListedUsable
  BY DEF ListedUsable, MonitorInv, Outside, Inside, Stack, M!TypeOK
<1>. HIDE DEF Keeps
<1>. QED BY <1>1, <1>2, <1>3, PTL DEF PartsSpec

LEMMA CommandsInvariance == PartsSpec => [](which = "commands" => CommandInv)
<1>1. PartsInit => (which = "commands" => CommandInv)
  BY PartsAssumption, PartsBegin, CommandInit
<1>2. (which = "commands" => CommandInv) /\ [PartsNext]_allVars
        => (which = "commands" => CommandInv)'
  BY PartsAssumption, PartsStep, CommandStep
<1>. QED BY <1>1, <1>2, PTL DEF PartsSpec

\* vfs.c:72-607, vfs_util.c:214-300: whatever fails on the way, a command that returns
\* has closed what it opened, but for list_mountpoints when a statvfs fails.
THEOREM CommandsClose == PartsSpec => []NothingOpen
<1>1. CommandInv => F!NothingOpen
  BY DEF CommandInv, Opened, F!NothingOpen
<1>2. (which = "commands" => CommandInv) => NothingOpen
  BY <1>1 DEF NothingOpen
<1>. QED BY <1>2, CommandsInvariance, PTL

\* vfs_util.c:214-300: rm -r that reports success has removed its argument and all
\* beneath it, from a tree of any depth, in whatever order readdir returns the entries;
\* cp that reports success has copied the whole file, unless the volume was full or
\* closing the copy failed; and no command changes what it does not name.
THEOREM CommandsDo == PartsSpec => []CommandsMeant
<1>1. (which = "commands" => CommandInv) => CommandsMeant
  BY DEF CommandInv, CommandsMeant, F!CommandsMeant
<1>. QED BY <1>1, CommandsInvariance, PTL

LEMMA RtcInvariance == PartsSpec => [](which = "rtc" => RtcInv)
<1>1. PartsInit => (which = "rtc" => RtcInv)
  BY PartsAssumption, PartsBegin, RtcInit
<1>2. (which = "rtc" => RtcInv) /\ [PartsNext]_allVars => (which = "rtc" => RtcInv)'
  BY PartsAssumption, PartsStep, RtcStep
<1>. QED BY <1>1, <1>2, PTL DEF PartsSpec

\* rtc.c, syscalls.c: date and time that gettimeofday has read belong together, and
\* the second that it names is one of the calendar during the call, for any number of
\* tasks that read and set, days of any length and ticks of any rate, and whenever
\* midnight passes.
THEOREM TimesTrue == PartsSpec => []TimeRead
<1>1. RtcInv => R!TimeRead
  <2>. SUFFICES ASSUME RtcInv, NEW t \in R!Tasks, op[t] = "get", rtcPc[t] = "return"
                PROVE  \E m \in instants[t] :
                          R!tv_sec(t) + R!tv_usec(t) \div T = m.day * S + m.sec
    BY DEF RtcInv, R!TimeRead, R!SecondTrue
  <2>1. got[t] \in instants[t]
    BY DEF RtcInv, R!Instant
  <2>2. got[t].day \in Int /\ got[t].sec \in Int /\ ms[t] \in Int /\ S \in Int /\ T \in Nat \ {0}
    BY PartsAssumption DEF RtcInv, Values, Moments, R!RtcAssumption
  <2>3. got[t].day * S \in Int /\ ms[t] \div T \in Int
    BY <2>2
  <2>4. \A x, y \in Int : x - y + y = x
    OBVIOUS
  <2>5. got[t].day * S + got[t].sec - ms[t] \div T + ms[t] \div T = got[t].day * S + got[t].sec
    BY <2>2, <2>3, <2>4
  <2>. QED BY <2>1, <2>5 DEF R!tv_sec, R!tv_usec
<1>2. (which = "rtc" => RtcInv) => TimeRead
  BY <1>1 DEF TimeRead
<1>. QED BY <1>2, RtcInvariance, PTL

\* rtc.c: a call that sets the clock, and says "ok", has left it at the date and the
\* time that it was given, whoever reads and sets it at the same time, unless midnight
\* passes between its two writes.
THEOREM ClockSet == PartsSpec => []Set
<1>1. (which = "rtc" => RtcInv) => Set
  BY DEF RtcInv, Set
<1>. QED BY <1>1, RtcInvariance, PTL

\* rtc_utils.c agrees with the Gregorian calendar, whatever a minute, an hour and a
\* day last: on every day of a walk from any dates since the epoch that uint32_t has
\* the seconds for, the seconds count the days and lead back to the time they came
\* from, days and seconds too many are carried into the months and years they reach,
\* the days of the week follow each other, and exactly the calendar's days are valid.
THEOREM DatesRight == ASSUME WalksFit PROVE PartsSpec => []CalendarRight
<1>. DEFINE Keeps == which = "calendar" => CalendarInv
<1>1. PartsInit => Keeps
  BY PartsAssumption, PartsBegin, CalendarInit
<1>2. Keeps /\ [PartsNext]_allVars => Keeps'
  BY PartsAssumption, PartsStep, CalendarStep
<1>3. Keeps => CalendarRight
  BY PartsAssumption, CountedHolds, RoundTripHolds, CarriedHolds, ValidHolds, FileTimeHolds
  DEF CalendarRight, C!CalendarRight, CalendarInv
<1>. HIDE DEF Keeps
<1>. QED BY <1>1, <1>2, <1>3, PTL DEF PartsSpec
=============================================================================
