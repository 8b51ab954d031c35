------------------------- MODULE KeycodeRingProofs -------------------------
(***************************************************************************)
(* KeycodeRing for every size of the ring and every set of key codes: its  *)
(* type and slot invariants, and that it implements BoundedFifo.           *)
(***************************************************************************)
EXTENDS KeycodeRing, SequenceTheorems, TLAPS

Inv == TypeOK /\ SlotNotReused

-----------------------------------------------------------------------------
(* What the pointers say about the ring in any well-typed state. *)
LEMMA RingArithmetic ==
  ASSUME TypeOK
  PROVE  /\ Front \in Slots
         /\ Count \in 0 .. KEYCODEBUFSIZE - 1
         /\ Successor(keycodebufp1) \in Slots
         /\ \A i \in 1 .. KEYCODEBUFSIZE : Place(i) \in Slots
         /\ ~Full => Count + 1 <= KEYCODEBUFSIZE - 1
         /\ ~Full => Place(Count + 1) = keycodebufp1
         /\ \A i \in 1 .. Count : Place(i) # keycodebufp1
BY SizeAssumption
   DEF TypeOK, Slots, Front, Count, Successor, Place, Full

(* The interrupt refuses a key exactly when KEYCODEBUFSIZE-1 keys wait. *)
LEMMA FullMeaning ==
  ASSUME TypeOK, SlotNotReused
  PROVE  IgnoredOnlyWhenFull
BY SizeAssumption
   DEF TypeOK, SlotNotReused, IgnoredOnlyWhenFull, Slots, Front, Count, Full

LEMMA InitInv == Init => Inv
BY SizeAssumption, KeycodesAssumption
   DEF Init, Inv, TypeOK, SlotNotReused, Slots, Front, Count, Place

LEMMA TypeStep == TypeOK /\ SlotNotReused /\ [Next]_vars => TypeOK'
<1> SUFFICES ASSUME TypeOK, SlotNotReused, [Next]_vars PROVE TypeOK'
  OBVIOUS
<1> USE SizeAssumption, KeycodesAssumption DEF TypeOK, Slots
<1>1. ASSUME NEW k \in Keycodes, Store(k) PROVE TypeOK'
  BY <1>1 DEF Store, Successor
<1>2. ASSUME NEW k \in Keycodes, Ignore(k) PROVE TypeOK'
  BY <1>2 DEF Ignore, vars
<1>3. CASE FindEmpty  BY <1>3 DEF FindEmpty
<1>4. CASE FindKey    BY <1>4 DEF FindKey, SlotNotReused
<1>5. CASE Load       BY <1>5 DEF Load
<1>6. CASE Advance    BY <1>6 DEF Advance
<1>7. CASE Wrap       BY <1>7 DEF Wrap
<1>8. CASE UNCHANGED vars BY <1>8 DEF vars
<1> QED BY <1>1, <1>2, <1>3, <1>4, <1>5, <1>6, <1>7, <1>8
        DEF Next, ReadKey, Interrupt

LEMMA SlotStep == TypeOK /\ SlotNotReused /\ [Next]_vars => SlotNotReused'
<1> SUFFICES ASSUME TypeOK, SlotNotReused, [Next]_vars PROVE SlotNotReused'
  OBVIOUS
<1> USE SizeAssumption, KeycodesAssumption
<1>1. ASSUME NEW k \in Keycodes, Store(k) PROVE SlotNotReused'
  <2>1. /\ keycodebuf' = [keycodebuf EXCEPT ![keycodebufp1] = k]
        /\ keycodebufp1' = Successor(keycodebufp1)
        /\ UNCHANGED <<keycodebufp2, vkey, pc, slot, Front>>
        /\ \A i \in 1 .. KEYCODEBUFSIZE : Place(i)' = Place(i)
    BY <1>1 DEF Store, Front, Place
  <2>2. Count' = Count + 1
    BY <1>1, <2>1 DEF Store, TypeOK, Slots, Front, Count, Successor, Full
  <2>3. \A i \in 1 .. Count + 1 :
          keycodebuf'[Place(i)] = IF i = Count + 1 THEN k ELSE keycodebuf[Place(i)]
    BY <1>1, <2>1, RingArithmetic DEF TypeOK, Store
  <2>4. (\A i \in 1 .. Count : keycodebuf[Place(i)] # 0)'
    BY <1>1, <2>1, <2>2, <2>3, RingArithmetic DEF SlotNotReused, Store
  <2>5. pc \in {"advanced", "loaded"} => slot # keycodebufp1
    BY <1>1 DEF TypeOK, SlotNotReused, Store, Full, Slots, Front, Count
  <2>6. keycodebuf'[slot] = keycodebuf[slot] \/ slot = keycodebufp1
    BY <2>1 DEF TypeOK
  <2> QED BY <2>1, <2>2, <2>4, <2>5, <2>6, RingArithmetic
          DEF SlotNotReused, TypeOK
<1>2. ASSUME NEW k \in Keycodes, Ignore(k) PROVE SlotNotReused'
  BY <1>2 DEF Ignore, vars, SlotNotReused, Count, Front, Place
<1>3. CASE FindEmpty
  BY <1>3 DEF FindEmpty, SlotNotReused, Count, Front, Place, TypeOK
<1>4. CASE FindKey
  BY <1>4 DEF FindKey, SlotNotReused, Count, Front, Place, TypeOK, Slots
<1>5. CASE Load
  <2>1. pc = "found" => keycodebuf[slot] # 0
    <3> SUFFICES ASSUME pc = "found" PROVE keycodebuf[Place(1)] # 0
      BY DEF SlotNotReused, TypeOK, Slots, Place, Front
    <3> QED BY RingArithmetic DEF SlotNotReused
  <2> QED BY <1>5, <2>1 DEF Load, SlotNotReused, Count, Front, Place, TypeOK
<1>6. CASE Advance
  <2>1. pc \in {"found", "loaded"} /\ keycodebufp2 = slot /\ Count > 0
    BY <1>6 DEF Advance, SlotNotReused
  <2>2. Count' = Count - 1
    BY <1>6, <2>1 DEF Advance, Count, Front, TypeOK, Slots
  <2>3. \A i \in 1 .. Count - 1 : Place(i)' = Place(i + 1)
    BY <1>6, <2>1, RingArithmetic DEF Advance, Place, Front, TypeOK, Slots
  <2>4. Place(1) = slot
    BY <2>1 DEF Place, Front, TypeOK, Slots
  <2>5. keycodebuf[slot] # 0
    BY <2>1, <2>4, RingArithmetic DEF SlotNotReused
  <2>6. (\A i \in 1 .. Count : keycodebuf[Place(i)] # 0)'
    BY <1>6, <2>2, <2>3, RingArithmetic DEF Advance, SlotNotReused
  <2> QED BY <1>6, <2>1, <2>5, <2>6 DEF Advance, SlotNotReused, TypeOK, Slots
<1>7. CASE Wrap
  <2>1. UNCHANGED <<Front, Count>> /\ \A i \in 1 .. KEYCODEBUFSIZE : Place(i)' = Place(i)
    BY <1>7 DEF Wrap, Front, Count, Place, TypeOK, Slots
  <2> QED BY <1>7, <2>1, RingArithmetic DEF Wrap, SlotNotReused, TypeOK, Slots
<1>8. CASE UNCHANGED vars
  BY <1>8 DEF vars, SlotNotReused, Count, Front, Place
<1> QED BY <1>1, <1>2, <1>3, <1>4, <1>5, <1>6, <1>7, <1>8
        DEF Next, ReadKey, Interrupt

(* The ring is always well formed, and no interleaving of the interrupt    *)
(* with ps2readkey() makes the program read a slot that holds no key.       *)
THEOREM InvHolds == Spec => [](TypeOK /\ SlotNotReused)
<1>1. Init => TypeOK /\ SlotNotReused
  BY InitInv DEF Inv
<1>2. TypeOK /\ SlotNotReused /\ [Next]_vars => (TypeOK /\ SlotNotReused)'
  BY TypeStep, SlotStep
<1> QED BY <1>1, <1>2, PTL DEF Spec

(* The interrupt drops a key only when KEYCODEBUFSIZE-1 keys wait.          *)
THEOREM IgnoredOnlyWhenFullHolds == Spec => []IgnoredOnlyWhenFull
<1>1. TypeOK /\ SlotNotReused => IgnoredOnlyWhenFull
  BY FullMeaning
<1> QED BY <1>1, InvHolds, PTL

-----------------------------------------------------------------------------
(* The refinement.  Storing appends, giving a slot back takes the head.     *)
LEMMA QueuedIsSeq ==
  ASSUME TypeOK
  PROVE  Queued \in Seq(Nat) /\ Len(Queued) = Count /\ Count \in Nat
<1>1. Count \in Nat /\ Count < KEYCODEBUFSIZE
  BY SizeAssumption, RingArithmetic
<1>2. ASSUME NEW i \in 1 .. Count PROVE keycodebuf[Place(i)] \in Nat
  <2>1. Place(i) \in Slots
    BY <1>1, SizeAssumption, RingArithmetic
  <2>2. keycodebuf[Place(i)] \in Keycodes \cup {0}
    BY <2>1 DEF TypeOK
  <2> QED BY <2>2, KeycodesAssumption
<1> QED BY <1>1, <1>2 DEF Queued

LEMMA StoreAccepts ==
  ASSUME TypeOK, SlotNotReused, NEW k \in Keycodes, Store(k)
  PROVE  Fifo!Accept(k)
<1> USE SizeAssumption
<1>1. /\ keycodebuf' = [keycodebuf EXCEPT ![keycodebufp1] = k]
      /\ keycodebufp1' = Successor(keycodebufp1)
      /\ UNCHANGED <<keycodebufp2, vkey, pc, slot, Front>>
      /\ \A i \in 1 .. KEYCODEBUFSIZE : Place(i)' = Place(i)
  BY DEF Store, Front, Place
<1>2. Count' = Count + 1 /\ Count \in Nat /\ Count < KEYCODEBUFSIZE - 1
  BY <1>1 DEF Store, TypeOK, Slots, Front, Count, Successor, Full
<1>3. \A i \in 1 .. Count + 1 :
        keycodebuf'[Place(i)] = IF i = Count + 1 THEN k ELSE keycodebuf[Place(i)]
  BY <1>1, RingArithmetic DEF TypeOK, Store
<1>4. Queued' = [i \in 1 .. Count + 1 |-> IF i = Count + 1 THEN k ELSE Queued[i]]
  BY <1>1, <1>2, <1>3 DEF Queued
<1>5. Queued \in Seq(Nat) /\ Len(Queued) = Count /\ k \in Nat
  BY QueuedIsSeq, KeycodesAssumption
<1>6. Queued' = Append(Queued, k)
  <2>1. Append(Queued, k) \in Seq(Nat) /\ Len(Append(Queued, k)) = Count + 1
    BY <1>5, AppendProperties
  <2>2. \A i \in 1 .. Count : Queued[i] \in Nat
    BY <1>5, ElementOfSeq
  <2>3. Queued' \in Seq(Nat) /\ Len(Queued') = Count + 1
    BY <1>2, <1>4, <1>5, <2>2
  <2>4. \A i \in 1 .. Count + 1 : Queued'[i] = Append(Queued, k)[i]
    BY <1>2, <1>4, <1>5, AppendProperties
  <2> QED BY <2>1, <2>3, <2>4, SeqEqual
<1>7. UNCHANGED Taken
  <2>1. pc = "advanced" => slot # keycodebufp1
    BY DEF TypeOK, SlotNotReused, Store, Full, Slots, Front, Count
  <2> QED BY <1>1, <2>1 DEF Taken, TypeOK
<1> QED BY <1>2, <1>5, <1>6, <1>7 DEF Fifo!Accept

LEMMA AdvanceTakes ==
  ASSUME TypeOK, SlotNotReused, Advance
  PROVE  Fifo!Take
<1> USE SizeAssumption
<1>1. pc \in {"found", "loaded"} /\ keycodebufp2 = slot /\ Count > 0
  BY DEF Advance, SlotNotReused
<1>2. Count' = Count - 1 /\ Count \in Nat
  BY <1>1 DEF Advance, Count, Front, TypeOK, Slots
<1>3. \A i \in 1 .. Count - 1 : Place(i)' = Place(i + 1)
  BY <1>1, RingArithmetic DEF Advance, Place, Front, TypeOK, Slots
<1>4. Queued \in Seq(Nat) /\ Len(Queued) = Count /\ Queued # <<>>
  BY <1>1, QueuedIsSeq
<1>5. Queued' = [i \in 1 .. Count - 1 |-> Queued[i + 1]]
  BY <1>2, <1>3 DEF Queued, Advance
<1>6. Queued' = Tail(Queued)
  <2>1. /\ Tail(Queued) \in Seq(Nat) /\ Len(Tail(Queued)) = Count - 1
        /\ \A i \in 1 .. Count - 1 : Tail(Queued)[i] = Queued[i + 1]
    BY <1>4, HeadTailProperties
  <2>2. \A i \in 1 .. Count : Queued[i] \in Nat
    BY <1>4, ElementOfSeq
  <2>3. Queued' \in Seq(Nat) /\ Len(Queued') = Count - 1
    BY <1>1, <1>2, <1>5, <2>2
  <2> QED BY <1>5, <2>1, <2>3, SeqEqual
<1>7. Head(Queued) = keycodebuf[slot]
  <2>1. Place(1) = slot
    BY <1>1 DEF Place, Front, TypeOK, Slots
  <2> QED BY <1>1, <1>2, <1>4, <2>1 DEF Queued
<1>8. Taken = <<>> /\ Taken' = <<keycodebuf[slot]>>
  BY <1>1 DEF Taken, Advance, SlotNotReused
<1> QED BY <1>4, <1>6, <1>7, <1>8 DEF Fifo!Take

LEMMA QuietStep ==
  ASSUME TypeOK, SlotNotReused,
         UNCHANGED <<keycodebuf, keycodebufp1, Front>>
  PROVE  UNCHANGED Queued
BY DEF Queued, Count, Place

(* Every behaviour of the ring is one of a first-in first-out queue of      *)
(* KEYCODEBUFSIZE-1 keys that loses only keys it has no room for.           *)
THEOREM ImplementsFifo == Spec => Implements
<1> USE SizeAssumption
<1>1. Init => Fifo!FifoInit
  <2> SUFFICES ASSUME Init PROVE Fifo!FifoInit
    OBVIOUS
  <2>1. Count = 0
    BY DEF Init, Count, Front
  <2>2. Queued = <<>>
    BY <2>1 DEF Queued
  <2> QED BY <2>2 DEF Init, Fifo!FifoInit, Taken
<1>2. TypeOK /\ SlotNotReused /\ [Next]_vars => [Fifo!FifoNext]_(Fifo!fifoVars)
  <2> SUFFICES ASSUME TypeOK, SlotNotReused, [Next]_vars
               PROVE  [Fifo!FifoNext]_(Fifo!fifoVars)
    OBVIOUS
  <2>1. ASSUME NEW k \in Keycodes, Store(k) PROVE Fifo!FifoNext
    BY <2>1, StoreAccepts DEF Fifo!FifoNext
  <2>2. ASSUME NEW k \in Keycodes, Ignore(k) PROVE UNCHANGED Fifo!fifoVars
    BY <2>2 DEF Ignore, vars, Fifo!fifoVars, Queued, Count, Front, Place, Taken
  <2>3. CASE FindEmpty
    BY <2>3, QuietStep DEF FindEmpty, Fifo!fifoVars, Front, Taken
  <2>4. CASE FindKey
    BY <2>4, QuietStep DEF FindKey, Fifo!fifoVars, Front, Taken
  <2>5. CASE Load
    BY <2>5, QuietStep DEF Load, Fifo!fifoVars, Front, Taken
  <2>6. CASE Advance
    BY <2>6, AdvanceTakes DEF Fifo!FifoNext
  <2>7. CASE Wrap
    <3>1. UNCHANGED Front
      BY <2>7 DEF Wrap, Front
    <3>2. Taken # <<>> /\ Taken' = <<>>
      BY <2>7 DEF Wrap, Taken
    <3>3. UNCHANGED Queued
      BY <2>7, <3>1, QuietStep DEF Wrap
    <3> QED BY <3>2, <3>3 DEF Fifo!FifoNext, Fifo!Deliver
  <2>8. CASE UNCHANGED vars
    BY <2>8 DEF vars, Fifo!fifoVars, Queued, Count, Front, Place, Taken
  <2> QED BY <2>1, <2>2, <2>3, <2>4, <2>5, <2>6, <2>7, <2>8
          DEF Next, ReadKey, Interrupt
<1> QED BY <1>1, <1>2, InvHolds, PTL DEF Spec, Implements, Fifo!FifoSpec
=============================================================================
