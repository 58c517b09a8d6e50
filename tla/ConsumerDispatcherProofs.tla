----------------------- MODULE ConsumerDispatcherProofs -----------------------
(***************************************************************************)
(* The dispatcher never overwrites an element that a thread still uses,    *)
(* for every number of producers and levels, every capacity and every      *)
(* number of elements, and it implements the ordered pipeline.             *)
(***************************************************************************)
EXTENDS ConsumerDispatcher, TLAPS

-----------------------------------------------------------------------------
(* The inductive invariant.                                                *)

\* Only the holder of m_addSpinLock is inside processElement.
LockInv == \A p \in Producers : ppc[p] # "idle" <=> addLock = p

\* The element count is ahead of barrier 0 only between add and publish, and a
\* producer on its way to add has not reached the bound.
AddedInv ==
    /\ addLock = None => added = barriers[0]
    /\ \A p \in Producers :
        /\ ppc[p] \in {"readMin", "readMax", "add"}
               => added = barriers[0] /\ added < MaxElements
        /\ ppc[p] = "publish" => added = barriers[0] + 1

\* Barriers are ordered by level; a thread is at the barrier it moves, and
\* behind the barrier it follows while it works on an element.
BarrierInv ==
    /\ \A i, j \in 0 .. NumConsumers : i <= j => barriers[j] <= barriers[i]
    /\ \A l \in Levels :
        /\ position[l] = barriers[l + 1]
        /\ cpc[l] \in BeforeAdvance \union {"advance"}
               => position[l] < barriers[l]
        /\ cpc[l] \in AfterBarrier => l = LastLevel /\ position[l] > 0

\* minPosition may be stale, but only too small, so a granted request leaves
\* one slot beside those between the last barrier and barrier 0.
CapacityInv ==
    /\ barriers[0] - barriers[NumConsumers] + 1 <= Capacity
    /\ \A p \in Producers :
        /\ ppc[p] \in {"readMax", "add", "publish"}
               => minPosition <= barriers[NumConsumers]
        /\ ppc[p] \in {"add", "publish"} => HasRequiredCapacity

\* The ring holds the last Capacity elements.
RingInv ==
    \A q \in 0 .. MaxElements :
        q < added /\ added <= q + Capacity => ring[truncateIndex(q)].id = q + 1

\* The callback has run for the elements before the last level's position,
\* except for the one it is inspecting.
CompletedInv ==
    Len(completed) = IF cpc[LastLevel] \in {"inspect", "complete"}
                     THEN position[LastLevel] - 1 ELSE position[LastLevel]

\* The counting half of ActiveCount.
CountInv ==
    /\ (\A p \in Producers : ppc[p] # "add")
           => numActive = added - Len(completed)
                            + (IF cpc[LastLevel] = "uncount" THEN 1 ELSE 0)
    /\ \A p \in Producers : ppc[p] = "add"
           => numActive = added + 1 - Len(completed)
                            + (IF cpc[LastLevel] = "uncount" THEN 1 ELSE 0)

IndInv ==
    /\ TypeOK
    /\ LockInv
    /\ AddedInv
    /\ BarrierInv
    /\ CapacityInv
    /\ RingInv
    /\ CompletedInv
    /\ CountInv

-----------------------------------------------------------------------------
(* Arithmetic of the ring.                                                 *)

\* Two positions less than a lap apart are in different slots.

LEMMA ModInjective ==
    ASSUME NEW C \in Nat \ {0}, NEW p \in Nat, NEW q \in Nat,
           p < q, q - p < C
    PROVE  p % C # q % C
  <1>1. p = (C * (p \div C)) + (p % C) /\ p % C \in 0 .. C-1 /\ p \div C \in Int
    OBVIOUS
  <1>2. q = (C * (q \div C)) + (q % C) /\ q % C \in 0 .. C-1 /\ q \div C \in Int
    OBVIOUS
  <1>3. SUFFICES ASSUME p % C = q % C PROVE FALSE
    OBVIOUS
  <1> DEFINE k == (q \div C) - (p \div C)
  <1>4. k \in Int /\ q - p = C * k
    BY <1>1, <1>2, <1>3
  <1>5. k >= 1
    BY <1>4
  <1>6. C * k >= C
    BY <1>4, <1>5
  <1>. QED BY <1>4, <1>6

-----------------------------------------------------------------------------
(* What the invariant says about the slots in use.                         *)

USE NumConsumersAssumption, CapacityAssumption, MaxElementsAssumption,
    NoneAssumption

\* The element a thread uses is one of the last Capacity elements; when a
\* producer is about to add, it is even one of the last Capacity - 1.
LEMMA AccessWindow ==
    ASSUME IndInv, NEW l \in Levels, Accesses(l)
    PROVE  /\ AccessedPosition(l) \in 0 .. MaxElements
           /\ AccessedPosition(l) < added
           /\ added <= AccessedPosition(l) + Capacity
           /\ \A p \in Producers :
                  ppc[p] = "add" => added - AccessedPosition(l) < Capacity
  <1> DEFINE a == AccessedPosition(l)
             b0 == barriers[0]
             bN == barriers[NumConsumers]
  <1>1. /\ b0 \in Nat /\ bN \in Nat /\ position[l] \in Nat
        /\ barriers[l] \in Nat /\ minPosition \in Nat
        /\ added \in 0 .. MaxElements
    BY DEF IndInv, TypeOK, Levels
  <1>2. /\ bN <= barriers[l + 1] /\ barriers[l] <= b0
        /\ position[l] = barriers[l + 1]
    BY DEF IndInv, BarrierInv, TypeOK, Levels
  <1>3. a \in Nat /\ a < b0 /\ a >= bN - 1
    <2>1. CASE cpc[l] \in AfterBarrier
      <3>1. l = LastLevel /\ position[l] > 0
        BY <2>1 DEF IndInv, BarrierInv
      <3>2. barriers[l + 1] <= barriers[l]
        BY DEF IndInv, BarrierInv, Levels
      <3> QED BY <1>1, <1>2, <2>1, <3>1, <3>2 DEF AccessedPosition
    <2>2. CASE cpc[l] \in BeforeAdvance
      <3>1. position[l] < barriers[l]
        BY <2>2 DEF IndInv, BarrierInv
      <3>2. cpc[l] \notin AfterBarrier
        BY <2>2 DEF BeforeAdvance, AfterBarrier
      <3> QED BY <1>1, <1>2, <3>1, <3>2 DEF AccessedPosition
    <2> QED BY <2>1, <2>2 DEF Accesses
  <1>4. b0 - bN + 1 <= Capacity
    BY DEF IndInv, CapacityInv
  <1>5. CASE addLock = None
    <2>1. added = b0 /\ \A p \in Producers : ppc[p] = "idle"
      BY <1>5 DEF IndInv, AddedInv, LockInv
    <2> QED BY <1>1, <1>3, <1>4, <2>1
  <1>6. CASE addLock # None
    <2>1. PICK p \in Producers : addLock = p
      BY <1>6 DEF IndInv, TypeOK
    <2>2. ppc[p] \in {"readMin", "readMax", "add", "publish"}
          /\ \A r \in Producers : r # p => ppc[r] = "idle"
      BY <2>1 DEF IndInv, TypeOK, LockInv
    <2>3. CASE ppc[p] \in {"readMin", "readMax"}
      <3>1. added = b0
        BY <2>3 DEF IndInv, AddedInv
      <3> QED BY <1>1, <1>3, <1>4, <2>2, <2>3, <3>1
    <2>4. CASE ppc[p] \in {"add", "publish"}
      <3>1. minPosition <= bN /\ b0 - minPosition + 2 <= Capacity
        BY <1>1, <2>4 DEF IndInv, CapacityInv, HasRequiredCapacity
      <3>2. /\ ppc[p] = "add" => added = b0
            /\ ppc[p] = "publish" => added = b0 + 1
        BY <2>4 DEF IndInv, AddedInv
      <3> QED BY <1>1, <1>3, <2>2, <2>4, <3>1, <3>2
    <2> QED BY <2>2, <2>3, <2>4
  <1> QED BY <1>5, <1>6

\* A thread finds the element of its position in its slot.
LEMMA IndInvSlot == IndInv => SlotHoldsPosition
  <1> SUFFICES ASSUME IndInv, NEW l \in Levels, Accesses(l)
               PROVE  ring[truncateIndex(AccessedPosition(l))].id
                          = AccessedPosition(l) + 1
    BY DEF SlotHoldsPosition
  <1> QED BY AccessWindow DEF IndInv, RingInv

\* The slot that is overwritten is no thread's slot.
LEMMA IndInvRace == IndInv => NoSlotRace
  <1> SUFFICES ASSUME IndInv, NEW p \in Producers, NEW l \in Levels,
                      ppc[p] = "add", Accesses(l)
               PROVE  truncateIndex(AccessedPosition(l)) # truncateIndex(added)
    BY DEF NoSlotRace
  <1>1. added \in Nat
    BY DEF IndInv, TypeOK
  <1>2. /\ AccessedPosition(l) \in Nat
        /\ AccessedPosition(l) < added
        /\ added - AccessedPosition(l) < Capacity
    BY AccessWindow
  <1> QED BY <1>1, <1>2, ModInjective DEF truncateIndex

\* Linear arithmetic behind the bound on the count of active elements.
LEMMA CountBound ==
    ASSUME NEW b0 \in Nat, NEW bN \in Nat, NEW min \in Nat, NEW done \in Nat,
           NEW leaving \in Int, min <= bN, b0 - min + 2 <= Capacity,
           bN - 1 <= done - leaving
    PROVE  b0 + 1 - done + leaving <= Capacity
  OBVIOUS

\* The count is right and bounded by the size of the disruptor.
LEMMA IndInvActive == IndInv => ActiveCount
  <1> SUFFICES ASSUME IndInv PROVE ActiveCount
    OBVIOUS
  <1> DEFINE b0 == barriers[0]
             bN == barriers[NumConsumers]
             leaving == IF cpc[LastLevel] = "uncount" THEN 1 ELSE 0
  <1>1. /\ b0 \in Nat /\ bN \in Nat /\ minPosition \in Nat
        /\ added \in Nat /\ Len(completed) \in Nat
    BY DEF IndInv, TypeOK
  <1>2. bN = position[LastLevel] /\ bN <= b0
    BY DEF IndInv, BarrierInv, LastLevel, Levels
  <1>3. bN - 1 <= Len(completed) - leaving
    BY <1>1, <1>2 DEF IndInv, CompletedInv
  <1>4. CASE \E p \in Producers : ppc[p] = "add"
    <2>1. PICK p \in Producers : ppc[p] = "add"
      BY <1>4
    <2>2. added = b0 /\ minPosition <= bN /\ b0 - minPosition + 2 <= Capacity
      BY <1>1, <2>1 DEF IndInv, AddedInv, CapacityInv, HasRequiredCapacity
    <2>3. numActive = added + 1 - Len(completed) + leaving
      BY <2>1 DEF IndInv, CountInv
    <2>4. leaving \in Int
      OBVIOUS
    <2>5. numActive <= Capacity
      <3> HIDE DEF leaving
      <3> QED BY ZenonT(30), <1>1, <1>3, <2>2, <2>3, <2>4, CountBound
    <2>6. (IF \E r \in Producers : ppc[r] = "add" THEN 1 ELSE 0) = 1
      BY <1>4
    <2> QED BY <2>3, <2>5, <2>6, Zenon DEF ActiveCount
  <1>5. CASE ~ \E p \in Producers : ppc[p] = "add"
    <2>1. numActive = added - Len(completed) + leaving
      BY <1>5 DEF IndInv, CountInv
    <2>2. b0 - bN + 1 <= Capacity
      BY DEF IndInv, CapacityInv
    <2>3. added - bN + 1 <= Capacity
      <3>1. CASE addLock = None
        BY <1>1, <2>2, <3>1 DEF IndInv, AddedInv
      <3>2. CASE addLock # None
        <4>1. PICK p \in Producers : addLock = p
          BY <3>2 DEF IndInv, TypeOK
        <4>2. ppc[p] \in {"readMin", "readMax", "publish"}
          BY <4>1, <1>5 DEF IndInv, TypeOK, LockInv
        <4>3. CASE ppc[p] = "publish"
          BY SMTT(30), <1>1, <4>3 DEF IndInv, AddedInv, CapacityInv, HasRequiredCapacity
        <4>4. CASE ppc[p] # "publish"
          BY <1>1, <2>2, <4>2, <4>4 DEF IndInv, AddedInv
        <4> QED BY <4>3, <4>4
      <3> QED BY <3>1, <3>2
    <2> QED BY <1>1, <1>3, <1>5, <2>1, <2>3 DEF ActiveCount
  <1> QED BY <1>4, <1>5

-----------------------------------------------------------------------------
(* The invariant is inductive.                                            *)

\* The constructor establishes the invariant.
LEMMA InitIndInv == Init => IndInv
  <1> SUFFICES ASSUME Init PROVE IndInv
    OBVIOUS
  <1> USE DEF Init, Levels, LastLevel
  <1>1. TypeOK
    BY DEF TypeOK, NewElement, Ids, NoLevel
  <1>2. LockInv /\ AddedInv /\ CountInv
    BY DEF LockInv, AddedInv, CountInv
  <1>3. BarrierInv /\ CapacityInv
    BY DEF BarrierInv, CapacityInv, BeforeAdvance, AfterBarrier
  <1>4. RingInv /\ CompletedInv
    BY DEF RingInv, CompletedInv
  <1> QED BY <1>1, <1>2, <1>3, <1>4 DEF IndInv

\* The last level and the barrier it moves.
LEMMA LastLevelFacts ==
    /\ LastLevel \in Levels
    /\ LastLevel + 1 = NumConsumers
    /\ 0 \in 0 .. NumConsumers
    /\ NumConsumers \in 0 .. NumConsumers
  BY DEF LastLevel, Levels

\* A level lies between the barrier it follows and the barrier it moves.
LEMMA LevelFacts ==
    \A l \in Levels :
        /\ l \in 0 .. NumConsumers
        /\ l + 1 \in 0 .. NumConsumers
        /\ l <= l + 1
        /\ l + 1 # 0
  BY DEF Levels

\* The slot a thread uses holds an element that was added.
LEMMA AccessedId ==
    ASSUME IndInv, NEW l \in Levels, Accesses(l)
    PROVE  ring[truncateIndex(AccessedPosition(l))].id \in Ids
  <1>1. ring[truncateIndex(AccessedPosition(l))].id = AccessedPosition(l) + 1
    BY IndInvSlot DEF SlotHoldsPosition
  <1>2. added \in 0 .. MaxElements
    BY DEF IndInv, TypeOK
  <1>3. AccessedPosition(l) \in Nat /\ AccessedPosition(l) < added
    BY AccessWindow
  <1> QED BY <1>1, <1>2, <1>3 DEF Ids

\* A producer enters processElement.
LEMMA AcquireAddLockStep ==
    ASSUME IndInv, NEW p \in Producers, AcquireAddLock(p)
    PROVE  IndInv'
  <1> USE DEF AcquireAddLock, producerVars, consumerVars, historyVars
  <1>1. TypeOK'
    BY DEF IndInv, TypeOK
  <1>2. LockInv'
    BY DEF IndInv, LockInv, TypeOK
  <1>3. AddedInv'
    BY DEF IndInv, AddedInv, LockInv, TypeOK
  <1>4. BarrierInv'
    BY DEF IndInv, BarrierInv, TypeOK, BeforeAdvance, AfterBarrier
  <1>5. CapacityInv'
    BY DEF IndInv, CapacityInv, HasRequiredCapacity, LockInv, TypeOK
  <1>6. RingInv'
    BY DEF IndInv, RingInv
  <1>7. CompletedInv'
    BY DEF IndInv, CompletedInv, TypeOK
  <1>8. CountInv'
    BY Zenon DEF IndInv, CountInv, CompletedInv, LockInv, TypeOK
  <1> QED BY Zenon, <1>1, <1>2, <1>3, <1>4, <1>5, <1>6, <1>7, <1>8 DEF IndInv

\* The last barrier that is read may only move on afterwards.
LEMMA ReadMinPositionStep ==
    ASSUME IndInv, NEW p \in Producers, ReadMinPosition(p)
    PROVE  IndInv'
  <1> USE DEF ReadMinPosition, producerVars, consumerVars, historyVars
  <1>1. TypeOK'
    <2>1. minPosition' \in Nat
      BY DEF IndInv, TypeOK
    <2>2. ppc' \in [Producers -> {"idle", "readMin", "readMax", "add", "publish"}]
      BY DEF IndInv, TypeOK
    <2> QED BY <2>1, <2>2 DEF IndInv, TypeOK
  <1>2. LockInv'
    BY DEF IndInv, LockInv, TypeOK
  <1>3. AddedInv'
    BY DEF IndInv, AddedInv, LockInv, TypeOK
  <1>4. BarrierInv'
    BY DEF IndInv, BarrierInv, TypeOK, BeforeAdvance, AfterBarrier
  <1>5. CapacityInv'
    <2>1. barriers[NumConsumers] \in Nat
      BY DEF IndInv, TypeOK
    <2>2. \A r \in Producers : ppc'[r] # "idle" => r = p
      BY DEF IndInv, LockInv, TypeOK
    <2>3. ppc'[p] = "readMax"
      BY DEF IndInv, TypeOK
    <2> QED BY <2>1, <2>2, <2>3 DEF IndInv, CapacityInv
  <1>6. RingInv'
    BY DEF IndInv, RingInv
  <1>7. CompletedInv'
    BY DEF IndInv, CompletedInv, TypeOK
  <1>8. CountInv'
    BY Zenon DEF IndInv, CountInv, CompletedInv, LockInv, TypeOK
  <1> QED BY <1>1, <1>2, <1>3, <1>4, <1>5, <1>6, <1>7, <1>8 DEF IndInv

\* A refused request leaves everything as it was.
LEMMA RejectFullStep ==
    ASSUME IndInv, NEW p \in Producers, RejectFull(p)
    PROVE  IndInv'
  <1> USE DEF RejectFull, producerVars, consumerVars, historyVars
  <1>1. TypeOK'
    BY DEF IndInv, TypeOK
  <1>2. LockInv'
    BY DEF IndInv, LockInv, TypeOK
  <1>3. AddedInv'
    BY DEF IndInv, AddedInv, LockInv, TypeOK
  <1>4. BarrierInv'
    BY DEF IndInv, BarrierInv, TypeOK, BeforeAdvance, AfterBarrier
  <1>5. CapacityInv'
    BY DEF IndInv, CapacityInv, HasRequiredCapacity, LockInv, TypeOK
  <1>6. RingInv'
    BY DEF IndInv, RingInv
  <1>7. CompletedInv'
    BY DEF IndInv, CompletedInv, TypeOK
  <1>8. CountInv'
    BY Zenon DEF IndInv, CountInv, CompletedInv, LockInv, TypeOK
  <1> QED BY <1>1, <1>2, <1>3, <1>4, <1>5, <1>6, <1>7, <1>8 DEF IndInv

\* A granted request keeps its room until it is published.
LEMMA CountActiveStep ==
    ASSUME IndInv, NEW p \in Producers, CountActive(p)
    PROVE  IndInv'
  <1> USE DEF CountActive, producerVars, consumerVars, historyVars
  <1>1. TypeOK'
    <2>1. numActive' \in Nat
      BY DEF IndInv, TypeOK
    <2>2. ppc' \in [Producers -> {"idle", "readMin", "readMax", "add", "publish"}]
      BY DEF IndInv, TypeOK
    <2> QED BY <2>1, <2>2 DEF IndInv, TypeOK
  <1>2. LockInv'
    BY DEF IndInv, LockInv, TypeOK
  <1>3. AddedInv'
    BY DEF IndInv, AddedInv, LockInv, TypeOK
  <1>4. BarrierInv'
    BY DEF IndInv, BarrierInv, TypeOK, BeforeAdvance, AfterBarrier
  <1>5. CapacityInv'
    BY DEF IndInv, CapacityInv, HasRequiredCapacity, LockInv, TypeOK
  <1>6. RingInv'
    BY DEF IndInv, RingInv
  <1>7. CompletedInv'
    BY DEF IndInv, CompletedInv, TypeOK
  <1>8. CountInv'
    <2>1. /\ \A r \in Producers : ppc[r] # "add"
          /\ \A r \in Producers : ppc'[r] = "add" => r = p
          /\ ppc'[p] = "add"
      BY ZenonT(30) DEF IndInv, LockInv, TypeOK
    <2>2. added \in Nat /\ Len(completed) \in Nat
      BY DEF IndInv, TypeOK
    <2>3. numActive = added - Len(completed)
                        + (IF cpc[LastLevel] = "uncount" THEN 1 ELSE 0)
      BY <2>1 DEF IndInv, CountInv
    <2> QED BY <2>1, <2>2, <2>3 DEF CountInv
  <1> QED BY <1>1, <1>2, <1>3, <1>4, <1>5, <1>6, <1>7, <1>8 DEF IndInv

\* The new element replaces one that is a whole lap behind.
LEMMA AddStep ==
    ASSUME IndInv, NEW p \in Producers, Add(p)
    PROVE  IndInv'
  <1> USE DEF Add, producerVars, consumerVars, historyVars
  <1>1. TypeOK'
    <2>1. added' \in 0 .. MaxElements
      BY DEF IndInv, TypeOK, AddedInv
    <2>2. ring' \in [0 .. Capacity - 1 ->
                        [id : 0 .. MaxElements, status : {"Aborted", "Normal"}]]
      <3>1. truncateIndex(added) \in 0 .. Capacity - 1
        BY DEF IndInv, TypeOK, truncateIndex
      <3>2. NewElement(added + 1)
                \in [id : 0 .. MaxElements, status : {"Aborted", "Normal"}]
        BY <2>1 DEF NewElement
      <3> QED BY <3>1, <3>2 DEF IndInv, TypeOK
    <2>3. ppc' \in [Producers -> {"idle", "readMin", "readMax", "add", "publish"}]
      BY DEF IndInv, TypeOK
    <2> QED BY SMTT(30), <2>1, <2>2, <2>3 DEF IndInv, TypeOK
  <1>2. LockInv'
    BY DEF IndInv, LockInv, TypeOK
  <1>3. AddedInv'
    BY Zenon DEF IndInv, AddedInv, LockInv, TypeOK
  <1>4. BarrierInv'
    BY DEF IndInv, BarrierInv, TypeOK, BeforeAdvance, AfterBarrier
  <1>5. CapacityInv'
    BY DEF IndInv, CapacityInv, HasRequiredCapacity, LockInv, TypeOK
  <1>6. RingInv'
    <2> SUFFICES ASSUME NEW q \in 0 .. MaxElements,
                        q < added + 1, added + 1 <= q + Capacity
                 PROVE  ring'[truncateIndex(q)].id = q + 1
      BY DEF RingInv
    <2>1. added \in Nat /\ truncateIndex(added) \in 0 .. Capacity - 1
          /\ truncateIndex(q) \in 0 .. Capacity - 1
          /\ DOMAIN ring = 0 .. Capacity - 1
      BY DEF IndInv, TypeOK, truncateIndex
    <2>2. CASE q = added
      BY <2>1, <2>2 DEF NewElement
    <2>3. CASE q < added
      <3>1. truncateIndex(q) # truncateIndex(added)
        <4>1. q \in Nat /\ added - q < Capacity
          BY <2>1
        <4> QED BY Zenon, <2>1, <2>3, <4>1, ModInjective DEF truncateIndex
      <3>2. ring'[truncateIndex(q)] = ring[truncateIndex(q)]
        BY <2>1, <3>1
      <3>3. ring[truncateIndex(q)].id = q + 1
        BY <2>1, <2>3 DEF IndInv, RingInv
      <3> QED BY <3>2, <3>3
    <2> QED BY <2>1, <2>2, <2>3
  <1>7. CompletedInv'
    BY DEF IndInv, CompletedInv, TypeOK
  <1>8. CountInv'
    <2>1. \A r \in Producers : ppc'[r] # "add"
      BY Zenon DEF IndInv, LockInv, TypeOK
    <2>2. added \in Nat /\ Len(completed) \in Nat
      BY DEF IndInv, TypeOK
    <2> QED BY <2>1, <2>2 DEF IndInv, CountInv
  <1> QED BY <1>1, <1>2, <1>3, <1>4, <1>5, <1>6, <1>7, <1>8 DEF IndInv

\* Barrier 0 catches up with the element count.
LEMMA PublishStep ==
    ASSUME IndInv, NEW p \in Producers, Publish(p)
    PROVE  IndInv'
  <1> USE DEF Publish, producerVars, consumerVars, historyVars
  <1>1. TypeOK'
    <2>1. barriers' \in [0 .. NumConsumers -> Nat]
      BY DEF IndInv, TypeOK
    <2>2. ppc' \in [Producers -> {"idle", "readMin", "readMax", "add", "publish"}]
      BY DEF IndInv, TypeOK
    <2> QED BY <2>1, <2>2 DEF IndInv, TypeOK
  <1>2. LockInv'
    BY DEF IndInv, LockInv, TypeOK
  <1>3. AddedInv'
    BY DEF IndInv, AddedInv, LockInv, TypeOK
  <1>4. BarrierInv'
    <2>1. \A b \in 0 .. NumConsumers :
              /\ barriers[b] \in Nat
              /\ barriers'[b] = IF b = 0 THEN barriers[b] + 1 ELSE barriers[b]
      BY DEF IndInv, TypeOK
    <2>2. ASSUME NEW i \in 0 .. NumConsumers, NEW j \in 0 .. NumConsumers, i <= j
          PROVE  barriers'[j] <= barriers'[i]
      <3>1. barriers[j] <= barriers[i]
        BY <2>2 DEF IndInv, BarrierInv
      <3> QED BY <2>1, <2>2, <3>1
    <2>3. ASSUME NEW k \in Levels
          PROVE  /\ position[k] = barriers'[k + 1]
                 /\ position[k] < barriers[k] => position[k] < barriers'[k]
      <3>1. position[k] = barriers[k + 1] /\ position[k] \in Nat
        BY DEF IndInv, BarrierInv, TypeOK
      <3> QED BY <2>1, <3>1, LevelFacts
    <2> QED BY <2>2, <2>3 DEF IndInv, BarrierInv
  <1>5. CapacityInv'
    <2>1. /\ barriers[0] \in Nat /\ barriers[NumConsumers] \in Nat
          /\ minPosition \in Nat
          /\ barriers'[0] = barriers[0] + 1
          /\ barriers'[NumConsumers] = barriers[NumConsumers]
      BY DEF IndInv, TypeOK
    <2>2. \A r \in Producers : ppc'[r] = "idle"
      BY DEF IndInv, LockInv, TypeOK
    <2>3. minPosition <= barriers[NumConsumers]
          /\ barriers[0] - minPosition + 1 + 1 <= Capacity
      BY DEF IndInv, CapacityInv, HasRequiredCapacity
    <2>4. barriers'[0] - barriers'[NumConsumers] + 1 <= Capacity
      BY <2>1, <2>3
    <2> QED BY <2>2, <2>4 DEF CapacityInv
  <1>6. RingInv'
    BY DEF IndInv, RingInv
  <1>7. CompletedInv'
    BY DEF IndInv, CompletedInv, TypeOK
  <1>8. CountInv'
    BY Zenon DEF IndInv, CountInv, CompletedInv, LockInv, TypeOK
  <1> QED BY <1>1, <1>2, <1>3, <1>4, <1>5, <1>6, <1>7, <1>8 DEF IndInv

\* The loop condition.
LEMMA CheckKeepRunningStep ==
    ASSUME IndInv, NEW l \in Levels, CheckKeepRunning(l)
    PROVE  IndInv'
  <1> USE DEF CheckKeepRunning, producerVars, consumerVars, historyVars
  <1>1. TypeOK'
    BY DEF IndInv, TypeOK
  <1>2. LockInv'
    BY DEF IndInv, LockInv, TypeOK
  <1>3. AddedInv'
    BY DEF IndInv, AddedInv, LockInv, TypeOK
  <1>4. BarrierInv'
    BY DEF IndInv, BarrierInv, TypeOK, BeforeAdvance, AfterBarrier
  <1>5. CapacityInv'
    BY DEF IndInv, CapacityInv, HasRequiredCapacity, LockInv, TypeOK
  <1>6. RingInv'
    BY DEF IndInv, RingInv
  <1>7. CompletedInv'
    <2>1. /\ cpc'[LastLevel] = "uncount" <=> cpc[LastLevel] = "uncount"
          /\ cpc'[LastLevel] \in {"inspect", "complete"}
                 <=> cpc[LastLevel] \in {"inspect", "complete"}
      BY LastLevelFacts DEF IndInv, TypeOK
    <2> QED BY <2>1 DEF IndInv, CompletedInv
  <1>8. CountInv'
    <2>1. /\ cpc'[LastLevel] = "uncount" <=> cpc[LastLevel] = "uncount"
          /\ cpc'[LastLevel] \in {"inspect", "complete"}
                 <=> cpc[LastLevel] \in {"inspect", "complete"}
      BY LastLevelFacts DEF IndInv, TypeOK
    <2> QED BY <2>1 DEF IndInv, CountInv
  <1> QED BY <1>1, <1>2, <1>3, <1>4, <1>5, <1>6, <1>7, <1>8 DEF IndInv

\* A thread that does not stop has work before its barrier.
LEMMA ReadBarrierStep ==
    ASSUME IndInv, NEW l \in Levels, ReadBarrier(l)
    PROVE  IndInv'
  <1> USE DEF ReadBarrier, producerVars, consumerVars, historyVars
  <1>1. TypeOK'
    BY DEF IndInv, TypeOK
  <1>2. LockInv'
    BY DEF IndInv, LockInv, TypeOK
  <1>3. AddedInv'
    BY DEF IndInv, AddedInv, LockInv, TypeOK
  <1>4. BarrierInv'
    <2>1. ASSUME NEW k \in Levels
          PROVE  /\ cpc'[k] \in BeforeAdvance \union {"advance"}
                        => position[k] < barriers[k]
                 /\ cpc'[k] \in AfterBarrier => k = LastLevel /\ position[k] > 0
      <3>1. CASE k = l
        <4>1. cpc'[k] \in {"loop", "checkSkipped"}
              /\ (cpc'[k] = "checkSkipped" => position[k] # barriers[k])
          BY <3>1 DEF IndInv, TypeOK
        <4>2. position[k] <= barriers[k] /\ position[k] \in Nat /\ barriers[k] \in Nat
          BY SMTT(30), LevelFacts DEF IndInv, BarrierInv, TypeOK
        <4> QED BY <4>1, <4>2 DEF BeforeAdvance, AfterBarrier
      <3>2. CASE k # l
        <4>1. cpc'[k] = cpc[k]
          BY <3>2 DEF IndInv, TypeOK
        <4> QED BY <4>1 DEF IndInv, BarrierInv
      <3> QED BY <3>1, <3>2
    <2> QED BY <2>1 DEF IndInv, BarrierInv
  <1>5. CapacityInv'
    BY DEF IndInv, CapacityInv, HasRequiredCapacity, LockInv, TypeOK
  <1>6. RingInv'
    BY DEF IndInv, RingInv
  <1>7. CompletedInv'
    <2>1. /\ cpc'[LastLevel] = "uncount" <=> cpc[LastLevel] = "uncount"
          /\ cpc'[LastLevel] \in {"inspect", "complete"}
                 <=> cpc[LastLevel] \in {"inspect", "complete"}
      BY LastLevelFacts DEF IndInv, TypeOK
    <2> QED BY <2>1 DEF IndInv, CompletedInv
  <1>8. CountInv'
    <2>1. /\ cpc'[LastLevel] = "uncount" <=> cpc[LastLevel] = "uncount"
          /\ cpc'[LastLevel] \in {"inspect", "complete"}
                 <=> cpc[LastLevel] \in {"inspect", "complete"}
      BY LastLevelFacts DEF IndInv, TypeOK
    <2> QED BY <2>1 DEF IndInv, CountInv
  <1> QED BY Zenon, <1>1, <1>2, <1>3, <1>4, <1>5, <1>6, <1>7, <1>8 DEF IndInv

\* Reading the skip flag.
LEMMA CheckSkippedStep ==
    ASSUME IndInv, NEW l \in Levels, CheckSkipped(l)
    PROVE  IndInv'
  <1> USE DEF CheckSkipped, producerVars, consumerVars, historyVars
  <1>1. TypeOK'
    BY DEF IndInv, TypeOK
  <1>2. LockInv'
    BY DEF IndInv, LockInv, TypeOK
  <1>3. AddedInv'
    BY DEF IndInv, AddedInv, LockInv, TypeOK
  <1>4. BarrierInv'
    BY DEF IndInv, BarrierInv, TypeOK, BeforeAdvance, AfterBarrier
  <1>5. CapacityInv'
    BY DEF IndInv, CapacityInv, HasRequiredCapacity, LockInv, TypeOK
  <1>6. RingInv'
    BY DEF IndInv, RingInv
  <1>7. CompletedInv'
    <2>1. /\ cpc'[LastLevel] = "uncount" <=> cpc[LastLevel] = "uncount"
          /\ cpc'[LastLevel] \in {"inspect", "complete"}
                 <=> cpc[LastLevel] \in {"inspect", "complete"}
      BY LastLevelFacts DEF IndInv, TypeOK
    <2> QED BY <2>1 DEF IndInv, CompletedInv
  <1>8. CountInv'
    <2>1. /\ cpc'[LastLevel] = "uncount" <=> cpc[LastLevel] = "uncount"
          /\ cpc'[LastLevel] \in {"inspect", "complete"}
                 <=> cpc[LastLevel] \in {"inspect", "complete"}
      BY LastLevelFacts DEF IndInv, TypeOK
    <2> QED BY <2>1 DEF IndInv, CountInv
  <1> QED BY Zenon, <1>1, <1>2, <1>3, <1>4, <1>5, <1>6, <1>7, <1>8 DEF IndInv

\* The consumer is called with the element of the thread's position.
LEMMA ConsumeStep ==
    ASSUME IndInv, NEW l \in Levels, Consume(l)
    PROVE  IndInv'
  <1> USE DEF Consume, producerVars, consumerVars, historyVars
  <1>1. TypeOK'
    <2>1. ring[truncateIndex(position[l])].id \in Ids
      BY AccessedId DEF AccessedPosition, Accesses, BeforeAdvance, AfterBarrier
    <2>2. delivered' \in [Levels -> Seq(Ids)]
      BY <2>1 DEF IndInv, TypeOK
    <2>3. cpc' \in [Levels -> {"loop", "tryNext", "checkSkipped", "consume",
                           "markSkipped", "advance", "inspect", "complete",
                           "uncount", "stopped"}]
      BY DEF IndInv, TypeOK, AfterAdvance
    <2> QED BY SMTT(30), <2>2, <2>3 DEF IndInv, TypeOK
  <1>2. LockInv'
    BY DEF IndInv, LockInv, TypeOK
  <1>3. AddedInv'
    BY DEF IndInv, AddedInv, LockInv, TypeOK
  <1>4. BarrierInv'
    BY SMTT(30) DEF IndInv, BarrierInv, TypeOK, BeforeAdvance, AfterBarrier
  <1>5. CapacityInv'
    BY DEF IndInv, CapacityInv, HasRequiredCapacity, LockInv, TypeOK
  <1>6. RingInv'
    BY DEF IndInv, RingInv
  <1>7. CompletedInv'
    <2>1. /\ cpc'[LastLevel] = "uncount" <=> cpc[LastLevel] = "uncount"
          /\ cpc'[LastLevel] \in {"inspect", "complete"}
                 <=> cpc[LastLevel] \in {"inspect", "complete"}
      BY LastLevelFacts DEF IndInv, TypeOK
    <2> QED BY <2>1 DEF IndInv, CompletedInv
  <1>8. CountInv'
    <2>1. /\ cpc'[LastLevel] = "uncount" <=> cpc[LastLevel] = "uncount"
          /\ cpc'[LastLevel] \in {"inspect", "complete"}
                 <=> cpc[LastLevel] \in {"inspect", "complete"}
      BY LastLevelFacts DEF IndInv, TypeOK
    <2> QED BY <2>1 DEF IndInv, CountInv
  <1> QED BY Zenon, <1>1, <1>2, <1>3, <1>4, <1>5, <1>6, <1>7, <1>8 DEF IndInv

\* Marking keeps the element in its slot.
LEMMA MarkSkippedStep ==
    ASSUME IndInv, NEW l \in Levels, MarkSkipped(l)
    PROVE  IndInv'
  <1> USE DEF MarkSkipped, producerVars, consumerVars, historyVars
  <1>1. TypeOK'
    <2>1. ring[truncateIndex(position[l])].id \in Ids
      BY AccessedId DEF AccessedPosition, Accesses, BeforeAdvance, AfterBarrier
    <2>2. rejecter' \in [Ids -> 0 .. NumConsumers]
      BY <2>1 DEF IndInv, TypeOK, Levels
    <2>3. ring' \in [0 .. Capacity - 1 ->
                        [id : 0 .. MaxElements, status : {"Aborted", "Normal"}]]
      BY ZenonT(30) DEF IndInv, TypeOK, truncateIndex
    <2>4. cpc' \in [Levels -> {"loop", "tryNext", "checkSkipped", "consume",
                           "markSkipped", "advance", "inspect", "complete",
                           "uncount", "stopped"}]
      BY DEF IndInv, TypeOK, AfterAdvance
    <2> QED BY Zenon, <2>2, <2>3, <2>4 DEF IndInv, TypeOK
  <1>2. LockInv'
    BY DEF IndInv, LockInv, TypeOK
  <1>3. AddedInv'
    BY DEF IndInv, AddedInv, LockInv, TypeOK
  <1>4. BarrierInv'
    BY DEF IndInv, BarrierInv, TypeOK, BeforeAdvance, AfterBarrier
  <1>5. CapacityInv'
    BY DEF IndInv, CapacityInv, HasRequiredCapacity, LockInv, TypeOK
  <1>6. RingInv'
    <2>1. \A s \in 0 .. Capacity - 1 : ring'[s].id = ring[s].id
      BY DEF IndInv, TypeOK, truncateIndex
    <2>2. \A q \in 0 .. MaxElements : truncateIndex(q) \in 0 .. Capacity - 1
      BY DEF truncateIndex
    <2> QED BY <2>1, <2>2 DEF IndInv, RingInv
  <1>7. CompletedInv'
    <2>1. /\ cpc'[LastLevel] = "uncount" <=> cpc[LastLevel] = "uncount"
          /\ cpc'[LastLevel] \in {"inspect", "complete"}
                 <=> cpc[LastLevel] \in {"inspect", "complete"}
      BY LastLevelFacts DEF IndInv, TypeOK
    <2> QED BY <2>1 DEF IndInv, CompletedInv
  <1>8. CountInv'
    <2>1. /\ cpc'[LastLevel] = "uncount" <=> cpc[LastLevel] = "uncount"
          /\ cpc'[LastLevel] \in {"inspect", "complete"}
                 <=> cpc[LastLevel] \in {"inspect", "complete"}
      BY LastLevelFacts DEF IndInv, TypeOK
    <2> QED BY <2>1 DEF IndInv, CountInv
  <1> QED BY Zenon, <1>1, <1>2, <1>3, <1>4, <1>5, <1>6, <1>7, <1>8 DEF IndInv

\* A barrier moves up to the one before it at most.
LEMMA AdvanceStep ==
    ASSUME IndInv, NEW l \in Levels, Advance(l)
    PROVE  IndInv'
  <1> USE DEF Advance, producerVars, consumerVars, historyVars, AfterAdvance
  <1>1. TypeOK'
    <2>1. barriers' \in [0 .. NumConsumers -> Nat]
      <3>1. barriers \in [0 .. NumConsumers -> Nat] /\ l + 1 \in 0 .. NumConsumers
        BY SMTT(30), LevelFacts DEF IndInv, TypeOK
      <3>2. barriers' = [barriers EXCEPT ![l + 1] = @ + 1]
        OBVIOUS
      <3> QED BY ONLY <3>1, <3>2
    <2>2. position' \in [Levels -> Nat]
      BY DEF IndInv, TypeOK
    <2>3. cpc' \in [Levels -> {"loop", "tryNext", "checkSkipped", "consume",
                           "markSkipped", "advance", "inspect", "complete",
                           "uncount", "stopped"}]
      BY DEF IndInv, TypeOK, AfterAdvance
    <2> QED BY Zenon, <2>1, <2>2, <2>3 DEF IndInv, TypeOK
  <1>2. LockInv'
    BY DEF IndInv, LockInv, TypeOK
  <1>3. AddedInv'
    <2>1. barriers'[0] = barriers[0]
      BY DEF IndInv, TypeOK, Levels
    <2> QED BY <2>1 DEF IndInv, AddedInv
  <1>4. BarrierInv'
    <2>1. /\ position[l] = barriers[l + 1] /\ position[l] < barriers[l]
          /\ \A b \in 0 .. NumConsumers : barriers[b] \in Nat
          /\ \A i, j \in 0 .. NumConsumers : i <= j => barriers[j] <= barriers[i]
      BY DEF IndInv, TypeOK, BarrierInv
    <2>2. \A b \in 0 .. NumConsumers :
              barriers'[b] = IF b = l + 1 THEN barriers[b] + 1 ELSE barriers[b]
      BY DEF IndInv, TypeOK, Levels
    <2>3. \A k \in Levels :
              position'[k] = IF k = l THEN position[k] + 1 ELSE position[k]
      BY DEF IndInv, TypeOK
    <2>4. ASSUME NEW i \in 0 .. NumConsumers, NEW j \in 0 .. NumConsumers, i <= j
          PROVE  barriers'[j] <= barriers'[i]
      <3>1. CASE j = l + 1 /\ i # l + 1
        <4>1. i <= l /\ l \in 0 .. NumConsumers
          BY SMTT(30), <2>4, <3>1 DEF Levels
        <4>2. barriers[l] <= barriers[i]
          BY <2>1, <4>1
        <4>3. barriers'[j] = barriers[l + 1] + 1 /\ barriers'[i] = barriers[i]
          BY <2>2, <3>1
        <4>4. barriers[l + 1] \in Nat /\ barriers[l] \in Nat /\ barriers[i] \in Nat
          BY <2>1, LevelFacts
        <4>5. barriers[l + 1] < barriers[l]
          BY <2>1
        <4> QED BY SMTT(30), <4>2, <4>3, <4>4, <4>5
      <3>2. CASE ~(j = l + 1 /\ i # l + 1)
        <4>1. barriers[j] <= barriers[i] /\ barriers[i] \in Nat /\ barriers[j] \in Nat
          BY <2>1, <2>4
        <4> QED BY <2>2, <3>2, <4>1
      <3> QED BY SMTT(30), <3>1, <3>2
    <2>5. ASSUME NEW k \in Levels
          PROVE  /\ position'[k] = barriers'[k + 1]
                 /\ cpc'[k] \in BeforeAdvance \union {"advance"}
                        => position'[k] < barriers'[k]
                 /\ cpc'[k] \in AfterBarrier => k = LastLevel /\ position'[k] > 0
      <3>1. k \in 0 .. NumConsumers /\ k + 1 \in 0 .. NumConsumers /\ k \in Nat
        BY DEF Levels
      <3>2. position[k] = barriers[k + 1]
            /\ position[k] \in Nat /\ barriers[k] \in Nat
        BY <3>1 DEF IndInv, BarrierInv, TypeOK
      <3>3. position'[k] = barriers'[k + 1]
        BY SMTT(30), <2>2, <2>3, <3>1, <3>2 DEF Levels
      <3>4. CASE k = l
        <4>1. cpc'[k] \in {"inspect", "tryNext", "loop"}
              /\ (cpc'[k] = "inspect" => k = LastLevel)
          BY <3>4 DEF IndInv, TypeOK
        <4> QED BY SMTT(30), <2>3, <3>2, <3>3, <3>4, <4>1 DEF BeforeAdvance, AfterBarrier
      <3>5. CASE k # l
        <4>1. cpc'[k] = cpc[k] /\ position'[k] = position[k]
              /\ barriers[k] <= barriers'[k] /\ barriers'[k] \in Nat
          <5>1. cpc'[k] = cpc[k]
            BY <3>5 DEF IndInv, TypeOK
          <5>2. position'[k] = position[k]
            BY <2>3, <3>5
          <5>3. barriers'[k] \in {barriers[k], barriers[k] + 1}
            BY <2>2, <3>1
          <5> QED BY <3>2, <5>1, <5>2, <5>3
        <4>2. /\ cpc[k] \in BeforeAdvance \union {"advance"}
                     => position[k] < barriers[k]
              /\ cpc[k] \in AfterBarrier => k = LastLevel /\ position[k] > 0
          BY DEF IndInv, BarrierInv
        <4> QED BY <3>2, <3>3, <4>1, <4>2
      <3> QED BY <3>4, <3>5
    <2> QED BY SMTT(30), <2>4, <2>5 DEF BarrierInv
  <1>5. CapacityInv'
    <2>1. /\ barriers'[0] = barriers[0] /\ barriers[0] \in Nat
          /\ barriers[NumConsumers] \in Nat /\ minPosition \in Nat
          /\ barriers'[NumConsumers] \in
                 {barriers[NumConsumers], barriers[NumConsumers] + 1}
      BY LevelFacts, LastLevelFacts DEF IndInv, TypeOK
    <2>2. barriers'[0] - barriers'[NumConsumers] + 1 <= Capacity
      BY <2>1 DEF IndInv, CapacityInv
    <2>3. HasRequiredCapacity' = HasRequiredCapacity
      BY <2>1 DEF HasRequiredCapacity
    <2> QED BY <2>1, <2>2, <2>3 DEF IndInv, CapacityInv
  <1>6. RingInv'
    BY DEF IndInv, RingInv
  <1>7. CompletedInv'
    <2>1. CASE l = LastLevel
      <3>1. position'[LastLevel] = position[LastLevel] + 1
            /\ position[LastLevel] \in Nat
            /\ cpc'[LastLevel] = "inspect" /\ cpc[LastLevel] = "advance"
        BY <2>1 DEF IndInv, TypeOK
      <3> QED BY <3>1 DEF IndInv, CompletedInv
    <2>2. CASE l # LastLevel
      <3>1. position'[LastLevel] = position[LastLevel]
            /\ cpc'[LastLevel] = cpc[LastLevel]
        BY <2>2, LastLevelFacts DEF IndInv, TypeOK
      <3> QED BY <3>1 DEF IndInv, CompletedInv
    <2> QED BY <2>1, <2>2
  <1>8. CountInv'
    <2>1. cpc'[LastLevel] = "uncount" <=> cpc[LastLevel] = "uncount"
      BY LastLevelFacts DEF IndInv, TypeOK
    <2> QED BY <2>1 DEF IndInv, CountInv
  <1> QED BY Zenon, <1>1, <1>2, <1>3, <1>4, <1>5, <1>6, <1>7, <1>8 DEF IndInv

\* The inspector.
LEMMA InspectStep ==
    ASSUME IndInv, NEW l \in Levels, Inspect(l)
    PROVE  IndInv'
  <1> USE DEF Inspect, producerVars, consumerVars, historyVars
  <1>1. TypeOK'
    BY DEF IndInv, TypeOK
  <1>2. LockInv'
    BY DEF IndInv, LockInv, TypeOK
  <1>3. AddedInv'
    BY DEF IndInv, AddedInv, LockInv, TypeOK
  <1>4. BarrierInv'
    BY DEF IndInv, BarrierInv, TypeOK, BeforeAdvance, AfterBarrier
  <1>5. CapacityInv'
    BY DEF IndInv, CapacityInv, HasRequiredCapacity, LockInv, TypeOK
  <1>6. RingInv'
    BY DEF IndInv, RingInv
  <1>7. CompletedInv'
    <2>1. /\ cpc'[LastLevel] = "uncount" <=> cpc[LastLevel] = "uncount"
          /\ cpc'[LastLevel] \in {"inspect", "complete"}
                 <=> cpc[LastLevel] \in {"inspect", "complete"}
      BY LastLevelFacts DEF IndInv, TypeOK
    <2> QED BY <2>1 DEF IndInv, CompletedInv
  <1>8. CountInv'
    <2>1. /\ cpc'[LastLevel] = "uncount" <=> cpc[LastLevel] = "uncount"
          /\ cpc'[LastLevel] \in {"inspect", "complete"}
                 <=> cpc[LastLevel] \in {"inspect", "complete"}
      BY LastLevelFacts DEF IndInv, TypeOK
    <2> QED BY <2>1 DEF IndInv, CountInv
  <1> QED BY Zenon, <1>1, <1>2, <1>3, <1>4, <1>5, <1>6, <1>7, <1>8 DEF IndInv

\* The callback reports the element behind the thread's position.
LEMMA CompleteStep ==
    ASSUME IndInv, NEW l \in Levels, Complete(l)
    PROVE  IndInv'
  <1> USE DEF Complete, producerVars, consumerVars, historyVars
  <1>1. TypeOK'
    <2>1. ring[truncateIndex(position[l] - 1)].id \in Ids
      BY AccessedId DEF AccessedPosition, Accesses, BeforeAdvance, AfterBarrier
    <2>2. truncateIndex(position[l] - 1) \in 0 .. Capacity - 1
      BY SMTT(30) DEF IndInv, TypeOK, BarrierInv, AfterBarrier, truncateIndex
    <2>3. ring[truncateIndex(position[l] - 1)]
              \in [id : Ids, status : {"Aborted", "Normal"}]
      BY SMTT(30), <2>1, <2>2 DEF IndInv, TypeOK
    <2>4. completed' \in Seq([id : Ids, status : {"Aborted", "Normal"}])
      BY <2>3 DEF IndInv, TypeOK
    <2>5. cpc' \in [Levels -> {"loop", "tryNext", "checkSkipped", "consume",
                           "markSkipped", "advance", "inspect", "complete",
                           "uncount", "stopped"}]
      BY DEF IndInv, TypeOK, AfterAdvance
    <2> QED BY Zenon, <2>4, <2>5 DEF IndInv, TypeOK
  <1>2. LockInv'
    BY DEF IndInv, LockInv, TypeOK
  <1>3. AddedInv'
    BY DEF IndInv, AddedInv, LockInv, TypeOK
  <1>4. BarrierInv'
    BY SMTT(30) DEF IndInv, BarrierInv, TypeOK, BeforeAdvance, AfterBarrier
  <1>5. CapacityInv'
    BY DEF IndInv, CapacityInv, HasRequiredCapacity, LockInv, TypeOK
  <1>6. RingInv'
    BY DEF IndInv, RingInv
  <1>7. CompletedInv'
    <2>1. l = LastLevel /\ position[l] \in Nat
          /\ cpc'[l] = "uncount" /\ cpc[l] = "complete"
      BY DEF IndInv, TypeOK, BarrierInv, AfterBarrier
    <2>2. Len(completed') = Len(completed) + 1 /\ Len(completed) \in Nat
      BY DEF IndInv, TypeOK
    <2> QED BY SMTT(30), <2>1, <2>2 DEF IndInv, CompletedInv
  <1>8. CountInv'
    <2>1. l = LastLevel /\ cpc'[l] = "uncount" /\ cpc[l] = "complete"
      BY DEF IndInv, TypeOK, BarrierInv, AfterBarrier
    <2>2. Len(completed') = Len(completed) + 1 /\ Len(completed) \in Nat
          /\ added \in Nat
      BY DEF IndInv, TypeOK
    <2> QED BY <2>1, <2>2 DEF IndInv, CountInv
  <1> QED BY Zenon, <1>1, <1>2, <1>3, <1>4, <1>5, <1>6, <1>7, <1>8 DEF IndInv

\* The count drops once the callback has returned.
LEMMA UncountActiveStep ==
    ASSUME IndInv, NEW l \in Levels, UncountActive(l)
    PROVE  IndInv'
  <1> USE DEF UncountActive, producerVars, consumerVars, historyVars, AfterAdvance
  <1>1. TypeOK'
    <2>1. numActive' \in Nat
      <3>1. /\ l = LastLevel
            /\ added \in Nat /\ Len(completed) \in Nat /\ barriers[0] \in Nat
            /\ position[l] \in Nat
        BY DEF IndInv, TypeOK, BarrierInv, AfterBarrier
      <3>2. Len(completed) <= barriers[0]
        BY <3>1, LastLevelFacts DEF IndInv, CompletedInv, BarrierInv
      <3>3. barriers[0] <= added
        <4>1. CASE addLock = None
          BY <3>1, <4>1 DEF IndInv, AddedInv
        <4>2. CASE addLock # None
          <5>1. PICK r \in Producers : ppc[r] # "idle"
            BY <4>2 DEF IndInv, TypeOK, LockInv
          <5>2. ppc[r] \in {"readMin", "readMax", "add", "publish"}
            BY <5>1 DEF IndInv, TypeOK
          <5>3. added = barriers[0] \/ added = barriers[0] + 1
            BY SMTT(30), <5>2 DEF IndInv, AddedInv
          <5> QED BY <3>1, <5>3
        <4> QED BY <4>1, <4>2
      <3>4. numActive \in {added - Len(completed) + 1, added + 1 - Len(completed) + 1}
        BY <3>1 DEF IndInv, CountInv
      <3> QED BY <3>1, <3>2, <3>3, <3>4
    <2>2. cpc' \in [Levels -> {"loop", "tryNext", "checkSkipped", "consume",
                           "markSkipped", "advance", "inspect", "complete",
                           "uncount", "stopped"}]
      BY DEF IndInv, TypeOK, AfterAdvance
    <2> QED BY SMTT(30), <2>1, <2>2 DEF IndInv, TypeOK
  <1>2. LockInv'
    BY DEF IndInv, LockInv, TypeOK
  <1>3. AddedInv'
    BY DEF IndInv, AddedInv, LockInv, TypeOK
  <1>4. BarrierInv'
    BY DEF IndInv, BarrierInv, TypeOK, BeforeAdvance, AfterBarrier
  <1>5. CapacityInv'
    BY DEF IndInv, CapacityInv, HasRequiredCapacity, LockInv, TypeOK
  <1>6. RingInv'
    BY DEF IndInv, RingInv
  <1>7. CompletedInv'
    <2>1. cpc'[LastLevel] \in {"inspect", "complete"}
              <=> cpc[LastLevel] \in {"inspect", "complete"}
      BY LastLevelFacts DEF IndInv, TypeOK
    <2> QED BY <2>1 DEF IndInv, CompletedInv
  <1>8. CountInv'
    <2>1. l = LastLevel /\ cpc[l] = "uncount" /\ cpc'[l] # "uncount"
      BY DEF IndInv, TypeOK, BarrierInv, AfterBarrier
    <2>2. Len(completed) \in Nat /\ added \in Nat
      BY DEF IndInv, TypeOK
    <2> QED BY <2>1, <2>2 DEF IndInv, CountInv
  <1> QED BY Zenon, <1>1, <1>2, <1>3, <1>4, <1>5, <1>6, <1>7, <1>8 DEF IndInv

\* Every step of a producer, of a consumer thread and shutdown keeps it.
LEMMA NextIndInv == IndInv /\ [Next]_vars => IndInv'
  <1> SUFFICES ASSUME IndInv, [Next]_vars PROVE IndInv'
    OBVIOUS
  <1>1. ASSUME NEW p \in Producers, processElement(p) PROVE IndInv'
    BY SMTT(30), <1>1, AcquireAddLockStep, ReadMinPositionStep, RejectFullStep,
       CountActiveStep, AddStep, PublishStep DEF processElement
  <1>2. ASSUME NEW l \in Levels, consumerThread(l) PROVE IndInv'
    BY SMTT(30), <1>2, CheckKeepRunningStep, ReadBarrierStep, CheckSkippedStep,
       ConsumeStep, MarkSkippedStep, AdvanceStep, InspectStep, CompleteStep,
       UncountActiveStep DEF consumerThread
  <1>3. CASE shutdown
    <2>1. TypeOK'
      BY Zenon, <1>3 DEF IndInv, TypeOK, shutdown, producerVars, consumerVars, historyVars
    <2> QED BY <1>3, <2>1 DEF IndInv, shutdown, LockInv, AddedInv, BarrierInv,
              CapacityInv, HasRequiredCapacity, RingInv, CompletedInv, CountInv,
              producerVars, consumerVars, historyVars
  <1>4. CASE UNCHANGED vars
    BY Zenon, <1>4 DEF IndInv, TypeOK, vars, LockInv, AddedInv, BarrierInv,
       CapacityInv, HasRequiredCapacity, RingInv, CompletedInv, CountInv,
       producerVars, consumerVars, historyVars
  <1> QED BY <1>1, <1>2, <1>3, <1>4 DEF Next

-----------------------------------------------------------------------------
(* The theorems.                                                           *)

\* The invariant holds in every reachable state.
THEOREM Invariance == Spec => []IndInv
  BY InitIndInv, NextIndInv, PTL DEF Spec

\* Every variable of the dispatcher keeps its type: in particular no position
\* and no count of ConsumerDispatcher.cpp is ever decremented below zero.
THEOREM TypeCorrect == Spec => []TypeOK
  <1>1. IndInv => TypeOK
    BY DEF IndInv
  <1> QED BY <1>1, Invariance, PTL

\* Disruptor::add never overwrites the slot of an element that a consumer
\* thread reads, marks, inspects or completes: the slot that
\* canProcessNextElement keeps free is enough, however many threads there are.
THEOREM SlotRaceFreedom == Spec => []NoSlotRace
  BY IndInvRace, Invariance, PTL

\* Every consumer thread works on the element of its position and not on an
\* element of a later lap of the ring.
THEOREM SlotIntegrity == Spec => []SlotHoldsPosition
  BY IndInvSlot, Invariance, PTL

\* m_numActiveElements is exact between the increment in processElement and
\* the decrement after the callback, and never exceeds the disruptor's size.
THEOREM ActiveCountCorrect == Spec => []ActiveCount
  BY IndInvActive, Invariance, PTL

-----------------------------------------------------------------------------
(***************************************************************************)
(* The dispatcher implements the ordered pipeline.  On top of the          *)
(* invariant, which keeps the slot of a thread from being reused, the      *)
(* history of the deliveries has to be related to the positions of the     *)
(* threads and to the flags in the ring.                                   *)
(***************************************************************************)

\* The last id level l has dealt with: in these states the element at its
\* position was given to its consumer, or is being skipped.
Working == {"markSkipped", "advance"}
Reached(l) == IF cpc[l] \in Working THEN position[l] + 1 ELSE position[l]

Given(l, id) == \E i \in 1 .. Len(delivered[l]) : delivered[l][i] = id

\* A level was given what it has reached, unless an earlier level has aborted
\* it, and nothing else.
DeliveredInv ==
    \A l \in Levels, id \in Ids :
        /\ id <= Reached(l) => Given(l, id) \/ rejecter[id] < l
        /\ Given(l, id) => id <= Reached(l)

\* The flag in the ring tells whether some level has aborted the element, as
\* long as the ring holds the element.
FlagInv ==
    \A q \in 0 .. MaxElements :
        q < added /\ added <= q + Capacity =>
            (ring[truncateIndex(q)].status = "Aborted" <=> rejecter[q + 1] \in Levels)

\* Only an element that a level has reached can have been aborted by it.
RejecterInv == \A id \in Ids, l \in Levels : rejecter[id] = l => id <= Reached(l)

\* What a thread knows of the element at its position.
ElementInv ==
    \A l \in Levels :
        /\ cpc[l] \in {"consume", "markSkipped"} =>
               rejecter[position[l] + 1] = NoLevel /\ ~skipping[l]
        /\ cpc[l] = "advance" /\ skipping[l] => rejecter[position[l] + 1] < l
        /\ cpc[l] = "markSkipped" =>
               delivered[l] # <<>> /\ delivered[l][Len(delivered[l])] = position[l] + 1

HistoryInv == DeliveredInv /\ FlagInv /\ RejecterInv /\ ElementInv

RefInv == IndInv /\ HistoryInv

-----------------------------------------------------------------------------
\* A level is between the barriers around it, behind every level before it.
LEMMA Positions ==
    ASSUME IndInv, NEW l \in Levels
    PROVE  /\ position[l] \in Nat /\ Reached(l) \in Nat
           /\ position[l] <= Reached(l)
           /\ Reached(l) <= barriers[l] /\ barriers[l] <= barriers[0] /\ barriers[0] <= added
           /\ added <= MaxElements
           /\ barriers[l] \in Nat
           /\ \A k \in Levels : k < l => barriers[l] <= position[k]
  <1>1. /\ position[l] \in Nat /\ added \in Nat /\ added <= MaxElements
        /\ \A i \in 0 .. NumConsumers : barriers[i] \in Nat
    BY DEF IndInv, TypeOK
  <1>2. /\ l \in 0 .. NumConsumers /\ l + 1 \in 0 .. NumConsumers /\ 0 \in 0 .. NumConsumers
        /\ 0 <= l
    BY DEF Levels
  <1>3. position[l] = barriers[l + 1] /\ barriers[l + 1] <= barriers[l] /\ barriers[l] <= barriers[0]
    BY <1>2 DEF IndInv, BarrierInv
  <1>4. Reached(l) \in Nat /\ position[l] <= Reached(l) /\ Reached(l) <= barriers[l]
    <2>1. CASE cpc[l] \in Working
      <3>1. position[l] < barriers[l]
        BY <2>1 DEF IndInv, BarrierInv, Working, BeforeAdvance
      <3>2. QED
        BY <1>1, <1>2, <2>1, <3>1 DEF Reached
    <2>2. CASE cpc[l] \notin Working
      BY <1>1, <1>2, <1>3, <2>2 DEF Reached
    <2>3. QED
      BY <2>1, <2>2
  <1>5. barriers[0] <= added
    <2>1. CASE addLock = None
      BY <1>1, <1>2, <2>1 DEF IndInv, AddedInv
    <2>2. CASE addLock # None
      <3>1. PICK p \in Producers : addLock = p
        BY <2>2 DEF IndInv, TypeOK
      <3>2. ppc[p] \in {"readMin", "readMax", "add", "publish"}
        BY <3>1 DEF IndInv, TypeOK, LockInv
      <3>3. QED
        BY <1>1, <1>2, <3>2 DEF IndInv, AddedInv
    <2>3. QED
      BY <2>1, <2>2
  <1>6. ASSUME NEW k \in Levels, k < l PROVE barriers[l] <= position[k]
    <2>1. k + 1 \in 0 .. NumConsumers /\ k + 1 <= l
      BY <1>6 DEF Levels
    <2>2. position[k] = barriers[k + 1] /\ barriers[l] <= barriers[k + 1]
      BY <1>2, <2>1 DEF IndInv, BarrierInv
    <2>3. QED
      BY <2>2
  <1>7. QED
    BY <1>1, <1>2, <1>3, <1>4, <1>5, <1>6

\* The element a thread works on before it advances.
LEMMA CurrentElement ==
    ASSUME IndInv, NEW l \in Levels, cpc[l] \in BeforeAdvance
    PROVE  /\ position[l] \in 0 .. MaxElements /\ position[l] + 1 \in Ids
           /\ position[l] < added /\ added <= position[l] + Capacity
           /\ position[l] + 1 <= barriers[l]
           /\ ring[truncateIndex(position[l])].id = position[l] + 1
  <1>1. Accesses(l) /\ AccessedPosition(l) = position[l]
    BY DEF Accesses, AccessedPosition, BeforeAdvance, AfterBarrier
  <1>2. /\ position[l] \in 0 .. MaxElements /\ position[l] < added
        /\ added <= position[l] + Capacity
    BY <1>1, AccessWindow
  <1>3. ring[truncateIndex(position[l])].id = position[l] + 1
    BY <1>1, IndInvSlot DEF SlotHoldsPosition
  <1>4. position[l] < barriers[l] /\ barriers[l] \in Nat
    BY DEF IndInv, BarrierInv, TypeOK, Levels
  <1>5. added \in 0 .. MaxElements
    BY DEF IndInv, TypeOK
  <1>6. QED
    BY <1>2, <1>3, <1>4, <1>5 DEF Ids

\* Two threads never work on the same element before they advance.
LEMMA DistinctElements ==
    ASSUME IndInv, NEW l \in Levels, NEW k \in Levels, k # l,
           cpc[l] \in BeforeAdvance, cpc[k] \in BeforeAdvance
    PROVE  position[l] # position[k]
  <1>1. /\ position[l] \in Nat /\ position[k] \in Nat /\ barriers[l] \in Nat /\ barriers[k] \in Nat
        /\ k < l => barriers[l] <= position[k]
        /\ l < k => barriers[k] <= position[l]
    BY Positions
  <1>2. position[l] < barriers[l] /\ position[k] < barriers[k]
    BY DEF IndInv, BarrierInv
  <1>3. k < l \/ l < k
    BY DEF Levels
  <1>4. QED
    BY <1>1, <1>2, <1>3

-----------------------------------------------------------------------------
(* The relation between the history and the threads is kept by every step. *)

LEMMA InitHistory == Init => HistoryInv
  <1> SUFFICES ASSUME Init PROVE HistoryInv
    OBVIOUS
  <1>1. \A l \in Levels : cpc[l] = "loop" /\ Reached(l) = 0 /\ delivered[l] = <<>>
    BY DEF Init, Reached, Working
  <1>2. DeliveredInv
    BY <1>1 DEF DeliveredInv, Given, Ids
  <1>3. FlagInv /\ RejecterInv
    BY DEF Init, FlagInv, RejecterInv, NoLevel, Levels
  <1>4. ElementInv
    BY <1>1 DEF ElementInv
  <1>5. QED
    BY <1>2, <1>3, <1>4 DEF HistoryInv

\* Steps that neither touch an element nor change what a level has reached.
LEMMA QuietStep ==
    ASSUME HistoryInv, UNCHANGED <<ring, added, delivered, rejecter>>,
           \A l \in Levels : Reached(l)' = Reached(l),
           \A l \in Levels :
               cpc'[l] \in {"consume", "markSkipped", "advance"} =>
                   cpc'[l] = cpc[l] /\ position'[l] = position[l] /\ skipping'[l] = skipping[l]
    PROVE  HistoryInv'
  <1>1. DeliveredInv'
    BY DEF HistoryInv, DeliveredInv, Given
  <1>2. FlagInv'
    BY DEF HistoryInv, FlagInv
  <1>3. RejecterInv'
    BY DEF HistoryInv, RejecterInv
  <1>4. ElementInv'
    BY DEF HistoryInv, ElementInv
  <1>5. QED
    BY <1>1, <1>2, <1>3, <1>4 DEF HistoryInv

\* The steps of a producer but for Disruptor::add.
LEMMA ProducerQuiet ==
    ASSUME HistoryInv, UNCHANGED <<ring, added, consumerVars, historyVars>>
    PROVE  HistoryInv'
  <1>1. \A l \in Levels : Reached(l)' = Reached(l)
    BY DEF Reached, consumerVars
  <1>2. QED
    BY <1>1, QuietStep, Zenon DEF consumerVars, historyVars

\* The steps of a thread outside of the work on an element.
LEMMA ThreadQuiet ==
    ASSUME RefInv, NEW l \in Levels, NEW label, cpc' = [cpc EXCEPT ![l] = label],
           cpc[l] \notin Working, label \notin {"consume", "markSkipped", "advance"},
           UNCHANGED <<ring, added, position, skipping, delivered, rejecter>>
    PROVE  HistoryInv'
  <1>1. \A k \in Levels : cpc'[k] = IF k = l THEN label ELSE cpc[k]
    BY DEF RefInv, IndInv, TypeOK
  <1>2. \A k \in Levels : Reached(k)' = Reached(k)
    BY <1>1 DEF Reached, Working
  <1>3. QED
    BY <1>1, <1>2, QuietStep DEF RefInv

\* The entry moves past the element the level has dealt with.
LEMMA AdvanceHistory ==
    ASSUME RefInv, NEW l \in Levels, Advance(l)
    PROVE  HistoryInv'
  <1>1. /\ \A k \in Levels : k # l => cpc'[k] = cpc[k] /\ position'[k] = position[k]
        /\ cpc[l] = "advance" /\ position'[l] = position[l] + 1
        /\ cpc'[l] \in {"inspect", "tryNext", "loop"}
    BY DEF RefInv, IndInv, TypeOK, Advance, AfterAdvance
  <1>2. UNCHANGED <<ring, added, delivered, rejecter, skipping>>
    BY DEF Advance, historyVars
  <1>3. \A k \in Levels : Reached(k)' = Reached(k)
    BY <1>1 DEF Reached, Working
  <1>4. QED
    BY <1>1, <1>2, <1>3, QuietStep DEF RefInv

\* A new element is not aborted, and it does not take the place of one that
\* the ring still holds afterwards.
LEMMA AddHistory ==
    ASSUME RefInv, NEW p \in Producers, Add(p)
    PROVE  HistoryInv'
  <1>1. \A l \in Levels : Reached(l)' = Reached(l)
    BY DEF Add, Reached, consumerVars
  <1>2. DeliveredInv' /\ RejecterInv' /\ ElementInv'
    BY <1>1 DEF RefInv, HistoryInv, DeliveredInv, Given, RejecterInv, ElementInv, Add, consumerVars,
                historyVars
  <1>3. FlagInv'
    <2> SUFFICES ASSUME NEW q \in 0 .. MaxElements, q < added', added' <= q + Capacity
                 PROVE  ring'[truncateIndex(q)].status = "Aborted" <=> rejecter[q + 1] \in Levels
      BY DEF FlagInv, Add, historyVars
    <2>1. added \in Nat /\ added' = added + 1 /\ added < MaxElements
      BY DEF RefInv, IndInv, TypeOK, AddedInv, Add
    <2>2. truncateIndex(added) \in 0 .. Capacity - 1 /\ truncateIndex(q) \in 0 .. Capacity - 1
      BY <2>1 DEF truncateIndex
    <2>3. \A s \in 0 .. Capacity - 1 :
             ring'[s] = IF s = truncateIndex(added) THEN NewElement(added + 1) ELSE ring[s]
      BY DEF RefInv, IndInv, TypeOK, Add
    <2>4. CASE q = added
      <3>1. rejecter[added + 1] \notin Levels
        <4>1. added + 1 \in Ids
          BY <2>1 DEF Ids
        <4>2. SUFFICES ASSUME rejecter[added + 1] \in Levels PROVE FALSE
          OBVIOUS
        <4>3. added + 1 <= Reached(rejecter[added + 1])
          BY <4>1, <4>2 DEF RefInv, HistoryInv, RejecterInv
        <4>4. /\ Reached(rejecter[added + 1]) \in Nat
              /\ Reached(rejecter[added + 1]) <= barriers[rejecter[added + 1]]
              /\ barriers[rejecter[added + 1]] <= barriers[0] /\ barriers[0] <= added
              /\ barriers[rejecter[added + 1]] \in Nat
          BY <4>2, Positions DEF RefInv
        <4>5. barriers[0] \in Nat
          BY DEF RefInv, IndInv, TypeOK
        <4>6. QED
          BY <2>1, <4>3, <4>4, <4>5
      <3>2. QED
        BY <2>2, <2>3, <2>4, <3>1 DEF NewElement
    <2>5. CASE q # added
      <3>1. q \in Nat /\ q < added /\ added - q < Capacity /\ added <= q + Capacity
        BY <2>1, <2>5
      <3>2. truncateIndex(q) # truncateIndex(added)
        BY <2>1, <3>1, ModInjective, Zenon DEF truncateIndex
      <3>3. ring'[truncateIndex(q)] = ring[truncateIndex(q)]
        BY <2>2, <2>3, <3>2
      <3>4. QED
        BY <3>1, <3>3 DEF RefInv, HistoryInv, FlagInv
    <2>6. QED
      BY <2>4, <2>5
  <1>4. QED
    BY <1>2, <1>3 DEF HistoryInv

\* A flag that is set was set by an earlier level: the levels behind have not
\* reached the element, nor has this one.
LEMMA CheckSkippedHistory ==
    ASSUME RefInv, NEW l \in Levels, CheckSkipped(l)
    PROVE  HistoryInv'
  <1> DEFINE id == position[l] + 1
             isSkipped == ring[truncateIndex(position[l])].status = "Aborted"
  <1>1. /\ position[l] \in 0 .. MaxElements /\ id \in Ids
        /\ position[l] < added /\ added <= position[l] + Capacity
    <2>1. cpc[l] \in BeforeAdvance
      BY DEF CheckSkipped, BeforeAdvance
    <2>2. IndInv
      BY DEF RefInv
    <2>3. QED
      BY <2>1, <2>2, CurrentElement
  <1>2. isSkipped <=> rejecter[id] \in Levels
    BY <1>1 DEF RefInv, HistoryInv, FlagInv
  <1>3. rejecter[id] \in 0 .. NumConsumers
    BY <1>1 DEF RefInv, IndInv, TypeOK
  <1>4. ~isSkipped => rejecter[id] = NoLevel
    BY <1>2, <1>3 DEF NoLevel, Levels
  <1>5. Reached(l) = position[l]
    BY DEF CheckSkipped, Reached, Working
  <1>6. isSkipped => rejecter[id] < l
    <2> SUFFICES ASSUME rejecter[id] \in Levels, ~(rejecter[id] < l) PROVE FALSE
      BY <1>2
    <2> DEFINE k == rejecter[id]
    <2>1. id <= Reached(k)
      BY <1>1 DEF RefInv, HistoryInv, RejecterInv
    <2>2. k # l
      BY <1>1, <1>5, <2>1
    <2>3. l < k
      BY <2>2 DEF Levels
    <2>4. Reached(k) <= barriers[k] /\ barriers[k] <= position[l] /\ Reached(k) \in Nat
          /\ barriers[k] \in Nat
      BY <2>3, Positions DEF RefInv
    <2>5. QED
      BY <1>1, <2>1, <2>4
  <1>7. /\ \A k \in Levels : k # l => cpc'[k] = cpc[k] /\ skipping'[k] = skipping[k]
        /\ cpc'[l] = (IF isSkipped THEN "advance" ELSE "consume") /\ skipping'[l] = isSkipped
        /\ UNCHANGED <<ring, added, position, delivered, rejecter>>
    BY DEF RefInv, IndInv, TypeOK, CheckSkipped, historyVars
  <1> HIDE DEF isSkipped
  <1>8. /\ \A k \in Levels : k # l => Reached(k)' = Reached(k)
        /\ Reached(l)' = IF isSkipped THEN id ELSE position[l]
    BY <1>7 DEF Reached, Working
  <1>9. DeliveredInv'
    <2> SUFFICES ASSUME NEW k \in Levels, NEW x \in Ids
                 PROVE  /\ x <= Reached(k)' => Given(k, x) \/ rejecter[x] < k
                        /\ Given(k, x) => x <= Reached(k)'
      BY <1>7 DEF DeliveredInv, Given
    <2>1. /\ x <= Reached(k) => Given(k, x) \/ rejecter[x] < k
          /\ Given(k, x) => x <= Reached(k)
      BY DEF RefInv, HistoryInv, DeliveredInv
    <2>2. CASE k = l
      BY <1>1, <1>5, <1>6, <1>8, <2>1, <2>2 DEF Ids
    <2>3. CASE k # l
      BY <1>8, <2>1, <2>3
    <2>4. QED
      BY <2>2, <2>3
  <1>10. FlagInv'
    BY <1>7 DEF RefInv, HistoryInv, FlagInv
  <1>11. RejecterInv'
    <2> SUFFICES ASSUME NEW x \in Ids, NEW k \in Levels, rejecter[x] = k PROVE x <= Reached(k)'
      BY <1>7 DEF RejecterInv
    <2>1. x <= Reached(k)
      BY DEF RefInv, HistoryInv, RejecterInv
    <2>2. CASE k = l
      BY <1>1, <1>5, <1>8, <2>1, <2>2 DEF Ids
    <2>3. CASE k # l
      BY <1>8, <2>1, <2>3
    <2>4. QED
      BY <2>2, <2>3
  <1>12. ElementInv'
    BY <1>4, <1>6, <1>7 DEF RefInv, HistoryInv, ElementInv
  <1>13. QED
    BY <1>9, <1>10, <1>11, <1>12 DEF HistoryInv

\* The consumer of the level is called with the element at its position.
LEMMA ConsumeHistory ==
    ASSUME RefInv, NEW l \in Levels, Consume(l)
    PROVE  HistoryInv'
  <1> DEFINE id == position[l] + 1
  <1>1. id \in Ids /\ position[l] \in Nat /\ ring[truncateIndex(position[l])].id = id
    <2>1. cpc[l] \in BeforeAdvance
      BY DEF Consume, BeforeAdvance
    <2>2. IndInv
      BY DEF RefInv
    <2>3. QED
      BY <2>1, <2>2, CurrentElement
  <1>2. Reached(l) = position[l]
    BY DEF Consume, Reached, Working
  <1>3. /\ \A k \in Levels : k # l => cpc'[k] = cpc[k]
        /\ cpc'[l] \in Working
        /\ UNCHANGED <<ring, added, position, skipping, rejecter>>
    BY DEF RefInv, IndInv, TypeOK, Consume, Working
  <1>4. /\ \A k \in Levels : k # l => Reached(k)' = Reached(k)
        /\ Reached(l)' = id
    BY <1>3 DEF Reached
  <1>5. /\ \A k \in Levels : k # l => delivered'[k] = delivered[k]
        /\ delivered'[l] = Append(delivered[l], id)
        /\ delivered[l] \in Seq(Ids)
    BY <1>1 DEF RefInv, IndInv, TypeOK, Consume
  <1>6. /\ Len(delivered'[l]) = Len(delivered[l]) + 1 /\ Len(delivered[l]) \in Nat
        /\ delivered'[l][Len(delivered[l]) + 1] = id
        /\ \A i \in 1 .. Len(delivered[l]) : delivered'[l][i] = delivered[l][i]
    BY SMTT(30), <1>1, <1>5
  <1>7. \A x : Given(l, x)' <=> Given(l, x) \/ x = id
    BY SMTT(30), <1>6 DEF Given
  <1>8. \A k \in Levels : k # l => \A x : Given(k, x)' <=> Given(k, x)
    BY <1>5 DEF Given
  <1>9. DeliveredInv'
    <2> SUFFICES ASSUME NEW k \in Levels, NEW x \in Ids
                 PROVE  /\ x <= Reached(k)' => Given(k, x)' \/ rejecter[x] < k
                        /\ Given(k, x)' => x <= Reached(k)'
      BY SMTT(30), <1>3 DEF DeliveredInv
    <2>1. /\ x <= Reached(k) => Given(k, x) \/ rejecter[x] < k
          /\ Given(k, x) => x <= Reached(k)
      BY DEF RefInv, HistoryInv, DeliveredInv
    <2>2. CASE k = l
      BY <1>1, <1>2, <1>4, <1>7, <2>1, <2>2 DEF Ids
    <2>3. CASE k # l
      BY <1>4, <1>8, <2>1, <2>3
    <2>4. QED
      BY <2>2, <2>3
  <1>10. FlagInv'
    BY <1>3 DEF RefInv, HistoryInv, FlagInv
  <1>11. RejecterInv'
    <2> SUFFICES ASSUME NEW x \in Ids, NEW k \in Levels, rejecter[x] = k PROVE x <= Reached(k)'
      BY <1>3 DEF RejecterInv
    <2>1. x <= Reached(k)
      BY DEF RefInv, HistoryInv, RejecterInv
    <2>2. CASE k = l
      BY <1>1, <1>2, <1>4, <2>1, <2>2 DEF Ids
    <2>3. CASE k # l
      BY <1>4, <2>1, <2>3
    <2>4. QED
      BY <2>2, <2>3
  <1>12. ElementInv'
    <2>1. rejecter[id] = NoLevel
      BY DEF RefInv, HistoryInv, ElementInv, Consume
    <2>2. ~skipping[l]
      BY DEF RefInv, HistoryInv, ElementInv, Consume
    <2>3. QED
      BY <1>3, <1>5, <1>6, <2>1, <2>2 DEF RefInv, HistoryInv, ElementInv, Working
  <1>13. QED
    BY <1>9, <1>10, <1>11, <1>12 DEF HistoryInv

\* The level aborts the element at its position, in the ring and in the
\* history; no other thread works on that element.
LEMMA MarkSkippedHistory ==
    ASSUME RefInv, NEW l \in Levels, MarkSkipped(l)
    PROVE  HistoryInv'
  <1> DEFINE id == position[l] + 1
             slot == truncateIndex(position[l])
  <1>1. /\ id \in Ids /\ position[l] \in 0 .. MaxElements /\ ring[slot].id = id
        /\ position[l] < added /\ added <= position[l] + Capacity
    <2>1. cpc[l] \in BeforeAdvance
      BY DEF MarkSkipped, BeforeAdvance
    <2>2. IndInv
      BY DEF RefInv
    <2>3. QED
      BY <2>1, <2>2, CurrentElement
  <1>2. rejecter[id] = NoLevel /\ ~skipping[l]
    BY DEF RefInv, HistoryInv, ElementInv, MarkSkipped
  <1>3. /\ \A k \in Levels : k # l => cpc'[k] = cpc[k]
        /\ cpc[l] = "markSkipped" /\ cpc'[l] = "advance"
        /\ UNCHANGED <<added, position, skipping, delivered>>
    BY DEF RefInv, IndInv, TypeOK, MarkSkipped
  <1>4. \A k \in Levels : Reached(k)' = Reached(k)
    BY <1>3 DEF Reached, Working
  <1>5. \A x \in Ids : rejecter'[x] = IF x = id THEN l ELSE rejecter[x]
    BY <1>1 DEF RefInv, IndInv, TypeOK, MarkSkipped
  <1>6. slot \in 0 .. Capacity - 1
    BY <1>1 DEF truncateIndex
  <1>7. /\ \A s \in 0 .. Capacity - 1 : s # slot => ring'[s] = ring[s]
        /\ ring'[slot].status = "Aborted"
    BY <1>6 DEF RefInv, IndInv, TypeOK, MarkSkipped
  <1> HIDE DEF slot
  <1>8. DeliveredInv'
    <2> SUFFICES ASSUME NEW k \in Levels, NEW x \in Ids
                 PROVE  /\ x <= Reached(k)' => Given(k, x) \/ rejecter'[x] < k
                        /\ Given(k, x) => x <= Reached(k)'
      BY <1>3 DEF DeliveredInv, Given
    <2>1. /\ x <= Reached(k) => Given(k, x) \/ rejecter[x] < k
          /\ Given(k, x) => x <= Reached(k)
      BY DEF RefInv, HistoryInv, DeliveredInv
    <2>2. ~(NoLevel < k)
      BY DEF NoLevel, Levels
    <2>3. QED
      BY <1>2, <1>4, <1>5, <2>1, <2>2
  <1>9. FlagInv'
    <2> SUFFICES ASSUME NEW q \in 0 .. MaxElements, q < added, added <= q + Capacity
                 PROVE  ring'[truncateIndex(q)].status = "Aborted" <=> rejecter'[q + 1] \in Levels
      BY <1>3 DEF FlagInv
    <2>1. added \in 0 .. MaxElements /\ truncateIndex(q) \in 0 .. Capacity - 1 /\ q + 1 \in Ids
      BY DEF RefInv, IndInv, TypeOK, truncateIndex, Ids
    <2>2. ring[truncateIndex(q)].id = q + 1
      BY DEF RefInv, IndInv, RingInv
    <2>3. ring[truncateIndex(q)].status = "Aborted" <=> rejecter[q + 1] \in Levels
      BY DEF RefInv, HistoryInv, FlagInv
    <2>4. CASE q + 1 = id
      <3>1. truncateIndex(q) = slot
        BY <1>1, <2>4 DEF slot
      <3>2. QED
        BY <1>5, <1>7, <2>1, <2>4, <3>1
    <2>5. CASE q + 1 # id
      <3>1. truncateIndex(q) # slot
        BY <1>1, <2>2, <2>5
      <3>2. QED
        BY <1>5, <1>7, <2>1, <2>3, <2>5, <3>1
    <2>6. QED
      BY <2>4, <2>5
  <1>10. RejecterInv'
    <2> SUFFICES ASSUME NEW x \in Ids, NEW k \in Levels, rejecter'[x] = k PROVE x <= Reached(k)
      BY <1>4 DEF RejecterInv
    <2>1. CASE x = id
      <3>1. k = l /\ Reached(l) = id
        BY <1>3, <1>5, <2>1 DEF Reached, Working
      <3>2. QED
        BY <1>1, <2>1, <3>1 DEF Ids
    <2>2. CASE x # id
      BY SMTT(30), <1>5, <2>2 DEF RefInv, HistoryInv, RejecterInv
    <2>3. QED
      BY <2>1, <2>2
  <1>11. ElementInv'
    <2> SUFFICES ASSUME NEW k \in Levels
                 PROVE  /\ cpc'[k] \in {"consume", "markSkipped"} =>
                               rejecter'[position[k] + 1] = NoLevel /\ ~skipping[k]
                        /\ cpc'[k] = "advance" /\ skipping[k] => rejecter'[position[k] + 1] < k
                        /\ cpc'[k] = "markSkipped" =>
                               /\ delivered[k] # <<>>
                               /\ delivered[k][Len(delivered[k])] = position[k] + 1
      BY <1>3 DEF ElementInv
    <2>1. CASE k = l
      BY <1>2, <1>3, <2>1
    <2>2. CASE k # l /\ cpc[k] \in {"consume", "markSkipped"}
      <3>1. position[k] # position[l] /\ position[k] + 1 \in Ids /\ position[k] \in Nat
        BY <1>3, <2>2, DistinctElements, CurrentElement DEF RefInv, BeforeAdvance
      <3>2. rejecter'[position[k] + 1] = rejecter[position[k] + 1]
        BY <1>1, <1>5, <3>1
      <3>3. QED
        BY <1>3, <2>2, <3>2 DEF RefInv, HistoryInv, ElementInv
    <2>3. CASE k # l /\ cpc[k] = "advance"
      <3> SUFFICES ASSUME skipping[k] PROVE rejecter'[position[k] + 1] < k
        BY <1>3, <2>3
      <3>1. rejecter[position[k] + 1] < k
        BY <2>3 DEF RefInv, HistoryInv, ElementInv
      <3>2. position[k] + 1 \in Ids
        <4>1. position[k] \in Nat /\ position[k] < barriers[k] /\ barriers[k] \in Nat
          BY <2>3 DEF RefInv, IndInv, TypeOK, BarrierInv, Levels
        <4>2. barriers[k] <= barriers[0] /\ barriers[0] <= added /\ added <= MaxElements
          BY Positions DEF RefInv
        <4>3. barriers[0] \in Nat /\ added \in Nat
          BY DEF RefInv, IndInv, TypeOK
        <4>4. QED
          BY <4>1, <4>2, <4>3 DEF Ids
      <3>3. position[k] + 1 # id
        BY <1>2, <3>1 DEF NoLevel, Levels
      <3>4. QED
        BY <1>5, <3>1, <3>2, <3>3
    <2>4. QED
      BY <1>3, <2>1, <2>2, <2>3
  <1>12. QED
    BY <1>8, <1>9, <1>10, <1>11 DEF HistoryInv

\* Every step keeps the relation.
LEMMA NextRefInv == RefInv /\ [Next]_vars => RefInv'
  <1> SUFFICES ASSUME RefInv, [Next]_vars PROVE HistoryInv'
    BY NextIndInv DEF RefInv
  <1>1. ASSUME NEW p \in Producers, processElement(p) PROVE HistoryInv'
    <2>1. CASE Add(p)
      BY <2>1, AddHistory
    <2>2. CASE ~Add(p)
      <3>1. UNCHANGED <<ring, added, consumerVars, historyVars>>
        BY <1>1, <2>2 DEF processElement, AcquireAddLock, ReadMinPosition, RejectFull, CountActive,
                          Publish
      <3>2. QED
        BY <3>1, ProducerQuiet DEF RefInv
    <2>3. QED
      BY <2>1, <2>2
  <1>2. ASSUME NEW l \in Levels, consumerThread(l) PROVE HistoryInv'
    <2>1. CASE CheckSkipped(l) \/ Consume(l) \/ MarkSkipped(l) \/ Advance(l)
      BY <2>1, CheckSkippedHistory, ConsumeHistory, MarkSkippedHistory, AdvanceHistory
    <2>2. CASE CheckKeepRunning(l)
      <3>1. PICK label \in {"tryNext", "stopped"} : cpc' = [cpc EXCEPT ![l] = label]
        BY Zenon, <2>2 DEF CheckKeepRunning
      <3>2. cpc[l] \notin Working /\ UNCHANGED <<ring, added, position, skipping, delivered, rejecter>>
        BY <2>2 DEF CheckKeepRunning, Working, historyVars
      <3>3. QED
        BY Zenon, <3>1, <3>2, ThreadQuiet
    <2>3. CASE ReadBarrier(l)
      <3>1. PICK label \in {"loop", "checkSkipped"} : cpc' = [cpc EXCEPT ![l] = label]
        BY Zenon, <2>3 DEF ReadBarrier
      <3>2. cpc[l] \notin Working /\ UNCHANGED <<ring, added, position, skipping, delivered, rejecter>>
        BY <2>3 DEF ReadBarrier, Working, historyVars
      <3>3. QED
        BY Zenon, <3>1, <3>2, ThreadQuiet
    <2>4. CASE Inspect(l)
      BY Zenon, <2>4, ThreadQuiet DEF Inspect, Working, historyVars
    <2>5. CASE Complete(l)
      BY Zenon, <2>5, ThreadQuiet DEF Complete, Working
    <2>6. CASE UncountActive(l)
      <3>1. PICK label \in {"loop", "tryNext"} : cpc' = [cpc EXCEPT ![l] = label]
        BY Zenon, <2>6 DEF UncountActive, AfterAdvance
      <3>2. cpc[l] \notin Working /\ UNCHANGED <<ring, added, position, skipping, delivered, rejecter>>
        BY <2>6 DEF UncountActive, Working, historyVars
      <3>3. QED
        BY Zenon, <3>1, <3>2, ThreadQuiet
    <2>7. QED
      BY <1>2, <2>1, <2>2, <2>3, <2>4, <2>5, <2>6 DEF consumerThread
  <1>3. CASE shutdown \/ UNCHANGED vars
    <2>1. UNCHANGED <<ring, added, consumerVars, historyVars>>
      BY <1>3 DEF shutdown, vars
    <2>2. QED
      BY <2>1, ProducerQuiet DEF RefInv
  <1>4. QED
    BY <1>1, <1>2, <1>3 DEF Next

LEMMA RefInvariance == Spec => []RefInv
  <1>1. Init => RefInv
    BY InitIndInv, InitHistory DEF RefInv
  <1>2. QED
    BY <1>1, NextRefInv, PTL DEF Spec

-----------------------------------------------------------------------------
(* The refinement, one step for each kind of step of the pipeline.         *)

\* What it means in the dispatcher that a level has nothing left to do.
LEMMA PassedMeans ==
    ASSUME NEW l \in Levels, NEW id \in Ids
    PROVE  Pipeline!Passed(l, id) <=> Given(l, id) \/ rejecter[id] < l
  BY DEF Pipeline!Passed, Pipeline!Delivered, Given

\* A level has passed everything up to its position.
LEMMA PassedBelow ==
    ASSUME RefInv, NEW l \in Levels, NEW id \in Ids, id <= position[l]
    PROVE  Pipeline!Passed(l, id)
  <1>1. id <= Reached(l)
    BY Positions DEF RefInv, Ids
  <1>2. QED
    BY <1>1, PassedMeans DEF RefInv, HistoryInv, DeliveredInv

LEMMA InitRefines == Init => Pipeline!Init
  BY DEF Init, Pipeline!Init, Levels, Pipeline!Levels, Ids, NoLevel

LEMMA PublishRefines ==
    ASSUME RefInv, NEW p \in Producers, Publish(p)
    PROVE  Pipeline!Accept
  <1>1. added = barriers[0] + 1 /\ added <= MaxElements
    BY DEF RefInv, IndInv, TypeOK, AddedInv, Publish
  <1>2. barriers[0] \in Nat /\ barriers'[0] = barriers[0] + 1
    BY DEF RefInv, IndInv, TypeOK, Publish
  <1>3. QED
    BY <1>1, <1>2 DEF Pipeline!Accept, Publish, historyVars

LEMMA ConsumeRefines ==
    ASSUME RefInv, NEW l \in Levels, Consume(l)
    PROVE  Pipeline!Deliver(l)
  <1> DEFINE id == position[l] + 1
  <1>1. /\ id \in Ids /\ position[l] \in Nat /\ id <= barriers[l]
        /\ ring[truncateIndex(position[l])].id = id
    <2>1. cpc[l] \in BeforeAdvance
      BY DEF Consume, BeforeAdvance
    <2>2. IndInv
      BY DEF RefInv
    <2>3. QED
      BY <2>1, <2>2, CurrentElement
  <1>2. /\ barriers[l] <= barriers[0] /\ barriers[l] \in Nat
        /\ \A k \in Levels : k < l => barriers[l] <= position[k] /\ position[k] \in Nat
    BY Positions DEF RefInv
  <1>3. barriers[0] \in Nat
    BY DEF RefInv, IndInv, TypeOK
  <1>4. id \in 1 .. barriers[0]
    BY <1>1, <1>2, <1>3 DEF Ids
  <1>5. ~Pipeline!Passed(l, id)
    <2>1. Reached(l) = position[l]
      BY DEF Reached, Working, Consume
    <2>2. ~Given(l, id)
      BY <1>1, <2>1 DEF RefInv, HistoryInv, DeliveredInv
    <2>3. ~(rejecter[id] < l)
      BY DEF RefInv, HistoryInv, ElementInv, Consume, NoLevel, Levels
    <2>4. QED
      BY <1>1, <2>2, <2>3, PassedMeans
  <1>6. ASSUME NEW k \in 0 .. l - 1 PROVE Pipeline!Passed(k, id)
    <2>1. k \in Levels /\ k < l
      BY DEF Levels
    <2>2. id <= position[k]
      BY <1>1, <1>2, <2>1
    <2>3. QED
      BY <1>1, <2>1, <2>2, PassedBelow
  <1>7. ASSUME NEW earlier \in 1 .. id - 1 PROVE Pipeline!Passed(l, earlier)
    <2>1. earlier \in Ids /\ earlier <= position[l]
      BY <1>1 DEF Ids
    <2>2. QED
      BY <2>1, PassedBelow
  <1>8. /\ delivered' = [delivered EXCEPT ![l] = Append(@, id)]
        /\ UNCHANGED <<barriers[0], rejecter, completed>>
    BY <1>1 DEF Consume
  <1> HIDE DEF id
  <1>9. QED
    BY Zenon, <1>4, <1>5, <1>6, <1>7, <1>8 DEF Pipeline!Deliver

LEMMA MarkSkippedRefines ==
    ASSUME RefInv, NEW l \in Levels, MarkSkipped(l)
    PROVE  Pipeline!Reject(l)
  <1> DEFINE id == position[l] + 1
  <1>1. /\ id \in Ids /\ position[l] \in Nat
        /\ ring[truncateIndex(position[l])].id = id
    <2>1. cpc[l] \in BeforeAdvance
      BY DEF MarkSkipped, BeforeAdvance
    <2>2. IndInv
      BY DEF RefInv
    <2>3. QED
      BY <2>1, <2>2, CurrentElement
  <1>2. /\ delivered[l] # <<>> /\ delivered[l][Len(delivered[l])] = id
        /\ rejecter[id] = NumConsumers
    BY DEF RefInv, HistoryInv, ElementInv, MarkSkipped, NoLevel
  <1>3. ASSUME NEW k \in l + 1 .. NumConsumers - 1 PROVE ~Pipeline!Delivered(k, id)
    <2>1. k \in Levels /\ l < k
      BY DEF Levels
    <2>2. Reached(k) <= barriers[k] /\ barriers[k] <= position[l]
          /\ Reached(k) \in Nat /\ barriers[k] \in Nat
      BY <2>1, Positions DEF RefInv
    <2>3. ~Given(k, id)
      BY <1>1, <2>1, <2>2 DEF RefInv, HistoryInv, DeliveredInv
    <2>4. QED
      BY <2>3 DEF Given, Pipeline!Delivered
  <1>4. id > Len(completed)
    <2>1. LastLevel \in Levels /\ (l = LastLevel \/ l < LastLevel)
      BY DEF LastLevel, Levels
    <2>2. position[LastLevel] \in Nat /\ position[LastLevel] <= position[l]
      <3>1. CASE l = LastLevel
        BY <1>1, <3>1
      <3>2. CASE l < LastLevel
        BY <1>1, <2>1, <3>2, Positions DEF RefInv
      <3>3. QED
        BY <2>1, <3>1, <3>2
    <2>3. Len(completed) <= position[LastLevel] /\ Len(completed) \in Int
      BY <2>2 DEF RefInv, IndInv, CompletedInv
    <2>4. QED
      BY <1>1, <2>2, <2>3
  <1>5. /\ rejecter' = [rejecter EXCEPT ![id] = l]
        /\ UNCHANGED <<barriers[0], delivered, completed>>
    BY <1>1 DEF MarkSkipped
  <1> HIDE DEF id
  <1>6. QED
    BY <1>2, <1>3, <1>4, <1>5 DEF Pipeline!Reject

LEMMA CompleteRefines ==
    ASSUME RefInv, NEW l \in Levels, Complete(l)
    PROVE  Pipeline!Complete
  <1> DEFINE q == position[l] - 1
  <1>1. l = LastLevel /\ cpc[l] = "complete" /\ position[l] \in Nat /\ position[l] > 0
    BY DEF RefInv, IndInv, TypeOK, BarrierInv, Complete, AfterBarrier
  <1>2. Accesses(l) /\ AccessedPosition(l) = q
    BY <1>1 DEF Accesses, AccessedPosition, AfterBarrier
  <1>3. q \in 0 .. MaxElements /\ q < added /\ added <= q + Capacity
    BY <1>2, AccessWindow DEF RefInv
  <1>4. ring[truncateIndex(q)].id = q + 1
    BY <1>2, IndInvSlot DEF RefInv, SlotHoldsPosition
  <1>5. ring[truncateIndex(q)].status = "Aborted" <=> rejecter[q + 1] \in Levels
    BY <1>3 DEF RefInv, HistoryInv, FlagInv
  <1>6. ring[truncateIndex(q)] \in [id : 0 .. MaxElements, status : {"Aborted", "Normal"}]
    <2>1. truncateIndex(q) \in 0 .. Capacity - 1
      BY <1>3 DEF truncateIndex
    <2>2. QED
      BY SMTT(30), <2>1 DEF RefInv, IndInv, TypeOK
  <1>7. ring[truncateIndex(q)] =
            [id |-> q + 1, status |-> IF rejecter[q + 1] \in Levels THEN "Aborted" ELSE "Normal"]
    BY <1>4, <1>5, <1>6
  <1>8. Len(completed) = q /\ completed' = Append(completed, ring[truncateIndex(q)])
    BY <1>1 DEF RefInv, IndInv, CompletedInv, Complete
  <1>9. q + 1 \in Ids /\ q + 1 <= barriers[0]
    <2>1. /\ barriers[l] <= barriers[0]
          /\ barriers[0] <= added /\ added <= MaxElements /\ Reached(l) \in Nat
          /\ position[l] <= Reached(l) /\ Reached(l) <= barriers[l] /\ barriers[l] \in Nat
      BY Positions DEF RefInv
    <2>2. barriers[0] \in Nat /\ added \in Nat
      BY DEF RefInv, IndInv, TypeOK
    <2>3. QED
      BY <1>1, <2>1, <2>2 DEF Ids
  <1>10. ASSUME NEW k \in Levels PROVE Pipeline!Passed(k, q + 1)
    <2>1. k = l \/ k < l
      BY <1>1 DEF LastLevel, Levels
    <2>2. q + 1 <= position[k]
      <3>1. CASE k = l
        BY <1>1, <3>1
      <3>2. CASE k < l
        BY <1>1, <3>2, Positions DEF RefInv
      <3>3. QED
        BY <2>1, <3>1, <3>2
    <2>3. QED
      BY <1>9, <2>2, PassedBelow
  <1>11. UNCHANGED <<barriers[0], delivered, rejecter>>
    BY DEF Complete
  <1> HIDE DEF q
  <1>12. QED
    BY <1>7, <1>8, <1>9, <1>10, <1>11 DEF Pipeline!Complete, Pipeline!Levels, Levels

LEMMA NextRefines == RefInv /\ [Next]_vars => [Pipeline!Next]_(Pipeline!vars)
  <1> SUFFICES ASSUME RefInv, [Next]_vars
               PROVE  Pipeline!Next \/ UNCHANGED Pipeline!vars
    OBVIOUS
  <1>1. ASSUME NEW p \in Producers, processElement(p)
        PROVE  Pipeline!Next \/ UNCHANGED Pipeline!vars
    <2>1. CASE Publish(p)
      BY <2>1, PublishRefines DEF Pipeline!Next
    <2>2. CASE ~Publish(p)
      BY <1>1, <2>2 DEF processElement, AcquireAddLock, ReadMinPosition, RejectFull, CountActive,
                        Add, historyVars, Pipeline!vars
    <2>3. QED
      BY <2>1, <2>2
  <1>2. ASSUME NEW l \in Levels, consumerThread(l)
        PROVE  Pipeline!Next \/ UNCHANGED Pipeline!vars
    <2>1. CASE Consume(l) \/ MarkSkipped(l) \/ Complete(l)
      BY <2>1, ConsumeRefines, MarkSkippedRefines, CompleteRefines
      DEF Pipeline!Next, Pipeline!Levels, Levels
    <2>2. CASE Advance(l)
      <3>1. barriers'[0] = barriers[0]
        BY SMTT(30), <2>2 DEF Advance, RefInv, IndInv, TypeOK, Levels
      <3>2. QED
        BY <2>2, <3>1 DEF Advance, historyVars, Pipeline!vars
    <2>3. CASE \/ CheckKeepRunning(l) \/ ReadBarrier(l) \/ CheckSkipped(l)
               \/ Inspect(l) \/ UncountActive(l)
      BY <2>3 DEF CheckKeepRunning, ReadBarrier, CheckSkipped, Inspect, UncountActive,
                  historyVars, Pipeline!vars
    <2>4. QED
      BY <1>2, <2>1, <2>2, <2>3 DEF consumerThread
  <1>3. CASE shutdown \/ UNCHANGED vars
    BY <1>3 DEF shutdown, vars, historyVars, Pipeline!vars
  <1>4. QED
    BY <1>1, <1>2, <1>3 DEF Next

\* Ring buffer, barriers, skip flags and the producers' lock (processElement,
\* tryNext, markSkipped and advance of ConsumerDispatcher) implement the
\* ordered pipeline: publishing accepts an input, calling a consumer delivers
\* it, markSkipped rejects it, the completion callback completes it, and every
\* other step of a thread leaves the pipeline as it is.
THEOREM DispatcherRefines == Spec => ImplementsPipeline
  BY InitRefines, NextRefines, RefInvariance, PTL DEF Spec, ImplementsPipeline, Pipeline!Spec
===============================================================================
