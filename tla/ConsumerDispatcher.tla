-------------------------- MODULE ConsumerDispatcher --------------------------
(***************************************************************************)
(* The disruptor of catapult (src/catapult/disruptor): producers push      *)
(* inputs into a ring buffer under a spin lock, one thread per consumer    *)
(* level walks the ring behind the barrier of its level, and the thread of *)
(* the last level runs the inspector and the completion callback.          *)
(*                                                                         *)
(* A step is one access of a thread to shared memory.  Everything a thread *)
(* does between two such accesses is part of the step.  Inputs carry no    *)
(* data: an element is its id, its completion status and the levels that   *)
(* were given it, which the history variables record.                      *)
(***************************************************************************)
EXTENDS Integers, Sequences

CONSTANTS
    Producers,      \* threads that call processElement
    NumConsumers,   \* consumers.size(): the number of levels
    Capacity,       \* options.DisruptorSize
    MaxElements,    \* bound: elements ever added
    None            \* no thread holds m_addSpinLock

ASSUME NumConsumersAssumption == NumConsumers \in Nat \ {0}
ASSUME CapacityAssumption == Capacity \in Nat \ {0}
ASSUME MaxElementsAssumption == MaxElements \in Nat
ASSUME NoneAssumption == None \notin Producers

VARIABLES
    barriers,       \* m_barriers: position of every barrier
    ring,           \* m_disruptor.m_container
    added,          \* m_disruptor.m_allElementsCount (and m_container.m_next)
    numActive,      \* m_numActiveElements
    keepRunning,    \* m_keepRunning
    addLock,        \* m_addSpinLock: the producer that holds it, or None
    ppc,            \* program counter of every producer
    minPosition,    \* local of canProcessNextElement, of the lock's holder
    cpc,            \* program counter of every consumer thread
    position,       \* ConsumerEntry.m_position of every consumer thread
    skipping,       \* advance was called by tryNext, not by the main loop
    delivered,      \* history: ids each level's consumer was called with
    rejecter,       \* history: level that marked an id as skipped
    completed       \* history: results passed to the completion callback

producerVars == <<addLock, ppc, minPosition>>
consumerVars == <<cpc, position, skipping>>
historyVars == <<delivered, rejecter, completed>>
vars == <<barriers, ring, added, numActive, keepRunning,
          producerVars, consumerVars, historyVars>>

Levels == 0 .. NumConsumers - 1
LastLevel == NumConsumers - 1
Ids == 1 .. MaxElements

\* The status a consumer returns (CompletionStatus).
Statuses == {"Aborted", "Normal", "Consumed"}

\* rejecter[id] when no level has marked id.
NoLevel == NumConsumers

\* m_result of an element is reset to Normal when the element is constructed.
NewElement(id) == [id |-> id, status |-> "Normal"]

\* CircularBuffer::truncateIndex.
truncateIndex(index) == index % Capacity

-----------------------------------------------------------------------------
Init ==
    /\ barriers = [b \in 0 .. NumConsumers |-> 0]
    /\ ring = [s \in 0 .. Capacity - 1 |-> NewElement(0)]
    /\ added = 0
    /\ numActive = 0
    /\ keepRunning = TRUE
    /\ addLock = None
    /\ ppc = [p \in Producers |-> "idle"]
    /\ minPosition = 0
    /\ cpc = [l \in Levels |-> "loop"]
    /\ position = [l \in Levels |-> 0]
    /\ skipping = [l \in Levels |-> FALSE]
    /\ delivered = [l \in Levels |-> <<>>]
    /\ rejecter = [id \in Ids |-> NoLevel]
    /\ completed = <<>>

-----------------------------------------------------------------------------
(* processElement, for a non-empty input.                                  *)

\* SpinLockGuard guard(m_addSpinLock).  MaxElements bounds the model.
AcquireAddLock(p) ==
    /\ ppc[p] = "idle"
    /\ addLock = None
    /\ added < MaxElements
    /\ addLock' = p
    /\ ppc' = [ppc EXCEPT ![p] = "readMin"]
    /\ UNCHANGED <<barriers, ring, added, numActive, keepRunning, minPosition,
                   consumerVars, historyVars>>

\* canProcessNextElement reads the last barrier first ...
ReadMinPosition(p) ==
    /\ ppc[p] = "readMin"
    /\ minPosition' = barriers[NumConsumers]
    /\ ppc' = [ppc EXCEPT ![p] = "readMax"]
    /\ UNCHANGED <<barriers, ring, added, numActive, keepRunning, addLock,
                   consumerVars, historyVars>>

\* Fault: no room is kept for the element that is being completed.
HasRequiredCapacityNoSlack == barriers[0] - minPosition + 1 <= Capacity

\* ... and asks for room for the next element and for one more.
HasRequiredCapacity == barriers[0] - minPosition + 1 + 1 <= Capacity

\* The disruptor is full: throw or return 0, the guard releases the lock.
RejectFull(p) ==
    /\ ppc[p] = "readMax"
    /\ ~HasRequiredCapacity
    /\ addLock' = None
    /\ ppc' = [ppc EXCEPT ![p] = "idle"]
    /\ UNCHANGED <<barriers, ring, added, numActive, keepRunning, minPosition,
                   consumerVars, historyVars>>

\* Fault: the element is let in without being counted.
CountActiveForgotten(p) ==
    /\ ppc[p] = "readMax"
    /\ HasRequiredCapacity
    /\ ppc' = [ppc EXCEPT ![p] = "add"]
    /\ UNCHANGED <<barriers, ring, added, numActive, keepRunning, addLock,
                   minPosition, consumerVars, historyVars>>

\* ++m_numActiveElements.
CountActive(p) ==
    /\ ppc[p] = "readMax"
    /\ HasRequiredCapacity
    /\ numActive' = numActive + 1
    /\ ppc' = [ppc EXCEPT ![p] = "add"]
    /\ UNCHANGED <<barriers, ring, added, keepRunning, addLock, minPosition,
                   consumerVars, historyVars>>

\* Disruptor::add: the new element overwrites the slot of the oldest one.
Add(p) ==
    /\ ppc[p] = "add"
    /\ ring' = [ring EXCEPT ![truncateIndex(added)] = NewElement(added + 1)]
    /\ added' = added + 1
    /\ ppc' = [ppc EXCEPT ![p] = "publish"]
    /\ UNCHANGED <<barriers, numActive, keepRunning, addLock, minPosition,
                   consumerVars, historyVars>>

\* m_barriers[0].advance(), return, and the guard releases the lock.
Publish(p) ==
    /\ ppc[p] = "publish"
    /\ barriers' = [barriers EXCEPT ![0] = @ + 1]
    /\ addLock' = None
    /\ ppc' = [ppc EXCEPT ![p] = "idle"]
    /\ UNCHANGED <<ring, added, numActive, keepRunning, minPosition,
                   consumerVars, historyVars>>

processElement(p) ==
    \/ AcquireAddLock(p) \/ ReadMinPosition(p) \/ RejectFull(p)
    \/ CountActive(p) \/ Add(p) \/ Publish(p)

-----------------------------------------------------------------------------
(* The thread of a consumer level.                                         *)

\* while (pThis->m_keepRunning)
CheckKeepRunning(l) ==
    /\ cpc[l] = "loop"
    /\ cpc' = [cpc EXCEPT ![l] = IF keepRunning THEN "tryNext" ELSE "stopped"]
    /\ UNCHANGED <<barriers, ring, added, numActive, keepRunning, producerVars,
                   position, skipping, historyVars>>

\* Fault: a thread that has caught up keeps polling inside tryNext.
ReadBarrierSpins(l) ==
    /\ cpc[l] = "tryNext"
    /\ position[l] # barriers[l]
    /\ cpc' = [cpc EXCEPT ![l] = "checkSkipped"]
    /\ UNCHANGED <<barriers, ring, added, numActive, keepRunning, producerVars,
                   position, skipping, historyVars>>

\* tryNext compares the thread's position with its barrier; a thread that
\* has caught up sleeps and goes back to the loop condition.
ReadBarrier(l) ==
    /\ cpc[l] = "tryNext"
    /\ cpc' = [cpc EXCEPT ![l] =
                  IF position[l] = barriers[l] THEN "loop" ELSE "checkSkipped"]
    /\ UNCHANGED <<barriers, ring, added, numActive, keepRunning, producerVars,
                   position, skipping, historyVars>>

\* Fault: the skip flag is not read.
CheckSkippedIgnored(l) ==
    /\ cpc[l] = "checkSkipped"
    /\ cpc' = [cpc EXCEPT ![l] = "consume"]
    /\ skipping' = [skipping EXCEPT ![l] = FALSE]
    /\ UNCHANGED <<barriers, ring, added, numActive, keepRunning, producerVars,
                   position, historyVars>>

\* isSkipped(consumerPosition), under the lock of the element.
CheckSkipped(l) ==
    LET isSkipped == ring[truncateIndex(position[l])].status = "Aborted" IN
    /\ cpc[l] = "checkSkipped"
    /\ cpc' = [cpc EXCEPT ![l] = IF isSkipped THEN "advance" ELSE "consume"]
    /\ skipping' = [skipping EXCEPT ![l] = isSkipped]
    /\ UNCHANGED <<barriers, ring, added, numActive, keepRunning, producerVars,
                   position, historyVars>>

\* The consumer function is called with the element's input.
Consume(l) ==
    /\ cpc[l] = "consume"
    /\ delivered' = [delivered EXCEPT
           ![l] = Append(@, ring[truncateIndex(position[l])].id)]
    /\ \E status \in Statuses :
           cpc' = [cpc EXCEPT ![l] =
                      IF status = "Aborted" THEN "markSkipped" ELSE "advance"]
    /\ UNCHANGED <<barriers, ring, added, numActive, keepRunning, producerVars,
                   position, skipping, rejecter, completed>>

\* markSkipped(position, code), under the lock of the element.
MarkSkipped(l) ==
    LET slot == truncateIndex(position[l]) IN
    /\ cpc[l] = "markSkipped"
    /\ ring' = [ring EXCEPT ![slot].status = "Aborted"]
    /\ rejecter' = [rejecter EXCEPT ![ring[slot].id] = l]
    /\ cpc' = [cpc EXCEPT ![l] = "advance"]
    /\ UNCHANGED <<barriers, added, numActive, keepRunning, producerVars,
                   position, skipping, delivered, completed>>

\* Where advance returns to: the loop inside tryNext or the main loop.
AfterAdvance(l) == IF skipping[l] THEN "tryNext" ELSE "loop"

\* Fault: the inspector and the callback do not run for a skipped element.
AdvanceSkipsInspector(l) ==
    /\ cpc[l] = "advance"
    /\ position' = [position EXCEPT ![l] = @ + 1]
    /\ barriers' = [barriers EXCEPT ![l + 1] = @ + 1]
    /\ cpc' = [cpc EXCEPT ![l] = IF l = LastLevel /\ ~skipping[l]
                                  THEN "inspect" ELSE AfterAdvance(l)]
    /\ UNCHANGED <<ring, added, numActive, keepRunning, producerVars, skipping,
                   historyVars>>

\* advance moves the entry and the next barrier; only the last level goes on.
Advance(l) ==
    /\ cpc[l] = "advance"
    /\ position' = [position EXCEPT ![l] = @ + 1]
    /\ barriers' = [barriers EXCEPT ![l + 1] = @ + 1]
    /\ cpc' = [cpc EXCEPT ![l] =
                  IF l = LastLevel THEN "inspect" ELSE AfterAdvance(l)]
    /\ UNCHANGED <<ring, added, numActive, keepRunning, producerVars, skipping,
                   historyVars>>

\* m_inspector(element.input(), element.completionResult()).
Inspect(l) ==
    /\ cpc[l] = "inspect"
    /\ cpc' = [cpc EXCEPT ![l] = "complete"]
    /\ UNCHANGED <<barriers, ring, added, numActive, keepRunning, producerVars,
                   position, skipping, historyVars>>

\* element.markProcessingComplete(): the wrapped callback runs first ...
Complete(l) ==
    /\ cpc[l] = "complete"
    /\ completed' = Append(completed, ring[truncateIndex(position[l] - 1)])
    /\ cpc' = [cpc EXCEPT ![l] = "uncount"]
    /\ UNCHANGED <<barriers, ring, added, numActive, keepRunning, producerVars,
                   position, skipping, delivered, rejecter>>

\* Fault: an aborted element stays counted.
UncountActiveNormal(l) ==
    /\ cpc[l] = "uncount"
    /\ numActive' = IF skipping[l] THEN numActive ELSE numActive - 1
    /\ cpc' = [cpc EXCEPT ![l] = AfterAdvance(l)]
    /\ UNCHANGED <<barriers, ring, added, keepRunning, producerVars,
                   position, skipping, historyVars>>

\* ... and then --numActiveElements.
UncountActive(l) ==
    /\ cpc[l] = "uncount"
    /\ numActive' = numActive - 1
    /\ cpc' = [cpc EXCEPT ![l] = AfterAdvance(l)]
    /\ UNCHANGED <<barriers, ring, added, keepRunning, producerVars,
                   position, skipping, historyVars>>

consumerThread(l) ==
    \/ CheckKeepRunning(l) \/ ReadBarrier(l) \/ CheckSkipped(l)
    \/ Consume(l) \/ MarkSkipped(l) \/ Advance(l)
    \/ Inspect(l) \/ Complete(l) \/ UncountActive(l)

\* shutdown: the threads are then joined.
shutdown ==
    /\ keepRunning
    /\ keepRunning' = FALSE
    /\ UNCHANGED <<barriers, ring, added, numActive, producerVars,
                   consumerVars, historyVars>>

Next ==
    \/ \E p \in Producers : processElement(p)
    \/ \E l \in Levels : consumerThread(l)
    \/ shutdown

Spec == Init /\ [][Next]_vars

\* The scheduler runs every consumer thread again and again.  Nothing makes a
\* producer call processElement, but a call that holds the lock returns.
FairSpec ==
    /\ Spec
    /\ \A l \in Levels : WF_vars(consumerThread(l))
    /\ \A p \in Producers : WF_vars(processElement(p) /\ addLock = p)

-----------------------------------------------------------------------------
(* Properties.                                                             *)

\* Every variable has the type the declarations of ConsumerDispatcher.h,
\* Disruptor.h and ConsumerEntry.h give it; positions and counts never wrap
\* below zero (they are unsigned in the code).
TypeOK ==
    /\ barriers \in [0 .. NumConsumers -> Nat]
    /\ ring \in [0 .. Capacity - 1 ->
                    [id : 0 .. MaxElements, status : {"Aborted", "Normal"}]]
    /\ added \in 0 .. MaxElements
    /\ numActive \in Nat
    /\ keepRunning \in BOOLEAN
    /\ addLock \in Producers \union {None}
    /\ ppc \in [Producers -> {"idle", "readMin", "readMax", "add", "publish"}]
    /\ minPosition \in Nat
    /\ cpc \in [Levels -> {"loop", "tryNext", "checkSkipped", "consume",
                            "markSkipped", "advance", "inspect", "complete",
                            "uncount", "stopped"}]
    /\ position \in [Levels -> Nat]
    /\ skipping \in [Levels -> BOOLEAN]
    /\ delivered \in [Levels -> Seq(Ids)]
    /\ rejecter \in [Ids -> 0 .. NumConsumers]
    /\ completed \in Seq([id : Ids, status : {"Aborted", "Normal"}])

\* The thread of level l uses the element at AccessedPosition(l): it holds a
\* reference to it, or runs the callback stored in it.  The last level does so
\* after it has moved its entry and the last barrier.
BeforeAdvance == {"checkSkipped", "consume", "markSkipped"}
AfterBarrier == {"inspect", "complete", "uncount"}
Accesses(l) == cpc[l] \in BeforeAdvance \union AfterBarrier
AccessedPosition(l) ==
    IF cpc[l] \in AfterBarrier THEN position[l] - 1 ELSE position[l]

\* While Disruptor::add overwrites a slot no consumer thread uses the element
\* in it, not even the last one, which inspects and completes an element
\* behind the barrier that canProcessNextElement reads.
NoSlotRace ==
    \A p \in Producers, l \in Levels :
        ppc[p] = "add" /\ Accesses(l)
            => truncateIndex(AccessedPosition(l)) # truncateIndex(added)

\* The slot a consumer thread uses holds the element of the thread's position,
\* never one that was added a lap later.
SlotHoldsPosition ==
    \A l \in Levels :
        Accesses(l) => ring[truncateIndex(AccessedPosition(l))].id
                           = AccessedPosition(l) + 1

\* m_numActiveElements counts the elements that were let in and whose callback
\* has not returned, and never exceeds the size of the disruptor.
ActiveCount ==
    LET entering == IF \E p \in Producers : ppc[p] = "add" THEN 1 ELSE 0
        leaving == IF cpc[LastLevel] = "uncount" THEN 1 ELSE 0
    IN /\ numActive = added + entering - Len(completed) + leaving
       /\ numActive <= Capacity

\* The dispatcher implements the unbounded ordered pipeline: an input counts
\* as accepted once it is published.
Pipeline == INSTANCE OrderedPipeline WITH accepted <- barriers[0]

\* Ring, barriers, skip flags and locks together deliver every published
\* input once, in order, to the levels below the one that aborts it, and
\* report it once, in order, with the result of that level.
ImplementsPipeline == Pipeline!Spec

\* Every published input is completed if the dispatcher keeps running: no
\* thread waits for a barrier that does not move.
EveryInputCompletes ==
    [](keepRunning) => Pipeline!EveryInputCompletes

\* shutdown returns: every consumer thread that is told to stop ends, also one
\* that is skipping inside tryNext, where m_keepRunning is not read.
ShutdownJoins ==
    ~keepRunning ~> \A l \in Levels : cpc[l] = "stopped"

=============================================================================
