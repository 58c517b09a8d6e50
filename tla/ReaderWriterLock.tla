------------------------ MODULE ReaderWriterLock ------------------------
(***************************************************************************)
(* What SpinReaderWriterLock promises its users: a reader lock is granted  *)
(* while nobody wants to write, a reader may ask to become the writer, and *)
(* it becomes the writer when every other thread has let go or waits too.  *)
(* A lock is a function from threads to what they hold; the operators on   *)
(* lock values are what modules that use locks build their steps from.     *)
(***************************************************************************)
CONSTANT Threads

VARIABLE holder

Unlocked == [t \in Threads |-> "none"]

(* Nobody holds or waits for the writer lock. *)
NoWriter(lock) == \A t \in Threads : lock[t] \in {"none", "reader"}

(* Apart from t, threads hold nothing but a place in the queue. *)
OnlyWaiting(lock, t) == \A u \in Threads \ {t} : lock[u] \in {"none", "waiting"}

CanAcquire(lock, t) == lock[t] = "none" /\ NoWriter(lock)
CanWrite(lock, t) == lock[t] = "waiting" /\ OnlyWaiting(lock, t)

With(lock, t, status) == [lock EXCEPT ![t] = status]

---------------------------------------------------------------------------
Init == holder = Unlocked

acquireReader(t) ==
    /\ CanAcquire(holder, t)
    /\ holder' = With(holder, t, "reader")

promoteToWriter(t) ==
    /\ holder[t] = "reader"
    /\ holder' = With(holder, t, "waiting")

becomeWriter(t) ==
    /\ CanWrite(holder, t)
    /\ holder' = With(holder, t, "writer")

releaseWriter(t) ==
    /\ holder[t] = "writer"
    /\ holder' = With(holder, t, "reader")

releaseReader(t) ==
    /\ holder[t] = "reader"
    /\ holder' = With(holder, t, "none")

Next ==
    \E t \in Threads :
        \/ acquireReader(t) \/ promoteToWriter(t) \/ becomeWriter(t)
        \/ releaseWriter(t) \/ releaseReader(t)

Spec == Init /\ [][Next]_holder
=============================================================================
