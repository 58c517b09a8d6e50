---------------------- MODULE SpinReaderWriterLock ----------------------
(***************************************************************************)
(* BasicSpinReaderWriterLock (utils/SpinReaderWriterLock.h): one atomic    *)
(* 16-bit word packs an active writer flag, the number of writers and the  *)
(* number of readers.  A writer lock is obtained by promoting a reader     *)
(* lock.  Every atomic operation of the code is one step here, so a thread *)
(* may act on a word that has changed since it loaded it.                  *)
(*                                                                         *)
(* The widths of the two counters are constants; in the code ReaderField   *)
(* is 2^8 and WriterField is 2^7.  All arithmetic on the word wraps.       *)
(*                                                                         *)
(* A guard belongs to one thread, so its m_isWriterActive flag is exactly  *)
(* pc[t] \in {"promote", "promoteCas", "writer"}; promoting such a guard   *)
(* throws and changes nothing.                                             *)
(***************************************************************************)
EXTENDS Integers, FiniteSets

CONSTANTS
    Threads,        \* the threads that share the lock
    ReaderField,    \* number of values of the reader counter
    WriterField     \* number of values of the writer counter

ASSUME FieldsAssumption ==
    /\ ReaderField \in Nat \ {0}
    /\ WriterField \in Nat \ {0}
    /\ IsFiniteSet(Threads)

VARIABLES
    value,          \* m_value
    pc,             \* where each thread is in acquireReader / promoteToWriter
    local           \* current / expected of each thread

vars == <<value, pc, local>>

Active_Reader_Increment == 1
Pending_Writer_Increment == ReaderField
Active_Writer_Flag == ReaderField * WriterField
Word == 2 * Active_Writer_Flag

(* word & Pending_Writer_Mask *)
PendingWriters(word) == ReaderField * ((word \div ReaderField) % WriterField)

Wrap(word) == word % Word

Init ==
    /\ value = 0
    /\ pc = [t \in Threads |-> "idle"]
    /\ local = [t \in Threads |-> 0]

Goto(t, label) == pc' = [pc EXCEPT ![t] = label]
Load(t, word) == local' = [local EXCEPT ![t] = word]

---------------------------------------------------------------------------
(* acquireReader *)

AcquireLoad(t) ==
    /\ pc[t] = "idle"
    /\ Load(t, value)
    /\ Goto(t, "acquire")
    /\ UNCHANGED value

(* A writer is pending in the loaded word: yield and load again. *)
AcquireWait(t) ==
    /\ pc[t] = "acquire"
    /\ PendingWriters(local[t]) # 0
    /\ Load(t, value)
    /\ UNCHANGED <<value, pc>>

(* Fault for the mutation runs: the increment does not compare the word. *)
AcquireBlindly(t) ==
    /\ pc[t] = "acquire"
    /\ PendingWriters(local[t]) = 0
    /\ value' = Wrap(value + Active_Reader_Increment)
    /\ Goto(t, "reader")
    /\ UNCHANGED local

(* compare_exchange_strong; when it fails it loads the word into current. *)
AcquireCas(t) ==
    /\ pc[t] = "acquire"
    /\ PendingWriters(local[t]) = 0
    /\ \/ /\ value = local[t]
          /\ value' = Wrap(value + Active_Reader_Increment)
          /\ Goto(t, "reader")
          /\ UNCHANGED local
       \/ /\ value # local[t]
          /\ Load(t, value)
          /\ UNCHANGED <<value, pc>>

(* The reset function of ReaderLockGuard. *)
ReleaseReader(t) ==
    /\ pc[t] = "reader"
    /\ value' = Wrap(value - Active_Reader_Increment)
    /\ Goto(t, "idle")
    /\ UNCHANGED local

---------------------------------------------------------------------------
(* promoteToWriter *)

(* Fault for the mutation runs: the promoted reader is still counted. *)
PromoteKeepsReader(t) ==
    /\ pc[t] = "reader"
    /\ value' = Wrap(value + Pending_Writer_Increment)
    /\ Goto(t, "promote")
    /\ UNCHANGED local

PromoteAdd(t) ==
    /\ pc[t] = "reader"
    /\ value' = Wrap(value + Pending_Writer_Increment - Active_Reader_Increment)
    /\ Goto(t, "promote")
    /\ UNCHANGED local

PromoteLoad(t) ==
    /\ pc[t] = "promote"
    /\ Load(t, PendingWriters(value))
    /\ Goto(t, "promoteCas")
    /\ UNCHANGED value

(* Fault for the mutation runs: the flag is set over remaining readers. *)
PromoteIgnoresReaders(t) ==
    /\ pc[t] = "promoteCas"
    /\ PendingWriters(value) = local[t]
    /\ value < Active_Writer_Flag
    /\ value' = value + Active_Writer_Flag
    /\ Goto(t, "writer")
    /\ UNCHANGED local

(* Fault for the mutation runs: the flag is one bit too high in the word. *)
PromoteShiftsFlag(t) ==
    /\ pc[t] = "promoteCas"
    /\ value = local[t]
    /\ value' = local[t] + Word
    /\ Goto(t, "writer")
    /\ UNCHANGED local

(* compare_exchange_strong from "writers only" to "writers and the flag".  *)
(* expected has no flag, so expected | Active_Writer_Flag is a sum.        *)
PromoteCas(t) ==
    /\ pc[t] = "promoteCas"
    /\ \/ /\ value = local[t]
          /\ value' = Wrap(local[t] + Active_Writer_Flag)
          /\ Goto(t, "writer")
       \/ /\ value # local[t]
          /\ Goto(t, "promote")
          /\ UNCHANGED value
    /\ UNCHANGED local

(* Fault for the mutation runs: only the flag is removed. *)
ReleaseFlagOnly(t) ==
    /\ pc[t] = "writer"
    /\ value' = Wrap(value - Active_Writer_Flag)
    /\ Goto(t, "reader")
    /\ UNCHANGED local

(* The reset function of WriterLockGuard: the writer is a reader again. *)
ReleaseWriter(t) ==
    /\ pc[t] = "writer"
    /\ value' = Wrap(value - (Active_Writer_Flag + Pending_Writer_Increment - Active_Reader_Increment))
    /\ Goto(t, "reader")
    /\ UNCHANGED local

---------------------------------------------------------------------------
(* The steps a thread takes once it wants, or has, the lock. *)
Progress(t) ==
    \/ AcquireWait(t)
    \/ AcquireCas(t)
    \/ ReleaseReader(t)
    \/ PromoteLoad(t)
    \/ PromoteCas(t)
    \/ ReleaseWriter(t)

Next == \E t \in Threads : AcquireLoad(t) \/ PromoteAdd(t) \/ Progress(t)

Spec == Init /\ [][Next]_vars

(* Threads keep running and leave their critical sections; no thread has   *)
(* to ask for the lock or to promote, and no compare-exchange is promised  *)
(* to win against others.                                                  *)
FairSpec == Spec /\ \A t \in Threads : WF_vars(Progress(t))

---------------------------------------------------------------------------
Readers == {t \in Threads : pc[t] = "reader"}
Waiting == {t \in Threads : pc[t] \in {"promote", "promoteCas"}}
Writing == {t \in Threads : pc[t] = "writer"}

(* Type invariant: m_value and the words threads loaded from it fit the    *)
(* width of the word.                                                      *)
TypeOK ==
    /\ value \in 0..(Word - 1)
    /\ pc \in [Threads -> {"idle", "acquire", "reader", "promote", "promoteCas", "writer"}]
    /\ local \in [Threads -> 0..(Word - 1)]

(* While a thread holds a WriterLockGuard no other thread holds a guard    *)
(* that lets it read or write: "multiple readers and a single writer".     *)
MutualExclusion ==
    \A w \in Writing : Writing = {w} /\ Readers = {}

(* The word counts the guards exactly: whatever order threads promote,     *)
(* fail to exchange and release in, no increment is lost or left behind.   *)
WordCountsGuards ==
    value = Active_Reader_Increment * Cardinality(Readers)
            + Pending_Writer_Increment * Cardinality(Waiting \cup Writing)
            + Active_Writer_Flag * Cardinality(Writing)

(* What a thread holds, as the users of the lock see it. *)
Held(label) ==
    CASE label \in {"idle", "acquire"} -> "none"
      [] label = "reader" -> "reader"
      [] label \in {"promote", "promoteCas"} -> "waiting"
      [] label = "writer" -> "writer"

Holder == [t \in Threads |-> Held(pc[t])]

Abstract == INSTANCE ReaderWriterLock WITH holder <- Holder

(* The spinning on one packed word implements ReaderWriterLock: a reader   *)
(* lock is never granted while a promotion is outstanding ("prefers        *)
(* writers") and the writer lock never beside a reader or a writer,        *)
(* although threads compare with words they loaded earlier.                *)
ImplementsLock == Abstract!Spec

(* Promotion cannot wedge: when some thread waits in promoteToWriter, some *)
(* thread eventually holds the writer lock, also when all readers promote. *)
PromotionServed == (Waiting # {}) ~> (Writing # {})
=============================================================================
