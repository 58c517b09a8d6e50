------------------- MODULE SpinReaderWriterLockProofs -------------------
(***************************************************************************)
(* For every number of threads below WriterField, and every width of the   *)
(* counters, the lock excludes readers from writers and the word counts    *)
(* the guards.  The argument: the word is the sum of the three fields, no  *)
(* field carries into the next one except the reader counter when it is    *)
(* full and no writer exists, and so the two compare-exchanges test what   *)
(* they are meant to test.                                                 *)
(***************************************************************************)
EXTENDS SpinReaderWriterLock, FiniteSetTheorems, TLAPS

(* Fewer threads than the writer counter has values. *)
WritersFit == Cardinality(Threads) < WriterField

Writers == Waiting \cup Writing

(* The word that counts r readers, p writers of which a are active. *)
Packed(r, p, a) == r + ReaderField * p + (ReaderField * WriterField) * a

(* Counts that keep every field of the word within its width. *)
Fits(r, p, a) ==
    /\ r \in Nat /\ p \in Nat /\ a \in {0, 1}
    /\ r + p <= ReaderField
    /\ p < WriterField
    /\ a <= p
    /\ WriterField >= 2

(* The inductive invariant. *)
IndInv ==
    /\ TypeOK
    /\ value = Packed(Cardinality(Readers), Cardinality(Writers), Cardinality(Writing))
    /\ MutualExclusion
    /\ Cardinality(Readers) + Cardinality(Writers) <= ReaderField
    /\ \A t \in Threads : pc[t] = "promoteCas" =>
          \E k \in 0..(WriterField - 1) : local[t] = ReaderField * k

---------------------------------------------------------------------------
(* Arithmetic on the packed word. *)

LEMMA DivSum ==
    ASSUME NEW m \in Nat \ {0}, NEW q \in Nat, NEW r \in Nat, r < m
    PROVE  (r + m * q) \div m = q
BY SMTT(30)

LEMMA ModSum ==
    ASSUME NEW m \in Nat \ {0}, NEW q \in Nat, NEW r \in Nat, r < m
    PROVE  (r + m * q) % m = r
BY SMTT(30)

LEMMA ModRange ==
    ASSUME NEW m \in Nat \ {0}, NEW q \in Int
    PROVE  q % m \in 0..(m - 1)
BY SMTT(30)

LEMMA ModSmall ==
    ASSUME NEW m \in Nat \ {0}, NEW q \in 0..(m - 1)
    PROVE  q % m = q
BY SMTT(30)

(* Counts within their widths fill the word without wrapping it. *)
LEMMA PackedRange ==
    ASSUME NEW r, NEW p, NEW a, Fits(r, p, a)
    PROVE  Packed(r, p, a) \in 0..(Word - 1)
<1>1. ReaderField \in Nat \ {0} /\ WriterField \in Nat \ {0}
  BY FieldsAssumption
<1> DEFINE m == ReaderField  w == WriterField  mp == m * p  mw == m * w
<1>2. mp \in Nat /\ mw \in Nat /\ mw * a \in {0, mw}
  BY <1>1 DEF Fits
<1>3. mp <= mw - m
  <2>1. m * p <= m * (w - 1)
    BY <1>1 DEF Fits
  <2>2. m * (w - 1) = m * w - m
    BY <1>1
  <2> QED BY <2>1, <2>2, <1>1, <1>2
<1>4. r + mp < mw
  <2>1. CASE p = 0
    <3>1. mp = 0 /\ mw >= 2 * m
      BY <2>1, <1>1 DEF Fits
    <3> QED BY <3>1, <1>1, <2>1 DEF Fits
  <2>2. CASE p > 0
    BY <2>2, <1>1, <1>2, <1>3 DEF Fits
  <2> QED BY <2>1, <2>2 DEF Fits
<1>5. Packed(r, p, a) = r + mp + mw * a /\ Word = 2 * mw /\ r \in Nat
  BY DEF Packed, Word, Active_Writer_Flag, Fits
<1> HIDE DEF mp, mw
<1> QED BY <1>2, <1>4, <1>5

(* A word of such counts survives the wrap-around of the 16-bit type. *)
LEMMA WrapPacked ==
    ASSUME NEW r, NEW p, NEW a, Fits(r, p, a)
    PROVE  Wrap(Packed(r, p, a)) = Packed(r, p, a)
<1>1. Word \in Nat \ {0}
  BY FieldsAssumption DEF Word, Active_Writer_Flag
<1> QED BY <1>1, PackedRange, ModSmall DEF Wrap

(* A word without pending writers has no writer at all, and room for a     *)
(* reader: what the first compare-exchange of acquireReader relies on.     *)
LEMMA NoPendingWriters ==
    ASSUME NEW r, NEW p, NEW a, Fits(r, p, a), PendingWriters(Packed(r, p, a)) = 0
    PROVE  p = 0 /\ a = 0 /\ r < ReaderField
<1>1. ReaderField \in Nat \ {0} /\ WriterField \in Nat \ {0}
  BY FieldsAssumption
<1> DEFINE v == Packed(r, p, a)
<1>2. v \in Nat
  BY PackedRange, <1>1 DEF Word, Active_Writer_Flag
<1>3. (v \div ReaderField) % WriterField = 0
  <2>1. v \div ReaderField \in Int
    BY <1>1, <1>2
  <2>2. (v \div ReaderField) % WriterField \in 0..(WriterField - 1)
    BY Zenon, <2>1, <1>1, ModRange
  <2> HIDE DEF v
  <2> DEFINE x == (v \div ReaderField) % WriterField
  <2>3. ReaderField * x = 0
    BY DEF PendingWriters, v
  <2> HIDE DEF x
  <2> QED BY <2>2, <2>3, <1>1 DEF x
<1>4. CASE r < ReaderField
  <2>1. p + WriterField * a \in Nat
    BY <1>1 DEF Fits
  <2>2. v = r + ReaderField * (p + WriterField * a)
    BY <1>1 DEF Fits, Packed
  <2>3. v \div ReaderField = p + WriterField * a
    BY <2>1, <2>2, <1>4, <1>1, DivSum DEF Fits
  <2>4. (p + WriterField * a) % WriterField = p
    BY <1>1, ModSum DEF Fits
  <2> QED BY <2>3, <2>4, <1>3, <1>4 DEF Fits
<1>5. CASE r = ReaderField
  <2>1. p = 0 /\ a = 0
    BY <1>5, <1>1 DEF Fits
  <2>2. v = 0 + ReaderField * 1
    BY <2>1, <1>5, <1>1 DEF Packed
  <2>3. v \div ReaderField = 1
    BY <2>2, <1>1, DivSum
  <2>4. 1 % WriterField = 1
    BY <1>1, ModSmall DEF Fits
  <2> QED BY <2>3, <2>4, <1>3
<1> QED BY <1>4, <1>5, <1>1 DEF Fits

(* A word that shows writers only has neither a reader nor an active       *)
(* writer: what the compare-exchange of promoteToWriter relies on.         *)
LEMMA WritersOnly ==
    ASSUME NEW r, NEW p, NEW a, Fits(r, p, a), p >= 1,
           NEW k \in 0..(WriterField - 1), Packed(r, p, a) = ReaderField * k
    PROVE  r = 0 /\ a = 0 /\ k = p
<1>1. ReaderField \in Nat \ {0} /\ WriterField \in Nat \ {0}
  BY FieldsAssumption
<1>2. a = 0
  <2>1. SUFFICES ASSUME a = 1 PROVE FALSE
    BY DEF Fits
  <2>2. ReaderField * k < ReaderField * WriterField
    BY <1>1
  <2>3. ReaderField * p \in Nat /\ ReaderField * WriterField \in Nat /\ r \in Nat
    BY <1>1 DEF Fits
  <2>4. Packed(r, p, a) = r + ReaderField * p + ReaderField * WriterField
    BY <2>1, <2>3 DEF Packed
  <2> QED BY <2>2, <2>3, <2>4, <1>1
<1>3. r + ReaderField * p = ReaderField * k /\ r \in Nat /\ p \in Nat /\ r < ReaderField
  BY <1>1, <1>2 DEF Packed, Fits
<1>4. k = p
  <2>1. (r + ReaderField * p) \div ReaderField = p
    BY <1>1, <1>3, DivSum
  <2>2. (0 + ReaderField * k) \div ReaderField = k
    BY <1>1, DivSum
  <2> QED BY <2>1, <2>2, <1>3, <1>1
<1> QED BY <1>2, <1>3, <1>4, <1>1

---------------------------------------------------------------------------
(* The counts of a state that satisfies the invariant. *)

LEMMA CountsFit ==
    ASSUME IndInv, WritersFit, NEW t \in Threads
    PROVE  /\ IsFiniteSet(Readers) /\ IsFiniteSet(Writers) /\ IsFiniteSet(Writing)
           /\ Fits(Cardinality(Readers), Cardinality(Writers), Cardinality(Writing))
<1>1. /\ IsFiniteSet(Threads)
      /\ Readers \subseteq Threads /\ Writers \subseteq Threads /\ Writing \subseteq Writers
  BY FieldsAssumption DEF Readers, Writers, Waiting, Writing
<1>2. /\ IsFiniteSet(Readers) /\ IsFiniteSet(Writers) /\ IsFiniteSet(Writing)
      /\ Cardinality(Writers) <= Cardinality(Threads)
      /\ Cardinality(Writing) <= Cardinality(Writers)
  BY <1>1, FS_Subset
<1>3. /\ Cardinality(Readers) \in Nat /\ Cardinality(Writers) \in Nat
      /\ Cardinality(Writing) \in Nat /\ Cardinality(Threads) \in Nat
  BY <1>1, <1>2, FS_CardinalityType
<1>4. Cardinality(Writing) \in {0, 1}
  <2>1. CASE Writing = {}
    BY <2>1, FS_EmptySet
  <2>2. ASSUME NEW w \in Writing PROVE Cardinality(Writing) = 1
    <3>1. Writing = {w}
      BY DEF IndInv, MutualExclusion
    <3> QED BY <3>1, FS_Singleton
  <2> QED BY <2>1, <2>2
<1>5. Cardinality(Threads) >= 1
  <2>1. Cardinality(Threads) # 0
    BY <1>1, FS_EmptySet
  <2> QED BY <2>1, <1>3
<1>6. WriterField >= 2 /\ Cardinality(Writers) < WriterField
  BY <1>2, <1>3, <1>5, FieldsAssumption DEF WritersFit
<1> QED BY <1>2, <1>3, <1>4, <1>6 DEF Fits, IndInv

(* Adding or removing one thread moves a count by one. *)
LEMMA CountUp ==
    ASSUME NEW S, IsFiniteSet(S), NEW t, t \notin S
    PROVE  Cardinality(S \cup {t}) = Cardinality(S) + 1
BY FS_AddElement

LEMMA CountDown ==
    ASSUME NEW S, IsFiniteSet(S), NEW t \in S
    PROVE  Cardinality(S \ {t}) = Cardinality(S) - 1 /\ Cardinality(S) >= 1
<1>1. IsFiniteSet(S \ {t}) /\ Cardinality(S \ {t}) = Cardinality(S) - 1
  BY FS_RemoveElement
<1>2. Cardinality(S \ {t}) \in Nat /\ Cardinality(S) \in Nat
  BY <1>1, FS_CardinalityType
<1> QED BY <1>1, <1>2

---------------------------------------------------------------------------
(* Each operation on the word, in terms of the counts. *)

LEMMA PackAddReader ==
    ASSUME NEW r \in Nat, NEW p \in Nat, NEW a \in {0, 1}
    PROVE  Packed(r, p, a) + Active_Reader_Increment = Packed(r + 1, p, a)
<1>1. ReaderField * p \in Nat /\ (ReaderField * WriterField) * a \in Nat
  BY FieldsAssumption
<1> QED BY <1>1 DEF Packed, Active_Reader_Increment

LEMMA PackRemoveReader ==
    ASSUME NEW r \in Nat, NEW p \in Nat, NEW a \in {0, 1}
    PROVE  Packed(r, p, a) - Active_Reader_Increment = Packed(r - 1, p, a)
<1>1. ReaderField * p \in Nat /\ (ReaderField * WriterField) * a \in Nat
  BY FieldsAssumption
<1> QED BY <1>1 DEF Packed, Active_Reader_Increment

LEMMA PackPromote ==
    ASSUME NEW r \in Nat, NEW p \in Nat, NEW a \in {0, 1}
    PROVE  Packed(r, p, a) + Pending_Writer_Increment - Active_Reader_Increment
           = Packed(r - 1, p + 1, a)
<1>1. /\ ReaderField * p \in Nat /\ (ReaderField * WriterField) * a \in Nat
      /\ ReaderField \in Nat
  BY FieldsAssumption
<1>2. ReaderField * (p + 1) = ReaderField * p + ReaderField
  BY <1>1
<1> QED BY <1>1, <1>2 DEF Packed, Active_Reader_Increment, Pending_Writer_Increment

LEMMA PackReleaseWriter ==
    ASSUME NEW r \in Nat, NEW p \in Nat
    PROVE  Packed(r, p, 1)
             - (Active_Writer_Flag + Pending_Writer_Increment - Active_Reader_Increment)
           = Packed(r + 1, p - 1, 0)
<1>1. /\ ReaderField * p \in Nat /\ ReaderField * WriterField \in Nat
      /\ ReaderField \in Nat
  BY FieldsAssumption
<1>2. ReaderField * (p - 1) = ReaderField * p - ReaderField
  BY <1>1
<1> QED BY <1>1, <1>2
       DEF Packed, Active_Reader_Increment, Pending_Writer_Increment, Active_Writer_Flag

(* What promoteToWriter loads is a multiple of the writer increment. *)
LEMMA LoadedWriters ==
    ASSUME NEW v \in 0..(Word - 1)
    PROVE  /\ \E k \in 0..(WriterField - 1) : PendingWriters(v) = ReaderField * k
           /\ PendingWriters(v) \in 0..(Word - 1)
<1>1. ReaderField \in Nat \ {0} /\ WriterField \in Nat \ {0} /\ v \in Nat
  BY FieldsAssumption DEF Word, Active_Writer_Flag
<1> DEFINE k == (v \div ReaderField) % WriterField
<1>2. k \in 0..(WriterField - 1)
  BY <1>1, ModRange
<1>3. PendingWriters(v) = ReaderField * k
  BY DEF PendingWriters
<1> HIDE DEF k
<1>4. ReaderField * k \in Nat /\ ReaderField * k < ReaderField * WriterField
  BY <1>1, <1>2
<1>5. ReaderField * WriterField \in Nat
  BY <1>1
<1> QED BY <1>1, <1>2, <1>3, <1>4, <1>5 DEF Word, Active_Writer_Flag

---------------------------------------------------------------------------
(* The invariant is inductive. *)

(* The parts of the invariant a step that moves no thread between the      *)
(* classes has to reestablish. *)
LEMMA SameClasses ==
    ASSUME IndInv, UNCHANGED value, TypeOK',
           Readers' = Readers, Writers' = Writers, Writing' = Writing,
           \A t \in Threads : pc'[t] = "promoteCas" =>
              \E k \in 0..(WriterField - 1) : local'[t] = ReaderField * k
    PROVE  IndInv'
<1>1. value' = Packed(Cardinality(Readers'), Cardinality(Writers'), Cardinality(Writing'))
  BY DEF IndInv
<1>2. MutualExclusion'
  BY DEF IndInv, MutualExclusion
<1>3. Cardinality(Readers') + Cardinality(Writers') <= ReaderField
  BY DEF IndInv
<1> QED BY <1>1, <1>2, <1>3 DEF IndInv

LEMMA AcquireStep ==
    ASSUME IndInv, WritersFit, NEW t \in Threads,
           AcquireLoad(t) \/ AcquireWait(t) \/ AcquireCas(t)
    PROVE  IndInv'
<1>0. TypeOK /\ value \in 0..(Word - 1)
  BY DEF IndInv, TypeOK
<1>1. ASSUME UNCHANGED value, Load(t, value), pc[t] \in {"idle", "acquire"},
             pc' = [pc EXCEPT ![t] = "acquire"]
      PROVE  IndInv'
  <2>1. TypeOK'
    BY <1>0, <1>1 DEF TypeOK, Load
  <2>2. Readers' = Readers /\ Writers' = Writers /\ Writing' = Writing
    BY <1>0, <1>1 DEF TypeOK, Readers, Writers, Waiting, Writing
  <2>3. \A u \in Threads : pc'[u] = "promoteCas" =>
           \E k \in 0..(WriterField - 1) : local'[u] = ReaderField * k
    BY <1>0, <1>1 DEF TypeOK, Load, IndInv
  <2> QED BY <2>1, <2>2, <2>3, <1>1, SameClasses
<1>2. CASE AcquireLoad(t)
  BY <1>1, <1>2 DEF AcquireLoad, Goto
<1>3. CASE AcquireWait(t)
  <2>1. pc' = [pc EXCEPT ![t] = "acquire"]
    BY <1>0, <1>3 DEF AcquireWait, TypeOK
  <2> QED BY Zenon, <1>1, <1>3, <2>1 DEF AcquireWait
<1>4. CASE AcquireCas(t) /\ value # local[t]
  <2>1. pc' = [pc EXCEPT ![t] = "acquire"]
    BY <1>0, <1>4 DEF AcquireCas, TypeOK
  <2> QED BY <1>1, <1>4, <2>1 DEF AcquireCas
<1>5. CASE AcquireCas(t) /\ value = local[t]
  <2> DEFINE r == Cardinality(Readers)  p == Cardinality(Writers)  a == Cardinality(Writing)
  <2>1. Fits(r, p, a) /\ IsFiniteSet(Readers) /\ value = Packed(r, p, a)
    BY CountsFit DEF IndInv
  <2>2. p = 0 /\ a = 0 /\ r < ReaderField
    BY Zenon, <2>1, <1>5, NoPendingWriters DEF AcquireCas
  <2>3. /\ value' = Wrap(value + Active_Reader_Increment)
        /\ pc' = [pc EXCEPT ![t] = "reader"] /\ pc[t] = "acquire" /\ local' = local
    BY <1>5 DEF AcquireCas, Goto
  <2>4. /\ Readers' = Readers \cup {t} /\ t \notin Readers
        /\ Writers' = Writers /\ Writing' = Writing
    BY <1>0, <2>3 DEF TypeOK, Readers, Writers, Waiting, Writing
  <2>5. Cardinality(Readers') = r + 1
    BY <2>1, <2>4, CountUp
  <2>6. Fits(r + 1, p, a)
    BY <2>1, <2>2, FieldsAssumption DEF Fits
  <2>7. value' = Packed(r + 1, p, a)
    <3>1. value + Active_Reader_Increment = Packed(r + 1, p, a)
      BY <2>1, PackAddReader DEF Fits
    <3> QED BY <3>1, <2>3, <2>6, WrapPacked
  <2>8. TypeOK'
    <3>1. value' \in 0..(Word - 1)
      BY <2>6, <2>7, PackedRange
    <3> QED BY <3>1, <1>0, <2>3 DEF TypeOK
  <2>9. MutualExclusion'
    <3>1. Writing = {}
      BY <2>2, CountsFit, FS_EmptySet
    <3> QED BY <3>1, <2>4 DEF MutualExclusion
  <2>10. \A u \in Threads : pc'[u] = "promoteCas" =>
            \E k \in 0..(WriterField - 1) : local'[u] = ReaderField * k
    BY <1>0, <2>3 DEF TypeOK, IndInv
  <2>11. Cardinality(Readers') + Cardinality(Writers') <= ReaderField
    BY <2>4, <2>5, <2>6 DEF Fits
  <2> QED BY <2>4, <2>5, <2>7, <2>8, <2>9, <2>10, <2>11 DEF IndInv
<1> QED BY <1>2, <1>3, <1>4, <1>5

LEMMA ReleaseReaderStep ==
    ASSUME IndInv, WritersFit, NEW t \in Threads, ReleaseReader(t)
    PROVE  IndInv'
<1>0. TypeOK
  BY DEF IndInv
<1> DEFINE r == Cardinality(Readers)  p == Cardinality(Writers)  a == Cardinality(Writing)
<1>1. Fits(r, p, a) /\ IsFiniteSet(Readers) /\ value = Packed(r, p, a)
  BY CountsFit DEF IndInv
<1>2. /\ value' = Wrap(value - Active_Reader_Increment)
      /\ pc' = [pc EXCEPT ![t] = "idle"] /\ pc[t] = "reader" /\ local' = local
  BY DEF ReleaseReader, Goto
<1>3. /\ Readers' = Readers \ {t} /\ t \in Readers
      /\ Writers' = Writers /\ Writing' = Writing
  BY <1>0, <1>2 DEF TypeOK, Readers, Writers, Waiting, Writing
<1>4. Cardinality(Readers') = r - 1 /\ r >= 1
  BY <1>1, <1>3, CountDown
<1>5. Fits(r - 1, p, a)
  BY <1>1, <1>4, FieldsAssumption DEF Fits
<1>6. value' = Packed(r - 1, p, a)
  <2>1. value - Active_Reader_Increment = Packed(r - 1, p, a)
    BY <1>1, PackRemoveReader DEF Fits
  <2> QED BY <2>1, <1>2, <1>5, WrapPacked
<1>7. TypeOK'
  <2>1. value' \in 0..(Word - 1)
    BY <1>5, <1>6, PackedRange
  <2> QED BY <2>1, <1>0, <1>2 DEF TypeOK
<1>8. MutualExclusion'
  BY <1>3 DEF IndInv, MutualExclusion
<1>9. \A u \in Threads : pc'[u] = "promoteCas" =>
          \E k \in 0..(WriterField - 1) : local'[u] = ReaderField * k
  BY <1>0, <1>2 DEF TypeOK, IndInv
<1>10. Cardinality(Readers') + Cardinality(Writers') <= ReaderField
  BY <1>3, <1>4, <1>5, FieldsAssumption DEF Fits
<1> QED BY <1>3, <1>4, <1>6, <1>7, <1>8, <1>9, <1>10 DEF IndInv

LEMMA PromoteAddStep ==
    ASSUME IndInv, WritersFit, NEW t \in Threads, PromoteAdd(t)
    PROVE  IndInv'
<1>0. TypeOK
  BY DEF IndInv
<1> DEFINE r == Cardinality(Readers)  p == Cardinality(Writers)  a == Cardinality(Writing)
<1>1. /\ Fits(r, p, a) /\ IsFiniteSet(Readers) /\ IsFiniteSet(Writers)
      /\ value = Packed(r, p, a)
  BY CountsFit DEF IndInv
<1>2. /\ value' = Wrap(value + Pending_Writer_Increment - Active_Reader_Increment)
      /\ pc' = [pc EXCEPT ![t] = "promote"] /\ pc[t] = "reader" /\ local' = local
  BY DEF PromoteAdd, Goto
<1>3. /\ Readers' = Readers \ {t} /\ t \in Readers
      /\ Writers' = Writers \cup {t} /\ t \notin Writers
      /\ Writing' = Writing
  BY <1>0, <1>2 DEF TypeOK, Readers, Writers, Waiting, Writing
<1>4. Cardinality(Readers') = r - 1 /\ r >= 1 /\ Cardinality(Writers') = p + 1
  BY <1>1, <1>3, CountDown, CountUp
<1>5. Fits(r - 1, p + 1, a)
  <2>1. Writers' \subseteq Threads /\ IsFiniteSet(Threads)
    BY <1>3, FieldsAssumption DEF Writers, Waiting, Writing
  <2>2. Cardinality(Writers') <= Cardinality(Threads) /\ Cardinality(Threads) \in Nat
    BY <2>1, FS_Subset, FS_CardinalityType
  <2>3. p + 1 < WriterField
    BY <2>2, <1>1, <1>4, FieldsAssumption DEF WritersFit, Fits
  <2> QED BY <2>3, <1>1, <1>4, FieldsAssumption DEF Fits
<1>6. value' = Packed(r - 1, p + 1, a)
  <2>1. value + Pending_Writer_Increment - Active_Reader_Increment = Packed(r - 1, p + 1, a)
    BY <1>1, PackPromote DEF Fits
  <2> QED BY <2>1, <1>2, <1>5, WrapPacked
<1>7. TypeOK'
  <2>1. value' \in 0..(Word - 1)
    BY <1>5, <1>6, PackedRange
  <2> QED BY <2>1, <1>0, <1>2 DEF TypeOK
<1>8. MutualExclusion'
  BY <1>3 DEF IndInv, MutualExclusion
<1>9. \A u \in Threads : pc'[u] = "promoteCas" =>
          \E k \in 0..(WriterField - 1) : local'[u] = ReaderField * k
  BY <1>0, <1>2 DEF TypeOK, IndInv
<1>10. Cardinality(Readers') + Cardinality(Writers') <= ReaderField
  BY <1>4, <1>5, FieldsAssumption DEF Fits
<1> QED BY <1>3, <1>4, <1>6, <1>7, <1>8, <1>9, <1>10 DEF IndInv

LEMMA PromoteLoadStep ==
    ASSUME IndInv, NEW t \in Threads, PromoteLoad(t)
    PROVE  IndInv'
<1>0. TypeOK /\ value \in 0..(Word - 1)
  BY DEF IndInv, TypeOK
<1>1. /\ pc' = [pc EXCEPT ![t] = "promoteCas"] /\ pc[t] = "promote" /\ UNCHANGED value
      /\ local' = [local EXCEPT ![t] = PendingWriters(value)]
  BY DEF PromoteLoad, Goto, Load
<1>2. /\ \E k \in 0..(WriterField - 1) : PendingWriters(value) = ReaderField * k
      /\ PendingWriters(value) \in 0..(Word - 1)
  BY <1>0, LoadedWriters
<1>3. TypeOK'
  BY <1>0, <1>1, <1>2 DEF TypeOK
<1>4. Readers' = Readers /\ Writers' = Writers /\ Writing' = Writing
  BY <1>0, <1>1 DEF TypeOK, Readers, Writers, Waiting, Writing
<1>5. \A u \in Threads : pc'[u] = "promoteCas" =>
          \E k \in 0..(WriterField - 1) : local'[u] = ReaderField * k
  <2>1. local'[t] = PendingWriters(value)
    BY <1>0, <1>1 DEF TypeOK
  <2>2. ASSUME NEW u \in Threads, u # t PROVE pc'[u] = pc[u] /\ local'[u] = local[u]
    BY <1>0, <1>1, <2>2 DEF TypeOK
  <2> QED BY <2>1, <2>2, <1>2 DEF IndInv
<1> QED BY <1>1, <1>3, <1>4, <1>5, SameClasses

LEMMA PromoteCasStep ==
    ASSUME IndInv, WritersFit, NEW t \in Threads, PromoteCas(t)
    PROVE  IndInv'
<1>0. TypeOK /\ pc[t] = "promoteCas" /\ local' = local
  BY DEF IndInv, PromoteCas
<1>1. CASE value # local[t]
  <2>1. pc' = [pc EXCEPT ![t] = "promote"] /\ UNCHANGED value
    BY <1>1 DEF PromoteCas, Goto
  <2>2. TypeOK'
    BY <1>0, <2>1 DEF TypeOK
  <2>3. Readers' = Readers /\ Writers' = Writers /\ Writing' = Writing
    BY <1>0, <2>1 DEF TypeOK, Readers, Writers, Waiting, Writing
  <2>4. \A u \in Threads : pc'[u] = "promoteCas" =>
            \E k \in 0..(WriterField - 1) : local'[u] = ReaderField * k
    BY <1>0, <2>1 DEF TypeOK, IndInv
  <2> QED BY <2>1, <2>2, <2>3, <2>4, SameClasses
<1>2. CASE value = local[t]
  <2> DEFINE r == Cardinality(Readers)  p == Cardinality(Writers)  a == Cardinality(Writing)
  <2>1. /\ Fits(r, p, a) /\ value = Packed(r, p, a)
        /\ IsFiniteSet(Readers) /\ IsFiniteSet(Writers) /\ IsFiniteSet(Writing)
    BY CountsFit DEF IndInv
  <2>2. value' = Wrap(value + Active_Writer_Flag) /\ pc' = [pc EXCEPT ![t] = "writer"]
    BY <1>2 DEF PromoteCas, Goto
  <2>3. /\ Readers' = Readers /\ Writers' = Writers
        /\ Writing' = Writing \cup {t} /\ t \notin Writing /\ t \in Writers
    BY <1>0, <2>2 DEF TypeOK, Readers, Writers, Waiting, Writing
  <2>4. p >= 1
    BY Zenon, <2>1, <2>3, CountDown
  <2>5. PICK k \in 0..(WriterField - 1) : local[t] = ReaderField * k
    BY <1>0 DEF IndInv
  <2>6. r = 0 /\ a = 0
    BY Zenon, <2>1, <2>4, <2>5, <1>2, WritersOnly
  <2>7. Readers = {} /\ Writing = {}
    BY <2>1, <2>6, FS_EmptySet
  <2>8. Cardinality(Writing') = 1
    BY Zenon, <2>3, <2>7, FS_Singleton
  <2>9. Fits(r, p, 1)
    BY <2>1, <2>4 DEF Fits
  <2>10. value' = Packed(r, p, 1)
    <3>1. value + Active_Writer_Flag = Packed(r, p, 1)
      <4>1. /\ ReaderField * p \in Nat /\ ReaderField * WriterField \in Nat
            /\ (ReaderField * WriterField) * 0 = 0
            /\ (ReaderField * WriterField) * 1 = ReaderField * WriterField
        BY <2>1, FieldsAssumption DEF Fits
      <4> QED BY <2>1, <2>6, <4>1 DEF Packed, Active_Writer_Flag
    <3> QED BY <3>1, <2>2, <2>9, WrapPacked
  <2>11. TypeOK'
    <3>1. value' \in 0..(Word - 1)
      BY <2>9, <2>10, PackedRange
    <3> QED BY <3>1, <1>0, <2>2 DEF TypeOK
  <2>12. MutualExclusion'
    BY <2>3, <2>7 DEF MutualExclusion
  <2>13. \A u \in Threads : pc'[u] = "promoteCas" =>
            \E j \in 0..(WriterField - 1) : local'[u] = ReaderField * j
    BY <1>0, <2>2 DEF TypeOK, IndInv
  <2>14. Cardinality(Readers') + Cardinality(Writers') <= ReaderField
    BY <2>3 DEF IndInv
  <2> QED BY <2>3, <2>8, <2>10, <2>11, <2>12, <2>13, <2>14 DEF IndInv
<1> QED BY <1>1, <1>2

LEMMA ReleaseWriterStep ==
    ASSUME IndInv, WritersFit, NEW t \in Threads, ReleaseWriter(t)
    PROVE  IndInv'
<1>0. TypeOK
  BY DEF IndInv
<1> DEFINE r == Cardinality(Readers)  p == Cardinality(Writers)  a == Cardinality(Writing)
<1>1. /\ Fits(r, p, a) /\ value = Packed(r, p, a)
      /\ IsFiniteSet(Readers) /\ IsFiniteSet(Writers)
  BY CountsFit DEF IndInv
<1>2. /\ value' = Wrap(value - (Active_Writer_Flag + Pending_Writer_Increment
                                - Active_Reader_Increment))
      /\ pc' = [pc EXCEPT ![t] = "reader"] /\ pc[t] = "writer" /\ local' = local
  BY DEF ReleaseWriter, Goto
<1>3. t \in Writing /\ Writing = {t}
  BY <1>2 DEF Writing, IndInv, MutualExclusion
<1>4. /\ Readers' = Readers \cup {t} /\ t \notin Readers
      /\ Writers' = Writers \ {t} /\ t \in Writers
      /\ Writing' = Writing \ {t}
  BY <1>0, <1>2 DEF TypeOK, Readers, Writers, Waiting, Writing
<1>5. a = 1 /\ Writing' = {}
  BY <1>3, <1>4, FS_Singleton
<1>6. /\ Cardinality(Readers') = r + 1
      /\ Cardinality(Writers') = p - 1 /\ p >= 1
      /\ Cardinality(Writing') = 0
  BY Zenon, <1>1, <1>4, <1>5, CountUp, CountDown, FS_EmptySet
<1>7. Fits(r + 1, p - 1, 0)
  BY <1>1, <1>6, FieldsAssumption DEF Fits
<1>8. value' = Packed(r + 1, p - 1, 0)
  <2>1. value - (Active_Writer_Flag + Pending_Writer_Increment - Active_Reader_Increment)
        = Packed(r + 1, p - 1, 0)
    BY <1>1, <1>5, PackReleaseWriter DEF Fits
  <2> QED BY <2>1, <1>2, <1>7, WrapPacked
<1>9. TypeOK'
  <2>1. value' \in 0..(Word - 1)
    BY <1>7, <1>8, PackedRange
  <2> QED BY <2>1, <1>0, <1>2 DEF TypeOK
<1>10. MutualExclusion'
  BY <1>5 DEF MutualExclusion
<1>11. \A u \in Threads : pc'[u] = "promoteCas" =>
          \E k \in 0..(WriterField - 1) : local'[u] = ReaderField * k
  BY <1>0, <1>2 DEF TypeOK, IndInv
<1>12. Cardinality(Readers') + Cardinality(Writers') <= ReaderField
  BY <1>1, <1>6, FieldsAssumption DEF Fits
<1> QED BY <1>6, <1>8, <1>9, <1>10, <1>11, <1>12 DEF IndInv

LEMMA InitIndInv == Init => IndInv
<1> SUFFICES ASSUME Init PROVE IndInv
  OBVIOUS
<1>1. Readers = {} /\ Writers = {} /\ Writing = {}
  BY DEF Init, Readers, Writers, Waiting, Writing
<1>2. Cardinality({}) = 0
  BY FS_EmptySet
<1>3. ReaderField \in Nat \ {0} /\ WriterField \in Nat \ {0}
  BY FieldsAssumption
<1>4. TypeOK
  <2>1. Word \in Nat \ {0}
    BY <1>3 DEF Word, Active_Writer_Flag
  <2> QED BY <2>1 DEF Init, TypeOK
<1>5. value = Packed(0, 0, 0)
  BY <1>3 DEF Init, Packed
<1> QED BY <1>1, <1>2, <1>3, <1>4, <1>5 DEF IndInv, MutualExclusion, Init

LEMMA NextIndInv ==
    ASSUME IndInv, WritersFit, [Next]_vars
    PROVE  IndInv'
<1>1. CASE UNCHANGED vars
  <2>1. UNCHANGED value /\ TypeOK' /\ Readers' = Readers /\ Writers' = Writers /\ Writing' = Writing
    BY <1>1 DEF vars, IndInv, TypeOK, Readers, Writers, Waiting, Writing
  <2>2. \A t \in Threads : pc'[t] = "promoteCas" =>
           \E k \in 0..(WriterField - 1) : local'[t] = ReaderField * k
    BY <1>1 DEF vars, IndInv
  <2> QED BY <2>1, <2>2, SameClasses
<1>2. ASSUME NEW t \in Threads, AcquireLoad(t) \/ PromoteAdd(t) \/ Progress(t)
      PROVE  IndInv'
  BY <1>2, AcquireStep, ReleaseReaderStep, PromoteAddStep, PromoteLoadStep, PromoteCasStep,
     ReleaseWriterStep DEF Progress
<1> QED BY <1>1, <1>2 DEF Next

---------------------------------------------------------------------------
(* The packed word always holds the three counts within their widths, and  *)
(* the exclusion of readers and writers follows from what the two          *)
(* compare-exchanges of acquireReader and promoteToWriter test.            *)
THEOREM LockInvariant ==
    ASSUME WritersFit
    PROVE  Spec => []IndInv
<1>1. Init => IndInv
  BY InitIndInv
<1>2. IndInv /\ [Next]_vars => IndInv'
  BY NextIndInv
<1> QED BY <1>1, <1>2, PTL DEF Spec

(* No thread holds a guard of any kind while another holds a               *)
(* WriterLockGuard, for any widths and any number of threads that fit the  *)
(* writer counter.                                                         *)
THEOREM LockExcludes ==
    ASSUME WritersFit
    PROVE  Spec => []MutualExclusion
<1>1. IndInv => MutualExclusion
  BY DEF IndInv
<1> QED BY <1>1, LockInvariant, PTL

(* m_value is exactly the number of readers, writers and active writers in *)
(* its three fields: no operation wraps it or leaves an increment behind.  *)
THEOREM LockCounts ==
    ASSUME WritersFit
    PROVE  Spec => [](TypeOK /\ WordCountsGuards)
<1>1. IndInv => TypeOK /\ WordCountsGuards
  <2> SUFFICES ASSUME IndInv PROVE WordCountsGuards
    BY DEF IndInv
  <2>1. IsFiniteSet(Readers)
    <3>1. Readers \subseteq Threads
      BY DEF Readers
    <3> QED BY <3>1, FieldsAssumption, FS_Subset
  <2>2. Cardinality(Readers) \in Nat
    BY <2>1, FS_CardinalityType
  <2>3. Active_Reader_Increment * Cardinality(Readers) = Cardinality(Readers)
    BY <2>2 DEF Active_Reader_Increment
  <2> QED BY <2>3 DEF IndInv, WordCountsGuards, Packed, Writers, Pending_Writer_Increment,
                      Active_Writer_Flag
<1> QED BY <1>1, LockInvariant, PTL

LEMMA HolderType ==
    ASSUME TypeOK
    PROVE  /\ Holder \in [Threads -> {"none", "reader", "waiting", "writer"}]
           /\ \A t \in Threads :
                 /\ Holder[t] = "none" <=> pc[t] \in {"idle", "acquire"}
                 /\ Holder[t] = "reader" <=> pc[t] = "reader"
                 /\ Holder[t] = "waiting" <=> pc[t] \in {"promote", "promoteCas"}
                 /\ Holder[t] = "writer" <=> pc[t] = "writer"
BY DEF TypeOK, Holder, Held

(* When one thread moves, the abstract lock changes for that thread only. *)
LEMMA HolderMoves ==
    ASSUME TypeOK, TypeOK', NEW t \in Threads, NEW label, pc' = [pc EXCEPT ![t] = label]
    PROVE  Holder' = [Holder EXCEPT ![t] = Holder'[t]]
<1>1. pc'[t] = label /\ \A u \in Threads : u # t => pc'[u] = pc[u]
  BY DEF TypeOK
<1>2. \A u \in Threads : u # t => Holder'[u] = Holder[u]
  BY <1>1 DEF Holder
<1>3. DOMAIN Holder = Threads /\ DOMAIN Holder' = Threads
  BY DEF Holder
<1>4. Holder' = [u \in Threads |-> Holder'[u]]
  BY DEF Holder
<1>5. [Holder EXCEPT ![t] = Holder'[t]] = [u \in Threads |-> IF u = t THEN Holder'[t] ELSE Holder[u]]
  BY Zenon, <1>3
<1> QED BY <1>2, <1>4, <1>5

(* A granted reader lock is an abstract acquireReader. *)
LEMMA AcquireMaps ==
    ASSUME IndInv, IndInv', WritersFit, NEW t \in Threads, AcquireCas(t), value = local[t]
    PROVE  Abstract!acquireReader(t)
<1>0. TypeOK /\ TypeOK'
  BY DEF IndInv
<1>1. pc' = [pc EXCEPT ![t] = "reader"] /\ pc[t] = "acquire"
  BY DEF AcquireCas, Goto
<1> DEFINE r == Cardinality(Readers)  p == Cardinality(Writers)  a == Cardinality(Writing)
<1>2. Fits(r, p, a) /\ value = Packed(r, p, a) /\ IsFiniteSet(Writers)
  BY CountsFit DEF IndInv
<1>3. p = 0
  BY <1>2, NoPendingWriters DEF AcquireCas
<1>4. Writers = {}
  BY <1>2, <1>3, FS_EmptySet
<1>5. \A u \in Threads : Holder[u] \in {"none", "reader"}
  BY <1>0, <1>4, HolderType DEF Writers, Waiting, Writing
<1>6. Holder[t] = "none" /\ Holder'[t] = "reader"
  BY <1>0, <1>1 DEF Holder, Held, TypeOK
<1>7. Holder' = [Holder EXCEPT ![t] = "reader"]
  BY Zenon, <1>0, <1>1, <1>6, HolderMoves
<1> QED BY <1>5, <1>6, <1>7
       DEF Abstract!acquireReader, Abstract!CanAcquire, Abstract!NoWriter, Abstract!With

(* A granted writer lock is an abstract becomeWriter. *)
LEMMA GrantMaps ==
    ASSUME IndInv, IndInv', WritersFit, NEW t \in Threads, PromoteCas(t), value = local[t]
    PROVE  Abstract!becomeWriter(t)
<1>0. TypeOK /\ TypeOK'
  BY DEF IndInv
<1>1. pc' = [pc EXCEPT ![t] = "writer"] /\ pc[t] = "promoteCas"
  BY DEF PromoteCas, Goto
<1> DEFINE r == Cardinality(Readers)  p == Cardinality(Writers)  a == Cardinality(Writing)
<1>2. /\ Fits(r, p, a) /\ value = Packed(r, p, a)
      /\ IsFiniteSet(Readers) /\ IsFiniteSet(Writers) /\ IsFiniteSet(Writing)
  BY CountsFit DEF IndInv
<1>3. p >= 1
  <2>1. t \in Writers
    BY <1>1 DEF Writers, Waiting
  <2> QED BY Zenon, <2>1, <1>2, CountDown
<1>4. PICK k \in 0..(WriterField - 1) : local[t] = ReaderField * k
  BY <1>1 DEF IndInv
<1>5. r = 0 /\ a = 0
  BY Zenon, <1>2, <1>3, <1>4, WritersOnly
<1>6. Readers = {} /\ Writing = {}
  BY <1>2, <1>5, FS_EmptySet
<1>7. \A u \in Threads : Holder[u] \in {"none", "waiting"}
  BY <1>0, <1>6, HolderType DEF Readers, Writing
<1>8. Holder[t] = "waiting" /\ Holder'[t] = "writer"
  BY <1>0, <1>1 DEF Holder, Held, TypeOK
<1>9. Holder' = [Holder EXCEPT ![t] = "writer"]
  BY Zenon, <1>0, <1>1, <1>8, HolderMoves
<1> QED BY <1>7, <1>8, <1>9
       DEF Abstract!becomeWriter, Abstract!CanWrite, Abstract!OnlyWaiting, Abstract!With

(* Loads and failed exchanges do not change what a thread holds. *)
LEMMA StepMaps ==
    ASSUME IndInv, IndInv', WritersFit, [Next]_vars
    PROVE  [Abstract!Next]_Holder
<1>0. TypeOK /\ TypeOK'
  BY DEF IndInv
<1>1. CASE UNCHANGED vars
  BY <1>1 DEF vars, Holder
<1>2. ASSUME NEW t \in Threads, AcquireLoad(t) \/ PromoteAdd(t) \/ Progress(t)
      PROVE  [Abstract!Next]_Holder
  <2>1. ASSUME NEW label, pc' = [pc EXCEPT ![t] = label], Holder'[t] = Holder[t]
        PROVE  UNCHANGED Holder
    <3>1. Holder' = [Holder EXCEPT ![t] = Holder[t]]
      BY Zenon, <1>0, <2>1, HolderMoves
    <3> QED BY <3>1, <1>0, HolderType
  <2>2. CASE AcquireLoad(t)
    <3>1. pc' = [pc EXCEPT ![t] = "acquire"] /\ Holder'[t] = Holder[t]
      BY <2>2, <1>0 DEF AcquireLoad, Goto, Holder, Held, TypeOK
    <3> QED BY Zenon, <3>1, <2>1
  <2>3. CASE AcquireWait(t)
    BY <2>3 DEF AcquireWait, Holder
  <2>4. CASE AcquireCas(t) /\ value # local[t]
    <3>1. UNCHANGED pc
      BY <2>4 DEF AcquireCas
    <3> QED BY <3>1 DEF Holder
  <2>5. CASE AcquireCas(t) /\ value = local[t]
    BY <2>5, AcquireMaps DEF Abstract!Next
  <2>6. CASE ReleaseReader(t)
    <3>1. pc' = [pc EXCEPT ![t] = "idle"] /\ Holder[t] = "reader" /\ Holder'[t] = "none"
      BY <2>6, <1>0 DEF ReleaseReader, Goto, Holder, Held, TypeOK
    <3>2. Holder' = [Holder EXCEPT ![t] = "none"]
      BY Zenon, <1>0, <3>1, HolderMoves
    <3> QED BY Zenon, <3>1, <3>2 DEF Abstract!Next, Abstract!releaseReader, Abstract!With
  <2>7. CASE PromoteAdd(t)
    <3>1. pc' = [pc EXCEPT ![t] = "promote"] /\ Holder[t] = "reader" /\ Holder'[t] = "waiting"
      BY <2>7, <1>0 DEF PromoteAdd, Goto, Holder, Held, TypeOK
    <3>2. Holder' = [Holder EXCEPT ![t] = "waiting"]
      BY Zenon, <1>0, <3>1, HolderMoves
    <3> QED BY Zenon, <3>1, <3>2 DEF Abstract!Next, Abstract!promoteToWriter, Abstract!With
  <2>8. CASE PromoteLoad(t)
    <3>1. pc' = [pc EXCEPT ![t] = "promoteCas"] /\ Holder'[t] = Holder[t]
      BY <2>8, <1>0 DEF PromoteLoad, Goto, Holder, Held, TypeOK
    <3> QED BY Zenon, <3>1, <2>1
  <2>9. CASE PromoteCas(t) /\ value # local[t]
    <3>1. pc' = [pc EXCEPT ![t] = "promote"] /\ Holder'[t] = Holder[t]
      BY <2>9, <1>0 DEF PromoteCas, Goto, Holder, Held, TypeOK
    <3> QED BY Zenon, <3>1, <2>1
  <2>10. CASE PromoteCas(t) /\ value = local[t]
    BY <2>10, GrantMaps DEF Abstract!Next
  <2>11. CASE ReleaseWriter(t)
    <3>1. pc' = [pc EXCEPT ![t] = "reader"] /\ Holder[t] = "writer" /\ Holder'[t] = "reader"
      BY <2>11, <1>0 DEF ReleaseWriter, Goto, Holder, Held, TypeOK
    <3>2. Holder' = [Holder EXCEPT ![t] = "reader"]
      BY Zenon, <1>0, <3>1, HolderMoves
    <3> QED BY Zenon, <3>1, <3>2 DEF Abstract!Next, Abstract!releaseWriter, Abstract!With
  <2> QED BY <1>2, <2>2, <2>3, <2>4, <2>5, <2>6, <2>7, <2>8, <2>9, <2>10, <2>11 DEF Progress
<1> QED BY <1>1, <1>2 DEF Next

(* The lock on one packed word implements ReaderWriterLock: readers are    *)
(* admitted only while nobody wants to write, and a promotion succeeds     *)
(* only when everyone else has let go or waits, whatever the threads       *)
(* loaded before.                                                          *)
THEOREM LockRefines ==
    ASSUME WritersFit
    PROVE  Spec => ImplementsLock
<1>1. Init => Abstract!Init
  BY DEF Init, Abstract!Init, Abstract!Unlocked, Holder, Held
<1>2. IndInv /\ IndInv' /\ [Next]_vars => [Abstract!Next]_Holder
  BY StepMaps
<1> QED BY <1>1, <1>2, LockInvariant, PTL DEF Spec, ImplementsLock, Abstract!Spec

=============================================================================
