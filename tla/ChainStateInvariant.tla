-------------------------- MODULE ChainStateInvariant --------------------------
(***************************************************************************)
(* The inductive invariant of ChainState: what the block consumer, the     *)
(* transaction consumer and the harvester keep true of the storage, the    *)
(* cache and the unconfirmed transactions, for any transactions, any       *)
(* chains, any number of sub caches and any limits.  This module has the   *)
(* facts about chains and pools it rests on, the invariant, the initial    *)
(* states and the steps of the transaction consumer and of the harvester;  *)
(* ChainStateProofs has the block consumer and what follows.               *)
(***************************************************************************)
EXTENDS ChainState, WellFoundedInduction, TLAPS

\* Sequences that agree at every position are equal.
LEMMA SequenceEqual ==
    ASSUME NEW S, NEW s \in Seq(S), NEW t \in Seq(S),
           Len(s) = Len(t), \A i \in 1 .. Len(s) : s[i] = t[i]
    PROVE  s = t
OBVIOUS

USE ChainStateAssumption, ChainsAssumption, SizesAssumption

-------------------------------------------------------------------------------
(* Induction and recursion over an initial segment of the naturals, stated *)
(* with sets and functions only: a property is the set of the numbers that *)
(* have it, a step is a function.                                          *)

\* A non-empty set of naturals has a least element.
LEMMA LeastNatural ==
    ASSUME NEW S \in SUBSET Nat, S # {}
    PROVE  \E x \in S : \A y \in S : x <= y
<1> DEFINE R == OpToRel(<, Nat)
<1>1. IsWellFoundedOn(R, Nat)
  BY Zenon, NatLessThanWellFounded
<1> HIDE DEF R
<1>2. PICK x \in S : \A y \in S : <<y, x>> \notin R
  BY Zenon, <1>1, WFMin
<1>3. \A y \in S : x <= y
  <2> SUFFICES ASSUME NEW y \in S, ~(x <= y) PROVE FALSE
    OBVIOUS
  <2>1. x \in Nat /\ y \in Nat /\ y < x
    OBVIOUS
  <2>2. <<y, x>> \in R
    BY <2>1 DEF R, OpToRel
  <2>3. QED
    BY <1>2, <2>2, Zenon
<1>4. QED
  BY <1>3

\* What holds of 0 and is handed on by every number up to N holds up to N.
LEMMA SegmentInduction ==
    ASSUME NEW N \in Nat, NEW Q, 0 \in Q, \A n \in 1 .. N : n - 1 \in Q => n \in Q
    PROVE  0 .. N \subseteq Q
<1> DEFINE S == {n \in 0 .. N : n \notin Q}
<1> SUFFICES ASSUME S # {} PROVE FALSE
  OBVIOUS
<1>1. S \in SUBSET Nat
  OBVIOUS
<1> HIDE DEF S
<1>2. PICK x \in S : \A y \in S : x <= y
  BY <1>1, LeastNatural
<1>3. x \in 0 .. N /\ x \notin Q
  BY <1>2 DEF S
<1>4. x \in 1 .. N /\ x - 1 \in 0 .. N
  BY <1>3
<1>5. x - 1 \notin S
  BY <1>2, <1>4
<1>6. x - 1 \in Q
  BY <1>4, <1>5 DEF S
<1>7. QED
  BY <1>3, <1>4, <1>6

\* step[n] says how the value at n follows from the one before.
IsStep(step, N, S) == step \in [1 .. N -> [S -> S]]

IsRun(f, init, step, N, S) ==
    /\ f \in [0 .. N -> S]
    /\ f[0] = init
    /\ \A n \in 1 .. N : f[n] = step[n][f[n - 1]]

\* A function is defined by its first value and by how each value follows
\* from the one before.
LEMMA RecursiveFunction ==
    ASSUME NEW N \in Nat, NEW S, NEW init \in S, NEW step, IsStep(step, N, S)
    PROVE  \E f : IsRun(f, init, step, N, S)
<1> USE DEF IsStep
<1> DEFINE Follows(f, m) == \A n \in 1 .. m : f[n] = step[n][f[n - 1]]
           Q == {m \in 0 .. N : \E f \in [0 .. N -> S] : f[0] = init /\ Follows(f, m)}
<1>1. 0 \in Q
  <2> DEFINE f == [n \in 0 .. N |-> init]
  <2>1. f \in [0 .. N -> S] /\ f[0] = init /\ Follows(f, 0)
    OBVIOUS
  <2>2. \E h \in [0 .. N -> S] : h[0] = init /\ Follows(h, 0)
    <3> HIDE DEF f
    <3>1. QED
      BY <2>1
  <2>3. QED
    BY <2>2
<1>2. ASSUME NEW m \in 1 .. N, m - 1 \in Q PROVE m \in Q
  <2>1. PICK f \in [0 .. N -> S] : f[0] = init /\ Follows(f, m - 1)
    BY <1>2
  <2> DEFINE g == [f EXCEPT ![m] = step[m][f[m - 1]]]
  <2>2. m - 1 \in 0 .. N /\ m \in 0 .. N
    OBVIOUS
  <2>3. step[m][f[m - 1]] \in S
    BY <2>2
  <2>4. g \in [0 .. N -> S] /\ g[0] = init
    BY <2>1, <2>2, <2>3
  <2>5. ASSUME NEW n \in 1 .. m PROVE g[n] = step[n][g[n - 1]]
    <3>1. n - 1 \in 0 .. N /\ n \in 0 .. N /\ n - 1 # m /\ g[n - 1] = f[n - 1]
      OBVIOUS
    <3>2. CASE n = m
      BY <2>2, <3>1, <3>2
    <3>3. CASE n # m
      BY <2>1, <3>1, <3>3
    <3>4. QED
      BY <3>2, <3>3
  <2>6. QED
    BY Zenon, <2>2, <2>4, <2>5
<1>3. 0 .. N \subseteq Q
  <2> HIDE DEF Q
  <2>1. QED
    BY Zenon, <1>1, <1>2, SegmentInduction
<1>4. N \in Q
  <2>1. N \in 0 .. N
    OBVIOUS
  <2> HIDE DEF Q
  <2>2. QED
    BY <1>3, <2>1
<1>5. QED
  BY <1>4 DEF IsRun

-------------------------------------------------------------------------------
(* Chains.                                                                 *)

\* The blocks from a height on, and the ones below it.
LEMMA Parts ==
    ASSUME NEW c \in Chains, NEW s \in 1 .. Len(c) + 1
    PROVE  /\ Below(c, s) \in Chains /\ Len(Below(c, s)) = s - 1
           /\ \A h \in 1 .. s - 1 : Below(c, s)[h] = c[h]
           /\ From(c, s) \in Chains /\ Len(From(c, s)) = Len(c) - s + 1
           /\ \A h \in 1 .. Len(c) - s + 1 : From(c, s)[h] = c[s + h - 1]
<1>1. Len(c) \in Nat /\ s \in Nat \ {0} /\ s <= Len(c) + 1 /\ \A h \in 1 .. Len(c) : c[h] \in Blocks
  BY DEF Chains
<1>2. QED
  BY <1>1 DEF Below, From, Chains

\* A chain is what is below a height and what is not.
LEMMA Split ==
    ASSUME NEW c \in Chains, NEW s \in 1 .. Len(c) + 1
    PROVE  /\ Below(c, s) \o From(c, s) = c
           /\ Confirmed(c) = Confirmed(Below(c, s)) \union Confirmed(From(c, s))
<1>1. Len(c) \in Nat /\ s \in Nat \ {0} /\ s <= Len(c) + 1 /\ c \in Seq(Blocks)
  BY DEF Chains
<1> DEFINE b == Below(c, s)
           f == From(c, s)
<1>2. /\ b \in Seq(Blocks) /\ f \in Seq(Blocks) /\ Len(b) = s - 1 /\ Len(f) = Len(c) - s + 1
      /\ \A h \in 1 .. s - 1 : b[h] = c[h]
      /\ \A h \in 1 .. Len(c) - s + 1 : f[h] = c[s + h - 1]
  BY Zenon, <1>1, Parts DEF Chains
<1> HIDE DEF b, f
<1>3. b \o f = c
  <2>1. b \o f \in Seq(Blocks) /\ Len(b \o f) = Len(c)
    BY <1>1, <1>2
  <2>2. ASSUME NEW h \in 1 .. Len(c) PROVE (b \o f)[h] = c[h]
    <3>1. CASE h <= s - 1
      BY <1>1, <1>2, <3>1
    <3>2. CASE h > s - 1
      <4>1. h - (s - 1) \in 1 .. Len(c) - s + 1 /\ (b \o f)[h] = f[h - (s - 1)]
        BY <1>1, <1>2, <3>2
      <4>2. QED
        BY <1>1, <1>2, <4>1
    <3>3. h <= s - 1 \/ h > s - 1
      BY <1>1
    <3>4. QED
      BY <3>1, <3>2, <3>3, Zenon
  <2>3. QED
    BY Zenon, <1>1, <2>1, <2>2, SequenceEqual
<1>4. Confirmed(c) = Confirmed(b) \union Confirmed(f)
  <2>1. DOMAIN c = 1 .. Len(c) /\ DOMAIN b = 1 .. s - 1 /\ DOMAIN f = 1 .. Len(c) - s + 1
    BY <1>1, <1>2
  <2>2. ASSUME NEW t \in Confirmed(c) PROVE t \in Confirmed(b) \union Confirmed(f)
    <3>1. PICK h \in 1 .. Len(c) : t \in Range(c[h].txs)
      BY <2>1, <2>2 DEF Confirmed
    <3>2. CASE h <= s - 1
      <4>1. h \in 1 .. s - 1
        BY <1>1, <3>2
      <4>2. QED
        BY ZenonT(30), <1>2, <2>1, <3>1, <4>1 DEF Confirmed
    <3>3. CASE h > s - 1
      <4> DEFINE k == h - (s - 1)
      <4>1. k \in 1 .. Len(c) - s + 1 /\ s + k - 1 = h
        BY <1>1, <3>3
      <4> HIDE DEF k
      <4>2. f[k] = c[h]
        BY <1>2, <4>1
      <4>3. QED
        BY Zenon, <2>1, <3>1, <4>1, <4>2 DEF Confirmed
    <3>4. QED
      BY <1>1, <3>2, <3>3
  <2>3. ASSUME NEW t \in Confirmed(b) PROVE t \in Confirmed(c)
    <3>1. PICK h \in 1 .. s - 1 : t \in Range(b[h].txs)
      BY <2>1, <2>3 DEF Confirmed
    <3>2. h \in 1 .. Len(c) /\ b[h] = c[h]
      BY <1>1, <1>2
    <3>3. QED
      BY <2>1, <3>1, <3>2 DEF Confirmed
  <2>4. ASSUME NEW t \in Confirmed(f) PROVE t \in Confirmed(c)
    <3>1. PICK h \in 1 .. Len(c) - s + 1 : t \in Range(f[h].txs)
      BY <2>1, <2>4 DEF Confirmed
    <3>2. s + h - 1 \in 1 .. Len(c) /\ f[h] = c[s + h - 1]
      BY <1>1, <1>2
    <3>3. QED
      BY ZenonT(30), <2>1, <3>1, <3>2 DEF Confirmed
  <2>5. QED
    BY <2>2, <2>3, <2>4
<1>5. QED
  BY <1>3, <1>4 DEF b, f

LEMMA ConfirmedType ==
    ASSUME NEW c \in Chains
    PROVE  Confirmed(c) \in SUBSET Txs
<1> SUFFICES ASSUME NEW h \in DOMAIN c PROVE Range(c[h].txs) \subseteq Txs
  BY DEF Confirmed
<1>1. h \in 1 .. Len(c)
  BY DEF Chains
<1>2. c[h] \in Blocks
  BY <1>1 DEF Chains
<1>3. c[h].txs \in Seq(Txs)
  BY <1>2 DEF Blocks
<1>4. QED
  BY <1>3 DEF Range

\* Sub caches that reflect one chain know what that chain has confirmed.
LEMMA OneState ==
    ASSUME NEW c \in Chains, NEW subs, \A i \in SubCaches : subs[i] = c
    PROVE  StateOf(subs) = Confirmed(c)
<1>1. Confirmed(c) \subseteq Txs
  BY ConfirmedType
<1>2. QED
  BY <1>1 DEF StateOf

LEMMA LastSubCache == \A i \in SubCaches : i \in Nat /\ i < NumSubCaches + 1
BY DEF SubCaches

-------------------------------------------------------------------------------
(* The pool of unconfirmed transactions.                                   *)

Pools == [ut : Seq(Txs), applied : SUBSET Txs]

Sources == {"New", "Reverted", "Existing"}

\* A pool only grows at its end.
Begins(p, q) == Len(p) <= Len(q) /\ \A n \in 1 .. Len(p) : q[n] = p[n]

\* The transactions pay enough, can be executed in order and are the ones applied.
Sound(pool, base) ==
    /\ pool.applied = Range(pool.ut) /\ Execute(base, pool.ut)
    /\ Range(pool.ut) \intersect LowFee = {}

\* Why a transaction is passed over when the pool holds the first n of q.
Reason(t, base, source, n, q) ==
    \/ t \in LowFee
    \/ MaxCacheSize <= n
    \/ MaxTransactionsPerBlock <= n /\ source # "Reverted" /\ t \notin Bonded
    \/ ~Valid(t, base \union {q[m] : m \in 1 .. n})

\* Whatever q holds after its first ones is among the given transactions.
Given(txs, first, q) ==
    \A m \in first + 1 .. Len(q) : \E k \in 1 .. Len(txs) : q[m] = txs[k]

\* The first n come from before the i-th transaction, the others from behind it.
Placed(txs, i, first, n, q) ==
    \A m \in first + 1 .. Len(q) : \E k \in 1 .. Len(txs) :
        q[m] = txs[k] /\ IF m <= n THEN k < i ELSE i < k

\* The i-th transaction is held, or was passed over for a reason at its turn.
Settled(txs, i, base, source, first, q) ==
    \/ txs[i] \in Range(q)
    \/ \E n \in first .. Len(q) :
           Placed(txs, i, first, n, q) /\ Reason(txs[i], base, source, n, q)

LEMMA BeginsTransitive ==
    ASSUME NEW p \in Seq(Txs), NEW q \in Seq(Txs), NEW r \in Seq(Txs), Begins(p, q), Begins(q, r)
    PROVE  Begins(p, r)
<1>1. Len(p) \in Nat /\ Len(q) \in Nat /\ Len(r) \in Nat
  OBVIOUS
<1>2. QED
  BY <1>1 DEF Begins

LEMMA BeginsRange ==
    ASSUME NEW p \in Seq(Txs), NEW q \in Seq(Txs), Begins(p, q)
    PROVE  Range(p) \subseteq Range(q)
<1>1. DOMAIN p = 1 .. Len(p) /\ DOMAIN q = 1 .. Len(q) /\ Len(p) \in Nat /\ Len(q) \in Nat
  OBVIOUS
<1>2. QED
  BY <1>1 DEF Begins, Range

\* A reason stays one when the pool grows.
LEMMA ReasonStays ==
    ASSUME NEW p \in Seq(Txs), NEW q \in Seq(Txs), Begins(p, q), NEW n \in 0 .. Len(p),
           NEW t, NEW base, NEW source, Reason(t, base, source, n, p)
    PROVE  Reason(t, base, source, n, q)
<1>1. \A m \in 1 .. n : q[m] = p[m]
  BY DEF Begins
<1>2. {q[m] : m \in 1 .. n} = {p[m] : m \in 1 .. n}
  BY Zenon, <1>1
<1>3. QED
  BY Zenon, <1>2 DEF Reason

\* What is settled stays settled when the pool grows by later transactions.
LEMMA SettledStays ==
    ASSUME NEW p \in Seq(Txs), NEW q \in Seq(Txs), NEW txs \in Seq(Txs), NEW i \in 1 .. Len(txs),
           NEW base, NEW source, NEW first \in Nat, first <= Len(p), Begins(p, q),
           \A m \in Len(p) + 1 .. Len(q) : \E k \in 1 .. Len(txs) : q[m] = txs[k] /\ i < k,
           Settled(txs, i, base, source, first, p)
    PROVE  Settled(txs, i, base, source, first, q)
<1>1. Len(p) \in Nat /\ Len(q) \in Nat /\ Len(p) <= Len(q) /\ \A m \in 1 .. Len(p) : q[m] = p[m]
  BY DEF Begins
<1>2. CASE txs[i] \in Range(p)
  BY <1>2, BeginsRange DEF Settled
<1>3. ASSUME NEW n \in first .. Len(p), Placed(txs, i, first, n, p),
             Reason(txs[i], base, source, n, p)
      PROVE  Settled(txs, i, base, source, first, q)
  <2>1. n \in first .. Len(q) /\ n \in 0 .. Len(p)
    BY <1>1
  <2>2. Reason(txs[i], base, source, n, q)
    BY Zenon, <1>3, <2>1, ReasonStays
  <2>3. ASSUME NEW m \in first + 1 .. Len(q)
        PROVE  \E k \in 1 .. Len(txs) : q[m] = txs[k] /\ IF m <= n THEN k < i ELSE i < k
    <3>1. CASE m <= Len(p)
      <4>1. m \in first + 1 .. Len(p) /\ q[m] = p[m]
        BY <1>1, <3>1
      <4>2. QED
        BY Zenon, <1>3, <4>1 DEF Placed
    <3>2. CASE ~(m <= Len(p))
      <4>1. m \in Len(p) + 1 .. Len(q) /\ ~(m <= n)
        BY <1>1, <3>2
      <4>2. QED
        BY Zenon, <4>1
    <3>3. QED
      BY Zenon, <3>1, <3>2
  <2>4. Placed(txs, i, first, n, q)
    BY Zenon, <2>3 DEF Placed
  <2>5. QED
    BY Zenon, <2>1, <2>2, <2>4 DEF Settled
<1>4. QED
  BY Zenon, <1>2, <1>3 DEF Settled

\* MemoryUtCacheModifier::add appends or refuses.
LEMMA AddCases ==
    ASSUME NEW p \in Seq(Txs), NEW t \in Txs, Len(p) <= MaxCacheSize
    PROVE  /\ Add(p, t) \in Seq(Txs) /\ Len(Add(p, t)) <= MaxCacheSize /\ Begins(p, Add(p, t))
           /\ \/ Add(p, t) = p /\ (t \in Range(p) \/ Len(p) = MaxCacheSize)
              \/ Add(p, t) # p /\ Add(p, t) = Append(p, t)
<1>1. Len(p) \in Nat /\ Append(p, t) \in Seq(Txs) /\ Len(Append(p, t)) = Len(p) + 1
      /\ \A n \in 1 .. Len(p) : Append(p, t)[n] = p[n]
  OBVIOUS
<1>2. CASE MaxCacheSize <= Len(p) \/ t \in Range(p)
  BY <1>1, <1>2 DEF Add, Begins
<1>3. CASE ~(MaxCacheSize <= Len(p) \/ t \in Range(p))
  <2>1. Add(p, t) = Append(p, t)
    BY <1>3 DEF Add
  <2>2. Len(p) < MaxCacheSize /\ Append(p, t) # p
    BY <1>1, <1>3
  <2>3. QED
    BY <1>1, <2>1, <2>2 DEF Begins
<1>4. QED
  BY <1>2, <1>3

LEMMA AppendRange ==
    ASSUME NEW p \in Seq(Txs), NEW t \in Txs
    PROVE  Range(Append(p, t)) = Range(p) \union {t}
<1> DEFINE q == Append(p, t)
<1>1. /\ Len(p) \in Nat /\ DOMAIN p = 1 .. Len(p) /\ DOMAIN q = 1 .. Len(p) + 1
      /\ q[Len(p) + 1] = t /\ \A n \in 1 .. Len(p) : q[n] = p[n]
  OBVIOUS
<1> HIDE DEF q
<1>2. Range(q) = Range(p) \union {t}
  BY <1>1 DEF Range
<1>3. QED
  BY <1>2 DEF q

LEMMA ConcatRange ==
    ASSUME NEW p \in Seq(Txs), NEW q \in Seq(Txs)
    PROVE  Range(p \o q) = Range(p) \union Range(q)
<1> DEFINE r == p \o q
<1>1. /\ Len(p) \in Nat /\ Len(q) \in Nat
      /\ DOMAIN p = 1 .. Len(p) /\ DOMAIN q = 1 .. Len(q) /\ DOMAIN r = 1 .. Len(p) + Len(q)
      /\ \A n \in 1 .. Len(p) + Len(q) : r[n] = IF n <= Len(p) THEN p[n] ELSE q[n - Len(p)]
  OBVIOUS
<1> HIDE DEF r
<1>2. ASSUME NEW n \in 1 .. Len(q) PROVE q[n] = r[Len(p) + n] /\ Len(p) + n \in DOMAIN r
  BY <1>1
<1>3. Range(r) = Range(p) \union Range(q)
  <2>1. ASSUME NEW n \in DOMAIN r PROVE r[n] \in Range(p) \union Range(q)
    <3>1. CASE n <= Len(p)
      BY <1>1, <3>1 DEF Range
    <3>2. CASE ~(n <= Len(p))
      <4>1. n - Len(p) \in DOMAIN q /\ r[n] = q[n - Len(p)]
        BY <1>1, <3>2
      <4>2. QED
        BY <4>1 DEF Range
    <3>3. QED
      BY <3>1, <3>2
  <2>2. \A n \in DOMAIN p : p[n] = r[n] /\ n \in DOMAIN r
    BY <1>1
  <2>3. QED
    BY ZenonT(30), <1>1, <1>2, <2>1, <2>2 DEF Range
<1>4. QED
  BY <1>3 DEF r

\* Executing one more transaction.
LEMMA ExecuteAppend ==
    ASSUME NEW p \in Seq(Txs), NEW t \in Txs, NEW base, Execute(base, p),
           Valid(t, base \union Range(p))
    PROVE  Execute(base, Append(p, t)) /\ Range(Append(p, t)) = Range(p) \union {t}
<1> DEFINE q == Append(p, t)
<1>1. /\ Len(p) \in Nat /\ q \in Seq(Txs) /\ Len(q) = Len(p) + 1 /\ q[Len(p) + 1] = t
      /\ \A n \in 1 .. Len(p) : q[n] = p[n]
      /\ DOMAIN p = 1 .. Len(p) /\ DOMAIN q = 1 .. Len(p) + 1
  OBVIOUS
<1> HIDE DEF q
<1>2. ASSUME NEW n \in 1 .. Len(p) + 1
      PROVE  {q[m] : m \in 1 .. n - 1} = {p[m] : m \in 1 .. n - 1}
  <2>1. \A m \in 1 .. n - 1 : m \in 1 .. Len(p)
    BY <1>1
  <2>2. QED
    BY <1>1, <2>1
<1>3. Range(p) = {p[m] : m \in 1 .. Len(p)}
  BY <1>1 DEF Range
<1>4. ASSUME NEW n \in DOMAIN q PROVE Valid(q[n], base \union {q[m] : m \in 1 .. n - 1})
  <2>1. CASE n \in 1 .. Len(p)
    <3>1. Valid(p[n], base \union {p[m] : m \in 1 .. n - 1})
      BY <1>1, <2>1 DEF Execute
    <3>2. QED
      BY Zenon, <1>1, <1>2, <1>4, <2>1, <3>1
  <2>2. CASE n = Len(p) + 1
    <3>1. n - 1 = Len(p)
      BY <1>1, <2>2
    <3>2. {q[m] : m \in 1 .. n - 1} = Range(p)
      BY <1>1, <1>2, <1>3, <1>4, <3>1
    <3>3. QED
      BY Zenon, <1>1, <2>2, <3>2
  <2>3. QED
    BY <1>1, <1>4, <2>1, <2>2
<1>5. Range(q) = Range(p) \union {t}
  BY <1>1, <1>3 DEF Range
<1>6. QED
  BY Zenon, <1>4, <1>5 DEF Execute, q

\* What one transaction of UtUpdater::apply does to a pool.
OneApplied(pool, base, source, t, r) ==
    /\ r \in Pools /\ Len(r.ut) <= MaxCacheSize /\ Begins(pool.ut, r.ut)
    /\ \A m \in Len(pool.ut) + 1 .. Len(r.ut) : r.ut[m] = t
    /\ Sound(pool, base) =>
           /\ Sound(r, base)
           /\ \/ t \in Range(r.ut)
              \/ r = pool /\ Reason(t, base, source, Len(pool.ut), pool.ut)

LEMMA ApplyOneFacts ==
    ASSUME NEW pool \in Pools, NEW base \in SUBSET Txs, NEW t \in Txs,
           NEW source \in Sources, NEW overQuota \in SUBSET Txs,
           Len(pool.ut) <= MaxCacheSize
    PROVE  OneApplied(pool, base, source, t, ApplyOne(pool, base, source, overQuota, t))
<1> DEFINE u == pool.ut
           r == ApplyOne(pool, base, source, overQuota, t)
           Takes == /\ t \notin LowFee /\ ~Throttled(u, source, overQuota, t)
                    /\ Add(u, t) # u /\ Valid(t, base \union pool.applied)
<1>1. u \in Seq(Txs) /\ pool.applied \in SUBSET Txs /\ Len(u) \in Nat
  BY DEF Pools
<1>2. CASE Takes
  <2>1. r = [ut |-> Add(u, t), applied |-> pool.applied \union {t}] /\ Add(u, t) = Append(u, t)
    BY Zenon, <1>1, <1>2, AddCases DEF ApplyOne
  <2>2. r \in Pools /\ Len(r.ut) <= MaxCacheSize /\ Begins(u, r.ut)
    <3>1. Add(u, t) \in Seq(Txs) /\ Len(Add(u, t)) <= MaxCacheSize /\ Begins(u, Add(u, t))
      BY <1>1, AddCases
    <3>2. r.ut = Add(u, t)
      BY <2>1
    <3>3. r \in Pools
      BY <1>1, <2>1, <3>1 DEF Pools
    <3>4. QED
      BY <3>1, <3>2, <3>3
  <2>3. r.ut = Append(u, t) /\ r.applied = pool.applied \union {t}
    BY <2>1
  <2>4. \A m \in Len(u) + 1 .. Len(r.ut) : r.ut[m] = t
    BY <1>1, <2>3
  <2>5. ASSUME Sound(pool, base) PROVE Sound(r, base) /\ t \in Range(r.ut)
    <3>1. Execute(base, Append(u, t)) /\ Range(Append(u, t)) = Range(u) \union {t}
      BY <1>1, <1>2, <2>5, ExecuteAppend DEF Sound
    <3>2. QED
      BY <1>2, <2>3, <2>5, <3>1 DEF Sound
  <2>6. QED
    BY <2>2, <2>4, <2>5 DEF OneApplied
<1>3. CASE ~Takes
  <2>1. r = pool
    BY <1>3 DEF ApplyOne
  <2>2. Begins(u, u) /\ \A m \in Len(u) + 1 .. Len(u) : u[m] = t
    BY <1>1 DEF Begins
  <2>3. ASSUME Sound(pool, base), t \notin Range(u)
        PROVE  Reason(t, base, source, Len(u), u)
    <3>1. CASE t \in LowFee
      BY <3>1 DEF Reason
    <3>2. CASE Throttled(u, source, overQuota, t)
      BY <3>2 DEF Reason, Throttled
    <3>3. CASE Add(u, t) = u
      BY <1>1, <2>3, <3>3, AddCases DEF Reason
    <3>4. CASE ~Valid(t, base \union pool.applied)
      <4>1. {u[m] : m \in 1 .. Len(u)} = pool.applied
        BY <1>1, <2>3 DEF Sound, Range
      <4>2. QED
        BY Zenon, <3>4, <4>1 DEF Reason
    <3>5. QED
      BY <1>3, <3>1, <3>2, <3>3, <3>4
  <2>4. QED
    BY <2>1, <2>2, <2>3 DEF OneApplied
<1>4. QED
  BY <1>2, <1>3

\* UtUpdater::apply is a run through the transactions.
IsApplyRun(run, pool, base, source, overQuota, txs) ==
    /\ run \in [0 .. Len(txs) -> Pools]
    /\ run[0] = pool
    /\ \A n \in 1 .. Len(txs) : run[n] = ApplyOne(run[n - 1], base, source, overQuota, txs[n])
    /\ run[Len(txs)] = Apply(pool, base, source, overQuota, txs)

LEMMA ApplyRun ==
    ASSUME NEW pool \in Pools, NEW base \in SUBSET Txs, NEW txs \in Seq(Txs),
           NEW source \in Sources, NEW overQuota \in SUBSET Txs, Len(pool.ut) <= MaxCacheSize
    PROVE  \E run : IsApplyRun(run, pool, base, source, overQuota, txs)
<1> DEFINE N == Len(txs)
           Full == {p \in Pools : Len(p.ut) <= MaxCacheSize}
           step == [n \in 1 .. N |-> [p \in Full |-> ApplyOne(p, base, source, overQuota, txs[n])]]
           Body(f) == [n \in 0 .. N |->
                          IF n = 0 THEN pool ELSE ApplyOne(f[n - 1], base, source, overQuota, txs[n])]
           run == CHOOSE f : f = Body(f)
<1>1. N \in Nat /\ \A n \in 1 .. N : txs[n] \in Txs
  OBVIOUS
<1> HIDE DEF N
<1>2. \A p \in Full, n \in 1 .. N : ApplyOne(p, base, source, overQuota, txs[n]) \in Full
  BY Zenon, <1>1, ApplyOneFacts DEF OneApplied
<1>3. pool \in Full
  OBVIOUS
<1> HIDE DEF Full
<1>4. IsStep(step, N, Full)
  BY <1>2 DEF IsStep
<1>5. \A p \in Full, n \in 1 .. N : step[n][p] = ApplyOne(p, base, source, overQuota, txs[n])
  OBVIOUS
<1> HIDE DEF step
<1>6. PICK g : IsRun(g, pool, step, N, Full)
  BY <1>1, <1>3, <1>4, RecursiveFunction
<1>7. g = Body(g)
  <2>1. ASSUME NEW n \in 0 .. N
        PROVE  g[n] = IF n = 0 THEN pool ELSE ApplyOne(g[n - 1], base, source, overQuota, txs[n])
    <3>1. CASE n = 0
      BY <1>6, <3>1 DEF IsRun
    <3>2. CASE n # 0
      <4>1. n \in 1 .. N /\ n - 1 \in 0 .. N
        BY <1>1, <3>2
      <4>2. QED
        BY <1>5, <1>6, <3>2, <4>1 DEF IsRun
    <3>3. QED
      BY <3>1, <3>2
  <2>2. QED
    BY <1>6, <2>1 DEF IsRun
<1>8. run = Body(run)
  <2>1. \E f : f = Body(f)
    BY Zenon, <1>7
  <2> HIDE DEF Body
  <2>2. QED
    BY <2>1
<1>9. run[N] = Apply(pool, base, source, overQuota, txs)
  BY DEF Apply, N
<1>10. DOMAIN run = 0 .. N /\ run[0] = pool
       /\ \A n \in 1 .. N : run[n] = ApplyOne(run[n - 1], base, source, overQuota, txs[n])
  <2> HIDE DEF run
  <2>1. QED
    BY <1>1, <1>8
<1> HIDE DEF run
<1> DEFINE Q == {n \in 0 .. N : run[n] \in Full}
<1>11. 0 \in Q
  BY <1>1, <1>3, <1>10
<1>12. ASSUME NEW n \in 1 .. N, n - 1 \in Q PROVE n \in Q
  BY <1>1, <1>2, <1>10, <1>12
<1>13. 0 .. N \subseteq Q
  <2> HIDE DEF Q
  <2>1. QED
    BY Zenon, <1>1, <1>11, <1>12, SegmentInduction
<1>14. run \in [0 .. N -> Pools]
  <2>1. \A n \in 0 .. N : run[n] \in Pools
    BY <1>13 DEF Full
  <2>2. run = [n \in 0 .. N |-> run[n]]
    BY <1>8
  <2>3. QED
    BY <2>1, <2>2
<1>15. IsApplyRun(run, pool, base, source, overQuota, txs)
  BY <1>9, <1>10, <1>14 DEF N, IsApplyRun
<1>16. QED
  BY Zenon, <1>15

\* What UtUpdater::apply does to a pool: it keeps what is there and adds only
\* what it was given, and when all of it can be executed, the same holds
\* afterwards and every transaction it was given is settled.
AllApplied(pool, base, source, txs, r) ==
    /\ r \in Pools /\ Len(r.ut) <= MaxCacheSize /\ Begins(pool.ut, r.ut)
    /\ Given(txs, Len(pool.ut), r.ut)
    /\ Sound(pool, base) =>
           /\ Sound(r, base)
           /\ \A i \in 1 .. Len(txs) : Settled(txs, i, base, source, Len(pool.ut), r.ut)

LEMMA ApplyFacts ==
    ASSUME NEW pool \in Pools, NEW base \in SUBSET Txs, NEW txs \in Seq(Txs),
           NEW source \in Sources, NEW overQuota \in SUBSET Txs, Len(pool.ut) <= MaxCacheSize
    PROVE  AllApplied(pool, base, source, txs, Apply(pool, base, source, overQuota, txs))
<1>1. PICK run : IsApplyRun(run, pool, base, source, overQuota, txs)
  BY Zenon, ApplyRun
<1> DEFINE N == Len(txs)
           first == Len(pool.ut)
           Good(n) == /\ Len(run[n].ut) <= MaxCacheSize /\ Begins(pool.ut, run[n].ut)
                      /\ \A m \in first + 1 .. Len(run[n].ut) :
                             \E k \in 1 .. N : run[n].ut[m] = txs[k] /\ k <= n
                      /\ Sound(pool, base) =>
                             /\ Sound(run[n], base)
                             /\ \A i \in 1 .. n : Settled(txs, i, base, source, first, run[n].ut)
           Q == {n \in 0 .. N : Good(n)}
<1>2. /\ N \in Nat /\ DOMAIN txs = 1 .. N /\ \A n \in 1 .. N : txs[n] \in Txs
      /\ first \in Nat /\ pool.ut \in Seq(Txs)
  BY DEF Pools
<1>3. 0 \in Q
  <2>1. run[0] = pool /\ 0 \in 0 .. N
    BY <1>1, <1>2 DEF IsApplyRun
  <2>2. Begins(pool.ut, pool.ut) /\ first + 1 .. Len(pool.ut) = {} /\ 1 .. 0 = {}
    BY <1>2 DEF Begins
  <2>3. QED
    BY Zenon, <2>1, <2>2
<1>4. ASSUME NEW n \in 1 .. N, n - 1 \in Q PROVE n \in Q
  <2> DEFINE p == run[n - 1]
             q == run[n]
  <2>1. /\ n - 1 \in 0 .. N /\ n \in 0 .. N /\ n \in Nat
        /\ p \in Pools /\ q \in Pools /\ txs[n] \in Txs
    BY SMTT(30), <1>1, <1>2 DEF IsApplyRun
  <2>2. q = ApplyOne(p, base, source, overQuota, txs[n]) /\ Good(n - 1)
    BY Zenon, <1>1, <1>4 DEF IsApplyRun
  <2>3. /\ Len(q.ut) <= MaxCacheSize /\ Begins(p.ut, q.ut)
        /\ \A m \in Len(p.ut) + 1 .. Len(q.ut) : q.ut[m] = txs[n]
        /\ Sound(p, base) =>
               /\ Sound(q, base)
               /\ \/ txs[n] \in Range(q.ut)
                  \/ q = p /\ Reason(txs[n], base, source, Len(p.ut), p.ut)
    <3>1. Len(p.ut) <= MaxCacheSize
      BY Zenon, <2>2
    <3>2. OneApplied(p, base, source, txs[n], ApplyOne(p, base, source, overQuota, txs[n]))
      <4> HIDE DEF p
      <4>1. QED
        BY <2>1, <3>1, ApplyOneFacts
    <3>3. OneApplied(p, base, source, txs[n], q)
      BY Zenon, <2>2, <3>2
    <3>4. QED
      BY Zenon, <3>3 DEF OneApplied
  <2>4. /\ p.ut \in Seq(Txs) /\ q.ut \in Seq(Txs) /\ Len(p.ut) \in Nat /\ Len(q.ut) \in Nat
        /\ Begins(pool.ut, p.ut) /\ first <= Len(p.ut)
        /\ Sound(pool, base) => Sound(p, base)
        /\ \A m \in first + 1 .. Len(p.ut) :
               \E k \in 1 .. N : p.ut[m] = txs[k] /\ k <= n - 1
    BY <2>1, <2>2 DEF Pools, Begins
  <2>5. Sound(pool, base) => \A i \in 1 .. n - 1 : Settled(txs, i, base, source, first, p.ut)
    BY Zenon, <2>2
  <2> HIDE DEF p, q, first, N
  <2>6. Begins(pool.ut, q.ut)
    BY Zenon, <1>2, <2>3, <2>4, BeginsTransitive
  <2>7. ASSUME NEW m \in first + 1 .. Len(q.ut)
        PROVE  \E k \in 1 .. N : q.ut[m] = txs[k] /\ k <= n
    <3>1. CASE m <= Len(p.ut)
      <4>1. m \in first + 1 .. Len(p.ut) /\ q.ut[m] = p.ut[m]
        BY <1>2, <2>3, <2>4, <3>1 DEF Begins
      <4>2. PICK k \in 1 .. N : p.ut[m] = txs[k] /\ k <= n - 1
        BY Zenon, <2>4, <4>1
      <4>3. QED
        BY <1>2, <2>1, <4>1, <4>2
    <3>2. CASE ~(m <= Len(p.ut))
      <4>1. m \in Len(p.ut) + 1 .. Len(q.ut) /\ n <= n
        BY <1>2, <2>1, <2>4, <3>2
      <4>2. QED
        BY Zenon, <2>3, <4>1
    <3>3. QED
      BY Zenon, <3>1, <3>2
  <2>8. ASSUME Sound(pool, base), NEW i \in 1 .. n
        PROVE  Settled(txs, i, base, source, first, q.ut)
    <3>1. CASE i # n
      <4>1. i \in 1 .. n - 1 /\ i < n /\ i \in 1 .. Len(txs)
        BY <1>2, <2>1, <3>1 DEF N
      <4>2. \A m \in Len(p.ut) + 1 .. Len(q.ut) : \E k \in 1 .. Len(txs) : q.ut[m] = txs[k] /\ i < k
        BY Zenon, <2>3, <4>1 DEF N
      <4>3. QED
        BY ZenonT(30), <1>2, <2>3, <2>4, <2>5, <2>8, <4>1, <4>2, SettledStays
    <3>2. CASE i = n /\ txs[n] \in Range(q.ut)
      BY Zenon, <3>2 DEF Settled
    <3>3. CASE i = n /\ q = p /\ Reason(txs[n], base, source, Len(p.ut), p.ut)
      <4>1. Placed(txs, n, first, Len(p.ut), p.ut)
        BY <1>2, <2>1, <2>4 DEF Placed, N
      <4>2. Len(p.ut) \in first .. Len(p.ut)
        BY <1>2, <2>4
      <4>3. QED
        BY Zenon, <3>3, <4>1, <4>2 DEF Settled
    <3>4. QED
      BY Zenon, <2>3, <2>4, <2>8, <3>1, <3>2, <3>3
  <2>9. Good(n)
    BY Zenon, <2>3, <2>4, <2>6, <2>7, <2>8 DEF q
  <2>10. QED
    BY Zenon, <2>1, <2>9
<1>5. 0 .. N \subseteq Q
  <2> HIDE DEF Q
  <2>1. QED
    BY Zenon, <1>2, <1>3, <1>4, SegmentInduction
<1>6. N \in 0 .. N
  BY <1>2
<1>7. Good(N) /\ run[N] = Apply(pool, base, source, overQuota, txs) /\ run[N] \in Pools
  BY Zenon, <1>1, <1>5, <1>6 DEF IsApplyRun
<1>8. Given(txs, Len(pool.ut), run[N].ut)
  BY Zenon, <1>7 DEF Given
<1>9. QED
  BY Zenon, <1>7, <1>8 DEF AllApplied

\* MemoryUtCacheModifier::add for each of the transactions.
LEMMA AddAllFacts ==
    ASSUME NEW pool \in Seq(Txs), NEW txs \in Seq(Txs), Len(pool) <= MaxCacheSize
    PROVE  LET r == AddAll(pool, txs) IN
           r \in Seq(Txs) /\ Len(r) <= MaxCacheSize /\ Begins(pool, r)
<1> DEFINE N == Len(txs)
           Full == {p \in Seq(Txs) : Len(p) <= MaxCacheSize /\ Begins(pool, p)}
           step == [n \in 1 .. N |-> [p \in Full |-> Add(p, txs[n])]]
           Body(f) == [n \in 0 .. N |-> IF n = 0 THEN pool ELSE Add(f[n - 1], txs[n])]
           run == CHOOSE f : f = Body(f)
<1>1. N \in Nat /\ \A n \in 1 .. N : txs[n] \in Txs
  OBVIOUS
<1> HIDE DEF N
<1>2. ASSUME NEW p \in Full, NEW n \in 1 .. N PROVE Add(p, txs[n]) \in Full
  BY <1>1, AddCases, BeginsTransitive
<1>3. pool \in Full
  BY DEF Begins
<1> HIDE DEF Full
<1>4. IsStep(step, N, Full)
  BY <1>2 DEF IsStep
<1>5. \A p \in Full, n \in 1 .. N : step[n][p] = Add(p, txs[n])
  OBVIOUS
<1> HIDE DEF step
<1>6. PICK g : IsRun(g, pool, step, N, Full)
  BY <1>1, <1>3, <1>4, RecursiveFunction
<1>7. g = Body(g)
  <2>1. ASSUME NEW n \in 0 .. N
        PROVE  g[n] = IF n = 0 THEN pool ELSE Add(g[n - 1], txs[n])
    <3>1. CASE n = 0
      BY <1>6, <3>1 DEF IsRun
    <3>2. CASE n # 0
      <4>1. n \in 1 .. N /\ n - 1 \in 0 .. N
        BY <1>1, <3>2
      <4>2. QED
        BY ZenonT(30), <1>5, <1>6, <3>2, <4>1 DEF IsRun
    <3>3. QED
      BY <3>1, <3>2
  <2>2. QED
    BY <1>6, <2>1 DEF IsRun
<1>8. run = Body(run)
  <2>1. \E f : f = Body(f)
    BY Zenon, <1>7
  <2> HIDE DEF Body
  <2>2. QED
    BY <2>1
<1>9. run[N] = AddAll(pool, txs)
  BY DEF AddAll, N
<1> HIDE DEF run
<1>10. run[0] = pool /\ \A n \in 1 .. N : run[n] = Add(run[n - 1], txs[n])
  BY <1>1, <1>8
<1> DEFINE Q == {n \in 0 .. N : run[n] \in Full}
<1>11. 0 \in Q
  BY <1>1, <1>3, <1>10
<1>12. ASSUME NEW n \in 1 .. N, n - 1 \in Q PROVE n \in Q
  BY <1>1, <1>2, <1>10, <1>12
<1>13. 0 .. N \subseteq Q
  <2> HIDE DEF Q
  <2>1. QED
    BY Zenon, <1>1, <1>11, <1>12, SegmentInduction
<1>14. run[N] \in Full
  BY <1>1, <1>13
<1>15. QED
  BY <1>9, <1>14 DEF Full

\* What is left out is left out, the rest stays.
LEMMA WithoutFacts ==
    ASSUME NEW txs \in Seq(Txs), NEW given
    PROVE  Without(txs, given) \in Seq(Txs) /\ Range(Without(txs, given)) = Range(txs) \ given
<1> DEFINE N == Len(txs)
           One(p, n) == IF txs[n] \in given THEN p ELSE Append(p, txs[n])
           step == [n \in 1 .. N |-> [p \in Seq(Txs) |-> One(p, n)]]
           Body(f) == [n \in 0 .. N |-> IF n = 0 THEN <<>> ELSE
                           IF txs[n] \in given THEN f[n - 1] ELSE Append(f[n - 1], txs[n])]
           run == CHOOSE f : f = Body(f)
<1>1. N \in Nat /\ DOMAIN txs = 1 .. N /\ \A n \in 1 .. N : txs[n] \in Txs
  OBVIOUS
<1> HIDE DEF N
<1>2. ASSUME NEW p \in Seq(Txs), NEW n \in 1 .. N PROVE One(p, n) \in Seq(Txs)
  BY <1>1
<1>3. <<>> \in Seq(Txs)
  OBVIOUS
<1>4. IsStep(step, N, Seq(Txs))
  <2> HIDE DEF One
  <2>1. QED
    BY <1>2 DEF IsStep
<1>5. \A p \in Seq(Txs), n \in 1 .. N : step[n][p] = One(p, n)
  OBVIOUS
<1> HIDE DEF step
<1>6. PICK g : IsRun(g, <<>>, step, N, Seq(Txs))
  BY Zenon, <1>1, <1>3, <1>4, RecursiveFunction
<1>7. g = Body(g)
  <2>1. ASSUME NEW n \in 0 .. N
        PROVE  g[n] = IF n = 0 THEN <<>> ELSE One(g[n - 1], n)
    <3> HIDE DEF One
    <3>1. CASE n = 0
      BY <1>6, <3>1 DEF IsRun
    <3>2. CASE n # 0
      <4>1. n \in 1 .. N /\ n - 1 \in 0 .. N
        BY <1>1, <3>2
      <4>2. QED
        BY <1>5, <1>6, <3>2, <4>1 DEF IsRun
    <3>3. QED
      BY <3>1, <3>2
  <2>2. QED
    BY <1>6, <2>1 DEF IsRun
<1>8. run = Body(run)
  <2>1. \E f : f = Body(f)
    BY Zenon, <1>7
  <2> HIDE DEF Body
  <2>2. QED
    BY <2>1
<1>9. run[N] = Without(txs, given)
  BY DEF Without, N
<1> HIDE DEF run
<1>10. run[0] = <<>> /\ \A n \in 1 .. N : run[n] = One(run[n - 1], n)
  <2>1. \A n \in 0 .. N : run[n] = IF n = 0 THEN <<>> ELSE One(run[n - 1], n)
    BY Zenon, <1>8
  <2> HIDE DEF One
  <2>2. QED
    BY <1>1, <2>1
<1> DEFINE Upto(n) == {txs[m] : m \in 1 .. n}
           Q == {n \in 0 .. N : run[n] \in Seq(Txs) /\ Range(run[n]) = Upto(n) \ given}
<1>11. 0 \in Q
  <2>1. Range(<<>>) = {} /\ Upto(0) = {}
    BY DEF Range
  <2>2. 0 \in 0 .. N
    BY <1>1
  <2>3. QED
    BY Zenon, <1>3, <1>10, <2>1, <2>2
<1>12. ASSUME NEW n \in 1 .. N, n - 1 \in Q PROVE n \in Q
  <2>1. /\ run[n - 1] \in Seq(Txs) /\ Range(run[n - 1]) = Upto(n - 1) \ given
        /\ run[n] = One(run[n - 1], n) /\ txs[n] \in Txs /\ n \in 0 .. N
    BY <1>1, <1>10, <1>12
  <2>2. Upto(n) = Upto(n - 1) \union {txs[n]}
    <3>1. \A m : m \in 1 .. n <=> m \in 1 .. n - 1 \/ m = n
      OBVIOUS
    <3>2. QED
      BY <3>1
  <2> HIDE DEF Upto
  <2>3. CASE txs[n] \in given
    BY <2>1, <2>2, <2>3
  <2>4. CASE txs[n] \notin given
    <3>1. run[n] = Append(run[n - 1], txs[n])
      BY <2>1, <2>4
    <3>2. Range(Append(run[n - 1], txs[n])) = Range(run[n - 1]) \union {txs[n]}
      BY <2>1, AppendRange
    <3>3. Upto(n) \ given = Range(run[n - 1]) \union {txs[n]}
      BY <2>1, <2>2, <2>4
    <3>4. run[n] \in Seq(Txs)
      BY <2>1, <3>1
    <3>5. QED
      BY Zenon, <2>1, <3>1, <3>2, <3>3, <3>4
  <2>5. QED
    BY <2>3, <2>4
<1>13. 0 .. N \subseteq Q
  <2> HIDE DEF Q
  <2>1. QED
    BY Zenon, <1>1, <1>11, <1>12, SegmentInduction
<1>14. run[N] \in Seq(Txs) /\ Range(run[N]) = Upto(N) \ given
  <2>1. N \in 0 .. N
    BY <1>1
  <2>2. N \in Q
    BY Zenon, <1>13, <2>1
  <2> HIDE DEF Upto
  <2>3. QED
    BY <2>2
<1>15. Range(txs) = Upto(N)
  BY <1>1 DEF Range
<1>16. QED
  BY <1>9, <1>14, <1>15

\* The transactions of a chain are the ones it confirms.
LEMMA TransactionsFacts ==
    ASSUME NEW c \in Chains
    PROVE  /\ TransactionsOf(c) \in Seq(Txs) /\ Range(TransactionsOf(c)) = Confirmed(c)
           /\ Len(c) = 1 => TransactionsOf(c) = c[1].txs
<1> DEFINE N == Len(c)
           step == [h \in 1 .. N |-> [p \in Seq(Txs) |-> p \o c[h].txs]]
           Body(f) == [h \in 0 .. N |-> IF h = 0 THEN <<>> ELSE f[h - 1] \o c[h].txs]
           run == CHOOSE f : f = Body(f)
<1>1. N \in Nat /\ DOMAIN c = 1 .. N /\ \A h \in 1 .. N : c[h].txs \in Seq(Txs)
  <2>1. N \in Nat /\ DOMAIN c = 1 .. N /\ \A h \in 1 .. N : c[h] \in Blocks
    BY DEF Chains
  <2>2. QED
    BY <2>1 DEF Blocks
<1>2. <<>> \in Seq(Txs)
  OBVIOUS
<1> HIDE DEF N
<1>3. IsStep(step, N, Seq(Txs))
  BY <1>1 DEF IsStep
<1>4. \A p \in Seq(Txs), h \in 1 .. N : step[h][p] = p \o c[h].txs
  OBVIOUS
<1> HIDE DEF step
<1>5. PICK g : IsRun(g, <<>>, step, N, Seq(Txs))
  BY Zenon, <1>1, <1>2, <1>3, RecursiveFunction
<1>6. g = Body(g)
  <2>1. ASSUME NEW h \in 0 .. N
        PROVE  g[h] = IF h = 0 THEN <<>> ELSE g[h - 1] \o c[h].txs
    <3>1. CASE h = 0
      BY <1>5, <3>1 DEF IsRun
    <3>2. CASE h # 0
      <4>1. h \in 1 .. N /\ h - 1 \in 0 .. N
        BY <1>1, <3>2
      <4>2. QED
        BY Zenon, <1>4, <1>5, <3>2, <4>1 DEF IsRun
    <3>3. QED
      BY <3>1, <3>2
  <2>2. QED
    BY Zenon, <1>5, <2>1 DEF IsRun
<1>7. run = Body(run)
  <2>1. \E f : f = Body(f)
    BY Zenon, <1>6
  <2> HIDE DEF Body
  <2>2. QED
    BY <2>1
<1>8. run[N] = TransactionsOf(c)
  BY DEF TransactionsOf, N
<1> HIDE DEF run
<1>9. run[0] = <<>> /\ \A h \in 1 .. N : run[h] = run[h - 1] \o c[h].txs
  <2> DEFINE more(h) == run[h - 1] \o c[h].txs
  <2>1. \A h \in 0 .. N : run[h] = IF h = 0 THEN <<>> ELSE more(h)
    BY Zenon, <1>7
  <2>2. 0 \in 0 .. N /\ \A h \in 1 .. N : h \in 0 .. N /\ h # 0
    BY <1>1
  <2> HIDE DEF more
  <2>3. run[0] = <<>> /\ \A h \in 1 .. N : run[h] = more(h)
    BY <2>1, <2>2
  <2>4. QED
    BY Zenon, <2>3 DEF more
<1> DEFINE Upto(n) == UNION {Range(c[h].txs) : h \in 1 .. n}
           Q == {n \in 0 .. N : run[n] \in Seq(Txs) /\ Range(run[n]) = Upto(n)}
<1>10. 0 \in Q
  <2>1. Range(<<>>) = {} /\ Upto(0) = {}
    BY DEF Range
  <2>2. 0 \in 0 .. N
    BY <1>1
  <2>3. QED
    BY Zenon, <1>2, <1>9, <2>1, <2>2
<1>11. ASSUME NEW n \in 1 .. N, n - 1 \in Q PROVE n \in Q
  <2>1. /\ run[n - 1] \in Seq(Txs) /\ Range(run[n - 1]) = Upto(n - 1)
        /\ run[n] = run[n - 1] \o c[n].txs /\ c[n].txs \in Seq(Txs) /\ n \in 0 .. N
    <3>1. run[n] = run[n - 1] \o c[n].txs /\ c[n].txs \in Seq(Txs)
      BY Zenon, <1>1, <1>9
    <3>2. n \in 0 .. N
      BY <1>1
    <3> HIDE DEF Upto
    <3>3. run[n - 1] \in Seq(Txs) /\ Range(run[n - 1]) = Upto(n - 1)
      BY <1>11
    <3>4. QED
      BY <3>1, <3>2, <3>3
  <2>2. Upto(n) = Upto(n - 1) \union Range(c[n].txs)
    <3>1. \A m : m \in 1 .. n <=> m \in 1 .. n - 1 \/ m = n
      OBVIOUS
    <3>2. QED
      BY <3>1
  <2> HIDE DEF Upto
  <2>3. Range(run[n]) = Upto(n)
    BY <2>1, <2>2, ConcatRange
  <2>4. run[n] \in Seq(Txs)
    BY <2>1
  <2>5. QED
    BY Zenon, <2>1, <2>3, <2>4
<1>12. 0 .. N \subseteq Q
  <2> HIDE DEF Q
  <2>1. QED
    BY Zenon, <1>1, <1>10, <1>11, SegmentInduction
<1>13. run[N] \in Seq(Txs) /\ Range(run[N]) = Upto(N)
  <2>1. N \in 0 .. N
    BY <1>1
  <2>2. N \in Q
    BY Zenon, <1>12, <2>1
  <2> HIDE DEF Upto
  <2>3. QED
    BY <2>2
<1>14. Confirmed(c) = Upto(N)
  BY <1>1 DEF Confirmed
<1>15. ASSUME N = 1 PROVE run[N] = c[1].txs
  <2>1. 1 \in 1 .. N /\ 1 - 1 = 0
    BY <1>15
  <2>2. run[1] = run[0] \o c[1].txs /\ c[1].txs \in Seq(Txs) /\ run[0] = <<>>
    <3>1. run[1] = run[1 - 1] \o c[1].txs /\ c[1].txs \in Seq(Txs)
      BY Zenon, <1>1, <1>9, <2>1
    <3>2. QED
      BY Zenon, <1>9, <2>1, <3>1
  <2>3. QED
    BY <1>15, <2>2
<1>16. QED
  BY <1>8, <1>13, <1>14, <1>15 DEF N

-------------------------------------------------------------------------------
(* The inductive invariant.                                                *)

Deltas == [subs : [SubCaches -> Chains], commits : [SubCaches -> Nat], height : Nat,
           applied : SUBSET Txs]

Held == {"none", "reader", "waiting", "writer"}
Lock == [Threads -> Held]
Locks == [storage : Lock, height : Lock, ut : Lock, sub : [SubCaches -> Lock]]

SyncLabels ==
    {"idle", "createDelta", "unwind", "process", "storageModifier", "stage", "heightModifier",
     "lockHeight", "promoteSub", "commitSub", "setHeight", "commitStorage", "lockPool",
     "removeAll", "rebase", "rebaseSub", "lockSub", "rebased", "applyAll"}
TxLabels == {"idle", "lockPool", "getAndTryLock", "addAll", "applyNew"}
HarvestLabels == {"idle", "createFacade", "copySub", "lockSub", "generate"}

TypeOK ==
    /\ chain \in Chains
    /\ sub \in [SubCaches -> Chains]
    /\ commits \in [SubCaches -> Nat]
    /\ cacheHeight \in Nat
    /\ ut \in Seq(Txs) /\ Len(ut) <= MaxCacheSize
    /\ detached \in Deltas
    /\ locks \in Locks
    /\ DOMAIN pc = Threads
    /\ pc["sync"] \in SyncLabels /\ pc["tx"] \in TxLabels /\ pc["harvest"] \in HarvestLabels
    /\ index \in [Threads -> SubCaches]
    /\ input \in [chain : Chains, start : Nat \ {0},
                  source : {"none", "Local", "Remote_Pull", "Remote_Push"}, built : Chains]
    /\ update \in [reverted : Seq(Txs), original : Seq(Txs)]
    /\ utInfos \in Seq(Txs)
    /\ tip \in Chains
    /\ facade \in Deltas
    /\ harvested \in [chain : Chains, built : Chains]

\* The storage lock is held for writing from the staging of the blocks on.
StorageWriting ==
    {"heightModifier", "lockHeight", "promoteSub", "commitSub", "setHeight", "commitStorage",
     "lockPool", "removeAll", "rebase", "rebaseSub", "lockSub", "rebased", "applyAll"}
\* The height lock is held for writing, or by a facade.
Committing == {"promoteSub", "commitSub", "setHeight"}
FacadeOpen == {"copySub", "lockSub", "generate"}
\* The lock of the unconfirmed transactions is held for writing.
SyncHasPool == {"rebase", "rebaseSub", "lockSub", "rebased", "applyAll"}
TxHasPool == {"getAndTryLock", "addAll", "applyNew"}

\* Who is inside a critical section holds its lock, so no two are.
LockInv ==
    /\ pc["sync"] \in StorageWriting => locks.storage["sync"] = "writer"
    /\ pc["sync"] \in Committing => locks.height["sync"] = "writer"
    /\ pc["harvest"] \in FacadeOpen => locks.height["harvest"] = "reader"
    /\ pc["sync"] \in SyncHasPool => locks.ut["sync"] = "writer"
    /\ pc["tx"] \in TxHasPool => locks.ut["tx"] = "writer"
    /\ ~(pc["sync"] \in Committing /\ pc["harvest"] \in FacadeOpen)
    /\ ~(pc["sync"] \in SyncHasPool /\ pc["tx"] \in TxHasPool)

\* A walk over the sub caches begins with the first one.
IndexInv ==
    /\ pc["sync"] \notin {"createDelta", "promoteSub", "commitSub", "rebaseSub", "lockSub"} =>
           index["sync"] = 1
    /\ pc["harvest"] \notin {"copySub", "lockSub"} => index["harvest"] = 1

\* The blocks that are being processed, and that they link to the chain from
\* the moment this is checked until they are part of it.
Linked ==
    {"storageModifier", "stage", "heightModifier", "lockHeight", "promoteSub", "commitSub",
     "setHeight", "commitStorage"}
Replaced == {"lockPool", "removeAll", "rebase", "rebaseSub", "lockSub", "rebased", "applyAll"}
InputInv ==
    /\ pc["sync"] # "idle" =>
           input.start \in 1 .. Len(input.chain) /\ input.start <= Len(chain) + 1
    /\ pc["sync"] \in Linked => LinksToLocal
    /\ pc["sync"] \in Replaced => chain = input.chain

\* The cache follows the storage except while blocks are committed, when it
\* changes to the new chain one sub cache after the other.
CacheInv ==
    /\ pc["sync"] \in {"promoteSub", "commitSub"} =>
           \A i \in SubCaches : sub[i] = IF i < index["sync"] THEN input.chain ELSE chain
    /\ pc["sync"] \in {"setHeight", "commitStorage"} => \A i \in SubCaches : sub[i] = input.chain
    /\ pc["sync"] \notin Committing \union {"commitStorage"} =>
           \A i \in SubCaches : sub[i] = chain
    /\ pc["sync"] = "commitStorage" => cacheHeight = Len(input.chain)
    /\ pc["sync"] \notin Committing \union {"commitStorage"} => cacheHeight = Len(chain)

\* A delta is a copy of the sub caches below an index.
CopyOf(delta, n) == \A i \in SubCaches : i < n => delta.subs[i] = sub[i] /\ delta.commits[i] = commits[i]

\* The detached cache is up to date except while blocks are committed, and a
\* rebase forgets what was applied to it.
DetachedInv ==
    /\ pc["sync"] \notin Rebasing => CopyOf(detached, NumSubCaches + 1)
    /\ pc["sync"] = "rebaseSub" =>
           /\ CopyOf(detached, index["sync"])
           /\ index["sync"] > 1 => detached.applied = {}
    /\ pc["sync"] \in {"lockSub", "rebased", "applyAll"} =>
           CopyOf(detached, NumSubCaches + 1) /\ detached.applied = {}
    /\ pc["sync"] \in {"rebaseSub", "lockSub", "rebased", "applyAll"} =>
           detached.height = cacheHeight

FacadeInv ==
    /\ pc["harvest"] = "copySub" => CopyOf(facade, index["harvest"])
    /\ pc["harvest"] \in {"lockSub", "generate"} => CopyOf(facade, NumSubCaches + 1)
    /\ pc["harvest"] \in FacadeOpen => facade.height = cacheHeight

\* The unconfirmed transactions can be executed, and they are empty while the
\* block consumer rebuilds them.
PoolInv ==
    /\ pc["tx"] = "addAll" => pc["sync"] \in Rebasing
    /\ pc["sync"] \notin Rebasing =>
           Sound([ut |-> ut, applied |-> detached.applied], Confirmed(chain))
    /\ pc["sync"] \in SyncHasPool => ut = <<>>

\* What the block consumer hands to the UtUpdater.
UpdateInv ==
    /\ pc["sync"] \in {"idle", "createDelta", "unwind"} => update.reverted = <<>>
    /\ pc["sync"] \in {"process"} \union Linked =>
           Range(update.reverted) = Confirmed(From(chain, input.start))
                                        \ Confirmed(From(input.chain, input.start))
    /\ pc["sync"] \notin SyncHasPool => update.original = <<>>

\* A harvested block can be executed on the state it was built on, which is
\* the state of a chain as long as the one the block links to.
Harvested(c, built) ==
    /\ c # <<>> /\ Len(built) = Len(c) - 1
    /\ Below(c, Len(c)) = built => Execute(Confirmed(built), c[Len(c)].txs)

HarvestInv ==
    /\ harvested # NoHarvest => Harvested(harvested.chain, harvested.built)
    /\ pc["sync"] # "idle" /\ input.source = "Local" =>
           input.start = Len(input.chain) /\ Harvested(input.chain, input.built)

IndInv ==
    /\ TypeOK /\ LockInv /\ IndexInv /\ InputInv /\ CacheInv /\ DetachedInv
    /\ FacadeInv /\ PoolInv /\ UpdateInv /\ HarvestInv

-------------------------------------------------------------------------------
(* Initially.                                                              *)

LEMMA InitInv == Init => IndInv
<1> SUFFICES ASSUME Init PROVE IndInv
  OBVIOUS
<1>1. chain \in Chains /\ Len(chain) \in Nat /\ <<>> \in Chains
  BY DEF Init, Chains
<1>2. pc["sync"] = "idle" /\ pc["tx"] = "idle" /\ pc["harvest"] = "idle" /\ DOMAIN pc = Threads
  BY DEF Init, Threads
<1>3. L!Unlocked \in Lock
  BY DEF L!Unlocked, Lock, Held
<1>4. TypeOK
  <2>1. sub \in [SubCaches -> Chains] /\ commits \in [SubCaches -> Nat] /\ cacheHeight \in Nat
    BY Zenon, <1>1 DEF Init
  <2>2. detached \in Deltas /\ facade \in Deltas
    BY <1>1, <2>1 DEF Init, Detached, Deltas, NoFacade, NoBlocks
  <2>3. locks \in Locks
    BY <1>3 DEF Init, Locks
  <2>4. index \in [Threads -> SubCaches]
    BY DEF Init, SubCaches
  <2>5. /\ input \in [chain : Chains, start : Nat \ {0},
                      source : {"none", "Local", "Remote_Pull", "Remote_Push"}, built : Chains]
        /\ update \in [reverted : Seq(Txs), original : Seq(Txs)]
        /\ harvested \in [chain : Chains, built : Chains]
    BY <1>1 DEF Init, NoInput, NoUpdate, NoHarvest, NoBlocks
  <2>6. ut \in Seq(Txs) /\ Len(ut) <= MaxCacheSize /\ utInfos \in Seq(Txs) /\ tip \in Chains
    BY <1>1 DEF Init, NoBlocks
  <2>7. QED
    BY <1>1, <1>2, <2>1, <2>2, <2>3, <2>4, <2>5, <2>6
    DEF TypeOK, SyncLabels, TxLabels, HarvestLabels
<1>5. LockInv /\ IndexInv /\ InputInv /\ CacheInv
  BY Zenon, <1>2 DEF Init, LockInv, IndexInv, InputInv, CacheInv, StorageWriting, Committing, FacadeOpen,
              SyncHasPool, TxHasPool, Linked, Replaced, Threads
<1>6. DetachedInv /\ FacadeInv
  BY <1>2 DEF Init, DetachedInv, FacadeInv, CopyOf, Detached, Rebasing, FacadeOpen
<1>7. PoolInv
  <2>1. detached.applied = {} /\ ut = <<>>
    BY DEF Init, Detached
  <2>2. Range(ut) = {} /\ DOMAIN ut = {}
    BY <2>1 DEF Range
  <2>3. Execute(Confirmed(chain), ut)
    BY Zenon, <2>2 DEF Execute
  <2>4. Range(ut) \intersect LowFee = {}
    BY Zenon, <2>2
  <2>5. QED
    BY <1>2, <2>1, <2>2, <2>3, <2>4 DEF PoolInv, Sound
<1>8. UpdateInv /\ HarvestInv
  BY <1>2 DEF Init, UpdateInv, HarvestInv, NoUpdate, Linked
<1>9. QED
  BY <1>4, <1>5, <1>6, <1>7, <1>8 DEF IndInv

-------------------------------------------------------------------------------
(* Locks and copies.                                                       *)

\* What a step may do to the locks.
LEMMA SubLocks ==
    ASSUME NEW ls \in Locks, NEW t \in Threads, NEW status \in Held,
           NEW ls2, ls2 = WithAllSubs(ls, t, status)
    PROVE  /\ ls2 \in Locks
           /\ ls2.storage = ls.storage /\ ls2.height = ls.height /\ ls2.ut = ls.ut
BY Zenon DEF WithAllSubs, L!With, Lock, Locks

OthersKept(name) ==
    /\ locks' \in Locks
    /\ "storage" # name => locks'.storage = locks.storage
    /\ "height" # name => locks'.height = locks.height
    /\ "ut" # name => locks'.ut = locks.ut

\* Asking for a modifier, and getting it when no one else is inside.
LEMMA Modifier ==
    ASSUME IndInv, NEW t \in Threads, NEW name \in {"storage", "height", "ut"}, NEW from, NEW to,
           AskModifier(t, name, from, to) \/ HasModifier(t, name, from, to)
    PROVE  /\ Goto(t, from, to) /\ OthersKept(name)
           /\ \A u \in Threads \ {t} : locks'[name][u] = locks[name][u]
           /\ HasModifier(t, name, from, to) =>
                  /\ locks'[name][t] = "writer"
                  /\ \A u \in Threads \ {t} : locks[name][u] \notin {"reader", "writer"}
<1>1. locks \in Locks /\ locks[name] \in Lock
  BY Zenon DEF IndInv, TypeOK, Locks
<1>2. PICK status \in Held : /\ locks' = [locks EXCEPT ![name][t] = status]
                             /\ HasModifier(t, name, from, to) => status = "writer"
  <2>1. CASE HasModifier(t, name, from, to)
    BY <2>1 DEF HasModifier, Held
  <2>2. CASE ~HasModifier(t, name, from, to)
    BY <2>2 DEF AskModifier, Held
  <2>3. QED
    BY <2>1, <2>2
<1>3. /\ locks' \in Locks /\ OthersKept(name)
      /\ locks'[name] = [locks[name] EXCEPT ![t] = status] /\ locks'[name][t] = status
  <2>1. locks.storage \in Lock /\ locks.height \in Lock /\ locks.ut \in Lock
    BY <1>1 DEF Locks
  <2>2. CASE name = "storage"
    BY Zenon, <1>1, <1>2, <2>1, <2>2 DEF Locks, Lock, OthersKept
  <2>3. CASE name = "height"
    BY Zenon, <1>1, <1>2, <2>1, <2>3 DEF Locks, Lock, OthersKept
  <2>4. CASE name = "ut"
    BY Zenon, <1>1, <1>2, <2>1, <2>4 DEF Locks, Lock, OthersKept
  <2>5. QED
    BY <2>2, <2>3, <2>4
<1>4. \A u \in Threads \ {t} : locks'[name][u] = locks[name][u]
  BY <1>1, <1>3 DEF Lock
<1>5. HasModifier(t, name, from, to) =>
          \A u \in Threads \ {t} : locks[name][u] \notin {"reader", "writer"}
  BY DEF HasModifier, L!CanWrite, L!OnlyWaiting
<1>6. Goto(t, from, to)
  BY DEF AskModifier, HasModifier
<1>7. QED
  BY <1>2, <1>3, <1>4, <1>5, <1>6

LEMMA SubLock ==
    ASSUME NEW ls \in Locks, NEW t \in Threads, NEW status \in Held, NEW i \in SubCaches,
           NEW ls2, ls2 = [ls EXCEPT !.sub[i][t] = status]
    PROVE  /\ ls2 \in Locks
           /\ ls2.storage = ls.storage /\ ls2.height = ls.height /\ ls2.ut = ls.ut
BY Zenon DEF Lock, Locks

\* A step for one sub cache in a walk over them.
LEMMA Walk ==
    ASSUME IndInv, NEW t \in Threads, NEW from, NEW to, ForEachSubCache(t, from, to)
    PROVE  /\ index' \in [Threads -> SubCaches]
           /\ \A u \in Threads \ {t} : index'[u] = index[u]
           /\ \/ index[t] = NumSubCaches /\ index'[t] = 1 /\ Goto(t, from, to)
              \/ index[t] < NumSubCaches /\ index'[t] = index[t] + 1 /\ Goto(t, from, from)
<1>1. /\ index \in [Threads -> SubCaches] /\ index[t] \in 1 .. NumSubCaches
      /\ SubCaches = 1 .. NumSubCaches
  BY DEF IndInv, TypeOK, SubCaches
<1> DEFINE next == IF index[t] = NumSubCaches THEN 1 ELSE index[t] + 1
<1>2. next \in SubCaches
  BY <1>1
<1>3. index' = [index EXCEPT ![t] = next]
  BY <1>1 DEF ForEachSubCache
<1>4. index' \in [Threads -> SubCaches] /\ index'[t] = next /\ \A u \in Threads \ {t} : index'[u] = index[u]
  <2> HIDE DEF next
  <2>1. QED
    BY <1>1, <1>2, <1>3
<1>5. CASE index[t] = NumSubCaches
  BY <1>4, <1>5 DEF ForEachSubCache
<1>6. CASE index[t] # NumSubCaches
  <2>1. index[t] < NumSubCaches
    BY <1>1, <1>6
  <2>2. QED
    BY <1>4, <1>6, <2>1 DEF ForEachSubCache
<1>7. QED
  BY <1>4, <1>5, <1>6

\* Copying one more sub cache.
LEMMA CopyFacts ==
    ASSUME IndInv, NEW t \in Threads, NEW delta \in Deltas, CopyOf(delta, index[t]),
           NEW d, d = Copy(t, delta)
    PROVE  /\ d \in Deltas /\ d.applied = {} /\ d.height = delta.height
           /\ CopyOf(d, index[t] + 1)
<1> DEFINE i == index[t]
<1>1. i \in SubCaches /\ i \in Nat /\ \A j \in SubCaches : j \in Nat
  BY SMTT(30) DEF IndInv, TypeOK, SubCaches
<1>2. sub \in [SubCaches -> Chains] /\ commits \in [SubCaches -> Nat]
  BY DEF IndInv, TypeOK
<1>3. d = [delta EXCEPT !.subs[i] = sub[i], !.commits[i] = commits[i], !.applied = {}]
  BY DEF Copy
<1> HIDE DEF i
<1>4. /\ d.subs = [delta.subs EXCEPT ![i] = sub[i]]
      /\ d.commits = [delta.commits EXCEPT ![i] = commits[i]]
      /\ d.applied = {} /\ d.height = delta.height
  BY <1>3 DEF Deltas
<1>5. d \in Deltas
  <2>1. delta.subs \in [SubCaches -> Chains] /\ delta.commits \in [SubCaches -> Nat] /\ delta.height \in Nat
    BY DEF Deltas
  <2>2. d.subs \in [SubCaches -> Chains] /\ d.commits \in [SubCaches -> Nat]
    BY <1>1, <1>2, <1>4, <2>1
  <2>3. d = [subs |-> d.subs, commits |-> d.commits, height |-> delta.height, applied |-> {}]
    BY Zenon, <1>3 DEF Deltas
  <2>4. QED
    BY <2>1, <2>2, <2>3 DEF Deltas
<1>6. ASSUME NEW j \in SubCaches, j < i + 1
      PROVE  d.subs[j] = sub[j] /\ d.commits[j] = commits[j]
  <2>1. CASE j = i
    BY Zenon, <1>1, <1>4, <2>1 DEF Deltas
  <2>2. CASE j # i
    <3>1. j < i
      BY <1>1, <1>6, <2>2
    <3>2. delta.subs[j] = sub[j] /\ delta.commits[j] = commits[j]
      BY <3>1 DEF CopyOf, i
    <3>3. QED
      BY <1>1, <1>4, <2>2, <3>2 DEF Deltas
  <2>3. QED
    BY Zenon, <2>1, <2>2
<1>7. QED
  BY <1>4, <1>5, <1>6 DEF CopyOf, i

\* A copy of all sub caches can be locked.
LEMMA TryLockFacts ==
    ASSUME IndInv, NEW t \in Threads, NEW delta, NEW from, NEW locked, NEW outdated,
           CopyOf(delta, NumSubCaches + 1), TryLock(t, delta, from, locked, outdated)
    PROVE  /\ ForEachSubCache(t, from, locked)
           /\ locks' \in Locks /\ locks'.storage = locks.storage
           /\ locks'.height = locks.height /\ locks'.ut = locks.ut
<1>1. locks \in Locks /\ index[t] \in SubCaches
  BY DEF IndInv, TypeOK
<1>2. index[t] < NumSubCaches + 1
  BY <1>1 DEF SubCaches
<1>3. delta.commits[index[t]] = commits[index[t]]
  BY <1>1, <1>2 DEF CopyOf
<1>4. ForEachSubCache(t, from, locked) /\ locks' = [locks EXCEPT !.sub[index[t]][t] = "reader"]
  BY <1>3 DEF TryLock
<1>5. QED
  BY <1>1, <1>4, SubLock DEF Held

-------------------------------------------------------------------------------
(* The transaction consumer.                                               *)

\* Only the transaction consumer moves.
TxGoes(from, to) ==
    /\ pc["tx"] = from /\ pc'["tx"] = to
    /\ pc'["sync"] = pc["sync"] /\ pc'["harvest"] = pc["harvest"] /\ DOMAIN pc' = Threads

LEMMA TxGoto ==
    ASSUME IndInv, NEW from, NEW to, Goto("tx", from, to)
    PROVE  TxGoes(from, to)
BY Zenon DEF IndInv, TypeOK, Goto, TxGoes, Threads

\* Steps of the transaction consumer that only take or give up locks.
LEMMA TxMoves ==
    ASSUME IndInv, NEW from \in TxLabels, NEW to \in TxLabels, TxGoes(from, to),
           locks' \in Locks, locks'.storage = locks.storage, locks'.height = locks.height,
           locks'.ut["sync"] = locks.ut["sync"],
           to \in TxHasPool => locks'.ut["tx"] = "writer" /\ pc["sync"] \notin SyncHasPool,
           to = "addAll" => pc["sync"] \in Rebasing,
           index' \in [Threads -> SubCaches], index'["sync"] = index["sync"],
           index'["harvest"] = index["harvest"], utInfos' \in Seq(Txs),
           UNCHANGED <<chain, cacheVars, poolVars, syncVars, harvestVars, pending>>
    PROVE  IndInv'
<1> USE DEF IndInv, TxGoes
<1>1. TypeOK'
  BY ZenonT(30) DEF TypeOK, cacheVars, poolVars, syncVars, harvestVars
<1>2. LockInv'
  BY ZenonT(30) DEF LockInv
<1>3. IndexInv' /\ InputInv' /\ CacheInv'
  BY SMTT(30) DEF IndexInv, InputInv, CacheInv, cacheVars, syncVars, LinksToLocal
<1>4. DetachedInv' /\ FacadeInv'
  BY Zenon DEF DetachedInv, FacadeInv, CopyOf, cacheVars, poolVars, harvestVars
<1>5. PoolInv'
  BY ZenonT(30) DEF PoolInv, poolVars
<1>6. UpdateInv' /\ HarvestInv'
  BY Zenon DEF UpdateInv, HarvestInv, syncVars, harvestVars
<1>7. QED
  BY Zenon, <1>1, <1>2, <1>3, <1>4, <1>5, <1>6

LEMMA LockPoolStep ==
    ASSUME IndInv, lockPool
    PROVE  IndInv'
<1>1. /\ locks' \in Locks /\ locks'.storage = locks.storage /\ locks'.height = locks.height
      /\ locks'.ut["sync"] = locks.ut["sync"]
  BY Zenon, Modifier DEF lockPool, OthersKept, Threads
<1>2. UNCHANGED <<chain, cacheVars, poolVars, index, syncVars, harvestVars, pending>>
  BY DEF lockPool
<1>3. index \in [Threads -> SubCaches] /\ utInfos \in Seq(Txs)
  BY Zenon DEF IndInv, TypeOK
<1>4. CASE /\ \E t \in NewTxs \ arrived : utInfos' = <<t>> /\ arrived' = arrived \union {t}
           /\ AskModifier("tx", "ut", "idle", "lockPool")
  <2>1. TxGoes("idle", "lockPool")
    BY <1>4, TxGoto DEF AskModifier
  <2>2. utInfos' \in Seq(Txs)
    BY SMTT(30), <1>4
  <2>3. QED
    BY Zenon, <1>1, <1>2, <1>3, <2>1, <2>2, TxMoves DEF TxLabels, TxHasPool
<1>5. CASE HasModifier("tx", "ut", "lockPool", "getAndTryLock") /\ UNCHANGED txVars
  <2>1. /\ TxGoes("lockPool", "getAndTryLock") /\ locks'.ut["tx"] = "writer"
        /\ locks.ut["sync"] # "writer"
    BY ZenonT(30), <1>5, TxGoto, Modifier DEF Threads
  <2>2. pc["sync"] \notin SyncHasPool
    BY Zenon, <2>1 DEF IndInv, LockInv
  <2>3. QED
    BY ZenonT(30), <1>1, <1>2, <1>3, <1>5, <2>1, <2>2, TxMoves DEF TxLabels, txVars
<1>6. QED
  BY Zenon, <1>4, <1>5 DEF lockPool

LEMMA GetAndTryLockStep ==
    ASSUME IndInv, getAndTryLock
    PROVE  IndInv'
<1>1. /\ UNCHANGED <<chain, cacheVars, poolVars, syncVars, txVars, harvestVars, pending>>
      /\ TryLock("tx", detached, "getAndTryLock", "applyNew", "addAll")
  BY DEF getAndTryLock
<1>2. pc["tx"] = "getAndTryLock"
  BY <1>1 DEF TryLock, ForEachSubCache, Goto
<1>3. locks.ut["tx"] = "writer" /\ pc["sync"] \notin SyncHasPool
  BY <1>2 DEF IndInv, LockInv, TxHasPool
<1>4. /\ locks \in Locks /\ index["tx"] \in SubCaches /\ utInfos' \in Seq(Txs)
      /\ index \in [Threads -> SubCaches]
  BY Zenon, <1>1 DEF IndInv, TypeOK, Threads, txVars
<1>5. CASE /\ locks' = [locks EXCEPT !.sub[index["tx"]]["tx"] = "reader"]
           /\ ForEachSubCache("tx", "getAndTryLock", "applyNew")
  <2>1. /\ locks' \in Locks /\ locks'.storage = locks.storage
        /\ locks'.height = locks.height /\ locks'.ut = locks.ut
    BY <1>4, <1>5, SubLock DEF Threads, Held
  <2>2. /\ index' \in [Threads -> SubCaches] /\ index'["sync"] = index["sync"]
        /\ index'["harvest"] = index["harvest"]
        /\ TxGoes("getAndTryLock", "getAndTryLock") \/ TxGoes("getAndTryLock", "applyNew")
    BY Zenon, <1>5, Walk, TxGoto DEF Threads
  <2>3. QED
    BY ZenonT(30), <1>1, <1>3, <1>4, <2>1, <2>2, TxMoves DEF TxLabels
<1>6. CASE /\ detached.commits[index["tx"]] # commits[index["tx"]]
           /\ locks' = WithAllSubs(locks, "tx", "none")
           /\ Goto("tx", "getAndTryLock", "addAll")
           /\ index' = [index EXCEPT !["tx"] = 1]
  <2>1. /\ locks' \in Locks /\ locks'.storage = locks.storage
        /\ locks'.height = locks.height /\ locks'.ut = locks.ut
    BY <1>4, <1>6, SubLocks DEF Threads, Held
  <2>2. /\ index' \in [Threads -> SubCaches] /\ index'["sync"] = index["sync"]
        /\ index'["harvest"] = index["harvest"]
    <3>1. 1 \in SubCaches
      BY DEF SubCaches
    <3>2. QED
      BY <1>4, <1>6, <3>1 DEF Threads
  <2>3. pc["sync"] \in Rebasing
    <3>1. index["tx"] < NumSubCaches + 1
      BY SMTT(30), <1>4 DEF SubCaches
    <3>2. ~CopyOf(detached, NumSubCaches + 1)
      BY <1>4, <1>6, <3>1 DEF CopyOf
    <3>3. QED
      BY <3>2 DEF IndInv, DetachedInv
  <2>4. TxGoes("getAndTryLock", "addAll")
    BY Zenon, <1>6, TxGoto
  <2>5. QED
    BY Zenon, <1>1, <1>3, <1>4, <2>1, <2>2, <2>3, <2>4, TxMoves DEF TxLabels
<1>7. QED
  BY <1>1, <1>5, <1>6 DEF TryLock

\* What the transaction consumer leaves behind when it is done.
LEMMA UnlockStep ==
    ASSUME IndInv, NEW from \in {"addAll", "applyNew"}, UnlockNew(from),
           ut' \in Seq(Txs), Len(ut') <= MaxCacheSize, detached' \in Deltas,
           detached'.subs = detached.subs, detached'.commits = detached.commits,
           pc["sync"] \notin Rebasing =>
               Sound([ut |-> ut', applied |-> detached'.applied], Confirmed(chain))
    PROVE  IndInv'
<1> USE DEF IndInv, TxGoes
<1>1. TxGoes(from, "idle")
  BY Zenon, TxGoto DEF UnlockNew
<1>2. pc["sync"] \notin SyncHasPool
  BY Zenon, <1>1 DEF LockInv, TxHasPool
<1>3. /\ locks' \in Locks /\ locks'.storage = locks.storage /\ locks'.height = locks.height
      /\ locks'.ut["sync"] = locks.ut["sync"]
  <2> DEFINE ls == [locks EXCEPT !.ut["tx"] = "none"]
  <2>1. /\ ls \in Locks /\ ls.storage = locks.storage /\ ls.height = locks.height
        /\ ls.ut["sync"] = locks.ut["sync"]
    BY ZenonT(30) DEF TypeOK, Locks, Lock, Held, Threads
  <2>2. locks' = WithAllSubs(ls, "tx", "none")
    BY DEF UnlockNew
  <2> HIDE DEF ls
  <2>3. QED
    BY ZenonT(30), <2>1, <2>2, SubLocks DEF Threads, Held
<1>4. /\ UNCHANGED <<chain, cacheVars, index, syncVars, harvestVars, pending>>
      /\ utInfos' \in Seq(Txs)
  BY DEF UnlockNew
<1>5. TypeOK'
  BY Zenon, <1>1, <1>3, <1>4 DEF TypeOK, cacheVars, syncVars, harvestVars, TxLabels
<1>6. LockInv'
  BY Zenon, <1>1, <1>3 DEF LockInv, TxHasPool
<1>7. IndexInv' /\ InputInv' /\ CacheInv'
  BY ZenonT(30), <1>1, <1>4 DEF IndexInv, InputInv, CacheInv, cacheVars, syncVars, LinksToLocal
<1>8. DetachedInv'
  BY SMTT(30), <1>1, <1>2, <1>4 DEF DetachedInv, CopyOf, cacheVars, SyncHasPool
<1>9. FacadeInv' /\ UpdateInv' /\ HarvestInv'
  BY Zenon, <1>1, <1>4 DEF FacadeInv, UpdateInv, HarvestInv, CopyOf, cacheVars, syncVars, harvestVars
<1>10. PoolInv'
  BY Zenon, <1>1, <1>2, <1>4 DEF PoolInv
<1>11. QED
  BY <1>5, <1>6, <1>7, <1>8, <1>9, <1>10

LEMMA AddAllStep ==
    ASSUME IndInv, addAll
    PROVE  IndInv'
<1>1. pc["sync"] \in Rebasing
  BY DEF addAll, UnlockNew, Goto, IndInv, PoolInv
<1>2. /\ ut \in Seq(Txs) /\ Len(ut) <= MaxCacheSize /\ utInfos \in Seq(Txs) /\ detached \in Deltas
  BY DEF IndInv, TypeOK
<1>3. ut' \in Seq(Txs) /\ Len(ut') <= MaxCacheSize
  BY <1>2, AddAllFacts DEF addAll
<1>4. QED
  BY <1>1, <1>2, <1>3, UnlockStep DEF addAll

\* The unconfirmed transactions after new ones were validated.
LEMMA ApplyNewPool ==
    ASSUME IndInv, applyNew
    PROVE  /\ ut' \in Seq(Txs) /\ Len(ut') <= MaxCacheSize /\ Begins(ut, ut')
           /\ detached' \in Deltas
           /\ detached'.subs = detached.subs /\ detached'.commits = detached.commits
           /\ pc["sync"] \notin Rebasing =>
                  Sound([ut |-> ut', applied |-> detached'.applied], Confirmed(chain))
<1> DEFINE pool == [ut |-> ut, applied |-> detached.applied]
           base == StateOf(detached.subs)
<1>1. /\ ut \in Seq(Txs) /\ Len(ut) <= MaxCacheSize /\ utInfos \in Seq(Txs) /\ detached \in Deltas
      /\ chain \in Chains
  BY Zenon DEF IndInv, TypeOK
<1>2. pool \in Pools /\ pool.ut = ut /\ base \in SUBSET Txs
  BY <1>1 DEF Pools, Deltas, StateOf
<1>3. PICK overQuota \in SUBSET Txs :
          LET all == Apply(pool, base, "New", overQuota, utInfos)
          IN  ut' = all.ut /\ detached' = [detached EXCEPT !.applied = all.applied]
  <2>1. SUBSET Range(utInfos) \subseteq SUBSET Txs
    BY <1>1 DEF Range
  <2>2. QED
    BY Zenon, <2>1 DEF applyNew
<1> DEFINE all == Apply(pool, base, "New", overQuota, utInfos)
<1>4. ut' = all.ut /\ detached' = [detached EXCEPT !.applied = all.applied]
  BY Zenon, <1>3
<1> HIDE DEF pool, base
<1>5. /\ all \in Pools /\ Len(all.ut) <= MaxCacheSize /\ Begins(ut, all.ut)
      /\ Sound(pool, base) => Sound(all, base)
  <2>1. "New" \in Sources
    BY DEF Sources
  <2>2. AllApplied(pool, base, "New", utInfos, all)
    BY <1>1, <1>2, <2>1, ApplyFacts
  <2> HIDE DEF all
  <2>3. QED
    BY Zenon, <1>2, <2>2 DEF AllApplied
<1> HIDE DEF all
<1>6. /\ detached' \in Deltas /\ detached'.applied = all.applied
      /\ detached'.subs = detached.subs /\ detached'.commits = detached.commits
  BY Zenon, <1>1, <1>4, <1>5 DEF Deltas, Pools
<1>7. all = [ut |-> ut', applied |-> detached'.applied]
  BY <1>4, <1>5, <1>6 DEF Pools
<1>8. ASSUME pc["sync"] \notin Rebasing
      PROVE  Sound(all, Confirmed(chain))
  <2>1. \A i \in SubCaches : i < NumSubCaches + 1
    BY Zenon, LastSubCache
  <2>2. \A i \in SubCaches : detached.subs[i] = chain
    BY <1>8, <2>1 DEF IndInv, DetachedInv, CacheInv, CopyOf, Rebasing, Committing
  <2>3. base = Confirmed(chain)
    BY Zenon, <1>1, <2>2, OneState DEF base
  <2>4. Sound(pool, Confirmed(chain))
    BY <1>8 DEF IndInv, PoolInv, pool
  <2>5. QED
    BY <1>5, <2>3, <2>4
<1>9. QED
  BY Zenon, <1>4, <1>5, <1>6, <1>7, <1>8 DEF Pools

LEMMA ApplyNewStep ==
    ASSUME IndInv, applyNew
    PROVE  IndInv'
BY ApplyNewPool, UnlockStep DEF applyNew

-------------------------------------------------------------------------------
(* The harvester.                                                          *)

\* Only the harvester moves.
HarvestGoes(from, to) ==
    /\ pc["harvest"] = from /\ pc'["harvest"] = to
    /\ pc'["sync"] = pc["sync"] /\ pc'["tx"] = pc["tx"] /\ DOMAIN pc' = Threads

LEMMA HarvestGoto ==
    ASSUME IndInv, NEW from, NEW to, Goto("harvest", from, to)
    PROVE  HarvestGoes(from, to)
BY Zenon DEF IndInv, TypeOK, Goto, HarvestGoes, Threads

\* The harvester shares nothing but locks until its block is complete.
LEMMA HarvestMoves ==
    ASSUME IndInv, NEW from \in HarvestLabels, NEW to \in HarvestLabels, HarvestGoes(from, to),
           locks' \in Locks, locks'.storage = locks.storage, locks'.ut = locks.ut,
           locks'.height["sync"] = locks.height["sync"],
           to \in FacadeOpen => locks'.height["harvest"] = "reader" /\ pc["sync"] \notin Committing,
           index' \in [Threads -> SubCaches], index'["sync"] = index["sync"],
           to \notin {"copySub", "lockSub"} => index'["harvest"] = 1,
           tip' \in Chains, facade' \in Deltas, harvested' \in [chain : Chains, built : Chains],
           harvested' # harvested => Harvested(harvested'.chain, harvested'.built),
           to = "copySub" => CopyOf(facade', index'["harvest"]),
           to \in {"lockSub", "generate"} => CopyOf(facade', NumSubCaches + 1),
           to \in FacadeOpen => facade'.height = cacheHeight,
           UNCHANGED <<chain, cacheVars, poolVars, syncVars, txVars>>
    PROVE  IndInv'
<1> USE DEF IndInv, HarvestGoes
<1>1. TypeOK'
  BY ZenonT(30) DEF TypeOK, cacheVars, poolVars, syncVars, txVars
<1>2. LockInv'
  BY Zenon DEF LockInv
<1>3. IndexInv' /\ InputInv' /\ CacheInv'
  BY ZenonT(30) DEF IndexInv, InputInv, CacheInv, cacheVars, syncVars, LinksToLocal
<1>4. DetachedInv' /\ PoolInv' /\ UpdateInv'
  BY ZenonT(30) DEF DetachedInv, PoolInv, UpdateInv, cacheVars, poolVars, syncVars, CopyOf
<1>5. FacadeInv'
  BY ZenonT(30) DEF FacadeInv, cacheVars, CopyOf
<1>6. HarvestInv'
  BY ZenonT(30) DEF HarvestInv, syncVars
<1>7. QED
  BY Zenon, <1>1, <1>2, <1>3, <1>4, <1>5, <1>6

LEMMA LastBlockElementStep ==
    ASSUME IndInv, lastBlockElement
    PROVE  IndInv'
<1>1. HarvestGoes("idle", "createFacade")
  BY HarvestGoto DEF lastBlockElement
<1>2. /\ UNCHANGED <<chain, cacheVars, poolVars, locks, index, syncVars, txVars, facade, harvested>>
      /\ tip' = chain
  BY DEF lastBlockElement
<1>3. /\ locks \in Locks /\ index \in [Threads -> SubCaches] /\ index["harvest"] = 1
      /\ chain \in Chains /\ facade \in Deltas /\ harvested \in [chain : Chains, built : Chains]
  BY Zenon, <1>1 DEF IndInv, TypeOK, IndexInv, HarvestGoes
<1>4. QED
  BY Zenon, <1>1, <1>2, <1>3, HarvestMoves DEF HarvestLabels, FacadeOpen

LEMMA CreateFacadeStep ==
    ASSUME IndInv, createFacade
    PROVE  IndInv'
<1>1. UNCHANGED <<chain, cacheVars, poolVars, syncVars, txVars, tip, harvested, pending>>
  BY Zenon DEF createFacade
<1>2. /\ locks \in Locks /\ index \in [Threads -> SubCaches] /\ tip \in Chains
      /\ facade \in Deltas /\ harvested \in [chain : Chains, built : Chains] /\ cacheHeight \in Nat
  BY Zenon DEF IndInv, TypeOK
<1>3. CASE LockFacadeHeight
  <2>1. HarvestGoes("createFacade", "copySub") /\ UNCHANGED index
    BY <1>3, HarvestGoto DEF LockFacadeHeight
  <2>2. locks' = [locks EXCEPT !.height["harvest"] = "reader"]
        /\ facade' = [facade EXCEPT !.height = cacheHeight]
    BY <1>3 DEF LockFacadeHeight
  <2>3. /\ locks' \in Locks /\ locks'.storage = locks.storage /\ locks'.ut = locks.ut
        /\ locks'.height["sync"] = locks.height["sync"] /\ locks'.height["harvest"] = "reader"
    BY Zenon, <1>2, <2>2 DEF Locks, Lock, Held, Threads
  <2>4. facade' \in Deltas /\ facade'.height = cacheHeight
    BY <1>2, <2>2 DEF Deltas
  <2>5. pc["sync"] \notin Committing
    BY <1>3 DEF LockFacadeHeight, L!CanAcquire, L!NoWriter, IndInv, LockInv, Threads
  <2>6. index'["harvest"] = 1
    BY <2>1 DEF IndInv, IndexInv, HarvestGoes
  <2>7. CopyOf(facade', index'["harvest"])
    BY <2>6 DEF CopyOf, SubCaches
  <2>8. QED
    BY Zenon, <1>1, <1>2, <2>1, <2>3, <2>4, <2>5, <2>7, HarvestMoves DEF HarvestLabels
<1>4. CASE /\ ForEachSubCache("harvest", "copySub", "lockSub")
           /\ facade' = Copy("harvest", facade)
           /\ UNCHANGED locks
  <2>1. pc["harvest"] = "copySub"
    BY Zenon, <1>4 DEF ForEachSubCache, Goto
  <2>2. /\ CopyOf(facade, index["harvest"]) /\ facade.height = cacheHeight
        /\ pc["sync"] \notin Committing /\ locks.height["harvest"] = "reader"
    BY Zenon, <2>1 DEF IndInv, FacadeInv, LockInv, FacadeOpen
  <2>3. /\ facade' \in Deltas /\ facade'.height = cacheHeight
        /\ CopyOf(facade', index["harvest"] + 1)
    BY ZenonT(30), <1>2, <1>4, <2>2, CopyFacts DEF Threads
  <2>4. /\ index' \in [Threads -> SubCaches] /\ index'["sync"] = index["sync"]
        /\ \/ HarvestGoes("copySub", "copySub") /\ index'["harvest"] = index["harvest"] + 1
           \/ HarvestGoes("copySub", "lockSub") /\ index["harvest"] = NumSubCaches
    BY ZenonT(30), <1>4, Walk, HarvestGoto DEF Threads
  <2>5. CASE HarvestGoes("copySub", "copySub") /\ index'["harvest"] = index["harvest"] + 1
    <3>1. CopyOf(facade', index'["harvest"])
      BY Zenon, <2>3, <2>5
    <3>2. QED
      BY ZenonT(30), <1>1, <1>2, <1>4, <2>2, <2>3, <2>4, <2>5, <3>1, HarvestMoves DEF HarvestLabels
  <2>6. CASE HarvestGoes("copySub", "lockSub") /\ index["harvest"] = NumSubCaches
    <3>1. CopyOf(facade', NumSubCaches + 1)
      BY ZenonT(30), <2>3, <2>6
    <3>2. QED
      BY Zenon, <1>1, <1>2, <1>4, <2>2, <2>3, <2>4, <2>6, <3>1, HarvestMoves DEF HarvestLabels
  <2>7. QED
    BY <2>4, <2>5, <2>6
<1>5. CASE TryLock("harvest", facade, "lockSub", "generate", "nullDelta") /\ UNCHANGED facade
  <2>1. pc["harvest"] = "lockSub"
    BY Zenon, <1>5 DEF TryLock, ForEachSubCache, Goto
  <2>2. /\ CopyOf(facade, NumSubCaches + 1) /\ facade.height = cacheHeight
        /\ pc["sync"] \notin Committing /\ locks.height["harvest"] = "reader"
    BY Zenon, <2>1 DEF IndInv, FacadeInv, LockInv, FacadeOpen
  <2>3. /\ ForEachSubCache("harvest", "lockSub", "generate")
        /\ locks' \in Locks /\ locks'.storage = locks.storage
        /\ locks'.height = locks.height /\ locks'.ut = locks.ut
    BY SMTT(30), <1>5, <2>2, TryLockFacts DEF Threads
  <2>4. /\ index' \in [Threads -> SubCaches] /\ index'["sync"] = index["sync"]
        /\ \/ HarvestGoes("lockSub", "lockSub")
           \/ HarvestGoes("lockSub", "generate") /\ index'["harvest"] = 1
    BY ZenonT(30), <2>3, Walk, HarvestGoto DEF Threads
  <2>5. QED
    BY Zenon, <1>1, <1>2, <1>5, <2>2, <2>3, <2>4, HarvestMoves DEF HarvestLabels
<1>6. QED
  BY Zenon, <1>3, <1>4, <1>5 DEF createFacade

\* Closing the facade, with or without a block.
LEMMA CloseFacadeStep ==
    ASSUME IndInv, CloseFacade, harvested' \in [chain : Chains, built : Chains],
           harvested' # harvested => Harvested(harvested'.chain, harvested'.built)
    PROVE  IndInv'
<1>1. HarvestGoes("generate", "idle")
  BY HarvestGoto DEF CloseFacade
<1>2. /\ UNCHANGED <<chain, cacheVars, poolVars, index, syncVars, txVars>>
      /\ tip' = NoBlocks /\ facade' = NoFacade
  BY Zenon DEF CloseFacade
<1>3. /\ locks' \in Locks /\ locks'.storage = locks.storage /\ locks'.ut = locks.ut
      /\ locks'.height["sync"] = locks.height["sync"]
  <2> DEFINE ls == [locks EXCEPT !.height["harvest"] = "none"]
  <2>1. /\ ls \in Locks /\ ls.storage = locks.storage /\ ls.ut = locks.ut
        /\ ls.height["sync"] = locks.height["sync"]
    BY ZenonT(30) DEF IndInv, TypeOK, Locks, Lock, Held, Threads
  <2>2. locks' = WithAllSubs(ls, "harvest", "none")
    BY DEF CloseFacade
  <2> HIDE DEF ls
  <2>3. QED
    BY Zenon, <2>1, <2>2, SubLocks DEF Threads, Held
<1>4. index \in [Threads -> SubCaches] /\ index["harvest"] = 1
  BY Zenon, <1>1 DEF IndInv, TypeOK, IndexInv, HarvestGoes
<1>5. NoBlocks \in Chains /\ NoFacade \in Deltas
  BY DEF NoBlocks, NoFacade, Detached, Deltas, Chains
<1>6. QED
  BY Zenon, <1>1, <1>2, <1>3, <1>4, <1>5, HarvestMoves DEF HarvestLabels, FacadeOpen

LEMMA NoBlockStep ==
    ASSUME IndInv, noBlock
    PROVE  IndInv'
<1>1. harvested' = harvested /\ harvested \in [chain : Chains, built : Chains]
  BY DEF noBlock, IndInv, TypeOK
<1>2. CASE CloseFacade
  BY ZenonT(30), <1>1, <1>2, CloseFacadeStep
<1>3. CASE /\ Goto("harvest", "createFacade", "idle")
           /\ tip' = NoBlocks
           /\ UNCHANGED <<chain, cacheVars, poolVars, locks, index, syncVars, txVars, facade>>
  <2>1. HarvestGoes("createFacade", "idle")
    BY Zenon, <1>3, HarvestGoto
  <2>2. /\ locks \in Locks /\ index \in [Threads -> SubCaches] /\ index["harvest"] = 1
        /\ NoBlocks \in Chains /\ facade \in Deltas
    BY SMTT(30), <2>1 DEF IndInv, TypeOK, IndexInv, HarvestGoes, NoBlocks, Chains
  <2>3. QED
    BY Zenon, <1>1, <1>3, <2>1, <2>2, HarvestMoves DEF HarvestLabels, FacadeOpen
<1>4. QED
  BY Zenon, <1>2, <1>3 DEF noBlock

\* An open facade is the state of one chain, of the height it has read.
LEMMA FacadeIsOneState ==
    ASSUME IndInv, pc["harvest"] \in {"lockSub", "generate"}
    PROVE  /\ sub[1] \in Chains /\ \A i \in SubCaches : facade.subs[i] = sub[1]
           /\ facade.height = Len(sub[1])
<1>1. pc["sync"] \notin Committing
  BY Zenon DEF IndInv, LockInv, FacadeOpen
<1>2. 1 \in SubCaches /\ \A i \in SubCaches : i < NumSubCaches + 1
  BY DEF SubCaches
<1>3. (\A i \in SubCaches : sub[i] = sub[1]) /\ cacheHeight = Len(sub[1])
  <2>1. CASE pc["sync"] = "commitStorage"
    BY ZenonT(30), <1>2, <2>1 DEF IndInv, CacheInv
  <2>2. CASE pc["sync"] # "commitStorage"
    BY <1>1, <1>2, <2>2 DEF IndInv, CacheInv
  <2>3. QED
    BY Zenon, <2>1, <2>2
<1>4. (\A i \in SubCaches : facade.subs[i] = sub[i]) /\ facade.height = cacheHeight
  BY Zenon, <1>2 DEF IndInv, FacadeInv, CopyOf, FacadeOpen
<1>5. QED
  BY ZenonT(30), <1>2, <1>3, <1>4 DEF IndInv, TypeOK

LEMMA GenerateBlockStep ==
    ASSUME IndInv, generateBlock
    PROVE  IndInv'
<1>1. PICK txs \in Selectable, weight \in HarvestWeights :
          harvested' = [chain |-> Append(tip, [txs |-> txs, weight |-> weight]),
                        built |-> facade.subs[1]]
  BY ZenonT(30) DEF generateBlock
<1>2. pc["harvest"] = "generate" /\ facade.height = Len(tip) /\ tip \in Chains
  BY DEF generateBlock, CloseFacade, Goto, HeightIsConsistent, IndInv, TypeOK
<1> DEFINE built == facade.subs[1]
           block == [txs |-> txs, weight |-> weight]
           c == Append(tip, block)
<1>3. built \in Chains /\ Len(built) = Len(tip) /\ \A i \in SubCaches : facade.subs[i] = built
  <2>1. 1 \in SubCaches
    BY DEF SubCaches
  <2>2. QED
    BY <1>2, <2>1, FacadeIsOneState
<1>4. txs \in Seq(Txs) /\ Execute(Confirmed(built), txs)
  <2>1. ut \in Seq(Txs)
    BY DEF IndInv, TypeOK
  <2>2. Range(ut) \subseteq Txs
    BY <2>1 DEF Range
  <2>3. txs \in Seq(Range(ut))
    BY DEF Selectable, SeqsUpTo
  <2>4. Execute(StateOf(facade.subs), txs)
    BY DEF Selectable
  <2>5. QED
    BY <1>3, <2>2, <2>3, <2>4, OneState
<1>5. block \in Blocks /\ block.txs = txs
  BY Zenon, <1>4 DEF Blocks
<1> HIDE DEF block, built
<1>6. c \in Chains /\ Len(c) = Len(tip) + 1 /\ c[Len(c)] = block /\ c # <<>>
  BY <1>2, <1>5 DEF Chains
<1>7. Len(tip) \in Nat
  BY <1>2 DEF Chains
<1> HIDE DEF c
<1>8. Harvested(c, built)
  <2>1. Len(built) = Len(c) - 1
    BY <1>3, <1>6, <1>7
  <2>2. c[Len(c)].txs = txs
    BY Zenon, <1>5, <1>6
  <2>3. QED
    BY <1>4, <1>6, <2>1, <2>2, Zenon DEF Harvested
<1>9. harvested' = [chain |-> c, built |-> built]
  BY <1>1 DEF c, block, built
<1>10. QED
  BY Zenon, <1>3, <1>6, <1>8, <1>9, CloseFacadeStep DEF generateBlock
===============================================================================
