---------------------------- MODULE PtUpdaterProofs ----------------------------
(***************************************************************************)
(* The cache of partial transactions, for any transactions, signers, chain *)
(* states and numbers of tasks: an aggregate is handed over at most once   *)
(* for each time it is cached, and a complete one never waits alone.       *)
(***************************************************************************)
EXTENDS PtUpdater, TLAPS

\* The tasks form a bag, and each is about one of the transactions.
TasksTyped ==
    /\ IsABag(tasks)
    /\ \A task \in DOMAIN tasks :
          {"pc", "transaction"} \subseteq DOMAIN task /\ task.transaction \in Transactions

\* HandedOnce is not inductive: an aggregate that was handed over as often as it
\* was cached must be out of the cache.
Accounts ==
    /\ DOMAIN cache \subseteq Transactions
    /\ added \in [Transactions -> Nat] /\ handed \in [Transactions -> Nat]
    /\ \A t \in Transactions : handed[t] <= added[t]
    /\ \A t \in DOMAIN cache : handed[t] < added[t]

PtInv == TasksTyped /\ Accounts

-------------------------------------------------------------------------------
\* Adding a set of tasks to the pool (boost::asio::post).
LEMMA BagAdd ==
    ASSUME NEW B, IsABag(B), NEW S
    PROVE  IsABag(B (+) SetToBag(S)) /\ DOMAIN (B (+) SetToBag(S)) = DOMAIN B \cup S
<1>1. DOMAIN (B (+) SetToBag(S)) = DOMAIN B \cup S
  BY DEF (+), SetToBag
<1>2. \A e \in DOMAIN B \cup S : (B (+) SetToBag(S))[e] \in {n \in Nat : n > 0}
  BY DEF (+), SetToBag, IsABag
<1> QED
  BY Zenon, <1>1, <1>2 DEF IsABag, (+)

\* A task that ends leaves the other tasks in the pool.
LEMMA BagDrop ==
    ASSUME NEW B, IsABag(B), NEW e
    PROVE  /\ IsABag(B (-) SetToBag({e}))
           /\ DOMAIN (B (-) SetToBag({e})) \subseteq DOMAIN B
           /\ DOMAIN B \ {e} \subseteq DOMAIN (B (-) SetToBag({e}))
<1> DEFINE C == [d \in DOMAIN B |-> IF d \in DOMAIN SetToBag({e}) THEN B[d] - SetToBag({e})[d]
                                                                  ELSE B[d]]
           D == {d \in DOMAIN C : C[d] > 0}
<1>1. B (-) SetToBag({e}) = [d \in D |-> C[d]]
  BY DEF (-)
<1>2. \A d \in DOMAIN B : C[d] \in Int /\ (d # e => C[d] = B[d])
  BY DEF SetToBag, IsABag
<1>3. DOMAIN C = DOMAIN B
  OBVIOUS
<1> HIDE DEF C
<1>4. \A d \in D : C[d] \in {n \in Nat : n > 0}
  BY <1>2, <1>3
<1>5. DOMAIN B \ {e} \subseteq D
  BY <1>2, <1>3 DEF IsABag
<1> QED
  BY Zenon, <1>1, <1>3, <1>4, <1>5 DEF IsABag

IsTask(task) ==
    {"pc", "transaction"} \subseteq DOMAIN task /\ task.transaction \in Transactions

\* The tasks after a step of one of them: it goes, at most, and others come.
Replaced(task, new) ==
    /\ TasksTyped'
    /\ new \subseteq DOMAIN tasks'
    /\ DOMAIN tasks \ {task} \subseteq DOMAIN tasks'

\* Posting tasks keeps the others.
LEMMA PostKeepsTasks ==
    ASSUME TasksTyped, NEW new, \A n \in new : IsTask(n), tasks' = tasks (+) SetToBag(new)
    PROVE  TasksTyped' /\ DOMAIN tasks \subseteq DOMAIN tasks'
BY Zenon, BagAdd DEF TasksTyped, IsTask

\* The end of a task.
LEMMA FinishReplaces ==
    ASSUME TasksTyped, NEW task, Finish(task)
    PROVE  Replaced(task, {})
BY Zenon, BagDrop DEF TasksTyped, Finish, Without, Replaced

\* The end of a task that posts others.
LEMMA PostReplaces ==
    ASSUME TasksTyped, NEW task, NEW new, \A n \in new : IsTask(n),
           tasks' = Without(task) (+) SetToBag(new)
    PROVE  Replaced(task, new)
<1>1. /\ IsABag(Without(task))
      /\ DOMAIN Without(task) \subseteq DOMAIN tasks
      /\ DOMAIN tasks \ {task} \subseteq DOMAIN Without(task)
  BY Zenon, BagDrop DEF TasksTyped, Without
<1>2. IsABag(tasks') /\ DOMAIN tasks' = DOMAIN Without(task) \cup new
  BY <1>1, BagAdd
<1> QED
  BY <1>1, <1>2 DEF TasksTyped, Replaced, IsTask

\* A task that goes on as another record.
LEMMA ContinueReplaces ==
    ASSUME TasksTyped, NEW task, NEW next, IsTask(next), Continue(task, next)
    PROVE  Replaced(task, {next})
BY PostReplaces DEF Continue

\* A task that goes on at another place keeps its transaction.
LEMMA GotoReplaces ==
    ASSUME TasksTyped, NEW task \in DOMAIN tasks, NEW pc, Goto(task, pc)
    PROVE  /\ Replaced(task, {[task EXCEPT !.pc = pc]})
           /\ [task EXCEPT !.pc = pc].transaction = task.transaction
           /\ [task EXCEPT !.pc = pc].pc = pc
<1>1. IsTask([task EXCEPT !.pc = pc])
  BY DEF TasksTyped, IsTask
<1> QED
  BY <1>1, ContinueReplaces DEF Goto, TasksTyped

\* What update(cosignature) posts are tasks.
LEMMA CosignatureTasksTyped ==
    ASSUME NEW t \in Transactions, NEW C
    PROVE  \A n \in CosignatureTasks(t, C) : IsTask(n)
BY DEF CosignatureTasks, IsTask

\* The tasks at a place are tasks of the pool.
LEMMA AtTyped ==
    ASSUME TasksTyped, NEW pc, NEW task \in At(pc)
    PROVE  task \in DOMAIN tasks /\ task.pc = pc /\ task.transaction \in Transactions
BY DEF TasksTyped, At, BagToSet

\* crypto::Verify ends the task or lets it add its cosignature.
LEMMA VerifyReplaces ==
    ASSUME TasksTyped, NEW task \in DOMAIN tasks, Verify(task)
    PROVE  Replaced(task, {})
<1> DEFINE next == [pc |-> "add", transaction |-> task.transaction,
                    cosignature |-> task.cosignature]
<1>1. IsTask(next)
  BY DEF IsTask, TasksTyped
<1> HIDE DEF next
<1>2. Finish(task) \/ Continue(task, next)
  BY DEF Verify, next
<1> QED
  BY <1>1, <1>2, FinishReplaces, ContinueReplaces DEF Replaced

-------------------------------------------------------------------------------
Hands(task, t) == task.transaction = t /\ task.pc \in {"check", "remove"}

\* What a step has to show of each aggregate for LastAdderCompletes: it is as it
\* was and does not lose the task that looks after it, or it gets a new one.
IsLookedAfter(t, task, new) ==
    \/ t \in DOMAIN cache \ excused /\ cache'[t] = cache[t] /\ ~Hands(task, t)
    \/ \E n \in new : Hands(n, t)

\* LastAdderCompletes after a step, from what the step shows of each aggregate.
LEMMA LookedAfter ==
    ASSUME LastAdderCompletes, UNCHANGED chain, NEW task, NEW new, Replaced(task, new),
           \A t \in DOMAIN cache' \ excused' : IsLookedAfter(t, task, new)
    PROVE  LastAdderCompletes'
<1> SUFFICES ASSUME NEW t \in DOMAIN cache' \ excused',
                    ValidateCosignatories(cache[t])' = "Success"
             PROVE  \E k \in DOMAIN tasks' : Hands(k, t)
  BY DEF LastAdderCompletes, Hands, BagToSet
<1>1. CASE t \in DOMAIN cache \ excused /\ cache'[t] = cache[t] /\ ~Hands(task, t)
  <2>1. ValidateCosignatories(cache[t]) = "Success"
    BY <1>1 DEF ValidateCosignatories
  <2>2. PICK k \in DOMAIN tasks : Hands(k, t)
    BY <1>1, <2>1 DEF LastAdderCompletes, Hands, BagToSet
  <2> QED
    BY <1>1, <2>2 DEF Replaced
<1>2. CASE \E n \in new : Hands(n, t)
  BY <1>2 DEF Replaced
<1> QED
  BY <1>1, <1>2 DEF IsLookedAfter

\* The steps that only move a task on.
LEMMA QuietStep ==
    ASSUME PtInv, LastAdderCompletes, NEW task, NEW new, Replaced(task, new),
           task.pc \notin {"check", "remove"},
           UNCHANGED <<cache, chain, added, handed, excused>>
    PROVE  PtInv' /\ LastAdderCompletes'
<1>1. \A t \in DOMAIN cache' \ excused' : IsLookedAfter(t, task, new)
  BY DEF IsLookedAfter, Hands
<1>2. LastAdderCompletes'
  BY <1>1, LookedAfter
<1> QED
  BY <1>2 DEF PtInv, Accounts, Replaced

\* The steps that remove one aggregate, of their own task or for a block.
LEMMA RemovalKeepsAccounts ==
    ASSUME Accounts, NEW t, cache' = RemoveTransactionInfo(t), UNCHANGED <<added, handed>>
    PROVE  Accounts'
BY DEF Accounts, RemoveTransactionInfo

-------------------------------------------------------------------------------
\* update(transactionInfo) and updateImpl(updateContext)
LEMMA TransactionSteps ==
    ASSUME PtInv, LastAdderCompletes, UpdateTransaction \/ ValidatePartial \/ UpdateCosignature
    PROVE  PtInv' /\ LastAdderCompletes'
<1> USE DEF PtInv
<1>1. ASSUME NEW new, \A n \in new : IsTask(n), tasks' = tasks (+) SetToBag(new),
             UNCHANGED <<cache, chain, added, handed, excused>>
      PROVE  PtInv' /\ LastAdderCompletes'
  <2>1. TasksTyped' /\ DOMAIN tasks \subseteq DOMAIN tasks'
    BY <1>1, PostKeepsTasks
  <2>2. Accounts'
    BY <1>1 DEF Accounts
  <2>3. LastAdderCompletes'
    BY <1>1, <2>1 DEF LastAdderCompletes, ValidateCosignatories, BagToSet
  <2> QED
    BY <2>1, <2>2, <2>3
<1>2. CASE UpdateTransaction
  <2>1. PICK t \in Transactions, attached \in SUBSET Cosignatures :
          tasks' = tasks (+) SetToBag(
              IF t \in DOMAIN cache
              THEN CosignatureTasks(t, {c \in attached : c.signer \notin cache[t]})
              ELSE {[pc |-> "validate", transaction |-> t, attached |-> attached]})
    BY Zenon, <1>2 DEF UpdateTransaction
  <2>2. IsTask([pc |-> "validate", transaction |-> t, attached |-> attached])
    BY DEF IsTask
  <2> DEFINE new == IF t \in DOMAIN cache
                    THEN CosignatureTasks(t, {c \in attached : c.signer \notin cache[t]})
                    ELSE {[pc |-> "validate", transaction |-> t, attached |-> attached]}
  <2>3. \A n \in new : IsTask(n)
    BY <2>2, CosignatureTasksTyped
  <2>4. UNCHANGED <<cache, chain, added, handed, excused>>
    BY <1>2 DEF UpdateTransaction
  <2>5. tasks' = tasks (+) SetToBag(new)
    BY <2>1
  <2> HIDE DEF new
  <2> QED
    BY <1>1, <2>3, <2>4, <2>5
<1>3. CASE UpdateCosignature
  <2>1. PICK t \in Transactions, c \in Cosignatures :
          tasks' = tasks (+) SetToBag(CosignatureTasks(t, {c}))
    BY <1>3 DEF UpdateCosignature
  <2>2. UNCHANGED <<cache, chain, added, handed, excused>>
    BY <1>3 DEF UpdateCosignature
  <2> QED
    BY <1>1, <2>1, <2>2, CosignatureTasksTyped
<1>4. CASE ValidatePartial
  <2>1. PICK task \in At("validate") : Finish(task) \/ Goto(task, "addTransaction")
    BY <1>4 DEF ValidatePartial
  <2>2. UNCHANGED <<cache, chain, added, handed, excused>>
    BY <1>4 DEF ValidatePartial
  <2>3. task \in DOMAIN tasks /\ task.pc = "validate"
    BY AtTyped
  <2>4. \E new : Replaced(task, new)
    BY Zenon, <2>1, <2>3, FinishReplaces, GotoReplaces
  <2> QED
    BY <2>2, <2>3, <2>4, QuietStep
<1> QED
  BY <1>2, <1>3, <1>4

\* modifier().add(transactionInfo) and what is posted after it
LEMMA AddTransactionStep ==
    ASSUME PtInv, LastAdderCompletes, AddTransaction
    PROVE  PtInv' /\ LastAdderCompletes'
<1> USE DEF PtInv
<1>1. PICK task \in At("addTransaction") :
        LET t == task.transaction IN
        /\ cache' = AddTransactionInfo(t)
        /\ IF cache' = cache
           THEN UNCHANGED <<added, accepted>>
           ELSE /\ added' = [added EXCEPT ![t] = @ + 1]
                /\ accepted' = [accepted EXCEPT ![t] = {}]
        /\ IF task.attached = {}
           THEN /\ Continue(task, [pc |-> "check", transaction |-> t])
                /\ excused' = excused \ {t}
           ELSE /\ tasks' = Without(task) (+) SetToBag(CosignatureTasks(t, task.attached))
                /\ excused' = excused \cup {t}
  BY DEF AddTransaction
<1> DEFINE t == task.transaction
<1>2. UNCHANGED <<chain, handed>>
  BY DEF AddTransaction
<1>3. task \in DOMAIN tasks /\ task.pc = "addTransaction" /\ t \in Transactions
  BY AtTyped
<1>4. ~Hands(task, t) /\ \A u : ~Hands(task, u)
  BY <1>3 DEF Hands
<1>5. \/ cache' = cache /\ UNCHANGED added
      \/ /\ t \notin DOMAIN cache
         /\ cache' = [u \in DOMAIN cache \cup {t} |-> IF u = t THEN {} ELSE cache[u]]
         /\ added' = [added EXCEPT ![t] = @ + 1]
  BY <1>1 DEF AddTransactionInfo
<1>6. Accounts'
  BY <1>2, <1>3, <1>5 DEF Accounts
<1>7. \A u \in DOMAIN cache' : u # t => u \in DOMAIN cache /\ cache'[u] = cache[u]
  BY <1>5
<1>8. CASE task.attached = {}
  <2>1. Continue(task, [pc |-> "check", transaction |-> t]) /\ excused' = excused \ {t}
    BY <1>1, <1>8
  <2>2. IsTask([pc |-> "check", transaction |-> t])
    BY <1>3 DEF IsTask
  <2>3. Replaced(task, {[pc |-> "check", transaction |-> t]})
    BY <2>1, <2>2, ContinueReplaces
  <2>4. Hands([pc |-> "check", transaction |-> t], t)
    BY DEF Hands
  <2>5. \A u \in DOMAIN cache' \ excused' :
          IsLookedAfter(u, task, {[pc |-> "check", transaction |-> t]})
    BY <1>4, <1>7, <2>1, <2>4 DEF IsLookedAfter
  <2> QED
    BY <1>2, <1>6, <2>3, <2>5, LookedAfter DEF Replaced
<1>9. CASE task.attached # {}
  <2>1. /\ tasks' = Without(task) (+) SetToBag(CosignatureTasks(t, task.attached))
        /\ excused' = excused \cup {t}
    BY <1>1, <1>9
  <2>2. Replaced(task, CosignatureTasks(t, task.attached))
    BY <1>3, <2>1, PostReplaces, CosignatureTasksTyped
  <2>3. \A u \in DOMAIN cache' \ excused' :
          IsLookedAfter(u, task, CosignatureTasks(t, task.attached))
    BY SMTT(30), <1>4, <1>7, <2>1 DEF IsLookedAfter
  <2> QED
    BY <1>2, <1>6, <2>2, <2>3, LookedAfter DEF Replaced
<1> QED
  BY <1>8, <1>9

\* checkEligibility
LEMMA EligibilitySteps ==
    ASSUME PtInv, LastAdderCompletes, CheckEligibility \/ ValidateNew \/ ValidateExisting
    PROVE  PtInv' /\ LastAdderCompletes'
<1> USE DEF PtInv
<1>1. UNCHANGED <<cache, chain, added, handed, excused>>
  BY Zenon DEF CheckEligibility, ValidateNew, ValidateExisting
<1>2. CASE CheckEligibility
  <2>1. PICK task \in At("eligibility") :
          Finish(task) \/ Goto(task, "purge") \/ Goto(task, "validateNew") \/ Verify(task)
    BY <1>2 DEF CheckEligibility
  <2>2. task \in DOMAIN tasks /\ task.pc = "eligibility"
    BY AtTyped
  <2>3. \E new : Replaced(task, new)
    BY Zenon, <2>1, <2>2, FinishReplaces, GotoReplaces, VerifyReplaces
  <2> QED
    BY <1>1, <2>2, <2>3, QuietStep
<1>3. CASE ValidateNew
  <2>1. PICK task \in At("validateNew") :
          \/ Finish(task) \/ Goto(task, "purge")
          \/ Continue(task, [pc |-> IF cache[task.transaction] = {} THEN "refresh"
                                                                  ELSE "validateExisting",
                             transaction |-> task.transaction,
                             cosignature |-> task.cosignature,
                             left |-> cache[task.transaction], eligible |-> {}])
    BY Zenon, <1>3 DEF ValidateNew
  <2>2. task \in DOMAIN tasks /\ task.pc = "validateNew" /\ task.transaction \in Transactions
    BY AtTyped
  <2> DEFINE next == [pc |-> IF cache[task.transaction] = {} THEN "refresh"
                                                            ELSE "validateExisting",
                      transaction |-> task.transaction,
                      cosignature |-> task.cosignature,
                      left |-> cache[task.transaction], eligible |-> {}]
  <2>3. IsTask(next)
    BY <2>2 DEF IsTask
  <2>4. Finish(task) \/ Goto(task, "purge") \/ Continue(task, next)
    BY <2>1
  <2> HIDE DEF next
  <2>5. \E new : Replaced(task, new)
    BY ZenonT(30), <2>2, <2>3, <2>4, FinishReplaces, GotoReplaces, ContinueReplaces
  <2> QED
    BY <1>1, <2>2, <2>5, QuietStep
<1>4. CASE ValidateExisting
  <2>0. PICK task \in At("validateExisting") : \E signer \in task.left :
          Continue(task,
            [task EXCEPT !.left = @ \ {signer},
                         !.eligible = IF ValidateCosignatories({signer}) = "Ineligible"
                                      THEN @ ELSE @ \cup {signer},
                         !.pc = IF task.left = {signer} THEN "refresh" ELSE @])
    BY Zenon, <1>4 DEF ValidateExisting
  <2>1. PICK signer \in task.left :
          Continue(task,
            [task EXCEPT !.left = @ \ {signer},
                         !.eligible = IF ValidateCosignatories({signer}) = "Ineligible"
                                      THEN @ ELSE @ \cup {signer},
                         !.pc = IF task.left = {signer} THEN "refresh" ELSE @])
    BY Zenon, <2>0
  <2>2. task \in DOMAIN tasks /\ task.pc = "validateExisting"
    BY AtTyped
  <2> DEFINE next ==
            [task EXCEPT !.left = @ \ {signer},
                         !.eligible = IF ValidateCosignatories({signer}) = "Ineligible"
                                      THEN @ ELSE @ \cup {signer},
                         !.pc = IF task.left = {signer} THEN "refresh" ELSE @]
  <2>3. IsTask(next)
    BY <2>2 DEF IsTask, TasksTyped
  <2>4. Continue(task, next)
    BY <2>1
  <2> HIDE DEF next
  <2>5. Replaced(task, {next})
    BY <2>3, <2>4, ContinueReplaces
  <2> QED
    BY <1>1, <2>2, <2>5, QuietStep
<1> QED
  BY <1>2, <1>3, <1>4

\* refreshStaleCacheEntry
LEMMA RefreshStep ==
    ASSUME PtInv, LastAdderCompletes, RefreshStaleCacheEntry
    PROVE  PtInv' /\ LastAdderCompletes'
<1> USE DEF PtInv
<1>1. PICK task \in At("refresh") :
        /\ IF task.transaction \in DOMAIN cache
           THEN /\ cache' = [cache EXCEPT ![task.transaction] = task.eligible]
                /\ excused' = excused \cup {task.transaction}
           ELSE UNCHANGED <<cache, excused>>
        /\ Verify(task)
  BY DEF RefreshStaleCacheEntry
<1>2. UNCHANGED <<chain, added, handed>>
  BY DEF RefreshStaleCacheEntry
<1>3. task \in DOMAIN tasks /\ task.pc = "refresh"
  BY AtTyped
<1>4. Replaced(task, {})
  BY <1>1, <1>3, VerifyReplaces
<1>5. DOMAIN cache' = DOMAIN cache
  BY <1>1
<1>6. Accounts'
  BY <1>2, <1>5 DEF Accounts
<1>7. \A u \in DOMAIN cache' \ excused' : u \in DOMAIN cache \ excused /\ cache'[u] = cache[u]
  BY <1>1
<1>8. \A u \in DOMAIN cache' \ excused' : IsLookedAfter(u, task, {})
  BY <1>3, <1>7 DEF IsLookedAfter, Hands
<1> QED
  BY <1>2, <1>4, <1>6, <1>8, LookedAfter DEF Replaced

\* remove(aggregateHash), of a failed and of a complete aggregate
LEMMA RemovalSteps ==
    ASSUME PtInv, LastAdderCompletes, Purge \/ HandleComplete
    PROVE  PtInv' /\ LastAdderCompletes'
<1> USE DEF PtInv
<1>1. ASSUME NEW task, Finish(task), cache' = RemoveTransactionInfo(task.transaction),
             UNCHANGED <<chain, excused>>
      PROVE  TasksTyped' /\ LastAdderCompletes'
  <2>1. Replaced(task, {})
    BY <1>1, FinishReplaces
  <2>2. \A u \in DOMAIN cache' : u # task.transaction /\ u \in DOMAIN cache /\ cache'[u] = cache[u]
    BY <1>1 DEF RemoveTransactionInfo
  <2>3. \A u \in DOMAIN cache' \ excused' : IsLookedAfter(u, task, {})
    BY <1>1, <2>2 DEF IsLookedAfter, Hands
  <2> QED
    BY <1>1, <2>1, <2>3, LookedAfter DEF Replaced
<1>2. CASE Purge
  <2>1. PICK task \in At("purge") :
          cache' = RemoveTransactionInfo(task.transaction) /\ Finish(task)
    BY <1>2 DEF Purge
  <2>2. UNCHANGED <<chain, added, handed, excused>>
    BY <1>2 DEF Purge
  <2> QED
    BY <1>1, <2>1, <2>2, RemovalKeepsAccounts
<1>3. CASE HandleComplete
  <2>1. PICK task \in At("remove") :
          /\ cache' = RemoveTransactionInfo(task.transaction)
          /\ handed' = IF IsHandedBy(task.transaction)
                       THEN [handed EXCEPT ![task.transaction] = @ + 1]
                       ELSE handed
          /\ Finish(task)
    BY Zenon, <1>3 DEF HandleComplete
  <2>2. UNCHANGED <<chain, added, excused>>
    BY <1>3 DEF HandleComplete
  <2>3. Accounts'
    BY <2>1, <2>2 DEF Accounts, RemoveTransactionInfo, IsHandedBy
  <2> QED
    BY <1>1, <2>1, <2>2, <2>3
<1> QED
  BY <1>2, <1>3

\* addCosignature: whoever adds a cosignature looks at the aggregate afterwards.
LEMMA AddCosignatureStep ==
    ASSUME PtInv, LastAdderCompletes, AddCosignature
    PROVE  PtInv' /\ LastAdderCompletes'
<1> USE DEF PtInv
<1>1. PICK task \in At("add") :
        LET t == task.transaction
            signer == task.cosignature.signer IN
        IF t \notin DOMAIN cache \/ (t \in DOMAIN cache /\ signer \in cache[t])
        THEN Finish(task) /\ UNCHANGED <<cache, accepted, excused>>
        ELSE /\ cache' = [cache EXCEPT ![t] = @ \cup {signer}]
             /\ accepted' = [accepted EXCEPT ![t] = @ \cup ({signer} \cap chain.eligible)]
             /\ excused' = excused \ {t}
             /\ AfterAdd(task)
  BY DEF AddCosignature
<1> DEFINE t == task.transaction
<1>2. UNCHANGED <<chain, added, handed>>
  BY DEF AddCosignature
<1>3. task \in DOMAIN tasks /\ task.pc = "add"
  BY AtTyped
<1>4. CASE Finish(task) /\ UNCHANGED <<cache, accepted, excused>>
  BY <1>2, <1>3, <1>4, FinishReplaces, QuietStep
<1>5. CASE /\ cache' = [cache EXCEPT ![t] = @ \cup {task.cosignature.signer}]
           /\ excused' = excused \ {t}
           /\ AfterAdd(task)
  <2> DEFINE next == [task EXCEPT !.pc = "check"]
  <2>1. Replaced(task, {next}) /\ next.transaction = t /\ next.pc = "check"
    BY <1>3, <1>5, GotoReplaces DEF AfterAdd
  <2> HIDE DEF next
  <2>2. DOMAIN cache' = DOMAIN cache /\ \A u \in DOMAIN cache : u # t => cache'[u] = cache[u]
    BY <1>5
  <2>3. \A u \in DOMAIN cache' \ excused' : IsLookedAfter(u, task, {next})
    BY <1>3, <1>5, <2>1, <2>2 DEF IsLookedAfter, Hands
  <2>4. Accounts'
    BY <1>2, <2>2 DEF Accounts
  <2> QED
    BY <1>2, <2>1, <2>3, <2>4, LookedAfter DEF Replaced
<1> QED
  BY <1>1, <1>4, <1>5

\* checkCompleteness: a task that does not find the aggregate complete is not needed.
LEMMA CheckCompletenessStep ==
    ASSUME PtInv, LastAdderCompletes, CheckCompleteness
    PROVE  PtInv' /\ LastAdderCompletes'
<1> USE DEF PtInv
<1>1. PICK task \in At("check") :
        IF task.transaction \in DOMAIN cache
            /\ ValidateCosignatories(cache[task.transaction]) = "Success"
        THEN Goto(task, "remove")
        ELSE Finish(task)
  BY DEF CheckCompleteness
<1> DEFINE t == task.transaction
<1>2. UNCHANGED <<cache, chain, added, handed, excused>>
  BY DEF CheckCompleteness
<1>3. task \in DOMAIN tasks /\ task.pc = "check"
  BY AtTyped
<1>4. Accounts'
  BY <1>2 DEF Accounts
<1>5. CASE Goto(task, "remove")
  <2> DEFINE next == [task EXCEPT !.pc = "remove"]
  <2>1. Replaced(task, {next}) /\ next.transaction = t /\ next.pc = "remove"
    BY <1>3, <1>5, GotoReplaces
  <2> HIDE DEF next
  <2>2. \A u \in DOMAIN cache' \ excused' : IsLookedAfter(u, task, {next})
    BY <1>2, <2>1 DEF IsLookedAfter, Hands
  <2> QED
    BY <1>2, <1>4, <2>1, <2>2, LookedAfter DEF Replaced
<1>6. CASE Finish(task) /\ ~(t \in DOMAIN cache /\ ValidateCosignatories(cache[t]) = "Success")
  <2>1. Replaced(task, {})
    BY <1>6, FinishReplaces
  <2>2. LastAdderCompletes'
    <3> SUFFICES ASSUME NEW u \in DOMAIN cache \ excused,
                        ValidateCosignatories(cache[u]) = "Success"
                 PROVE  \E k \in DOMAIN tasks' : Hands(k, u)
      BY <1>2 DEF LastAdderCompletes, ValidateCosignatories, Hands, BagToSet
    <3>1. PICK k \in DOMAIN tasks : Hands(k, u)
      BY DEF LastAdderCompletes, Hands, BagToSet
    <3>2. u # t
      BY <1>6
    <3> QED
      BY <2>1, <3>1, <3>2 DEF Replaced, Hands
  <2> QED
    BY <1>4, <2>1, <2>2 DEF Replaced
<1> QED
  BY <1>1, <1>5, <1>6

\* The steps of the chain: an aggregate is removed, or the state changes.
LEMMA ChainSteps ==
    ASSUME PtInv, LastAdderCompletes, RemoveFromCache \/ ChainChanges
    PROVE  PtInv' /\ LastAdderCompletes'
<1> USE DEF PtInv
<1>1. CASE RemoveFromCache
  <2>1. PICK t \in DOMAIN cache : cache' = RemoveTransactionInfo(t)
    BY <1>1 DEF RemoveFromCache
  <2>2. UNCHANGED <<chain, tasks, added, handed, excused>>
    BY <1>1 DEF RemoveFromCache
  <2>3. \A u \in DOMAIN cache' : u \in DOMAIN cache /\ cache'[u] = cache[u]
    BY <2>1 DEF RemoveTransactionInfo
  <2>4. LastAdderCompletes'
    BY <2>2, <2>3 DEF LastAdderCompletes, ValidateCosignatories, BagToSet
  <2> QED
    BY <2>1, <2>2, <2>4, RemovalKeepsAccounts DEF TasksTyped
<1>2. CASE ChainChanges
  BY <1>2 DEF ChainChanges, TasksTyped, Accounts, LastAdderCompletes
<1> QED
  BY <1>1, <1>2

\* The invariants are inductive together.
LEMMA PtInvHolds == Spec => [](PtInv /\ LastAdderCompletes)
<1>1. Init => PtInv /\ LastAdderCompletes
  <2> SUFFICES ASSUME Init PROVE PtInv /\ LastAdderCompletes
    OBVIOUS
  <2>1. DOMAIN cache = {} /\ DOMAIN tasks = {} /\ IsABag(tasks)
    BY DEF Init, EmptyBag, SetToBag, IsABag
  <2> QED
    BY <2>1 DEF Init, PtInv, TasksTyped, Accounts, LastAdderCompletes
<1>2. (PtInv /\ LastAdderCompletes) /\ [Next]_vars => (PtInv /\ LastAdderCompletes)'
  <2> SUFFICES ASSUME PtInv, LastAdderCompletes, [Next]_vars
               PROVE  PtInv' /\ LastAdderCompletes'
    OBVIOUS
  <2>1. CASE UNCHANGED vars
    BY <2>1 DEF vars, PtInv, TasksTyped, Accounts, LastAdderCompletes, ValidateCosignatories,
                BagToSet
  <2>2. CASE UpdateTransaction \/ ValidatePartial \/ UpdateCosignature
    BY <2>2, TransactionSteps
  <2>3. CASE AddTransaction
    BY <2>3, AddTransactionStep
  <2>4. CASE CheckEligibility \/ ValidateNew \/ ValidateExisting
    BY <2>4, EligibilitySteps
  <2>5. CASE RefreshStaleCacheEntry
    BY <2>5, RefreshStep
  <2>6. CASE Purge \/ HandleComplete
    BY <2>6, RemovalSteps
  <2>7. CASE AddCosignature
    BY <2>7, AddCosignatureStep
  <2>8. CASE CheckCompleteness
    BY <2>8, CheckCompletenessStep
  <2>9. CASE RemoveFromCache \/ ChainChanges
    BY <2>9, ChainSteps
  <2> QED
    BY <2>1, <2>2, <2>3, <2>4, <2>5, <2>6, <2>7, <2>8, <2>9 DEF Next
<1> QED
  BY <1>1, <1>2, PTL DEF Spec

\* For any transactions, signers, chain states and tasks: an aggregate is given
\* to the completed transaction sink at most once for each time it was cached
\* (checkCompleteness of PtUpdater.cpp).
THEOREM CompletedOnce == Spec => []HandedOnce
<1>1. PtInv => HandedOnce
  BY DEF PtInv, Accounts, HandedOnce
<1> QED
  BY <1>1, PtInvHolds, PTL

\* For any transactions, signers, chain states and tasks: a complete aggregate
\* that no change of the chain and no refresh completed has a task about to hand
\* it over (addCosignature and checkCompleteness of PtUpdater.cpp).
THEOREM CompletionNotMissed == Spec => []LastAdderCompletes
BY PtInvHolds, PTL
===============================================================================
