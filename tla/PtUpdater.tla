------------------------------- MODULE PtUpdater -------------------------------
(***************************************************************************)
(* The partial transaction extension: aggregates that wait for             *)
(* cosignatures (MemoryPtCache.cpp), and the updates of that cache by      *)
(* tasks of a thread pool (PtUpdater.cpp), while blocks change the state   *)
(* the cosignatures are validated against.                                 *)
(*                                                                         *)
(* A step of a task is one stretch under the lock of the cache; a view     *)
(* that is kept from one call of the validator to the next keeps the       *)
(* writers out.                                                            *)
(***************************************************************************)
EXTENDS Naturals, FiniteSets, FiniteSetsExt, Bags

CONSTANTS
    Transactions, Signers,
    ChainStates,        \* [eligible, required, fails]: what a state makes of cosignatories
    InitialState,
    MaxCacheSize,
    MaxTasks,           \* a bound on the tasks posted to the pool
    MaxChainChanges     \* a bound on the changes of the chain state

VARIABLES
    cache,          \* the cosignatories of the cached aggregates
    chain,          \* the state the validator reads
    tasks,          \* the bag of the tasks of the pool
    numTasks, numChanges,
    added, handed,  \* how often an aggregate was cached and was given to the sink
    accepted,       \* cosignatories added since then and eligible ever since
    excused         \* aggregates of which the completeness may change on its own

vars == <<cache, chain, tasks, numTasks, numChanges, added, handed, accepted,
          excused>>

Cosignatures == [signer : Signers, isVerifiable : BOOLEAN]

Init ==
    /\ cache = [t \in {} |-> {}]
    /\ chain = InitialState
    /\ tasks = EmptyBag
    /\ numTasks = 0 /\ numChanges = 0
    /\ added = [t \in Transactions |-> 0]
    /\ handed = [t \in Transactions |-> 0]
    /\ accepted = [t \in Transactions |-> {}]
    /\ excused = {}

-------------------------------------------------------------------------------
\* MapToCosignatoriesValidationResult of what the validators say.
ValidateCosignatories(cosignatories) ==
    IF chain.fails THEN "Failure"
    ELSE IF ~(cosignatories \subseteq chain.eligible) THEN "Ineligible"
    ELSE IF ~(chain.required \subseteq cosignatories) THEN "Missing"
    ELSE "Success"

\* No task keeps a view while it calls the validator again.
CanModify == \A task \in BagToSet(tasks) : task.pc \notin {"validateNew", "validateExisting"}

At(pc) == {task \in BagToSet(tasks) : task.pc = pc}

CosignatureTasks(t, cosignatures) ==
    {[pc |-> "eligibility", transaction |-> t, cosignature |-> c] : c \in cosignatures}

Without(task) == tasks (-) SetToBag({task})

Finish(task) == tasks' = Without(task)

Continue(task, next) == tasks' = Without(task) (+) SetToBag({next})

Goto(task, pc) == Continue(task, [task EXCEPT !.pc = pc])

\* MemoryPtCacheModifier
AddTransactionInfo(t) ==
    IF MaxCacheSize <= Cardinality(DOMAIN cache) \/ t \in DOMAIN cache
    THEN cache
    ELSE [u \in DOMAIN cache \cup {t} |-> IF u = t THEN {} ELSE cache[u]]

RemoveTransactionInfo(t) == [u \in DOMAIN cache \ {t} |-> cache[u]]

-------------------------------------------------------------------------------
\* update(transactionInfo), with the cosignatures the aggregate carries, one of
\* each signer; the ones of a cached aggregate are posted as they are.
UpdateTransaction ==
    \E t \in Transactions, attached \in SUBSET Cosignatures :
        /\ \A c, d \in attached : c.signer = d.signer => c = d
        /\ numTasks + Cardinality(attached) + 1 <= MaxTasks
        /\ numTasks' = numTasks + Cardinality(attached) + 1
        /\ tasks' = tasks (+) SetToBag(
               IF t \in DOMAIN cache
               THEN CosignatureTasks(t, {c \in attached : c.signer \notin cache[t]})
               ELSE {[pc |-> "validate", transaction |-> t, attached |-> attached]})
        /\ UNCHANGED <<cache, chain, numChanges, added, handed, accepted, excused>>

\* updateImpl(updateContext): an invalid aggregate goes to the failed
\* transaction sink, ...
ValidatePartial ==
    /\ \E task \in At("validate") : Finish(task) \/ Goto(task, "addTransaction")
    /\ UNCHANGED <<cache, chain, numTasks, numChanges, added, handed, accepted, excused>>

\* ... a valid one is cached; without cosignatures it is looked at once.
AddTransaction ==
    /\ CanModify
    /\ \E task \in At("addTransaction") :
        LET t == task.transaction IN
        /\ cache' = AddTransactionInfo(t)
        /\ IF cache' = cache
           THEN UNCHANGED <<added, accepted>>
           ELSE /\ added' = [added EXCEPT ![t] = @ + 1]
                /\ accepted' = [accepted EXCEPT ![t] = {}]
        /\ IF task.attached = {}
           THEN /\ Continue(task, [pc |-> "check", transaction |-> t])
                /\ excused' = excused \ {t}
           ELSE /\ tasks' = Without(task) (+) SetToBag(CosignatureTasks(t, task.attached))
                /\ excused' = excused \cup {t}
    /\ UNCHANGED <<chain, numTasks, numChanges, handed>>

\* update(cosignature)
UpdateCosignature ==
    /\ numTasks < MaxTasks /\ numTasks' = numTasks + 1
    /\ \E t \in Transactions, c \in Cosignatures :
        tasks' = tasks (+) SetToBag(CosignatureTasks(t, {c}))
    /\ UNCHANGED <<cache, chain, numChanges, added, handed, accepted, excused>>

-------------------------------------------------------------------------------
\* An eligible cosignature is added when its signature verifies.
Verify(task) ==
    IF task.cosignature.isVerifiable
    THEN Continue(task, [pc |-> "add", transaction |-> task.transaction,
                         cosignature |-> task.cosignature])
    ELSE Finish(task)

\* checkEligibility: the cosignature with all the cached ones, ...
CheckEligibility ==
    /\ \E task \in At("eligibility") :
        LET t == task.transaction
            signer == task.cosignature.signer IN
        IF t \notin DOMAIN cache \/ (t \in DOMAIN cache /\ signer \in cache[t])
        THEN Finish(task)
        ELSE LET result == ValidateCosignatories(cache[t] \cup {signer}) IN
             CASE result = "Failure" -> Goto(task, "purge")
               [] result = "Ineligible" -> Goto(task, "validateNew")
               [] OTHER -> Verify(task)
    /\ UNCHANGED <<cache, chain, numTasks, numChanges, added, handed, accepted, excused>>

\* ... alone, ...
ValidateNew ==
    /\ \E task \in At("validateNew") :
        LET cached == cache[task.transaction]
            result == ValidateCosignatories({task.cosignature.signer}) IN
        CASE result = "Ineligible" -> Finish(task)
          [] result = "Failure" -> Goto(task, "purge")
          [] OTHER -> Continue(task, [pc |-> IF cached = {} THEN "refresh" ELSE "validateExisting",
                                      transaction |-> task.transaction,
                                      cosignature |-> task.cosignature,
                                      left |-> cached, eligible |-> {}])
    /\ UNCHANGED <<cache, chain, numTasks, numChanges, added, handed, accepted, excused>>

\* ... and each of the cached ones alone.
ValidateExisting ==
    /\ \E task \in At("validateExisting") : \E signer \in task.left :
        Continue(task,
            [task EXCEPT !.left = @ \ {signer},
                         !.eligible = IF ValidateCosignatories({signer}) = "Ineligible"
                                      THEN @ ELSE @ \cup {signer},
                         !.pc = IF task.left = {signer} THEN "refresh" ELSE @])
    /\ UNCHANGED <<cache, chain, numTasks, numChanges, added, handed, accepted, excused>>

\* refreshStaleCacheEntry: the cosignatures found eligible replace the cached ones.
RefreshStaleCacheEntry ==
    /\ CanModify
    /\ \E task \in At("refresh") :
        /\ IF task.transaction \in DOMAIN cache
           THEN /\ cache' = [cache EXCEPT ![task.transaction] = task.eligible]
                /\ excused' = excused \cup {task.transaction}
           ELSE UNCHANGED <<cache, excused>>
        /\ Verify(task)
    /\ UNCHANGED <<chain, numTasks, numChanges, added, handed, accepted>>

\* A validator failed unexpectedly: the aggregate is dropped.
Purge ==
    /\ CanModify
    /\ \E task \in At("purge") :
        /\ cache' = RemoveTransactionInfo(task.transaction)
        /\ Finish(task)
    /\ UNCHANGED <<chain, numTasks, numChanges, added, handed, accepted, excused>>

AfterAddUnchecked(task) == Finish(task)

\* The task after its cosignature was added.
AfterAdd(task) == Goto(task, "check")

AddCosignature ==
    /\ CanModify
    /\ \E task \in At("add") :
        LET t == task.transaction
            signer == task.cosignature.signer IN
        IF t \notin DOMAIN cache \/ (t \in DOMAIN cache /\ signer \in cache[t])
        THEN Finish(task) /\ UNCHANGED <<cache, accepted, excused>>
        ELSE /\ cache' = [cache EXCEPT ![t] = @ \cup {signer}]
             /\ accepted' = [accepted EXCEPT ![t] = @ \cup ({signer} \cap chain.eligible)]
             /\ excused' = excused \ {t}
             /\ AfterAdd(task)
    /\ UNCHANGED <<chain, numTasks, numChanges, added, handed>>

\* checkCompleteness: the view is given back before the aggregate is removed.
CheckCompleteness ==
    /\ \E task \in At("check") :
        IF task.transaction \in DOMAIN cache
            /\ ValidateCosignatories(cache[task.transaction]) = "Success"
        THEN Goto(task, "remove")
        ELSE Finish(task)
    /\ UNCHANGED <<cache, chain, numTasks, numChanges, added, handed, accepted, excused>>

IsHandedByAll(t) == TRUE

\* Whether a task that found the aggregate complete hands it to the sink.
IsHandedBy(t) == t \in DOMAIN cache

HandleComplete ==
    /\ CanModify
    /\ \E task \in At("remove") :
        /\ cache' = RemoveTransactionInfo(task.transaction)
        /\ handed' = IF IsHandedBy(task.transaction)
                     THEN [handed EXCEPT ![task.transaction] = @ + 1]
                     ELSE handed
        /\ Finish(task)
    /\ UNCHANGED <<chain, numTasks, numChanges, added, accepted, excused>>

-------------------------------------------------------------------------------
\* The handlers of PtBootstrapperService: an aggregate is confirmed, is past its
\* deadline, or depends on what was removed.
RemoveFromCache ==
    /\ CanModify
    /\ \E t \in DOMAIN cache : cache' = RemoveTransactionInfo(t)
    /\ UNCHANGED <<chain, tasks, numTasks, numChanges, added, handed, accepted, excused>>

\* A block changes the accounts and their multisig links.
ChainChanges ==
    /\ numChanges < MaxChainChanges /\ numChanges' = numChanges + 1
    /\ chain' \in ChainStates \ {chain}
    /\ accepted' = [t \in Transactions |-> accepted[t] \cap chain'.eligible]
    /\ excused' = Transactions
    /\ UNCHANGED <<cache, tasks, numTasks, added, handed>>

Next ==
    \/ UpdateTransaction \/ ValidatePartial \/ AddTransaction
    \/ UpdateCosignature \/ CheckEligibility \/ ValidateNew \/ ValidateExisting
    \/ RefreshStaleCacheEntry \/ Purge \/ AddCosignature
    \/ CheckCompleteness \/ HandleComplete
    \/ RemoveFromCache \/ ChainChanges

Spec == Init /\ [][Next]_vars

-------------------------------------------------------------------------------
\* An aggregate is given to the completed transaction sink at most once for each
\* time it was cached, although several tasks may find it complete between the
\* view and the removal (PtUpdater.cpp:271-291).
HandedOnce == \A t \in Transactions : handed[t] <= added[t]

\* A complete aggregate does not stay in the cache with nobody to hand it over:
\* of the tasks that add its last cosignatures side by side, the last to look
\* sees all of them (PtUpdater.cpp:260-291). Excused are the aggregates that a
\* change of the chain or a refresh completed, and the ones whose attached
\* cosignatures were never added.
LastAdderCompletes ==
    \A t \in DOMAIN cache \ excused :
        ValidateCosignatories(cache[t]) = "Success" =>
            \E task \in BagToSet(tasks) :
                task.transaction = t /\ task.pc \in {"check", "remove"}

\* When the pool is idle, a cached aggregate has every cosignature that was
\* accepted and has been eligible ever since: a refresh drops the stale ones
\* only (PtUpdater.cpp:326-343, 360-370).
EligibleKept ==
    tasks = EmptyBag => \A t \in DOMAIN cache : accepted[t] \subseteq cache[t]
===============================================================================
