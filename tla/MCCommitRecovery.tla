-------------------------- MODULE MCCommitRecovery --------------------------
(* CommitRecovery for model checking. *)
EXTENDS CommitRecovery

\* a cache database and a broker
Database == [EnableCacheDatabaseStorage |-> TRUE, EnableAutoSyncCleanup |-> FALSE]

\* neither of them
Memory == [EnableCacheDatabaseStorage |-> FALSE, EnableAutoSyncCleanup |-> TRUE]

BothConfigurations == {Database, Memory}
DatabaseOnly == {Database}

\* the properties say nothing of a behaviour that has hit a crash window, so it
\* is not followed; only Crash, to which nothing is fair, leads into one
OutsideWindows == windows = {}
=============================================================================
