---------------------------- MODULE PeerConnections ----------------------------
(***************************************************************************)
(* The connect peers task (PeersConnectionTasks.cpp, NodeSelector.cpp) on  *)
(* the known nodes (NodeContainer.cpp) and the packet writers: connections *)
(* age and are renewed, failing nodes are banned for a while, and nodes    *)
(* are discovered, and pruned, while connections are being made.           *)
(***************************************************************************)
EXTENDS PacketWriters, Integers, Sequences, SequencesExt

CONSTANTS
    MaxNodes, MaxConnections, MaxConnectionAge,
    MaxConnectionBanAge, NumConsecutiveFailuresBeforeBanning,
    NodeSources         \* the sources nodes are learned from

VARIABLES
    nodes,              \* the node container, in the order of the node ids
    task                \* the connect peers task

vars == <<writerVars, nodes, task>>

DynamicIncoming == 0
Dynamic == 1
Static == 2

NodeKeys == {nodes[i].key : i \in DOMAIN nodes}

IdleTask == [pc |-> "idle", identities |-> {}, remove |-> {}, add |-> {}, results |-> {}]

Init == WritersInit /\ nodes = <<>> /\ task = IdleTask

-------------------------------------------------------------------------------
NewNode(key, source) ==
    [key |-> key, source |-> source, Age |-> 0, NumConsecutiveFailures |-> 0, BanAge |-> 0]

\* ensureAtLeastOneEmptySlot: the worst source first, then the oldest.
PruneCandidates == {i \in DOMAIN nodes : nodes[i].source <= Dynamic /\ nodes[i].Age = 0}

IsWorst(i) ==
    \A j \in PruneCandidates :
        \/ nodes[i].source < nodes[j].source
        \/ nodes[i].source = nodes[j].source /\ i <= j

\* A known node takes a source that is no worse; an unknown one needs a slot.
AddNode ==
    /\ \E key \in Keys, source \in NodeSources :
        IF key \in NodeKeys
        THEN nodes' = [i \in DOMAIN nodes |->
                          IF nodes[i].key = key /\ nodes[i].source <= source
                          THEN [nodes[i] EXCEPT !.source = source] ELSE nodes[i]]
        ELSE IF Len(nodes) < MaxNodes
             THEN nodes' = Append(nodes, NewNode(key, source))
             ELSE \E i \in PruneCandidates :
                    IsWorst(i) /\ nodes' = Append(RemoveAt(nodes, i), NewNode(key, source))
    /\ UNCHANGED <<writerVars, task>>

-------------------------------------------------------------------------------
\* The task runs: the identities are read first, ...
ReadIdentities ==
    /\ task.pc = "idle"
    /\ task' = [task EXCEPT !.pc = "age", !.identities = nodeIdentityKeys]
    /\ UNCHANGED <<writerVars, nodes>>

\* The age of a connection is only compared with MaxConnectionAge.
Aged(node, identities) ==
    [node EXCEPT !.Age = IF node.key \in identities THEN Min({@ + 1, MaxConnectionAge}) ELSE 0]

UpdateBan(node) ==
    LET failures == IF node.BanAge = MaxConnectionBanAge THEN 0 ELSE node.NumConsecutiveFailures
    IN  [node EXCEPT !.NumConsecutiveFailures = failures,
                     !.BanAge = IF failures >= NumConsecutiveFailuresBeforeBanning
                                THEN @ + 1 ELSE 0]

\* ... then connections and bans age, ...
AgeNodes ==
    /\ task.pc = "age"
    /\ nodes' = [i \in DOMAIN nodes |-> UpdateBan(Aged(nodes[i], task.identities))]
    /\ task' = [task EXCEPT !.pc = "select", !.identities = {}]
    /\ UNCHANGED writerVars

\* Banned dynamic nodes are left out, banned static ones are not.  In the code a
\* negative multiplier wraps around, and is not zero either.
WeightMultiplier(node) ==
    (CASE node.source = Dynamic -> 1 [] node.source = Static -> 2 [] OTHER -> 0)
    - (IF node.BanAge = 0 THEN 0 ELSE 1)

ServiceNodes == {nodes[i] : i \in {j \in DOMAIN nodes : WeightMultiplier(nodes[j]) # 0}}
Actives == {node \in ServiceNodes : node.Age > 0}
Candidates == {node.key : node \in ServiceNodes \ Actives}

\* FindRemoveCandidates: never the last connection, and among the old enough
\* ones as many as the container happens to list first.
MaxNodesToRemove ==
    IF Cardinality(Actives) <= 1 THEN 0
    ELSE Max({Cardinality(Actives) - MaxConnections, 0}) + 1

RemoveCandidates ==
    LET old == {node.key : node \in {a \in Actives : a.Age >= MaxConnectionAge}}
    IN  kSubset(Min({MaxNodesToRemove, Cardinality(old)}), old)

\* SelectCandidatesBasedOnWeight: which ones, beyond their number, is random.
AddCandidates(removed) ==
    LET room == MaxConnections - (Cardinality(Actives) - Cardinality(removed))
    IN  kSubset(Max({0, Min({room, Cardinality(Candidates)})}), Candidates)

\* ... and the nodes are selected.
SelectNodes ==
    /\ task.pc = "select"
    /\ \E remove \in RemoveCandidates : \E add \in AddCandidates(remove) :
        task' = [task EXCEPT !.pc = "process", !.remove = remove, !.add = add]
    /\ UNCHANGED <<writerVars, nodes>>

CloseOne ==
    /\ task.pc = "process"
    /\ \E key \in task.remove :
        /\ Close(key)
        /\ task' = [task EXCEPT !.remove = @ \ {key}]
    /\ UNCHANGED <<connects, ios, nodes>>

\* A result of the task's attempts; other results of the same peer are over.
WithResult(t, key, isAccepted) ==
    [t EXCEPT !.results = @ \cup {[key |-> key, isAccepted |-> isAccepted]}]

Connect ==
    /\ task.pc = "process" /\ task.remove = {}
    /\ \E key \in task.add :
        IF key \in outgoingNodeIdentityKeys
        THEN /\ task' = WithResult([task EXCEPT !.add = @ \ {key}], key, FALSE)
             /\ UNCHANGED writerVars
        ELSE /\ StartConnect(key)
             /\ task' = [task EXCEPT !.add = @ \ {key}]
             /\ UNCHANGED ios
    /\ UNCHANGED nodes

ConnectCallback ==
    /\ \E connect \in connects :
        \/ ConnectAccepted(connect) /\ task' = WithResult(task, connect.key, TRUE)
        \/ ConnectRefused(connect) /\ UNCHANGED task
        \/ AbortConnect(connect) /\ task' = WithResult(task, connect.key, FALSE)
    /\ UNCHANGED nodes

\* Failures beyond the limit are not told apart.
AfterResult(node, result) ==
    [node EXCEPT !.NumConsecutiveFailures =
        IF result.isAccepted THEN 0 ELSE Min({@ + 1, NumConsecutiveFailuresBeforeBanning})]

AfterResults(results) ==
    [i \in DOMAIN nodes |->
        IF \E r \in results : r.key = nodes[i].key
        THEN AfterResult(nodes[i], CHOOSE r \in results : r.key = nodes[i].key)
        ELSE nodes[i]]

IsEveryAttemptOver == task.pc = "process" /\ task.remove = {} /\ task.add = {} /\ connects = {}

\* The interactions are updated and the task is scheduled again.
UpdateInteractions ==
    /\ IsEveryAttemptOver
    /\ \A r \in task.results : r.key \in NodeKeys
    /\ nodes' = AfterResults(task.results)
    /\ task' = IdleTask
    /\ UNCHANGED writerVars

\* A node that was pruned meanwhile has no connection state: the exception ends
\* up in the future of the task, which is not scheduled again.
UpdateInteractionsThrows ==
    /\ IsEveryAttemptOver
    /\ \E r \in task.results : r.key \notin NodeKeys
    /\ \E updated \in SUBSET {r \in task.results : r.key \in NodeKeys} :
        nodes' = AfterResults(updated)
    /\ task' = [IdleTask EXCEPT !.pc = "stopped"]
    /\ UNCHANGED writerVars

TaskStep ==
    \/ ReadIdentities \/ AgeNodes \/ SelectNodes \/ CloseOne \/ Connect
    \/ UpdateInteractions \/ UpdateInteractionsThrows

Next ==
    \/ AddNode \/ TaskStep \/ ConnectCallback
    \/ WriterStep /\ UNCHANGED <<nodes, task>>

Spec == Init /\ [][Next]_vars

-------------------------------------------------------------------------------
\* The weight multiplier of a node, an unsigned number, does not wrap around: a
\* node of incoming connections is never banned (NodeSelector.cpp:60-66).
WeightIsNotNegative == \A i \in DOMAIN nodes : WeightMultiplier(nodes[i]) >= 0
===============================================================================
