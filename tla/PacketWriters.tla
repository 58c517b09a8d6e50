----------------------------- MODULE PacketWriters -----------------------------
(***************************************************************************)
(* The connections a node sends requests over (PacketWriters.cpp): the     *)
(* container of the writers, the ios checked out of it with a timeout, and *)
(* the callbacks of sockets, which come in any order and may come after    *)
(* their socket was replaced.                                              *)
(***************************************************************************)
EXTENDS Naturals, FiniteSets

CONSTANTS
    Keys,           \* the identity keys of the peers
    Sockets,        \* the sockets that may be in use together
    Incoming,       \* the peers that connect to this node
    MaxIos          \* a bound on the ios and broadcasts under way

VARIABLES
    writers,                    \* WriterContainer::m_writers
    nodeIdentityKeys, outgoingNodeIdentityKeys,
    connects,                   \* outgoing connection attempts
    ios                         \* the ios given out by pickOne, and unfinished broadcasts

container == <<writers, nodeIdentityKeys, outgoingNodeIdentityKeys>>
writerVars == <<container, connects, ios>>

WritersInit ==
    /\ writers = {} /\ nodeIdentityKeys = {} /\ outgoingNodeIdentityKeys = {}
    /\ connects = {} /\ ios = {}

-------------------------------------------------------------------------------
\* A socket nobody refers to any more.
UnusedSockets ==
    Sockets \ ({w.socket : w \in writers} \cup {io.socket : io \in ios})

FindStateOfPeer(io) == {w \in writers : w.key = io.key}

\* What an io's callbacks, late ones too, refer to: the writer of its socket.
FindStateBySocket(io) == {w \in writers : w.socket = io.socket}

FindStateByKey(key) == {w \in writers : w.key = key}

RemoveFoundKeepsReservation(found) ==
    /\ writers' = writers \ found
    /\ nodeIdentityKeys' = nodeIdentityKeys \ {w.key : w \in found}
    /\ UNCHANGED outgoingNodeIdentityKeys

\* remove(iter) for the writers found, of which there is at most one.
RemoveFound(found) ==
    /\ writers' = writers \ found
    /\ nodeIdentityKeys' = nodeIdentityKeys \ {w.key : w \in found}
    /\ outgoingNodeIdentityKeys' = outgoingNodeIdentityKeys \ {w.key : w \in found}

\* removeWriter: an unknown socket is ignored.
RemoveWriter(io) == RemoveFound(FindStateBySocket(io))

Close(key) == RemoveFound(FindStateByKey(key))

MakeAvailable(io) ==
    LET found == FindStateBySocket(io) IN
    /\ writers' = (writers \ found) \cup {[w EXCEPT !.isAvailable = TRUE] : w \in found}
    /\ UNCHANGED <<nodeIdentityKeys, outgoingNodeIdentityKeys>>

\* insert, for a peer that is not connected yet.
Insert(key) ==
    /\ nodeIdentityKeys' = nodeIdentityKeys \cup {key}
    /\ writers' = writers \cup
           {[key |-> key, socket |-> CHOOSE s \in UnusedSockets : TRUE, isAvailable |-> TRUE]}
    /\ UNCHANGED outgoingNodeIdentityKeys

\* prepareConnect and the start of the attempt, for a peer that is neither
\* connecting nor connected.
StartConnect(key) ==
    /\ outgoingNodeIdentityKeys' = outgoingNodeIdentityKeys \cup {key}
    /\ connects' = connects \cup {[key |-> key, pc |-> "connecting"]}
    /\ UNCHANGED <<writers, nodeIdentityKeys>>

-------------------------------------------------------------------------------
\* The only callback of a connection attempt (the timed callback lets one
\* through): the socket is verified and inserted, or the attempt is to be aborted.
ConnectAccepted(connect) ==
    /\ connect.pc = "connecting" /\ UnusedSockets # {}
    /\ connect.key \notin nodeIdentityKeys
    /\ Insert(connect.key)
    /\ connects' = connects \ {connect}
    /\ UNCHANGED ios

ConnectRefused(connect) ==
    /\ connect.pc = "connecting"
    /\ connects' = (connects \ {connect}) \cup {[connect EXCEPT !.pc = "aborting"]}
    /\ UNCHANGED <<container, ios>>

AbortConnect(connect) ==
    /\ connect.pc = "aborting"
    /\ outgoingNodeIdentityKeys' = outgoingNodeIdentityKeys \ {connect.key}
    /\ connects' = connects \ {connect}
    /\ UNCHANGED <<writers, nodeIdentityKeys, ios>>

\* A peer connects and is verified; a peer that is connected is turned away.
Accept ==
    /\ UnusedSockets # {}
    /\ \E key \in Incoming \ nodeIdentityKeys : Insert(key)
    /\ UNCHANGED <<connects, ios>>

-------------------------------------------------------------------------------
PickOne ==
    /\ \E w \in writers :
        /\ w.isAvailable /\ Cardinality(ios) < MaxIos
        /\ writers' = (writers \ {w}) \cup {[w EXCEPT !.isAvailable = FALSE]}
        /\ ios' = ios \cup {[socket |-> w.socket, key |-> w.key, state |-> "open"]}
    /\ UNCHANGED <<nodeIdentityKeys, outgoingNodeIdentityKeys, connects>>

\* A read or a write of an io fails, before or after its timeout.
IoError ==
    /\ \E io \in ios : io.state # "broadcast" /\ RemoveWriter(io)
    /\ UNCHANGED <<connects, ios>>

\* The user gives the io up: the completion callback, unless it was called.
IoDestroyed ==
    /\ \E io \in ios :
        /\ io.state \in {"open", "closed"}
        /\ ios' = ios \ {io}
        /\ IF io.state = "open" THEN MakeAvailable(io) ELSE UNCHANGED container
    /\ UNCHANGED connects

\* The timer fires first: the completion callback and then the error handler,
\* between which the writer is available.
IoTimedOut ==
    /\ \E io \in ios :
        /\ io.state = "open"
        /\ ios' = (ios \ {io}) \cup {[io EXCEPT !.state = "timedOut"]}
        /\ MakeAvailable(io)
    /\ UNCHANGED connects

IoTimeoutHandler ==
    /\ \E io \in ios :
        /\ io.state = "timedOut"
        /\ ios' = (ios \ {io}) \cup {[io EXCEPT !.state = "closed"]}
        /\ RemoveWriter(io)
    /\ UNCHANGED connects

\* Every available writer gets the payload.
Broadcast ==
    LET sent == {[socket |-> w.socket, key |-> w.key, state |-> "broadcast"] :
                    w \in {v \in writers : v.isAvailable}} IN
    /\ ~(sent \subseteq ios) /\ Cardinality(ios \cup sent) <= MaxIos
    /\ ios' = ios \cup sent
    /\ UNCHANGED <<container, connects>>

BroadcastWritten ==
    /\ \E io \in ios :
        /\ io.state = "broadcast"
        /\ ios' = ios \ {io}
        /\ UNCHANGED container \/ RemoveWriter(io)
    /\ UNCHANGED connects

WriterStep ==
    \/ Accept \/ PickOne \/ IoError \/ IoDestroyed \/ IoTimedOut \/ IoTimeoutHandler
    \/ Broadcast \/ BroadcastWritten

-------------------------------------------------------------------------------
\* An identity is reserved only while its peer is connecting or connected, and
\* the keys are those of the writers, one each: a key left behind would keep the
\* node from ever connecting to that peer again (PacketWriters.cpp:114-194).
NoIdentityStuck ==
    /\ nodeIdentityKeys = {w.key : w \in writers}
    /\ \A w, v \in writers : w.key = v.key => w = v
    /\ outgoingNodeIdentityKeys \subseteq nodeIdentityKeys \cup {c.key : c \in connects}

\* A writer is unavailable exactly while one user holds an io of it: a late
\* completion, error or timeout of a socket that was replaced neither frees nor
\* blocks the new connection to the same peer (PacketWriters.cpp:105-112,
\* 146-155, 324-343).
CheckedOutOnce ==
    \A w \in writers :
        ~w.isAvailable <=> \E io \in ios : io.socket = w.socket /\ io.state = "open"
===============================================================================
