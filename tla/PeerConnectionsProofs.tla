------------------------- MODULE PeerConnectionsProofs -------------------------
(***************************************************************************)
(* The invariants of the packet writers hold for any peers and sockets,    *)
(* and whatever the connect peers task does.  The argument is made once    *)
(* for the writers, in an environment that may connect to any peer and     *)
(* close any connection at any time; a step of the task is a step of that  *)
(* environment or leaves the writers alone.                                *)
(***************************************************************************)
EXTENDS PeerConnections, TLAPS

\* What the users of the packet writers may do.
ConnectStep ==
    \/ \E key : StartConnect(key) /\ UNCHANGED ios
    \/ \E connect \in connects :
          ConnectAccepted(connect) \/ ConnectRefused(connect) \/ AbortConnect(connect)

CloseStep == \E key : Close(key) /\ UNCHANGED <<connects, ios>>

WriterNext == WriterStep \/ ConnectStep \/ CloseStep

\* Keys and sockets may be anything: only the fields matter.
WriterTypes ==
    /\ \A w \in writers : DOMAIN w = {"key", "socket", "isAvailable"} /\ w.isAvailable \in BOOLEAN
    /\ \A c \in connects : c = [key |-> c.key, pc |-> c.pc]
    /\ \A io \in ios : io = [socket |-> io.socket, key |-> io.key, state |-> io.state]

\* CheckedOutOnce is not inductive on its own: a second open io of the same
\* socket would survive the completion of the first, and two writers of one
\* socket would be freed together.
OneOwner ==
    /\ \A w, v \in writers : w.socket = v.socket => w = v
    /\ \A i, j \in ios :
          i.socket = j.socket /\ i.state = "open" /\ j.state = "open" => i = j

WriterInv == WriterTypes /\ OneOwner /\ NoIdentityStuck /\ CheckedOutOnce

-------------------------------------------------------------------------------
\* The writers start without connections (the constructor of WriterContainer).
LEMMA WritersInitially == WritersInit => WriterInv
BY DEF WritersInit, WriterInv, WriterTypes, OneOwner, NoIdentityStuck, CheckedOutOnce

\* remove(iter) keeps the invariant, whichever writers it is given.
LEMMA RemovalKeepsInv ==
    ASSUME WriterInv, NEW found \in SUBSET writers, RemoveFound(found),
           UNCHANGED <<connects, ios>>
    PROVE  WriterInv'
BY DEF WriterInv, WriterTypes, OneOwner, NoIdentityStuck, CheckedOutOnce, RemoveFound

\* insert keeps it, for a peer without a writer and a socket nobody refers to.
LEMMA InsertKeepsInv ==
    ASSUME WriterInv, NEW key, key \notin nodeIdentityKeys, UnusedSockets # {}, Insert(key),
           UNCHANGED ios,
           \A c \in connects : c \notin connects' => c.key = key,
           \A c \in connects' : c \in connects
    PROVE  WriterInv'
<1> DEFINE s == CHOOSE u \in UnusedSockets : TRUE
           new == [key |-> key, socket |-> s, isAvailable |-> TRUE]
<1>1. s \in UnusedSockets
  OBVIOUS
<1> HIDE DEF s
<1>2. writers' = writers \cup {new} /\ nodeIdentityKeys' = nodeIdentityKeys \cup {key}
      /\ outgoingNodeIdentityKeys' = outgoingNodeIdentityKeys
  BY DEF Insert, s
<1>3. (\A w \in writers : w.socket # s) /\ (\A io \in ios : io.socket # s)
  BY <1>1 DEF UnusedSockets
<1>4. \A w \in writers : w.key # key
  BY DEF WriterInv, NoIdentityStuck
<1>5. new.key = key /\ new.socket = s /\ new.isAvailable = TRUE
      /\ DOMAIN new = {"key", "socket", "isAvailable"}
  OBVIOUS
<1> HIDE DEF new
<1>6. WriterTypes'
  BY Zenon, <1>2, <1>5 DEF WriterInv, WriterTypes
<1>7. OneOwner'
  BY <1>2, <1>3, <1>5 DEF WriterInv, OneOwner
<1>8. NoIdentityStuck'
  BY <1>2, <1>4, <1>5 DEF WriterInv, NoIdentityStuck
<1>9. CheckedOutOnce'
  BY <1>2, <1>3, <1>5 DEF WriterInv, CheckedOutOnce
<1> QED
  BY <1>6, <1>7, <1>8, <1>9 DEF WriterInv

\* A writer that changes its availability keeps its key and its socket.
LEMMA AvailabilityKeepsOwners ==
    ASSUME WriterTypes, OneOwner, NoIdentityStuck, NEW w \in writers, NEW b \in BOOLEAN,
           NEW v, v = [w EXCEPT !.isAvailable = b],
           writers' = (writers \ {w}) \cup {v},
           UNCHANGED <<nodeIdentityKeys, outgoingNodeIdentityKeys, connects>>
    PROVE  /\ v.key = w.key /\ v.socket = w.socket /\ v.isAvailable = b
           /\ DOMAIN v = {"key", "socket", "isAvailable"}
           /\ \A u, x \in writers' : u.socket = x.socket => u = x
           /\ NoIdentityStuck'
<1>1. v.key = w.key /\ v.socket = w.socket /\ v.isAvailable = b
      /\ DOMAIN v = {"key", "socket", "isAvailable"}
  BY DEF WriterTypes
<1>2. \A u, x \in writers' : u.socket = x.socket => u = x
  BY <1>1 DEF OneOwner
<1>3. nodeIdentityKeys' = {u.key : u \in writers'}
  BY <1>1 DEF NoIdentityStuck
<1>4. \A u, x \in writers' : u.key = x.key => u = x
  BY <1>1 DEF NoIdentityStuck
<1>5. NoIdentityStuck'
  BY <1>3, <1>4 DEF NoIdentityStuck
<1> QED
  BY <1>1, <1>2, <1>5

\* A completion, early or by the timeout, frees the writer of its own socket, if
\* that is still there.
LEMMA CompletionKeepsInv ==
    ASSUME WriterInv, NEW io \in ios, io.state = "open", MakeAvailable(io),
           NEW late \in SUBSET {[io EXCEPT !.state = "timedOut"]},
           ios' = (ios \ {io}) \cup late, UNCHANGED connects
    PROVE  WriterInv'
<1> USE DEF WriterInv
<1>1. \A i \in late : i = [socket |-> io.socket, key |-> io.key, state |-> "timedOut"]
  BY DEF WriterTypes
<1>2. \A i \in ios' : i.state = "open" => i \in ios /\ i.socket # io.socket
  BY <1>1 DEF OneOwner
<1>3. \A i \in ios : i.state = "open" /\ i # io => i \in ios'
  OBVIOUS
<1>4. \A i \in ios' : i = [socket |-> i.socket, key |-> i.key, state |-> i.state]
  BY <1>1 DEF WriterTypes
<1>5. \A i, j \in ios' : i.socket = j.socket /\ i.state = "open" /\ j.state = "open" => i = j
  BY <1>2 DEF OneOwner
<1>6. CASE FindStateBySocket(io) = {}
  <2>1. UNCHANGED <<writers, nodeIdentityKeys, outgoingNodeIdentityKeys>>
    BY <1>6 DEF MakeAvailable
  <2>2. \A w \in writers : w.socket # io.socket
    BY <1>6 DEF FindStateBySocket
  <2>3. CheckedOutOnce'
    BY <2>1, <2>2, <1>2, <1>3 DEF CheckedOutOnce
  <2> QED
    BY <2>1, <2>3, <1>4, <1>5 DEF WriterTypes, OneOwner, NoIdentityStuck
<1>7. ASSUME NEW w \in FindStateBySocket(io)
      PROVE  WriterInv'
  <2> DEFINE v == [w EXCEPT !.isAvailable = TRUE]
  <2>1. FindStateBySocket(io) = {w} /\ w \in writers /\ w.socket = io.socket
    BY <1>7 DEF FindStateBySocket, OneOwner
  <2>2. /\ writers' = (writers \ {w}) \cup {v}
        /\ UNCHANGED <<nodeIdentityKeys, outgoingNodeIdentityKeys>>
    BY <2>1 DEF MakeAvailable
  <2>3. /\ v.key = w.key /\ v.socket = w.socket /\ v.isAvailable = TRUE
        /\ DOMAIN v = {"key", "socket", "isAvailable"}
        /\ \A u, x \in writers' : u.socket = x.socket => u = x
        /\ NoIdentityStuck'
    BY Zenon, <2>1, <2>2, AvailabilityKeepsOwners
  <2> HIDE DEF v
  <2>4. WriterTypes'
    BY Zenon, <2>2, <2>3, <1>4 DEF WriterTypes
  <2>5. OneOwner'
    BY <2>3, <1>5 DEF OneOwner
  <2>6. \A u \in writers \ {w} : u.socket # io.socket
    BY <2>1 DEF OneOwner
  <2>7. CheckedOutOnce'
    BY SMTT(30), <2>1, <2>2, <2>3, <2>6, <1>2, <1>3 DEF CheckedOutOnce
  <2> QED
    BY <2>3, <2>4, <2>5, <2>7
<1> QED
  BY <1>6, <1>7

\* pickOne gives an io of an available writer, of which no other io is open.
LEMMA PickOneKeepsInv ==
    ASSUME WriterInv, PickOne
    PROVE  WriterInv'
<1> USE DEF WriterInv
<1>1. PICK w \in writers :
        /\ w.isAvailable
        /\ writers' = (writers \ {w}) \cup {[w EXCEPT !.isAvailable = FALSE]}
        /\ ios' = ios \cup {[socket |-> w.socket, key |-> w.key, state |-> "open"]}
  BY DEF PickOne
<1> DEFINE v == [w EXCEPT !.isAvailable = FALSE]
           io == [socket |-> w.socket, key |-> w.key, state |-> "open"]
<1>2. UNCHANGED <<nodeIdentityKeys, outgoingNodeIdentityKeys, connects>>
  BY DEF PickOne
<1>3. /\ v.key = w.key /\ v.socket = w.socket /\ v.isAvailable = FALSE
      /\ DOMAIN v = {"key", "socket", "isAvailable"}
      /\ \A u, x \in writers' : u.socket = x.socket => u = x
      /\ NoIdentityStuck'
  BY Zenon, <1>1, <1>2, AvailabilityKeepsOwners
<1>4. io.socket = w.socket /\ io.state = "open"
      /\ io = [socket |-> io.socket, key |-> io.key, state |-> io.state]
  OBVIOUS
<1>5. writers' = (writers \ {w}) \cup {v} /\ ios' = ios \cup {io}
  BY <1>1
<1> HIDE DEF v, io
<1>6. \A i \in ios : i.state = "open" => i.socket # w.socket
  BY <1>1 DEF CheckedOutOnce
<1>7. WriterTypes'
  BY Zenon, <1>2, <1>3, <1>4, <1>5 DEF WriterTypes
<1>8. OneOwner'
  BY <1>3, <1>4, <1>5, <1>6 DEF OneOwner
<1>9. CheckedOutOnce'
  BY <1>3, <1>4, <1>5 DEF CheckedOutOnce, OneOwner
<1> QED
  BY <1>3, <1>7, <1>8, <1>9

\* Steps that leave the container alone and neither open nor close an io.
LEMMA OtherIosKeepInv ==
    ASSUME WriterInv, UNCHANGED container,
           \A c \in connects' : c = [key |-> c.key, pc |-> c.pc],
           {c.key : c \in connects} = {c.key : c \in connects'},
           \A i \in ios' : i = [socket |-> i.socket, key |-> i.key, state |-> i.state],
           \A i : i.state = "open" => (i \in ios <=> i \in ios')
    PROVE  WriterInv'
BY DEF WriterInv, WriterTypes, OneOwner, NoIdentityStuck, CheckedOutOnce, container

\* Every step of the writers' users and of their sockets keeps the invariant.
LEMMA WriterStepKeepsInv ==
    ASSUME WriterInv, WriterStep
    PROVE  WriterInv'
<1>1. CASE Accept
  BY <1>1, InsertKeepsInv DEF Accept
<1>2. CASE PickOne
  BY <1>2, PickOneKeepsInv
<1>3. CASE IoError
  <2>1. PICK io \in ios : RemoveFound(FindStateBySocket(io))
    BY <1>3 DEF IoError, RemoveWriter
  <2> QED
    BY <1>3, <2>1, RemovalKeepsInv DEF IoError, FindStateBySocket
<1>4. CASE IoDestroyed
  <2>1. PICK io \in ios :
          /\ io.state \in {"open", "closed"}
          /\ ios' = ios \ {io}
          /\ IF io.state = "open" THEN MakeAvailable(io) ELSE UNCHANGED container
    BY <1>4 DEF IoDestroyed
  <2>2. UNCHANGED connects
    BY <1>4 DEF IoDestroyed
  <2>3. CASE io.state = "open"
    <3>1. ios' = (ios \ {io}) \cup {} /\ MakeAvailable(io)
      BY <2>1, <2>3
    <3> QED
      BY Zenon, <2>2, <2>3, <3>1, CompletionKeepsInv
  <2>4. CASE io.state = "closed"
    BY <2>1, <2>2, <2>4, OtherIosKeepInv DEF WriterInv, WriterTypes
  <2> QED
    BY <2>1, <2>3, <2>4
<1>5. CASE IoTimedOut
  <2>1. PICK io \in ios :
          /\ io.state = "open"
          /\ ios' = (ios \ {io}) \cup {[io EXCEPT !.state = "timedOut"]}
          /\ MakeAvailable(io)
    BY <1>5 DEF IoTimedOut
  <2>2. UNCHANGED connects
    BY <1>5 DEF IoTimedOut
  <2> QED
    BY Zenon, <2>1, <2>2, CompletionKeepsInv
<1>6. CASE IoTimeoutHandler
  <2>1. PICK io \in ios :
          /\ io.state = "timedOut"
          /\ ios' = (ios \ {io}) \cup {[io EXCEPT !.state = "closed"]}
          /\ RemoveFound(FindStateBySocket(io))
    BY <1>6 DEF IoTimeoutHandler, RemoveWriter
  <2>2. UNCHANGED connects
    BY <1>6 DEF IoTimeoutHandler
  <2>3. [io EXCEPT !.state = "closed"]
          = [socket |-> io.socket, key |-> io.key, state |-> "closed"]
    BY DEF WriterInv, WriterTypes
  <2>4. \A i \in ios' : i = [socket |-> i.socket, key |-> i.key, state |-> i.state]
    BY <2>1, <2>3 DEF WriterInv, WriterTypes
  <2>5. \A i : i.state = "open" => (i \in ios <=> i \in ios')
    BY Zenon, <2>1, <2>3
  <2> QED
    BY <2>1, <2>2, <2>4, <2>5
       DEF WriterInv, WriterTypes, OneOwner, NoIdentityStuck, CheckedOutOnce,
           RemoveFound, FindStateBySocket
<1>7. CASE Broadcast
  <2> DEFINE sent == {[socket |-> w.socket, key |-> w.key, state |-> "broadcast"] :
                         w \in {v \in writers : v.isAvailable}}
  <2>1. ios' = ios \cup sent /\ UNCHANGED <<container, connects>>
    BY <1>7 DEF Broadcast
  <2>2. \A i \in sent : /\ i.state = "broadcast"
                        /\ i = [socket |-> i.socket, key |-> i.key, state |-> i.state]
    OBVIOUS
  <2> HIDE DEF sent
  <2> QED
    BY <2>1, <2>2, OtherIosKeepInv DEF WriterInv, WriterTypes
<1>8. CASE BroadcastWritten
  <2>1. PICK io \in ios :
          /\ io.state = "broadcast"
          /\ ios' = ios \ {io}
          /\ UNCHANGED container \/ RemoveFound(FindStateBySocket(io))
    BY <1>8 DEF BroadcastWritten, RemoveWriter
  <2>2. UNCHANGED connects
    BY <1>8 DEF BroadcastWritten
  <2>3. CASE UNCHANGED container
    BY SMTT(30), <2>1, <2>2, <2>3, OtherIosKeepInv DEF WriterInv, WriterTypes
  <2>4. CASE RemoveFound(FindStateBySocket(io))
    <3>1. \A i : i.state = "open" => (i \in ios <=> i \in ios')
      BY <2>1
    <3> QED
      BY SMTT(30), <2>1, <2>2, <2>4, <3>1
         DEF WriterInv, WriterTypes, OneOwner, NoIdentityStuck, CheckedOutOnce,
             RemoveFound, FindStateBySocket
  <2> QED
    BY <2>1, <2>3, <2>4
<1> QED
  BY SMTT(30), <1>1, <1>2, <1>3, <1>4, <1>5, <1>6, <1>7, <1>8 DEF WriterStep

\* Connecting, in any order with the rest, keeps it: the key stays reserved from
\* prepareConnect until the writer is there or the attempt is aborted.
LEMMA ConnectStepKeepsInv ==
    ASSUME WriterInv, ConnectStep
    PROVE  WriterInv'
<1>1. ASSUME NEW key, StartConnect(key), UNCHANGED ios
      PROVE  WriterInv'
  <2> DEFINE new == [key |-> key, pc |-> "connecting"]
  <2>1. new.key = key /\ new = [key |-> new.key, pc |-> new.pc]
    OBVIOUS
  <2> HIDE DEF new
  <2>2. /\ connects' = connects \cup {new}
        /\ outgoingNodeIdentityKeys' = outgoingNodeIdentityKeys \cup {key}
        /\ UNCHANGED <<writers, nodeIdentityKeys, ios>>
    BY <1>1 DEF StartConnect, new
  <2>3. WriterTypes' /\ OneOwner' /\ CheckedOutOnce'
    BY <2>1, <2>2 DEF WriterInv, WriterTypes, OneOwner, CheckedOutOnce
  <2>4. NoIdentityStuck'
    BY <2>1, <2>2 DEF WriterInv, NoIdentityStuck
  <2> QED
    BY <2>3, <2>4 DEF WriterInv
<1>2. ASSUME NEW connect \in connects, ConnectAccepted(connect)
      PROVE  WriterInv'
  BY <1>2, InsertKeepsInv DEF ConnectAccepted
<1>3. ASSUME NEW connect \in connects, ConnectRefused(connect)
      PROVE  WriterInv'
  <2>1. connects' = (connects \ {connect}) \cup {[connect EXCEPT !.pc = "aborting"]}
        /\ UNCHANGED <<container, ios>>
    BY <1>3 DEF ConnectRefused
  <2>2. [connect EXCEPT !.pc = "aborting"] = [key |-> connect.key, pc |-> "aborting"]
    BY DEF WriterInv, WriterTypes
  <2>3. {c.key : c \in connects} = {c.key : c \in connects'}
    <3> DEFINE aborting == [connect EXCEPT !.pc = "aborting"]
    <3>1. aborting.key = connect.key
      BY <2>2
    <3> HIDE DEF aborting
    <3>2. connects' = (connects \ {connect}) \cup {aborting}
      BY <2>1 DEF aborting
    <3> QED
      BY <3>1, <3>2
  <2> QED
    BY <2>1, <2>2, <2>3, OtherIosKeepInv DEF WriterInv, WriterTypes
<1>4. ASSUME NEW connect \in connects, AbortConnect(connect)
      PROVE  WriterInv'
  BY <1>4 DEF AbortConnect, WriterInv, WriterTypes, OneOwner, NoIdentityStuck, CheckedOutOnce
<1> QED
  BY <1>1, <1>2, <1>3, <1>4 DEF ConnectStep

\* The invariant of the packet writers is inductive.
LEMMA WriterNextKeepsInv == WriterInv /\ [WriterNext]_writerVars => WriterInv'
<1> SUFFICES ASSUME WriterInv, [WriterNext]_writerVars PROVE WriterInv'
  OBVIOUS
<1>1. CASE WriterStep
  BY <1>1, WriterStepKeepsInv
<1>2. CASE ConnectStep
  BY <1>2, ConnectStepKeepsInv
<1>3. CASE CloseStep
  BY <1>3, RemovalKeepsInv DEF CloseStep, Close, FindStateByKey
<1>4. CASE UNCHANGED writerVars
  BY <1>4 DEF writerVars, container, WriterInv, WriterTypes, OneOwner, NoIdentityStuck,
              CheckedOutOnce
<1> QED
  BY <1>1, <1>2, <1>3, <1>4 DEF WriterNext

-------------------------------------------------------------------------------
\* A step of the connect peers task, of a node discovery or of a socket is a step
\* of the packet writers or leaves them alone.
LEMMA NextIsWriterNext == [Next]_vars => [WriterNext]_writerVars
<1> SUFFICES ASSUME [Next]_vars PROVE [WriterNext]_writerVars
  BY SMTT(30)
<1>1. CASE AddNode \/ ReadIdentities \/ AgeNodes \/ SelectNodes
           \/ UpdateInteractions \/ UpdateInteractionsThrows
  BY Zenon, <1>1 DEF AddNode, ReadIdentities, AgeNodes, SelectNodes, UpdateInteractions,
              UpdateInteractionsThrows
<1>2. CASE CloseOne
  BY <1>2 DEF CloseOne, WriterNext, CloseStep
<1>3. CASE Connect
  BY Zenon, <1>3 DEF Connect, WriterNext, ConnectStep
<1>4. CASE ConnectCallback
  BY Zenon, <1>4 DEF ConnectCallback, WriterNext, ConnectStep
<1>5. CASE WriterStep
  BY <1>5 DEF WriterNext
<1>6. CASE UNCHANGED vars
  BY <1>6 DEF vars
<1> QED
  BY SMTT(30), <1>1, <1>2, <1>3, <1>4, <1>5, <1>6 DEF Next, TaskStep

\* The writers' invariant holds throughout the composed system.
LEMMA WriterInvHolds == Spec => []WriterInv
<1>1. Init => WriterInv
  BY WritersInitially DEF Init
<1>2. WriterInv /\ [Next]_vars => WriterInv'
  BY NextIsWriterNext, WriterNextKeepsInv
<1> QED
  BY <1>1, <1>2, PTL DEF Spec

\* For any peers, sockets, bounds and discovered nodes: no identity stays
\* reserved after its connection is gone (prepareConnect, insert, abortConnect
\* and remove of PacketWriters.cpp).
THEOREM IdentitiesReleased == Spec => []NoIdentityStuck
<1>1. WriterInv => NoIdentityStuck
  BY DEF WriterInv
<1> QED
  BY <1>1, WriterInvHolds, PTL

\* For any peers, sockets, bounds and discovered nodes: a writer is unavailable
\* exactly while one io of its own socket is open, however late the callbacks of
\* other sockets come (pickOne and makeAvailable of PacketWriters.cpp).
THEOREM CheckOutsExclusive == Spec => []CheckedOutOnce
<1>1. WriterInv => CheckedOutOnce
  BY DEF WriterInv
<1> QED
  BY <1>1, WriterInvHolds, PTL
===============================================================================
