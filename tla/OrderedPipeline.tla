--------------------------- MODULE OrderedPipeline ----------------------------
(***************************************************************************)
(* What a dispatcher of consumers promises (ConsumerDispatcher.h): the     *)
(* accepted inputs pass the levels in the order of their ids, a level is   *)
(* given an input once and only when no earlier level has aborted it, and  *)
(* every accepted input is completed once, in order, with its result.      *)
(* There is no ring, no lock, no barrier and no bound here.                *)
(***************************************************************************)
EXTENDS Naturals, Sequences

CONSTANTS NumConsumers, MaxElements

VARIABLES
    accepted,       \* number of accepted inputs; their ids are 1 .. accepted
    delivered,      \* per level, the ids its consumer was called with
    rejecter,       \* the level that aborted an id, or NumConsumers
    completed       \* the results reported, in the order of the reports

vars == <<accepted, delivered, rejecter, completed>>

Levels == 0 .. NumConsumers - 1

Init ==
    /\ accepted = 0
    /\ delivered = [l \in Levels |-> <<>>]
    /\ rejecter = [id \in 1 .. MaxElements |-> NumConsumers]
    /\ completed = <<>>

\* The consumer of level l was called with id.
Delivered(l, id) == \E n \in 1 .. Len(delivered[l]) : delivered[l][n] = id

\* Level l has nothing left to do with id.
Passed(l, id) == Delivered(l, id) \/ rejecter[id] < l

\* An input is accepted and gets the next id.
Accept ==
    /\ accepted < MaxElements
    /\ accepted' = accepted + 1
    /\ UNCHANGED <<delivered, rejecter, completed>>

\* Level l is given the first input it has not passed, after the levels below.
Deliver(l) ==
    \E id \in 1 .. accepted :
        /\ ~Passed(l, id)
        /\ \A k \in 0 .. l - 1 : Passed(k, id)
        /\ \A earlier \in 1 .. id - 1 : Passed(l, earlier)
        /\ delivered' = [delivered EXCEPT ![l] = Append(@, id)]
        /\ UNCHANGED <<accepted, rejecter, completed>>

\* Level l aborts the input it was given last, before any later level sees it.
Reject(l) ==
    /\ delivered[l] # <<>>
    /\ LET id == delivered[l][Len(delivered[l])] IN
        /\ rejecter[id] = NumConsumers
        /\ \A k \in l + 1 .. NumConsumers - 1 : ~Delivered(k, id)
        /\ id > Len(completed)
        /\ rejecter' = [rejecter EXCEPT ![id] = l]
        /\ UNCHANGED <<accepted, delivered, completed>>

\* The first input that is not completed has passed every level.
Complete ==
    LET id == Len(completed) + 1 IN
    /\ id <= accepted
    /\ \A l \in Levels : Passed(l, id)
    /\ completed' = Append(completed,
           [id |-> id,
            status |-> IF rejecter[id] \in Levels THEN "Aborted" ELSE "Normal"])
    /\ UNCHANGED <<accepted, delivered, rejecter>>

Next == Accept \/ Complete \/ \E l \in Levels : Deliver(l) \/ Reject(l)

Spec == Init /\ [][Next]_vars

\* Every accepted input is completed (ConsumerDispatcher::processElement:
\* "Once the processing of the input is complete, processingComplete will be
\* called").
EveryInputCompletes ==
    \A id \in 1 .. MaxElements : accepted >= id ~> Len(completed) >= id

=============================================================================
