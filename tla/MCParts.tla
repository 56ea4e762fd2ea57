------------------------------ MODULE MCParts ------------------------------
(***************************************************************************)
(* Three parts that the rest of the system stands on, each explored on its *)
(* own: they share no state, so a behaviour takes the steps of one of them *)
(* and leaves the others in their initial state.                           *)
(***************************************************************************)
EXTENDS MPSCQueue, ThreadPool, Connection, TLC

CONSTANTS p1, p2

\* One producer enqueues twice, so that it meets its own retired nodes.
Items == p1 :> 2 @@ p2 :> 1

VARIABLE part   \* the part that runs

partsVars == <<part, queueVars, poolVars, connVars>>

PartsInit ==
    /\ part \in {"queue", "pool", "connection"}
    /\ QueueInit /\ PoolInit /\ ConnInit

PartsNext ==
    /\ \/ part = "queue" /\ QueueNext /\ UNCHANGED <<poolVars, connVars>>
       \/ part = "pool" /\ PoolNext /\ UNCHANGED <<queueVars, connVars>>
       \/ part = "connection" /\ ConnNext /\ UNCHANGED <<queueVars, poolVars>>
    /\ UNCHANGED part

\* QueueFairness, PoolFairness and ConnFairness, each for its own part.
PartsFairness ==
    /\ \A p \in Producers : WF_queueVars(part = "queue" /\ Producer(p))
    /\ WF_queueVars(part = "queue" /\ Consumer)
    /\ \A w \in Workers : WF_poolVars(part = "pool" /\ Worker(w))
    /\ WF_poolVars(part = "pool" /\ Waiter)
    /\ WF_connVars(part = "connection" /\ Gui)
    /\ WF_connVars(part = "connection" /\ Net)
    /\ WF_connVars(part = "connection" /\ Handle)
    /\ \A k \in Conn : WF_connVars(part = "connection" /\ Io(k))

PartsSpec == PartsInit /\ [][PartsNext]_partsVars /\ PartsFairness
=============================================================================
