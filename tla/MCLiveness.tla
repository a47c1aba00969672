---------------------------- MODULE MCLiveness ----------------------------
(***************************************************************************)
(* What must eventually happen, component by component in one run: part    *)
(* says which component a behaviour is of, and each has the fairness its   *)
(* own specification states. BoardRuntime keeps its own variables; v1, v2, *)
(* ... are those of the other components.                                  *)
(***************************************************************************)
EXTENDS BoardRuntime

VARIABLES
    part, v1, v2, v3, v4, v5, v6, v7, v8, v9, v10, v11, v12, v13, v14, v15, v16,
    v17, v18, v19, v20

Places == <<v1, v2, v3, v4, v5, v6, v7, v8, v9, v10, v11, v12, v13, v14, v15, v16,
            v17, v18, v19, v20>>

\* The extended component at rest, while another one is checked.
Resting == Init /\ bridge = SafeBridge /\ rail = FALSE

Power == INSTANCE PowerTask WITH
    Callers <- {"c1"}, PowerOwners <- {"OTA"}, QueueLength <- 1, CoolTime <- 1,
    Scenarios <- {[callers |-> {"c1"}, calls |-> 3, around |-> {"io"}]},
    policy <- v1, task <- v2, requests <- v3, callers <- v4, stopEpoch <- v5,
    accepted <- v6, maintenance <- v7, fanAllowed <- v8, recovering <- v9,
    ioLock <- v10, ready <- v11, pools <- v12, hwFault <- v13, marker <- v14,
    patch <- v15, rail <- v16, budget <- v17, pausedAt <- v18, resumedAt <- v19,
    lost <- v20

Stratum == INSTANCE Coordinator WITH
    Pools <- {0, 1}, V2Pools <- {1}, MaxRetries <- 2, MaxEvents <- 2,
    MaxBeats <- 2, selected <- v1, filled <- v2, usingFallback <- v3, flag <- v4,
    runningIdx <- v5, unavailable <- v6, task <- v7, socket <- v8,
    heartbeat <- v9, request <- v10, network <- v11, beats <- v12, events <- v13

------------------------------------------------------------------------------
\* The places that a component of k variables leaves alone.
Unused0 == v1 = 0 /\ v2 = 0 /\ v3 = 0 /\ v4 = 0 /\ v5 = 0 /\ v6 = 0 /\ v7 = 0 /\
    v8 = 0 /\ v9 = 0 /\ v10 = 0 /\ v11 = 0 /\ v12 = 0 /\ v13 = 0 /\ v14 = 0 /\
    v15 = 0 /\ v16 = 0 /\ v17 = 0 /\ v18 = 0 /\ v19 = 0 /\ v20 = 0
Unused13 == v14 = 0 /\ v15 = 0 /\ v16 = 0 /\ v17 = 0 /\ v18 = 0 /\ v19 = 0 /\
    v20 = 0
Unused20 == TRUE

Rest0 == UNCHANGED <<part, v1, v2, v3, v4, v5, v6, v7, v8, v9, v10, v11, v12, v13,
    v14, v15, v16, v17, v18, v19, v20>>
Rest13 == UNCHANGED <<part, v14, v15, v16, v17, v18, v19, v20, vars>>
Rest20 == UNCHANGED <<part, vars>>

MCInit ==
    \/ part = "board" /\ Init /\ Unused0
    \/ part = "power" /\ Power!Init /\ Unused20 /\ Resting
    \/ part = "pools" /\ Stratum!Init /\ Unused13 /\ Resting

MCNext ==
    \/ part = "board" /\ Next /\ Rest0
    \/ part = "power" /\ Power!Next /\ Rest20
    \/ part = "pools" /\ Stratum!Next /\ Rest13

all == <<part, Places, vars>>

MCSpec == MCInit /\ [][MCNext]_all
    /\ SF_all(part = "power" /\ Power!Task /\ Rest20)
    /\ WF_all(part = "power" /\ Power!IoEnd /\ Rest20)
    /\ WF_all(part = "board" /\ BoardIo /\ Rest0)
    /\ WF_all(part = "board" /\ Tick /\ Rest0)
    /\ WF_all(part = "board" /\ Checkpoint /\ Rest0)
    /\ WF_all(part = "pools" /\ Stratum!CoordinatorStep /\ Rest13)
    /\ WF_all(part = "pools" /\ Stratum!HeartbeatStep /\ Rest13)
    /\ WF_all(part = "pools" /\ Stratum!ServerStep /\ Rest13)

------------------------------------------------------------------------------
\* Every wish to stop is met, even one whose request never reached the mailbox:
\* the board is verified off for good, or a fault is latched, unless a newer
\* resume withdraws the wish (PowerTask).
StopTakesEffect ==
    (part = "power" /\ Power!StopRequested) ~> (part = "power" /\ Power!StopMet)

\* No caller of the power task waits for ever, even one that never gives up.
CallsAnswered ==
    (part = "power" /\ Power!Unanswered("c1")) ~> (part = "power" /\ ~Power!Unanswered("c1"))

\* Whatever failed, was edited or came back in between, a client receives work
\* from a reachable pool again and again as long as one of the selected pools can
\* be reached (Coordinator).
ClientReturns ==
    <>[](part = "pools" => Stratum!Reachable) => []<>(part = "pools" => Stratum!Mining)
==============================================================================
