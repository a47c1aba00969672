----------------------------- MODULE Coordinator -----------------------------
(***************************************************************************)
(* The choice of the pool (stratum_task.c): the coordinator task runs one   *)
(* client at a time and falls back, waits out an outage and recovers; the   *)
(* heartbeat task looks for the primary pool while the fallback runs; the   *)
(* web server edits and selects pools (http_server.c, system.c).            *)
(*                                                                         *)
(* The three tasks share plain variables: the selection, is_using_fallback, *)
(* s_should_reconnect and s_running_pool_idx. Every read that is used       *)
(* after another task may have run is a step of its own.                    *)
(***************************************************************************)
EXTENDS Integers, FiniteSets

CONSTANTS Pools,       \* pool slots, 0 .. MAX_POOLS - 1
          V2Pools,     \* the ones that speak Stratum V2
          MaxRetries,  \* MAX_RETRY_ATTEMPTS
          MaxEvents,   \* bound: user requests and changes of the network
          MaxBeats     \* bound: heartbeats that find the primary pool (one a minute, so
                       \* that they cannot meet every attempt of the coordinator)

VARIABLES
    selected,      \* primary_pool_index, secondary_pool_index, use_fallback_stratum
    filled,        \* pools whose url is not empty
    usingFallback, \* is_using_fallback
    flag,          \* s_should_reconnect
    runningIdx,    \* s_running_pool_idx
    unavailable,   \* pools_unavailable
    task,          \* the coordinator: its place and its local variables
    socket,        \* the published transport: "none", "open" or "shut"
    heartbeat,     \* place of stratum_heartbeat_task
    request,       \* the request the web server handles
    network,       \* wifi_is_connected, mining_paused, the pools that answer, and
                   \* those that refuse the setup (no version rolling, no authority key)
    beats,         \* heartbeats that found the primary pool so far
    events         \* user requests and network changes so far

vars == <<selected, filled, usingFallback, flag, runningIdx, unavailable, task,
          socket, heartbeat, request, network, beats, events>>
shared == <<selected, filled, network, beats, events>>

None == "none"
Idle == [pc |-> "idle", modified |-> {}, selection |-> FALSE]

TypeOK ==
    /\ selected \in [prim : Pools, sec : Pools, fallback : BOOLEAN]
    /\ filled \subseteq Pools
    /\ usingFallback \in BOOLEAN /\ flag \in BOOLEAN /\ unavailable \in BOOLEAN
    /\ runningIdx \in Pools
    /\ task \in [pc : {"top", "honour", "outage", "start", "connect", "running", "finish"},
                 prim : Pools, sec : Pools, hasFallback : BOOLEAN, failures : 0 .. 2,
                 retries : 0 .. MaxRetries - 1, ok : BOOLEAN, work : BOOLEAN]
    /\ socket \in {"none", "open", "shut"}
    /\ heartbeat \in {"asleep", "found", "switched", "requested"}
    /\ request \in [pc : {"idle", "notify", "requested"}, modified : SUBSET Pools,
                    selection : BOOLEAN]
    /\ network \in [wifi : BOOLEAN, paused : BOOLEAN, up : SUBSET Pools, refusing : SUBSET Pools]
    /\ beats \in 0 .. MaxBeats /\ events \in 0 .. MaxEvents

Init ==
    /\ \E p, s \in Pools : selected = [prim |-> p, sec |-> s, fallback |-> FALSE] /\ p # s
    /\ filled \in {{selected.prim}, Pools}
    /\ usingFallback = FALSE /\ flag = FALSE /\ unavailable = FALSE
    /\ runningIdx = 0
    /\ task = [pc |-> "top", prim |-> 0, sec |-> 0, hasFallback |-> FALSE, failures |-> 0,
               retries |-> 0, ok |-> FALSE, work |-> FALSE]
    /\ socket = "none"
    /\ heartbeat = "asleep"
    /\ request = Idle
    /\ network = [wifi |-> TRUE, paused |-> FALSE, up |-> Pools, refusing |-> {}]
    /\ beats = 0 /\ events = 0

(***************************************************************************)
(* Reaching a pool                                                          *)
(***************************************************************************)
\* stratum_socket_resolve: the address as written, or whatever the name server says.
SocketResolve == network.wifi

\* A V1 pool has to answer a subscription, a V2 pool the handshake and the setup message.
V1ProbePool(p) == SocketResolve /\ p \in network.up
V2ProbePool(p) == SocketResolve /\ p \in network.up /\ p \notin network.refusing

ProbePool(p) == p \in filled /\ IF p \in V2Pools THEN V2ProbePool(p) ELSE V1ProbePool(p)

Target == IF usingFallback THEN selected.sec ELSE selected.prim

(***************************************************************************)
(* stratum_request_reconnect: the flag first, then, under the transport     *)
(* mutex, a shutdown of the socket there is.                                *)
(***************************************************************************)
ShutSocket == socket' = IF socket = "open" THEN "shut" ELSE socket

(***************************************************************************)
(* stratum_task                                                             *)
(***************************************************************************)
At(place) == [task EXCEPT !.pc = place]

\* The loop waits while mining is paused or the network is away, then takes the
\* selection into local variables.
PickPools ==
    /\ task.pc = "top" /\ ~network.paused /\ network.wifi
    /\ task' = [At("honour") EXCEPT !.prim = selected.prim, !.sec = selected.sec,
                                    !.hasFallback = selected.sec \in filled]
    /\ UNCHANGED <<shared, usingFallback, flag, runningIdx, unavailable, socket,
                   heartbeat, request>>

Threshold == IF task.hasFallback THEN 2 ELSE 1

\* A request that is seen starts the counting again.
HonourRequest ==
    LET failures == IF flag THEN 0 ELSE task.failures
    IN /\ task.pc = "honour"
       /\ flag' = FALSE
       /\ usingFallback' = IF failures = 0 /\ selected.fallback THEN task.hasFallback
                           ELSE usingFallback
       /\ unavailable' = (unavailable \/ failures >= Threshold)
       /\ task' = [At(IF failures >= Threshold THEN "outage" ELSE "start")
                     EXCEPT !.failures = failures, !.retries = IF flag THEN 0 ELSE @]
       /\ UNCHANGED <<shared, runningIdx, socket, heartbeat, request>>

\* Mutant: the count of failures survives the recovery.
RecoveredCounting == At("top")

Recovered == [At("top") EXCEPT !.failures = 0, !.retries = 0]

\* After RECOVERY_PROBE_INTERVAL_MS, the preferred pool and then the other one; the
\* probes, which take seconds, and the switch to the pool that answered are one step.
RecoveryProbe ==
    LET prefer == selected.fallback /\ task.hasFallback
        first == IF prefer THEN task.sec ELSE task.prim
        second == IF prefer THEN task.prim ELSE task.sec
        found == IF ProbePool(first) THEN {first}
                 ELSE IF task.hasFallback /\ ProbePool(second) THEN {second} ELSE {}
    IN /\ task.pc = "outage"
       /\ \/ \E p \in found : /\ unavailable' = FALSE
                              /\ usingFallback' = (p = task.sec)
                              /\ task' = Recovered
          \/ found = {} /\ task' = At("top") /\ UNCHANGED <<unavailable, usingFallback>>
       /\ UNCHANGED <<shared, flag, runningIdx, socket, heartbeat, request>>

StartClient ==
    /\ task.pc = "start"
    /\ runningIdx' = IF usingFallback THEN task.sec ELSE task.prim
    /\ task' = [At("connect") EXCEPT !.ok = FALSE, !.work = FALSE]
    /\ flag' = FALSE
    /\ UNCHANGED <<shared, usingFallback, unavailable, socket, heartbeat, request>>

\* stratum_v1_run and stratum_v2_run: one attempt to connect, then the receive loop.
Connect ==
    /\ task.pc = "connect"
    /\ IF ProbePool(runningIdx)
       THEN socket' = "open" /\ task' = At("running")
       ELSE socket' = socket /\ task' = At("finish")
    /\ UNCHANGED <<shared, usingFallback, flag, runningIdx, unavailable, heartbeat, request>>

ReceiveWork ==
    /\ task.pc = "running" /\ socket = "open" /\ runningIdx \in network.up /\ ~task.work
    /\ task' = [task EXCEPT !.work = TRUE]
    /\ UNCHANGED <<shared, usingFallback, flag, runningIdx, unavailable, socket,
                   heartbeat, request>>

\* The loop ends, for the better on a pause or a request, or because reading failed.
LeaveClient ==
    /\ task.pc = "running"
    /\ \/ network.paused \/ flag
       \/ socket = "shut" \/ runningIdx \notin network.up \/ ~network.wifi
    /\ task' = [At("finish") EXCEPT !.ok = network.paused \/ flag]
    /\ socket' = "none"
    /\ UNCHANGED <<shared, usingFallback, flag, runningIdx, unavailable, heartbeat, request>>

\* A clean end, or one after work was received, forgets the failures and the outage.
FinishWell ==
    /\ task.pc = "finish" /\ (task.ok \/ flag \/ task.work)
    /\ unavailable' = FALSE
    /\ task' = Recovered
    /\ flag' = FALSE
    /\ UNCHANGED <<shared, usingFallback, runningIdx, socket, heartbeat, request>>

\* MAX_RETRY_ATTEMPTS failures count against the pool, and the other one is tried.
FinishBadly ==
    LET last == task.retries + 1 >= MaxRetries
    IN /\ task.pc = "finish" /\ ~(task.ok \/ flag \/ task.work)
       /\ task' = IF last THEN [At("top") EXCEPT !.failures = @ + 1, !.retries = 0]
                  ELSE [At("top") EXCEPT !.retries = @ + 1]
       /\ usingFallback' = IF last /\ task.hasFallback THEN ~usingFallback ELSE usingFallback
       /\ UNCHANGED <<shared, flag, runningIdx, unavailable, socket, heartbeat, request>>

(***************************************************************************)
(* stratum_heartbeat_task: woken every minute, or at once by a request.     *)
(***************************************************************************)
HeartbeatProbe ==
    /\ heartbeat = "asleep"
    /\ usingFallback /\ ~selected.fallback /\ network.wifi /\ ProbePool(selected.prim)
    /\ heartbeat' = "found"
    /\ beats < MaxBeats /\ beats' = beats + 1
    /\ UNCHANGED <<selected, filled, network, events, usingFallback, flag, runningIdx, unavailable, task, socket, request>>

HeartbeatSwitch ==
    /\ heartbeat = "found"
    /\ usingFallback' = FALSE
    /\ heartbeat' = "switched"
    /\ UNCHANGED <<shared, flag, runningIdx, unavailable, task, socket, request>>

HeartbeatRequest ==
    /\ heartbeat = "switched"
    /\ flag' = TRUE
    /\ heartbeat' = "requested"
    /\ UNCHANGED <<shared, usingFallback, runningIdx, unavailable, task, socket, request>>

HeartbeatShut ==
    /\ heartbeat = "requested"
    /\ ShutSocket
    /\ heartbeat' = "asleep"
    /\ UNCHANGED <<shared, usingFallback, flag, runningIdx, unavailable, task, request>>

(***************************************************************************)
(* The web server changes the pools, then tells the coordinator.            *)
(***************************************************************************)
Event == events < MaxEvents /\ events' = events + 1

\* PUT /api/system/pool: update_pool_nvs loads the slot again.
PutPool(p) ==
    /\ request = Idle /\ Event
    /\ filled' = filled \union {p}
    /\ request' = [pc |-> "notify", modified |-> {p}, selection |-> FALSE]
    /\ UNCHANGED <<selected, usingFallback, flag, runningIdx, unavailable, task, socket,
                   heartbeat, network, beats>>

\* DELETE refuses a pool that is selected, and tells nobody.
DeletePool(p) ==
    /\ request = Idle /\ Event
    /\ p \notin {selected.prim, selected.sec} /\ p \in filled
    /\ filled' = filled \ {p}
    /\ UNCHANGED <<selected, usingFallback, flag, runningIdx, unavailable, task, socket,
                   heartbeat, request, network, beats>>

\* PATCH /api/system with the selection: SYSTEM_reload_pool_config.  The reload of the
\* pools and the write of is_using_fallback are one step, and a choice of the fallback
\* counts as given when it differs from the stored one.
SelectPools(p, s, fallback) ==
    /\ request = Idle /\ Event
    /\ selected' = [prim |-> p, sec |-> s, fallback |-> fallback]
    /\ usingFallback' = IF fallback # selected.fallback THEN fallback
                        ELSE IF p # selected.prim /\ ~fallback THEN FALSE ELSE usingFallback
    /\ request' = [pc |-> "notify", modified |-> {}, selection |-> TRUE]
    /\ UNCHANGED <<filled, flag, runningIdx, unavailable, task, socket, heartbeat, network, beats>>

NotifyPoolModified == runningIdx \in request.modified
NotifyPoolSelectionChanged == request.selection /\ Target # runningIdx

Notify ==
    /\ request.pc = "notify"
    /\ IF NotifyPoolModified \/ NotifyPoolSelectionChanged
       THEN flag' = TRUE /\ request' = [request EXCEPT !.pc = "requested"]
       ELSE flag' = flag /\ request' = Idle
    /\ UNCHANGED <<shared, usingFallback, runningIdx, unavailable, task, socket, heartbeat>>

RequestShut ==
    /\ request.pc = "requested"
    /\ ShutSocket
    /\ request' = Idle
    /\ UNCHANGED <<shared, usingFallback, flag, runningIdx, unavailable, task, heartbeat>>

(***************************************************************************)
(* The surroundings                                                         *)
(***************************************************************************)
NetworkChanges ==
    /\ Event
    /\ \/ network' = [network EXCEPT !.wifi = ~@]
       \/ network' = [network EXCEPT !.paused = ~@]
       \/ \E p \in Pools : network' = [network EXCEPT !.up = (@ \ {p}) \union ({p} \ @)]
       \/ network' = [network EXCEPT !.refusing = V2Pools \ @]
    /\ UNCHANGED <<selected, filled, usingFallback, flag, runningIdx, unavailable, task,
                   socket, heartbeat, request, beats>>

CoordinatorStep ==
    \/ PickPools \/ HonourRequest \/ RecoveryProbe \/ StartClient
    \/ Connect \/ ReceiveWork \/ LeaveClient \/ FinishWell \/ FinishBadly
HeartbeatStep == HeartbeatProbe \/ HeartbeatSwitch \/ HeartbeatRequest \/ HeartbeatShut
ServerStep == Notify \/ RequestShut

Next ==
    \/ CoordinatorStep \/ HeartbeatStep \/ ServerStep \/ NetworkChanges
    \/ \E p \in Pools : PutPool(p) \/ DeletePool(p)
    \/ \E p, s \in Pools, fallback \in BOOLEAN : SelectPools(p, s, fallback)

\* FreeRTOS schedules the three tasks; every wait of theirs has a time-out.
Fairness == WF_vars(CoordinatorStep) /\ WF_vars(HeartbeatStep) /\ WF_vars(ServerStep)

Spec == Init /\ [][Next]_vars /\ Fairness

(***************************************************************************)
(* Properties                                                               *)
(***************************************************************************)
Mining == task.pc = "running" /\ task.work /\ runningIdx \in network.up
Reachable == ~network.paused /\ network.wifi
                /\ \E p \in {selected.prim, selected.sec} : ProbePool(p)

\* Whatever failed, was edited or came back in between, a client receives work from a
\* reachable pool again and again as long as one of the selected pools can be reached:
\* the fallback, the outage and the recovery probes of stratum_task lose no pool for good.
ClientReturns == <>[]Reachable => []<>Mining

\* stratum_task.h says a request makes the active client reconnect when the settings
\* change. So once the web server and the heartbeat have finished, no request is
\* pending and the socket is untouched, the client runs the pool that is selected.
RunsSelectedPool ==
    task.pc = "running" /\ ~flag /\ socket = "open" /\ request = Idle /\ heartbeat = "asleep"
        => runningIdx = Target

\* power-management.md: an outage of all pools stops mining, which restarts after the
\* pools recover. So a client that receives work ends the outage.
RestartsAfterRecovery == Mining ~> (~unavailable \/ ~Mining)
=============================================================================
