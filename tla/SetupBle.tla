----------------------------- MODULE SetupBle -----------------------------
(***************************************************************************)
(* Provisioning over Bluetooth.  While the setup access point is up and    *)
(* there is no Wi-Fi the main task keeps a GATT service running; a client  *)
(* writes fields into RAM, and the command APPLY stores the written ones.  *)
(* Everything the client does runs on the NimBLE host task, while the main *)
(* task starts and stops the service.                                      *)
(***************************************************************************)
EXTENDS Integers

CONSTANTS MaxWrites, MaxBoots, MaxLinks     \* bounds: what the client does, restarts

\* The fields a client writes; a pool URL may carry a port of its own.
Fields == {"ssid", "url", "port"}
Values == [ssid |-> {"ssid1"}, url |-> {"host", "host:urlport"}, port |-> {"port1", "bad"}]

VARIABLES
    pc,         \* the main task: waiting, starting, started, connected
    host,       \* the NimBLE host task runs
    started,    \* setup_ble_started
    synced,     \* setup_ble_synced
    air,        \* advertising, linked or idle
    ram,        \* setup_ble_state: the fields
    written,    \* setup_ble_state.written
    status,
    nvs,        \* the stored settings
    restart,    \* setup_ble_restart_task exists
    network,    \* ap_enabled, is_connected
    told,       \* what the client wrote since the last APPLY that was confirmed,
    confirmed,  \* and whether this one was
    deaf,       \* advertising was refused, or an event came before started was set
    count       \* writes, boots, links so far

vars == <<pc, host, started, synced, air, ram, written, status, nvs, restart,
          network, told, confirmed, deaf, count>>
radio == <<pc, host, started, synced, air, network, deaf>>

----------------------------------------------------------------------------
(* The settings a client writes                                            *)

\* setup_ble_load_current_config: the fields show what is stored.
setup_ble_load_current_config ==
    /\ ram' = nvs
    /\ written' = {}
    /\ status' = "READY"

setup_ble_parse_port(value) == value # "bad"

\* The stored pool after the URL: a port in it counts unless one was written.
setup_ble_apply_pool_url(pool) ==
    [pool EXCEPT !.url = "host",
                 !.port = IF ram.url = "host:urlport" /\ "port" \notin written
                          THEN "urlport" ELSE @]

\* The fields the client wrote, over what is stored.
ApplyWritten ==
    LET named == [nvs EXCEPT !.ssid = IF "ssid" \in written THEN ram.ssid ELSE @]
        addressed == IF "url" \in written THEN setup_ble_apply_pool_url(named) ELSE named
    IN [addressed EXCEPT !.port = IF "port" \in written THEN ram.port ELSE @]

\* Mutant: a refused APPLY forgets which fields were written.
setup_ble_apply_config_forgetting ==
    IF "port" \in written /\ ~setup_ble_parse_port(ram.port)
    THEN status' = "ERROR_INVALID_POOL_PORT" /\ written' = {} /\ UNCHANGED nvs
    ELSE nvs' = ApplyWritten /\ status' = "APPLIED" /\ written' = {}

setup_ble_apply_config ==
    \/ /\ "port" \in written /\ ~setup_ble_parse_port(ram.port)
       /\ status' = "ERROR_INVALID_POOL_PORT"
       /\ UNCHANGED <<nvs, written>>
    \/ /\ "port" \notin written \/ setup_ble_parse_port(ram.port)
       /\ \/ nvs' = ApplyWritten /\ status' = "APPLIED" /\ written' = {}
          \* The network is stored before the pool's text is allocated.
          \/ /\ written \cap {"url", "port"} # {}
             /\ nvs' = [nvs EXCEPT !.ssid = ApplyWritten.ssid]
             /\ status' = "ERROR_POOL_ALLOC" /\ UNCHANGED written

setup_ble_handle_command(command) ==
    \/ command = "APPLY" /\ setup_ble_apply_config /\ UNCHANGED restart
    \/ /\ command = "RESTART" /\ restart' = TRUE /\ status' = "RESTARTING"
       /\ UNCHANGED <<nvs, written>>
    \/ command = "STATUS" /\ status' = "READY" /\ UNCHANGED <<nvs, written, restart>>

\* One write of the client, a field or a command.
setup_ble_write_field ==
    /\ host /\ air = "linked" /\ count.writes < MaxWrites
    /\ count' = [count EXCEPT !.writes = @ + 1]
    /\ \/ \E f \in Fields : \E v \in Values[f] :
            /\ ram' = [ram EXCEPT ![f] = v]
            /\ written' = written \cup {f}
            /\ status' = "PENDING_APPLY"
            /\ told' = [g \in Fields |-> IF g = f THEN v
                                         ELSE IF confirmed THEN "none" ELSE told[g]]
            /\ confirmed' = FALSE
            /\ UNCHANGED <<nvs, restart>>
       \/ /\ \E command \in {"APPLY", "RESTART", "STATUS"} : setup_ble_handle_command(command)
          /\ confirmed' = (confirmed \/ status' = "APPLIED")
          /\ UNCHANGED <<ram, told>>
    /\ UNCHANGED radio

----------------------------------------------------------------------------
(* The radio, on the host task                                             *)

setup_ble_advertise(ok) ==
    /\ air' = IF ok THEN "advertising" ELSE "idle"
    /\ deaf' = (deaf \/ ~ok)

setup_ble_on_sync ==
    /\ host /\ ~synced
    /\ synced' = TRUE
    /\ \E ok \in BOOLEAN : setup_ble_advertise(ok)
    /\ UNCHANGED <<pc, host, started, ram, written, status, nvs, restart, network, told, confirmed,
                   count>>

\* Mutant: only a failed connection is advertised again.
Readvertised(event) == event # "DISCONNECT"

Advertised(event) == event \in {"LINK_FAILED", "DISCONNECT", "ADV_COMPLETE"}

\* A client connects or fails to, goes away, or the advertisement ends.
setup_ble_gap_event(event) ==
    /\ host /\ synced
    /\ \/ event = "LINK_ESTAB" /\ air = "advertising" /\ count.links < MaxLinks
       \/ event \in {"LINK_FAILED", "ADV_COMPLETE"} /\ air = "advertising"
       \/ event = "DISCONNECT" /\ air = "linked"
    /\ count' = [count EXCEPT !.links = @ + (IF event = "LINK_ESTAB" THEN 1 ELSE 0)]
    /\ IF event = "LINK_ESTAB" THEN air' = "linked" /\ UNCHANGED deaf
       ELSE IF started /\ Advertised(event)
            THEN \E ok \in BOOLEAN : setup_ble_advertise(ok)
            ELSE air' = "idle" /\ deaf' = (deaf \/ ~started)
    /\ UNCHANGED <<pc, host, started, synced, ram, written, status, nvs, restart, network, told,
                   confirmed>>

----------------------------------------------------------------------------
(* The main task                                                           *)

\* One turn of its wait: the service is asked for again and again, and a
\* start that fails is repeated with the next turn.
setup_ble_start(ok) ==
    /\ pc = "waiting" /\ ~network.connected /\ network.ap
    /\ setup_ble_load_current_config
    /\ host' = ok
    /\ pc' = IF ok THEN "starting" ELSE "waiting"
    /\ told' = [f \in Fields |-> "none"] /\ confirmed' = FALSE
    /\ UNCHANGED <<started, synced, air, nvs, restart, network, deaf, count>>

\* Its last step, after the host task was created.
SetStarted ==
    /\ pc = "starting"
    /\ pc' = "started"
    /\ started' = TRUE
    /\ UNCHANGED <<host, synced, air, ram, written, status, nvs, restart, network, told,
                   confirmed, deaf, count>>

\* There is Wi-Fi: the service ends; NimBLE may refuse to stop.
setup_ble_stop(ok) ==
    /\ pc \in {"waiting", "started"} /\ network.connected
    /\ pc' = "connected"
    /\ started' = FALSE
    /\ IF ~started THEN UNCHANGED <<host, synced, air>>
       ELSE /\ synced' = FALSE
            /\ host' = (host /\ ~ok)
            /\ air' = IF ok \/ (synced /\ air = "advertising") THEN "idle" ELSE air
    /\ UNCHANGED <<ram, written, status, nvs, restart, network, told, confirmed,
                   deaf, count>>

----------------------------------------------------------------------------
(* Restart, and the network                                                *)

Fresh ==
    /\ pc' = "waiting" /\ host' = FALSE /\ started' = FALSE /\ synced' = FALSE
    /\ air' = "idle" /\ ram' = nvs /\ written' = {} /\ status' = "" /\ restart' = FALSE
    /\ network' = [ap |-> TRUE, connected |-> FALSE]
    /\ told' = [f \in Fields |-> "none"] /\ confirmed' = FALSE /\ deaf' = FALSE

\* The power task grants the restart or refuses it.
setup_ble_restart_task(granted) ==
    /\ restart /\ count.boots < MaxBoots
    /\ IF granted
       THEN /\ Fresh
            /\ count' = [count EXCEPT !.boots = @ + 1]
       ELSE /\ restart' = FALSE
            /\ UNCHANGED <<radio, ram, written, status, told, confirmed, count>>
    /\ UNCHANGED nvs

\* External: the Wi-Fi comes, the access point goes on and off.
Wifi ==
    /\ ~network.connected
    /\ network' \in {[ap |-> FALSE, connected |-> TRUE],
                     [ap |-> ~network.ap, connected |-> FALSE]}
    /\ UNCHANGED <<pc, host, started, synced, air, ram, written, status, nvs, restart,
                   told, confirmed, deaf, count>>

Init ==
    /\ pc = "waiting" /\ host = FALSE /\ started = FALSE /\ synced = FALSE /\ air = "idle"
    /\ nvs = [ssid |-> "old", url |-> "old", port |-> "old"]
    /\ ram = nvs /\ written = {} /\ status = "" /\ restart = FALSE
    /\ network = [ap |-> TRUE, connected |-> FALSE]
    /\ told = [f \in Fields |-> "none"] /\ confirmed = FALSE /\ deaf = FALSE
    /\ count = [writes |-> 0, boots |-> 0, links |-> 0]

Next ==
    \/ setup_ble_write_field
    \/ setup_ble_on_sync
    \/ \E event \in {"LINK_ESTAB", "LINK_FAILED", "DISCONNECT", "ADV_COMPLETE"} :
          setup_ble_gap_event(event)
    \/ \E ok \in BOOLEAN : setup_ble_start(ok)
    \/ SetStarted
    \/ \E ok \in BOOLEAN : setup_ble_stop(ok)
    \/ \E granted \in BOOLEAN : setup_ble_restart_task(granted)
    \/ Wifi

Spec == Init /\ [][Next]_vars

----------------------------------------------------------------------------
(* When the client reads APPLIED_RESTART_REQUIRED, every field it wrote    *)
(* since the last such answer is stored, whatever was refused in between,  *)
(* and a port in the URL gives way to one written by itself.               *)
AppliedIsStored ==
    confirmed =>
        /\ told.ssid # "none" => nvs.ssid = told.ssid
        /\ told.url # "none" => nvs.url = "host"
        /\ told.port # "none" => nvs.port = told.port
        /\ told.url = "host:urlport" /\ told.port = "none" => nvs.port = "urlport"

(* While the service runs and no client is connected it can be found: the  *)
(* advertisement is renewed after every way a connection can end, unless   *)
(* NimBLE refused it or an event came before setup_ble_started was set.    *)
CanBeFound == started /\ synced /\ air # "linked" /\ ~deaf => air = "advertising"
=============================================================================
