---------------------------- MODULE LiveUpdates ----------------------------
(***************************************************************************)
(* The WebSocket clients of the HTTP server and the stream of system       *)
(* information at /api/ws/live.  A client is sent the whole state when it  *)
(* connects, by the server task, and after that only what changed, by the  *)
(* API task, which keeps one last state for all clients and forgets it     *)
(* while nobody listens.  Both tasks and the log task edit one table of    *)
(* clients under a mutex, but send outside of it: a send that fails takes  *)
(* the client out of the table and then has the server close the session,  *)
(* and meanwhile the socket may be closed and be somebody else's.          *)
(*                                                                         *)
(* The mutex is held for a few instructions, so taking it within 100 ms    *)
(* succeeds.  Socket numbers are reused as soon as a socket is closed.     *)
(***************************************************************************)
EXTENDS Integers, Sequences, FiniteSets, SequencesExt

CONSTANTS
    Fields,         \* the items of the system information
    Sockets,        \* socket numbers of the server
    MaxClients,     \* MAX_WEBSOCKET_CLIENTS
    MaxChanges      \* bound: changes of the system's state

VARIABLES
    now,            \* system_api_get_full_json: field -> value
    changes,        \* changes so far
    clients,        \* the table: slot -> socket and type
    type_counts,    \* clients of each type
    open,           \* open WebSockets: socket -> type, for the server
    closing,        \* open WebSockets that the server has been asked to close
    conn,           \* the server task, while it greets a client
    api,            \* websocket_api_task
    sending,        \* websocket_broadcast of the API task and of the log task
    last            \* last_full_json

table == <<clients, type_counts>>
server == <<open, closing, conn>>
vars == <<now, changes, table, server, api, sending, last>>

\* A type of client, and the task that sends to it.
Types == {"logs", "api"}
Slots == 1..MaxClients
Free == [fd |-> "none", type |-> "logs"]
NoState == <<>>

Idle == [at |-> "idle", fd |-> "none"]
Asleep == [at |-> "sleep", full |-> NoState]
Silent == [at |-> "send", fds |-> <<>>]

----------------------------------------------------------------------------
(* The table of clients                                                    *)

FreeSlots == {i \in Slots : clients[i] = Free}
SlotsOf(fd) == {i \in Slots : clients[i].fd = fd}
First(S) == CHOOSE i \in S : \A j \in S : i <= j

websocket_add_client(fd, type) ==
    LET i == First(FreeSlots) IN
    /\ clients' = [clients EXCEPT ![i] = [fd |-> fd, type |-> type]]
    /\ type_counts' = [type_counts EXCEPT ![type] = @ + 1]

\* Mutant: the type is read after the slot was cleared.
websocket_remove_client_late(fd) ==
    IF SlotsOf(fd) = {} THEN UNCHANGED <<clients, type_counts>>
    ELSE /\ clients' = [clients EXCEPT ![First(SlotsOf(fd))] = Free]
         /\ type_counts' = [type_counts EXCEPT !["logs"] = @ - 1]

websocket_remove_client(fd) ==
    IF SlotsOf(fd) = {} THEN UNCHANGED <<clients, type_counts>>
    ELSE LET i == First(SlotsOf(fd)) IN
         /\ clients' = [clients EXCEPT ![i] = Free]
         /\ type_counts' = [type_counts EXCEPT ![clients[i].type] = @ - 1]

\* httpd_sess_trigger_close: the server closes the session later, if there still is one.
httpd_sess_trigger_close(fd) == closing' = closing \cup ({fd} \cap DOMAIN open)

----------------------------------------------------------------------------
(* The server task                                                         *)

ActiveClients == type_counts["logs"] + type_counts["api"]

websocket_pre_handshake == ActiveClients < MaxClients

\* A new connection: refused, or entered in the table.
websocket_post_handshake(fd, type) ==
    /\ conn = Idle
    /\ fd \notin DOMAIN open
    /\ websocket_pre_handshake
    /\ FreeSlots # {}
    /\ open' = [s \in DOMAIN open \cup {fd} |-> IF s = fd THEN type ELSE open[s]]
    /\ websocket_add_client(fd, type)
    /\ conn' = IF type = "api" THEN [at |-> "greet", fd |-> fd] ELSE Idle
    /\ UNCHANGED <<now, changes, closing, api, sending, last>>

\* websocket_api_on_connect: the whole state is put together and sent.  The server task
\* is the one that closes sessions, so a failed send cannot meet a reused socket here.
Greet(ok) ==
    /\ conn.at = "greet"
    /\ IF ok THEN UNCHANGED <<table, closing>>
       ELSE websocket_remove_client(conn.fd) /\ httpd_sess_trigger_close(conn.fd)
    /\ conn' = Idle
    /\ UNCHANGED <<now, changes, open, api, sending, last>>

SessionGone(fd) ==
    /\ open' = [s \in DOMAIN open \ {fd} |-> open[s]]
    /\ closing' = closing \ {fd}

\* Mutant: the session is closed and the table not told.
websocket_close_fn_only(fd) ==
    /\ conn = Idle /\ fd \in DOMAIN open
    /\ SessionGone(fd)
    /\ UNCHANGED <<now, changes, table, conn, api, sending, last>>

\* The peer went away, or a failed send asked for it: the socket is closed.
websocket_close_fn(fd) ==
    /\ conn = Idle /\ fd \in DOMAIN open
    /\ websocket_remove_client(fd)
    /\ SessionGone(fd)
    /\ UNCHANGED <<now, changes, conn, api, sending, last>>

----------------------------------------------------------------------------
(* websocket_broadcast                                                     *)

\* The sockets of a type are copied under the mutex ...
Collected(type) ==
    /\ sending[type] = Silent
    /\ sending' = [sending EXCEPT ![type].fds = SetToSeq({clients[i].fd : i \in
                            {j \in Slots : clients[j] # Free /\ clients[j].type = type}})]

\* ... and sent to one by one without it, whoever has the socket by now.  No socket and
\* a bad line fail alike.
Send(type, ok) ==
    /\ sending[type].at = "send" /\ sending[type].fds # <<>>
    /\ ok => Head(sending[type].fds) \in DOMAIN open
    /\ sending' = IF ok THEN [sending EXCEPT ![type].fds = Tail(@)]
                        ELSE [sending EXCEPT ![type].at = "failed"]
    /\ UNCHANGED <<now, changes, table, server, api, last>>

RemoveFailed(type) ==
    /\ sending[type].at = "failed"
    /\ websocket_remove_client(Head(sending[type].fds))
    /\ sending' = [sending EXCEPT ![type].at = "removed"]
    /\ UNCHANGED <<now, changes, server, api, last>>

\* Mutant: the client is taken out of the table and its session left open.
CloseForgotten(type) ==
    /\ sending[type].at = "removed"
    /\ UNCHANGED closing
    /\ sending' = [sending EXCEPT ![type] = [at |-> "send", fds |-> Tail(@.fds)]]
    /\ UNCHANGED <<now, changes, table, open, conn, api, last>>

CloseFailed(type) ==
    /\ sending[type].at = "removed"
    /\ httpd_sess_trigger_close(Head(sending[type].fds))
    /\ sending' = [sending EXCEPT ![type] = [at |-> "send", fds |-> Tail(@.fds)]]
    /\ UNCHANGED <<now, changes, table, open, conn, api, last>>

\* The log task has new lines for its clients.
websocket_log_task ==
    /\ type_counts["logs"] > 0
    /\ Collected("logs")
    /\ UNCHANGED <<now, changes, table, server, api, last>>

----------------------------------------------------------------------------
(* websocket_api_task                                                      *)

Hibernate ==
    /\ api.at = "sleep"
    /\ type_counts["api"] = 0
    /\ last' = NoState
    /\ UNCHANGED <<now, changes, table, server, api, sending>>

\* Every 500 ms; after a hibernation the state of now becomes the last one.
Wake ==
    /\ api.at = "sleep"
    /\ type_counts["api"] > 0
    /\ last' = IF last = NoState THEN now ELSE last
    /\ api' = [api EXCEPT !.at = "diff"]
    /\ UNCHANGED <<now, changes, table, server, sending>>

cJSON_GetDiff(old, new) == IF old = NoState THEN Fields
                           ELSE {f \in Fields : old[f] # new[f]}

\* process_and_send_update up to websocket_broadcast.
Diff ==
    /\ api.at = "diff"
    /\ IF cJSON_GetDiff(last, now) = {} THEN api' = Asleep /\ last' = now
       ELSE api' = [at |-> "collect", full |-> now] /\ UNCHANGED last
    /\ UNCHANGED <<now, changes, table, server, sending>>

Collect ==
    /\ api.at = "collect" /\ api' = [api EXCEPT !.at = "send"]
    /\ Collected("api")
    /\ UNCHANGED <<now, changes, table, server, last>>

Sent ==
    /\ api.at = "send" /\ sending["api"] = Silent
    /\ last' = api.full
    /\ api' = Asleep
    /\ UNCHANGED <<now, changes, table, server, sending>>

----------------------------------------------------------------------------
\* External: the rest of the firmware changes what there is to show.
Change(f) ==
    /\ changes < MaxChanges
    /\ changes' = changes + 1
    /\ now' = [now EXCEPT ![f] = 1 - @]
    /\ UNCHANGED <<table, server, api, sending, last>>

Init ==
    /\ now = [f \in Fields |-> 0] /\ changes = 0
    /\ clients = [i \in Slots |-> Free]
    /\ type_counts = [t \in Types |-> 0]
    /\ open = <<>> /\ closing = {}
    /\ conn = Idle /\ api = Asleep
    /\ sending = [t \in Types |-> Silent]
    /\ last = now

Next ==
    \/ \E fd \in Sockets, type \in Types : websocket_post_handshake(fd, type)
    \/ \E ok \in BOOLEAN : Greet(ok)
    \/ \E fd \in Sockets : websocket_close_fn(fd)
    \/ Hibernate
    \/ Wake
    \/ Diff
    \/ Collect
    \/ \E type \in Types, ok \in BOOLEAN : Send(type, ok)
    \/ \E type \in Types : RemoveFailed(type)
    \/ \E type \in Types : CloseFailed(type)
    \/ websocket_log_task
    \/ Sent
    \/ \E f \in Fields : Change(f)

Spec == Init /\ [][Next]_vars

----------------------------------------------------------------------------
\* A session that is leaving: its close is requested, or the task that took it out of
\* the table is about to request it.
Leaving(fd) == \/ fd \in closing
               \/ \E t \in Types : /\ sending[t].at = "removed"
                                   /\ Head(sending[t].fds) = fd

(* The table holds the open sockets, each once and under its type, and     *)
(* only those: none that is closed, and none is missing that is not        *)
(* leaving.  The counts, which admit clients and put the API task to       *)
(* sleep, agree with it.  All this whatever sends of the two tasks fail    *)
(* while sessions close and their socket numbers are reused.               *)
TableIsLive ==
    /\ \A i \in Slots : clients[i] # Free =>
          /\ clients[i].fd \in DOMAIN open
          /\ clients[i].type = open[clients[i].fd]
          /\ SlotsOf(clients[i].fd) = {i}
    /\ \A fd \in DOMAIN open : SlotsOf(fd) # {} \/ Leaving(fd)
    /\ \A t \in Types :
          type_counts[t] = Cardinality({i \in Slots : clients[i] # Free
                                                      /\ clients[i].type = t})
============================================================================
