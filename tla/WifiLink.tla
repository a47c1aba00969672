---------------------------- MODULE WifiLink ----------------------------
(***************************************************************************)
(* The station link and the setup access point.  The Wi-Fi driver posts    *)
(* events; the event task handles them one by one and keeps the link up    *)
(* with two one-shot timers: one for an address that does not come, one    *)
(* for the next attempt after a loss.  The HTTP server's scan shares the   *)
(* driver, and events that come while it runs are ignored.                 *)
(***************************************************************************)
EXTENDS Integers, Sequences

CONSTANTS
    FallbackRetry,  \* WIFI_SOFTAP_FALLBACK_RETRY
    MaxRetry,       \* bound: s_retry_num is not counted further
    MaxPending,     \* bound: events the driver posts ahead of the event task
    MaxScans, MaxVisits     \* bounds: scans, clients that join the setup AP

VARIABLES
    link,           \* the station: down, connecting, up, ip
    events,         \* posted and not yet handled
    is_connected,   \* SYSTEM_MODULE.is_connected
    s_retry_num,
    timers,         \* the timers that are running
    mode,           \* STA or APSTA
    ap,             \* client on the setup AP, clients_connected_to_ap, visits
    scan,           \* wifi_scan: is_scanning, where it stands, scans so far
    ignored         \* history: why losses or connections were not acted upon, and
                    \* whether the button switched the setup AP off since

vars == <<link, events, is_connected, s_retry_num, timers, mode, ap, scan, ignored>>

----------------------------------------------------------------------------
(* External: the driver                                                    *)

Post(e) == events' = Append(events, e)
Posted == {events[i] : i \in 1..Len(events)}
Associated == link \in {"up", "ip"}

\* esp_wifi_connect and esp_wifi_disconnect, from wherever they are called.
esp_wifi_connect == link' = IF link = "down" THEN "connecting" ELSE link
esp_wifi_disconnect ==
    /\ link' = "down"
    /\ IF link = "down" THEN UNCHANGED events ELSE Post("disconnected")

\* An attempt succeeds or fails, an address comes, a link is lost or roams.
Driver ==
    /\ Len(events) < MaxPending
    /\ \/ link = "connecting" /\ link' = "up" /\ Post("connected")
       \/ link = "connecting" /\ link' = "down" /\ Post("disconnected")
       \/ link = "up" /\ link' = "ip" /\ Post("got_ip")
       \/ Associated /\ link' = "down" /\ Post("disconnected")
       \/ link = "ip" /\ UNCHANGED link /\ Post("roaming")
    /\ UNCHANGED <<is_connected, s_retry_num, timers, mode, ap, scan, ignored>>

\* A client of the setup AP comes or goes; it also goes with the AP.
Visitor ==
    /\ Len(events) < MaxPending
    /\ \/ /\ mode = "APSTA" /\ ~ap.there /\ ap.visits < MaxVisits
          /\ ap' = [ap EXCEPT !.there = TRUE, !.visits = @ + 1]
          /\ Post("joined")
       \/ ap.there /\ ap' = [ap EXCEPT !.there = FALSE] /\ Post("left")
    /\ UNCHANGED <<link, is_connected, s_retry_num, timers, mode, scan, ignored>>

----------------------------------------------------------------------------
(* The timers                                                              *)

ip_timeout_callback ==
    /\ "ip" \in timers
    /\ timers' = timers \ {"ip"}
    /\ IF is_connected THEN UNCHANGED <<link, events>> ELSE esp_wifi_disconnect
    /\ UNCHANGED <<is_connected, s_retry_num, mode, ap, scan, ignored>>

wifi_reconnect_callback ==
    /\ "reconnect" \in timers
    /\ timers' = timers \ {"reconnect"}
    /\ esp_wifi_connect
    /\ UNCHANGED <<events, is_connected, s_retry_num, mode, ap, scan, ignored>>

----------------------------------------------------------------------------
(* event_handler                                                           *)

wifi_softap_on == mode' = "APSTA"
wifi_softap_off == mode' = "STA"

\* Ignored while a scan runs: only its own end is taken.
StillScanning(e) == scan.running /\ e \notin {"scan_done", "got_ip"}

IgnoreEvent(e) ==
    /\ StillScanning(e)
    /\ ignored' = ignored \cup (IF e \in {"connected", "disconnected"} THEN {"scan"} ELSE {})
    /\ UNCHANGED <<link, is_connected, s_retry_num, timers, mode, ap, scan>>

StaStart ==
    /\ esp_wifi_connect
    /\ UNCHANGED <<is_connected, s_retry_num, timers, mode, ap, scan, ignored>>

StaConnected ==
    /\ timers' = timers \cup {"ip"}
    /\ UNCHANGED <<link, is_connected, s_retry_num, mode, ap, scan, ignored>>

\* Mutant: the attempts end where the setup AP begins.
RetryBounded == s_retry_num < FallbackRetry

\* While someone uses the setup AP the station leaves the radio alone.
Retry == ap.counted <= 0

\* Whom the station gave way to: someone on the setup AP, or someone who has left it
\* and whose leaving was not handled yet, or was ignored during a scan.
GivesWay == CASE ap.counted <= 0                  -> {}
              [] ap.there /\ mode = "APSTA"      -> {"guest"}
              [] OTHER                            -> {"gone"}

StaDisconnected ==
    /\ is_connected' = FALSE
    /\ IF Retry
       THEN /\ s_retry_num' = IF s_retry_num < MaxRetry THEN s_retry_num + 1
                                                        ELSE s_retry_num
            /\ IF s_retry_num + 1 >= FallbackRetry THEN wifi_softap_on
                                                   ELSE UNCHANGED mode
            /\ timers' = (timers \ {"ip"}) \cup {"reconnect"}
            /\ ignored' = {}
       ELSE /\ timers' = timers \ {"ip"}
            /\ ignored' = ignored \cup GivesWay
            /\ UNCHANGED <<s_retry_num, mode>>
    /\ UNCHANGED <<link, ap, scan>>

ScanDone ==
    /\ scan' = [scan EXCEPT !.running = FALSE]
    /\ UNCHANGED <<link, is_connected, s_retry_num, timers, mode, ap, ignored>>

ApClients(n) ==
    /\ ap' = [ap EXCEPT !.counted = @ + n]
    /\ UNCHANGED <<link, is_connected, s_retry_num, timers, mode, scan, ignored>>

\* An address: everything is well again, and the setup AP is switched off.
GotIp ==
    /\ is_connected' = TRUE
    /\ s_retry_num' = 0
    /\ timers' = {}
    /\ wifi_softap_off
    /\ ignored' = IF link = "ip" THEN {} ELSE ignored
    /\ UNCHANGED <<link, ap, scan>>

event_handler ==
    /\ events # <<>>
    /\ events' = Tail(events)
    /\ LET e == Head(events) IN
       \/ IgnoreEvent(e)
       \/ /\ ~StillScanning(e)
          /\ \/ e = "sta_start" /\ StaStart
             \/ e = "connected" /\ StaConnected
             \/ e = "disconnected" /\ StaDisconnected
             \/ e = "roaming" /\ UNCHANGED <<link, is_connected, s_retry_num, timers,
                                             mode, ap, scan, ignored>>
             \/ e = "scan_done" /\ ScanDone
             \/ e = "joined" /\ ApClients(1)
             \/ e = "left" /\ ApClients(-1)
             \/ e = "got_ip" /\ GotIp

----------------------------------------------------------------------------
(* wifi_scan, called by GET_wifi_scan on the server task                   *)

\* The server starts after the station has.
ScanBegin ==
    /\ scan.at = "idle" /\ scan.count < MaxScans
    /\ Len(events) < MaxPending /\ "sta_start" \notin Posted
    /\ IF scan.running THEN UNCHANGED <<scan, link, events>>
       ELSE /\ scan' = [at |-> "wait", running |-> TRUE, count |-> scan.count + 1]
            /\ IF Associated THEN UNCHANGED <<link, events>>
                             ELSE esp_wifi_disconnect
    /\ UNCHANGED <<is_connected, s_retry_num, timers, mode, ap, ignored>>

\* A second later; the driver refuses while a connection is being made.
ScanStart(ok) ==
    /\ scan.at = "wait"
    /\ IF ok /\ link # "connecting"
       THEN scan' = [scan EXCEPT !.at = "scanning"]
       ELSE scan' = [scan EXCEPT !.at = "idle", !.running = FALSE]
    /\ UNCHANGED <<link, events, is_connected, s_retry_num, timers, mode, ap, ignored>>

\* External: the scan comes to an end.
ScanEnds ==
    /\ scan.at = "scanning" /\ scan.running
    /\ Len(events) < MaxPending
    /\ "scan_done" \notin Posted
    /\ Post("scan_done")
    /\ UNCHANGED <<link, is_connected, s_retry_num, timers, mode, ap, scan, ignored>>

\* The end was seen, or ten seconds have passed.
ScanReturn ==
    /\ scan.at = "scanning"
    /\ scan' = [scan EXCEPT !.at = "idle", !.running = FALSE]
    /\ UNCHANGED <<link, events, is_connected, s_retry_num, timers, mode, ap, ignored>>

----------------------------------------------------------------------------
\* toggle_wifi_softap: the button.
toggle_wifi_softap ==
    /\ IF mode = "APSTA" THEN wifi_softap_off /\ ignored' = ignored \cup {"button"}
                         ELSE wifi_softap_on /\ ignored' = ignored \ {"button"}
    /\ UNCHANGED <<link, events, is_connected, s_retry_num, timers, ap, scan>>

\* wifi_init with a network configured.
Init ==
    /\ link = "down" /\ events = <<"sta_start">>
    /\ is_connected = FALSE /\ s_retry_num = 0 /\ timers = {}
    /\ mode = "APSTA"
    /\ ap = [there |-> FALSE, counted |-> 0, visits |-> 0]
    /\ scan = [at |-> "idle", running |-> FALSE, count |-> 0]
    /\ ignored = {}

Next ==
    \/ Driver
    \/ Visitor
    \/ ip_timeout_callback
    \/ wifi_reconnect_callback
    \/ event_handler
    \/ ScanBegin
    \/ \E ok \in BOOLEAN : ScanStart(ok)
    \/ ScanEnds
    \/ ScanReturn
    \/ toggle_wifi_softap

Spec == Init /\ [][Next]_vars

----------------------------------------------------------------------------
\* Something is on its way that will bring the link up or find it wanting.
Pending == events # <<>> \/ timers # {} \/ link = "connecting" \/ scan.at # "idle"

(* A station without an address is never left to itself: an attempt, a     *)
(* timer or an event is under way.  Where it gave way to a guest on the    *)
(* setup AP, that AP is on, unless the button switched it off, even after  *)
(* the guest has gone.  Two cases are excepted by name, because the code   *)
(* then leaves the device without a link, and perhaps without a setup AP,  *)
(* until it is restarted: an event of the station that a scan swallowed,   *)
(* and a loss handled while the guest counted had gone already.            *)
LostLinkIsRetried ==
    link # "ip" => \/ Pending
                   \/ ignored \cap {"scan", "gone"} # {}
                   \/ "guest" \in ignored /\ (mode = "APSTA" \/ "button" \in ignored)
==========================================================================
