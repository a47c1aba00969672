---------------------------- MODULE MCServices ----------------------------
(***************************************************************************)
(* The services around mining, each checked by itself in one run: part     *)
(* says which component a behaviour is of. Settings keeps its own          *)
(* variables; v1, v2, ... are those of the other components.               *)
(***************************************************************************)
EXTENDS Settings

VARIABLES
    part, v1, v2, v3, v4, v5, v6, v7, v8, v9, v10, v11, v12, v13, v14, v15

Places == <<v1, v2, v3, v4, v5, v6, v7, v8, v9, v10, v11, v12, v13, v14, v15>>

\* One command of every kind the accessory port takes.
AllCommands ==
    {[cmd |-> "SUB", param |-> "hashrate", value |-> "1"],
     [cmd |-> "UNSUB", param |-> "hashrate", value |-> ""],
     [cmd |-> "REQ", param |-> "shares", value |-> ""],
     [cmd |-> "SET", param |-> "password", value |-> "p"],
     [cmd |-> "SET", param |-> "frequency", value |-> "f"]}

\* The extended component at rest, while another one is checked.
Resting == Init /\ flash = [k \in Keys |-> Absent]

Log == INSTANCE LogBuffer WITH
    Size <- 4, MaxLine <- 2, MaxTotal <- 8, FlushSize <- 2, ChunkSize <- 2,
    ScanLimit <- 3, MaxBoots <- 1, ring <- v1, total <- v2, stdout <- v3,
    ws <- v4, download <- v5, chunk <- v6, boots <- v7

Port == INSTANCE Accessory WITH
    Commands <- AllCommands, MaxLength <- 5, QueueSize <- 1, Timeout <- 0,
    Window <- 1, Interval <- 1, Wrap <- 16, MaxTime <- 2, MaxSent <- 2,
    MaxDamage <- 1, line <- v1, heard <- v2, rx <- v3, filter <- v4, nvs <- v5,
    sub <- v6, shown <- v7, update <- v8, queue <- v9, connected <- v10,
    now <- v11, done <- v12

Wifi == INSTANCE WifiLink WITH
    FallbackRetry <- 2, MaxRetry <- 2, MaxPending <- 3, MaxScans <- 2,
    MaxVisits <- 2, link <- v1, events <- v2, is_connected <- v3,
    s_retry_num <- v4, timers <- v5, mode <- v6, ap <- v7, scan <- v8,
    ignored <- v9

Live == INSTANCE LiveUpdates WITH
    Fields <- {"f1"}, Sockets <- {"s1", "s2", "s3"}, MaxClients <- 2,
    MaxChanges <- 1, now <- v1, changes <- v2, clients <- v3, type_counts <- v4,
    open <- v5, closing <- v6, conn <- v7, api <- v8, sending <- v9, last <- v10

Rate == INSTANCE HashMonitor WITH
    Window <- 2, Snapshots <- 4, MaxTime <- 6, MaxRuns <- 2, driver <- v1,
    now <- v2, run <- v3, ASIC_initalized <- v4, was <- v5, asked <- v6,
    uart <- v7, event <- v8, measurement <- v9, window <- v10, shown <- v11,
    late <- v12

Ble == INSTANCE SetupBle WITH
    MaxWrites <- 5, MaxBoots <- 1, MaxLinks <- 2, pc <- v1, host <- v2,
    started <- v3, synced <- v4, air <- v5, ram <- v6, written <- v7,
    status <- v8, nvs <- v9, restart <- v10, network <- v11, told <- v12,
    confirmed <- v13, deaf <- v14, count <- v15

------------------------------------------------------------------------------
\* The places that a component of k variables leaves alone.
Unused0 == v1 = 0 /\ v2 = 0 /\ v3 = 0 /\ v4 = 0 /\ v5 = 0 /\ v6 = 0 /\ v7 = 0 /\
    v8 = 0 /\ v9 = 0 /\ v10 = 0 /\ v11 = 0 /\ v12 = 0 /\ v13 = 0 /\ v14 = 0 /\
    v15 = 0
Unused7 == v8 = 0 /\ v9 = 0 /\ v10 = 0 /\ v11 = 0 /\ v12 = 0 /\ v13 = 0 /\ v14 = 0
    /\ v15 = 0
Unused9 == v10 = 0 /\ v11 = 0 /\ v12 = 0 /\ v13 = 0 /\ v14 = 0 /\ v15 = 0
Unused10 == v11 = 0 /\ v12 = 0 /\ v13 = 0 /\ v14 = 0 /\ v15 = 0
Unused12 == v13 = 0 /\ v14 = 0 /\ v15 = 0
Unused15 == TRUE

Rest0 == UNCHANGED <<part, v1, v2, v3, v4, v5, v6, v7, v8, v9, v10, v11, v12, v13,
    v14, v15>>
Rest7 == UNCHANGED <<part, v8, v9, v10, v11, v12, v13, v14, v15, vars>>
Rest9 == UNCHANGED <<part, v10, v11, v12, v13, v14, v15, vars>>
Rest10 == UNCHANGED <<part, v11, v12, v13, v14, v15, vars>>
Rest12 == UNCHANGED <<part, v13, v14, v15, vars>>
Rest15 == UNCHANGED <<part, vars>>

MCInit ==
    \/ part = "settings" /\ Init /\ Unused0
    \/ part = "log" /\ Log!Init /\ Unused7 /\ Resting
    \/ part = "accessory" /\ Port!Init /\ Unused12 /\ Resting
    \/ part = "wifi" /\ Wifi!Init /\ Unused9 /\ Resting
    \/ part = "live" /\ Live!Init /\ Unused10 /\ Resting
    \/ part = "hash" /\ Rate!Init /\ Unused12 /\ Resting
    \/ part = "ble" /\ Ble!Init /\ Unused15 /\ Resting

MCNext ==
    \/ part = "settings" /\ Next /\ Rest0
    \/ part = "log" /\ Log!Next /\ Rest7
    \/ part = "accessory" /\ Port!Next /\ Rest12
    \/ part = "wifi" /\ Wifi!Next /\ Rest9
    \/ part = "live" /\ Live!Next /\ Rest10
    \/ part = "hash" /\ Rate!Next /\ Rest12
    \/ part = "ble" /\ Ble!Next /\ Rest15

all == <<part, Places, vars>>

MCSpec == MCInit /\ [][MCNext]_all

------------------------------------------------------------------------------
\* Ways to reach the device stay open: a lost Wi-Fi link is retried, or the setup AP is
\* left on for the guest it gave way to, but for two cases named in WifiLink; the table
\* of WebSocket clients holds the open ones but those whose close is requested
\* (LiveUpdates); and Bluetooth setup can be found and stores what it confirmed
\* (SetupBle).
StaysReachable ==
    /\ part = "wifi" => Wifi!LostLinkIsRetried
    /\ part = "live" => Live!TableIsLive
    /\ part = "ble" => Ble!CanBeFound /\ Ble!AppliedIsStored

\* What is shown or acted upon is what was said: readers of the log see its text
\* or a marked gap (LogBuffer), the accessory port stores only what was sent and
\* ends abandoned subscriptions (Accessory), and a displayed hashrate compares
\* readings of one run of the chips, but for an answer that is recorded after the
\* reset that ended its run (HashMonitor).
ReportsAreTrue ==
    /\ part = "log" => Log!ReadersSeeTheLog
    /\ part = "accessory" => Port!SettingsAsSent /\ Port!AbandonedSubscriptionEnds
    /\ part = "hash" => Rate!RateWithinRun
==============================================================================
