---------------------------- MODULE MCPeriphery ----------------------------
(***************************************************************************)
(* The safety supervisor, the parts around the ASIC chain and the          *)
(* connections to the pools, each checked by itself in one run: part says  *)
(* which component a behaviour is of. The supervisor keeps its own         *)
(* variables; v1, v2, ... are those of the other parts.                    *)
(***************************************************************************)
EXTENDS Supervisor, Sequences

VARIABLES
    part, v1, v2, v3, v4, v5, v6, v7, v8, v9, v10, v11, v12, v13, v14, v15, v16,
    v17, v18

Places == <<v1, v2, v3, v4, v5, v6, v7, v8, v9, v10, v11, v12, v13, v14, v15, v16,
            v17, v18>>

\* The extended component at rest, while another one is checked.
Resting == Init /\ rail = "off"

Health == INSTANCE HealthSampling WITH
    Asics <- {1, 2}, MaxAge <- 1, ConfirmSamples <- 2, MaxDiscards <- 1,
    CleanWindows <- 1, MaxWindows <- 2, MaxEvents <- 2, MaxMoves <- 1,
    stage <- v1, frame <- v2, unlocks <- v3, excursions <- v4, counters <- v5,
    realign <- v6, verdict <- v7, doubt <- v8

Evidence == INSTANCE RunningEvidence WITH
    MinValid <- 2, MaxRejections <- 2, ProofTimeout <- 2, RecoveryTimeout <- 2,
    TransitionTimeout <- 3, Ramp <- 2, MaxTargets <- 1, stats <- v1, mapped <- v2,
    monitoring <- v3, transition <- v4, life <- v5, elapsed <- v6, verdict <- v7,
    steps <- v8, replacing <- v9, credit <- v10, grants <- v11

Status == INSTANCE BridgeStatus WITH
    bridge <- v1, report <- v2

Update == INSTANCE BridgeUpdate WITH
    PageSize <- 2, ChunkSize <- 4, SectorSize <- 4, Capacity <- 6, IdSpace <- 3,
    MaxFlight <- 2, link <- v1, txn <- v2, line <- v3, mistaken <- v4,
    update <- v5, pc <- v6, offset <- v7, cores <- v8, flash <- v9, faulty <- v10

Regulated == INSTANCE Regulator WITH
    Volts <- {2100, 2203, 3199, 3200}, Exponents <- {8, 10}, rail <- v1

Fan == INSTANCE FanControl WITH
    Readings <- {12800, 20480, 32768}, SetPoint <- 6000, MinSpeeds <- {0, 5000},
    ManualSpeeds <- {2000}, FanMin <- 3600, TempMax <- 7500, MaxPolls <- 3,
    kind <- v1, fans <- v2, fan_perc <- v3, hardware_fault <- v4, pid <- v5,
    pid_output_min <- v6, filtered_input <- v7, write <- v8, status <- v9,
    holding <- v10, last <- v11, hot <- v12, polls <- v13

Channel == INSTANCE Sv2Channel WITH
    JobIds <- {1, 2, 3}, PoolSize <- 2, Hashes <- {"h1", "h2"}, MaxActive <- 2,
    MaxGen <- 3, MaxFrames <- 2, phase <- v1, kind <- v2, socket <- v3,
    conn <- v4, slots <- v5, generation <- v6, current <- v7, shares <- v8,
    stream <- v9

Session == INSTANCE Sv1Session WITH
    MaxLine <- 3, BufferSize <- 2, MaxIds <- 8, Sizes <- {0, 3, 4}, MaxLines <- 3,
    MaxShares <- 2, MaxSessions <- 2, link <- v1, lines <- v2, wire <- v3,
    buffer <- v4, size <- v5, send_uid <- v6, submit <- v7, timings <- v8,
    unanswered <- v9, shares_pending <- v10, answer <- v11, counted <- v12,
    sessions <- v13, first <- v14, got <- v15, taken <- v16, fault <- v17,
    drift <- v18

------------------------------------------------------------------------------
\* The places that a component of k variables leaves alone.
Unused0 == v1 = 0 /\ v2 = 0 /\ v3 = 0 /\ v4 = 0 /\ v5 = 0 /\ v6 = 0 /\ v7 = 0 /\
    v8 = 0 /\ v9 = 0 /\ v10 = 0 /\ v11 = 0 /\ v12 = 0 /\ v13 = 0 /\ v14 = 0 /\
    v15 = 0 /\ v16 = 0 /\ v17 = 0 /\ v18 = 0
Unused1 == v2 = 0 /\ v3 = 0 /\ v4 = 0 /\ v5 = 0 /\ v6 = 0 /\ v7 = 0 /\ v8 = 0 /\
    v9 = 0 /\ v10 = 0 /\ v11 = 0 /\ v12 = 0 /\ v13 = 0 /\ v14 = 0 /\ v15 = 0 /\
    v16 = 0 /\ v17 = 0 /\ v18 = 0
Unused2 == v3 = 0 /\ v4 = 0 /\ v5 = 0 /\ v6 = 0 /\ v7 = 0 /\ v8 = 0 /\ v9 = 0 /\
    v10 = 0 /\ v11 = 0 /\ v12 = 0 /\ v13 = 0 /\ v14 = 0 /\ v15 = 0 /\ v16 = 0 /\
    v17 = 0 /\ v18 = 0
Unused8 == v9 = 0 /\ v10 = 0 /\ v11 = 0 /\ v12 = 0 /\ v13 = 0 /\ v14 = 0 /\
    v15 = 0 /\ v16 = 0 /\ v17 = 0 /\ v18 = 0
Unused9 == v10 = 0 /\ v11 = 0 /\ v12 = 0 /\ v13 = 0 /\ v14 = 0 /\ v15 = 0 /\
    v16 = 0 /\ v17 = 0 /\ v18 = 0
Unused10 == v11 = 0 /\ v12 = 0 /\ v13 = 0 /\ v14 = 0 /\ v15 = 0 /\ v16 = 0 /\
    v17 = 0 /\ v18 = 0
Unused11 == v12 = 0 /\ v13 = 0 /\ v14 = 0 /\ v15 = 0 /\ v16 = 0 /\ v17 = 0 /\
    v18 = 0
Unused13 == v14 = 0 /\ v15 = 0 /\ v16 = 0 /\ v17 = 0 /\ v18 = 0
Unused18 == TRUE

Rest0 == UNCHANGED <<part, v1, v2, v3, v4, v5, v6, v7, v8, v9, v10, v11, v12, v13,
    v14, v15, v16, v17, v18>>
Rest1 == UNCHANGED <<part, v2, v3, v4, v5, v6, v7, v8, v9, v10, v11, v12, v13,
    v14, v15, v16, v17, v18, vars>>
Rest2 == UNCHANGED <<part, v3, v4, v5, v6, v7, v8, v9, v10, v11, v12, v13, v14,
    v15, v16, v17, v18, vars>>
Rest8 == UNCHANGED <<part, v9, v10, v11, v12, v13, v14, v15, v16, v17, v18, vars>>
Rest9 == UNCHANGED <<part, v10, v11, v12, v13, v14, v15, v16, v17, v18, vars>>
Rest10 == UNCHANGED <<part, v11, v12, v13, v14, v15, v16, v17, v18, vars>>
Rest11 == UNCHANGED <<part, v12, v13, v14, v15, v16, v17, v18, vars>>
Rest13 == UNCHANGED <<part, v14, v15, v16, v17, v18, vars>>
Rest18 == UNCHANGED <<part, vars>>

MCInit ==
    \/ part = "supervisor" /\ Init /\ Unused0
    \/ part = "health" /\ Health!Init /\ Unused8 /\ Resting
    \/ part = "evidence" /\ Evidence!Init /\ Unused11 /\ Resting
    \/ part = "status" /\ Status!Init /\ Unused2 /\ Resting
    \/ part = "update" /\ Update!Init /\ Unused10 /\ Resting
    \/ part = "regulator" /\ Regulated!Init /\ Unused1 /\ Resting
    \/ part = "fan" /\ Fan!Init /\ Unused13 /\ Resting
    \/ part = "sv2" /\ Channel!Init /\ Unused9 /\ Resting
    \/ part = "sv1" /\ Session!Init /\ Unused18 /\ Resting

MCNext ==
    \/ part = "supervisor" /\ Next /\ Rest0
    \/ part = "health" /\ Health!Next /\ Rest8
    \/ part = "evidence" /\ Evidence!Next /\ Rest11
    \/ part = "status" /\ Status!Next /\ Rest2
    \/ part = "update" /\ Update!Next /\ Rest10
    \/ part = "regulator" /\ Regulated!Next /\ Rest1
    \/ part = "fan" /\ Fan!Next /\ Rest13
    \/ part = "sv2" /\ Channel!Next /\ Rest9
    \/ part = "sv1" /\ Session!Next /\ Rest18

all == <<part, Places, vars>>

MCSpec == MCInit /\ [][MCNext]_all

------------------------------------------------------------------------------
\* The runtime health checks decide: a fault that shows itself is found or
\* disproved within the samples they allow (HealthSampling), and mining whose proof
\* is in doubt and that yields no valid result is found out within the deadlines that
\* starts, recoveries and each step of the clock to its target grant (RunningEvidence).
DoubtIsSettled ==
    /\ part = "health" => Health!DoubtIsSettled
    /\ part = "evidence" => Evidence!StarvedMiningIsFound

\* What the RP2040 bridge says is taken for what it is: no damaged byte of a
\* report reassures (BridgeStatus), an answer is the one to the request it is
\* taken for, and an update reported as good has the image in flash (BridgeUpdate).
BridgeIsTrusted ==
    /\ part = "status" => Status!DamageNeverReassures
    /\ part = "update" => Update!VerdictIsTrue /\ Update!OwnAnswer

\* The TPS546 regulator: a failed bring-up ends with the rail off, limits are
\* wide enough for what the encodings round, the rail is where it was commanded,
\* the clock never exceeds what the voltage carries, and a trip is reported.
RailIsRegulated ==
    part = "regulator" =>
        /\ Regulated!FailedRailIsOff /\ Regulated!NoSpuriousTrip
        /\ Regulated!RailAsCommanded /\ Regulated!ClockWithinVoltage
        /\ Regulated!TripIsReported

\* A hot board's fan is at full speed or a fault is flagged, and the automatic
\* control cools, whoever else commands the fan and whatever command fails
\* (FanControl: FullWhenHot, AutomaticCools).
FanCools == part = "fan" => Fan!FullWhenHot /\ Fan!AutomaticCools

\* Stratum V2: the active job is whole whatever job ids collide, nothing is written
\* after a frame that broke off, and no share of an earlier connection gets into the
\* setup of the next (Sv2Channel).  Stratum V1: lines are handled as they were sent,
\* legal ones up to the limit, and answers are counted for their shares, but for what
\* the two tasks that count them without a common lock lose (Sv1Session).
ChannelInStep ==
    /\ part = "sv2" => /\ Channel!ActiveSlotIsWhole /\ Channel!StreamInStep
                       /\ Channel!SharesAfterOpening
    /\ part = "sv1" => /\ Session!LinesInStep /\ Session!LegalLineIsTaken
                       /\ Session!AnswersCounted
==============================================================================
