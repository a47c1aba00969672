---------------------------- MODULE MCHardware ----------------------------
(***************************************************************************)
(* The staged start of the Bonanza chain and the other components around   *)
(* the ASICs, each checked by itself in one run: part says which component *)
(* a behaviour is of. BringUp keeps its own variables; v1, v2, ... are     *)
(* those of the other components.                                          *)
(***************************************************************************)
EXTENDS BringUp

VARIABLES
    part, v1, v2, v3, v4, v5, v6, v7, v8, v9, v10, v11, v12

Places == <<v1, v2, v3, v4, v5, v6, v7, v8, v9, v10, v11, v12>>

\* A column of six engines, of which two are missing.
TwoHoles == {<<0, 0>>, <<5, 0>>}

\* The extended component at rest, while another one is checked.
Resting == Init /\ present = AsicCount

Bitmain == INSTANCE BitmainWork WITH
    Families <- {1397, 1366, 1368, 1370, 1373}, MaxJobs <- 34, Cores <- {0, 15},
    Nonces <- {1, 2}, family <- v1, mask <- v2, id <- v3, jobs <- v4, slots <- v5,
    chip <- v6, prev_nonce <- v7, result <- v8

Clock == INSTANCE BitmainClock WITH
    Families <- {1397, 1366, 1368, 1370, 1373},
    Targets <- {200, 1308, 1940, 2303}, family <- v1, actual <- v2, ramp <- v3

Probe == INSTANCE BitmainChain WITH
    Families <- {1397, 1366, 1368, 1370, 1373}, AsicCount <- 2,
    Frequencies <- {400, 600}, MaxFrames <- 2, family <- v1, pc <- v2,
    started <- v3, initialized <- v4, attempt <- v5, uart <- v6, chain <- v7,
    target <- v8, actual <- v9, rx <- v10, reader <- v11, taken <- v12

Test == INSTANCE SelfTest WITH
    Domains <- {1}, Rates <- {3, 10}, Expected <- 3, MinNonces <- 1,
    MaxNonces <- 1, MaxReports <- 2, MaxBoots <- 2, nvs <- v1, clearing <- v2,
    boot <- v3, test <- v4, measure <- v5, averages <- v6, reports <- v7,
    power <- v8, rail <- v9, button <- v10, seen <- v11

Kept == INSTANCE Records WITH
    Diffs <- {39, 79, 121, 161, 201}, Empty <- {79, 121}, Unit <- 40, Rows <- 3,
    Base <- 3, Steps <- {1, 2}, QueueSize <- 2, MaxHigh <- 2, MaxBoots <- 3,
    plays <- v1, board <- v2, best <- v3, writer <- v4, left <- v5, noinit <- v6,
    queue <- v7, flash <- v8, boots <- v9, skipped <- v10, counted <- v11,
    durable <- v12

------------------------------------------------------------------------------
\* The places that a component of k variables leaves alone.
Unused0 == v1 = 0 /\ v2 = 0 /\ v3 = 0 /\ v4 = 0 /\ v5 = 0 /\ v6 = 0 /\ v7 = 0 /\
    v8 = 0 /\ v9 = 0 /\ v10 = 0 /\ v11 = 0 /\ v12 = 0
Unused3 == v4 = 0 /\ v5 = 0 /\ v6 = 0 /\ v7 = 0 /\ v8 = 0 /\ v9 = 0 /\ v10 = 0 /\
    v11 = 0 /\ v12 = 0
Unused8 == v9 = 0 /\ v10 = 0 /\ v11 = 0 /\ v12 = 0
Unused11 == v12 = 0
Unused12 == TRUE

Rest0 == UNCHANGED <<part, v1, v2, v3, v4, v5, v6, v7, v8, v9, v10, v11, v12>>
Rest3 == UNCHANGED <<part, v4, v5, v6, v7, v8, v9, v10, v11, v12, vars>>
Rest8 == UNCHANGED <<part, v9, v10, v11, v12, vars>>
Rest11 == UNCHANGED <<part, v12, vars>>
Rest12 == UNCHANGED <<part, vars>>

MCInit ==
    \/ part = "bringup" /\ Init /\ Unused0
    \/ part = "work" /\ Bitmain!Init /\ Unused8 /\ Resting
    \/ part = "clock" /\ Clock!Init /\ Unused3 /\ Resting
    \/ part = "probe" /\ Probe!Init /\ Unused12 /\ Resting
    \/ part = "selftest" /\ Test!Init /\ Unused11 /\ Resting
    \/ part = "records" /\ Kept!Init /\ Unused12 /\ Resting

MCNext ==
    \/ part = "bringup" /\ Next /\ Rest0
    \/ part = "work" /\ Bitmain!Next /\ Rest8
    \/ part = "clock" /\ Clock!Next /\ Rest3
    \/ part = "probe" /\ Probe!Next /\ Rest12
    \/ part = "selftest" /\ Test!Next /\ Rest11
    \/ part = "records" /\ Kept!Next /\ Rest12

all == <<part, Places, vars>>

MCSpec == MCInit /\ [][MCNext]_all

------------------------------------------------------------------------------
\* Steps: telemetry accepted by a stage was measured after the last change of the
\* chain, although the code only knows when it was read (BringUp), and a Bitmain
\* clock moves by one small step at a time (BitmainClock); the self-test flag is
\* cleared by a verdict (SelfTest), and a row of the scoreboard is not overwritten
\* before it has moved (Records).
StepsAreSafe ==
    [][/\ part = "bringup" => AcceptsCurrent
       /\ part = "clock" => Clock!GentleStep
       /\ part = "selftest" => Test!FlagCleared
       /\ part = "records" => Kept!RowKept]_all

\* Bitmain chips: a nonce is credited to the job and version it was found with
\* (BitmainWork), a ramp ends at the closest clock the PLL has (BitmainClock), a
\* probe reads its own answers, and a running chain is complete and at the clock
\* the firmware believes (BitmainChain).  A board passes its self test by its own
\* measurements and ends it without supply (SelfTest), and records outlive
\* restarts (Records).
BitmainAsBelieved ==
    /\ part = "work" => Bitmain!RightJob
    /\ part = "clock" => Clock!TargetReached
    /\ part = "probe" => /\ Probe!ProbeUndisturbed /\ Probe!RunningChainIsWhole
                         /\ Probe!ClockAsBelieved
    /\ part = "selftest" => /\ Test!PassIsEarned /\ Test!ReportsCountOnce
                            /\ Test!FactoryTestRunsAgain
    /\ part = "records" => /\ Kept!ScoreboardInOrder /\ Kept!BestCoversBoard
                           /\ Kept!HashesKept
==============================================================================
