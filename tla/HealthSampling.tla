-------------------------- MODULE HealthSampling --------------------------
(***************************************************************************)
(* The periodic health sample of a board that holds a stage:                *)
(* sample_runtime_health_locked of bzm_board_power.c with the checks of     *)
(* bzm_runtime_health.c, the realignment of the UART parser and the         *)
(* confirmation counters of bzm_telemetry.c.                                *)
(*                                                                         *)
(* board_io_task takes a sample every health period.  Between two samples   *)
(* the ASICs send telemetry frames, each replacing the one before, and the  *)
(* wire garbles bytes.  A single odd frame or burst must not stop the       *)
(* board, so the sample only counts it; what is only counted has to be      *)
(* settled in the end.  A BAD verdict stays until the board is restarted.   *)
(***************************************************************************)
EXTENDS Integers

CONSTANTS Asics,
          MaxAge,          \* health periods a telemetry frame stays fresh
          ConfirmSamples,  \* frames in a row that confirm an anomaly
          MaxDiscards, CleanWindows, MaxWindows, MaxEvents, \* CONFIG_BZM_1002_PARSER_REALIGN_*
          MaxMoves         \* bound: changes of the clock while a lock is in doubt

VARIABLES
    stage,       \* the stage the board holds
    frame,       \* the telemetry store: last frame per ASIC, its age, and who has not seen it yet
    unlocks,     \* pll_lock_confirmation.consecutive_unlocks
    excursions,  \* ch2_confirmation.consecutive_excursions
    counters,    \* parser counters since the last sample
    realign,     \* RUNTIME.parser_realign
    verdict,     \* RUNTIME.health: "GOOD", or what a BAD one calls for
    doubt        \* history: samples taken in a row that left something undecided, and
                 \* changes of the clock meanwhile

telemetry == <<frame, unlocks, excursions>>
vars == <<stage, telemetry, counters, realign, verdict, doubt>>

Stages == [CONTROLS |-> 1, POWER_RAIL |-> 2, CHAIN_4 |-> 3, SENSORS |-> 4, CLOCKS |-> 5,
           BALANCED_RAMP |-> 6, RUNNING |-> 7]
Reached(s) == Stages[stage] >= Stages[s]

NoFrame == [kind |-> "missing", age |-> 0, pllNew |-> FALSE, ch2New |-> FALSE]
Quiet == [discarded |-> 0, error |-> FALSE, framed |-> FALSE]
Nobody == [a \in Asics |-> 0]
NoDoubt == [asic |-> Nobody, wire |-> 0, lock |-> Nobody, moves |-> Nobody]
Aligned == [recovering |-> FALSE, bursts |-> 0, clean |-> 0, windows |-> 0, discarded |-> 0]

(***************************************************************************)
(* The checks, in the order of bzm_runtime_health_evaluate; "GOOD" lets the *)
(* next one decide.  A fault is what the power task makes of it              *)
(* (recoverable_overheat_fault): "OVERHEAT" to recover from or "FAULT".     *)
(***************************************************************************)
\* check_bridge_and_fan, and check_power once the rail is up
CheckBoard == IF Reached("POWER_RAIL") THEN {"GOOD", "OVERHEAT", "FAULT"} ELSE {"GOOD", "FAULT"}

Then(first, second) == IF first = "GOOD" THEN second ELSE first

\* Every error counter must stand still; discarded bytes and unexpected headers are
\* forgiven while a realignment is under way.
CheckParser(lost, forgiven) ==
    IF counters.error \/ (lost # 0 /\ ~forgiven) THEN "FAULT" ELSE "GOOD"

\* Mutant: a frame is good for ever.
FreshAlways(a) == frame[a].kind # "missing"

Fresh(a) == frame[a].kind # "missing" /\ frame[a].age <= MaxAge

\* The verdict on one ASIC with CH2 and the clock locks left to the confirmations.
CheckAsic(a) == CASE ~Fresh(a)              -> "FAULT"
                  [] frame[a].kind = "hot"  -> "OVERHEAT"
                  [] frame[a].kind = "bad"  -> "FAULT"
                  [] OTHER                  -> "GOOD"
\* The loop over the chain ends at the first ASIC that is not good.
CheckTelemetry ==
    IF \A a \in Asics : CheckAsic(a) = "GOOD" THEN "GOOD"
    ELSE LET first == CHOOSE a \in Asics : /\ CheckAsic(a) # "GOOD"
                                           /\ \A b \in Asics : CheckAsic(b) # "GOOD" => a <= b
         IN CheckAsic(first)

Evaluate(board, lost, forgiven) ==
    Then(board,
    Then(IF Reached("CHAIN_4") THEN CheckParser(lost, forgiven) ELSE "GOOD",
         IF Reached("SENSORS") THEN CheckTelemetry ELSE "GOOD"))

(***************************************************************************)
(* bzm_parser_realign_observe, with buffered: a frame is in the buffer in   *)
(* part.  ok says whether the episode stays within its bounds.              *)
(***************************************************************************)
\* Mutant: a window without a clean frame is not counted.
BurstWindowStalling(buffered) ==
    LET burst == counters.discarded # 0
        quiet == ~burst /\ ~buffered /\ counters.framed
    IN [recovering |-> TRUE,
        bursts     |-> IF burst THEN realign.bursts + 1 ELSE realign.bursts,
        clean      |-> IF quiet THEN realign.clean + 1 ELSE 0,
        windows    |-> IF quiet \/ burst THEN realign.windows + 1 ELSE realign.windows,
        discarded  |-> realign.discarded + counters.discarded]

BurstWindow(buffered) ==
    LET burst == counters.discarded # 0
        quiet == ~burst /\ ~buffered /\ counters.framed
    IN [recovering |-> TRUE,
        bursts     |-> IF burst THEN realign.bursts + 1 ELSE realign.bursts,
        clean      |-> IF quiet THEN realign.clean + 1 ELSE 0,
        windows    |-> realign.windows + 1,
        discarded  |-> realign.discarded + counters.discarded]

Pending(r) == r.bursts <= MaxEvents /\ r.discarded <= MaxDiscards /\ r.windows <= MaxWindows

\* The realignment after this window, and whether its lost bytes are forgiven.
Realign(buffered) ==
    LET r == BurstWindow(buffered)
    IN CASE stage # "RUNNING"                                 -> [next |-> realign, forgiven |-> FALSE]
         [] counters.error                                    -> [next |-> realign, forgiven |-> FALSE]
         [] ~realign.recovering /\ counters.discarded = 0     -> [next |-> Aligned, forgiven |-> TRUE]
         [] OTHER -> [next     |-> IF Pending(r) /\ r.clean >= CleanWindows THEN Aligned ELSE r,
                      forgiven |-> Pending(r)]

(***************************************************************************)
(* The confirmations, which only look at a sample that is good otherwise.   *)
(***************************************************************************)
\* Mutant: a sample without a new frame ends the count.
UnlocksOfNewFrames(a) == IF frame[a].pllNew /\ frame[a].kind = "unlocked" THEN unlocks[a] + 1 ELSE 0

\* bzm_pll_lock_confirmation_observe: per ASIC, a frame counts once.
Unlocks(a) == IF frame[a].pllNew
              THEN IF frame[a].kind = "unlocked" THEN unlocks[a] + 1 ELSE 0
              ELSE unlocks[a]

Unlocked(a) == Reached("CLOCKS") /\ frame[a].kind = "unlocked"

\* bzm_ch2_confirmation_observe: nothing counts before all ASICs have a new frame.
AllNew == \A a \in Asics : frame[a].ch2New
Excursions(a) == IF AllNew THEN IF frame[a].kind = "ch2" THEN excursions[a] + 1 ELSE 0
                           ELSE excursions[a]

ConfirmLocks(v) == IF v = "GOOD" /\ Reached("CLOCKS") /\ \E a \in Asics : Unlocks(a) >= ConfirmSamples
                   THEN "FAULT" ELSE v
ConfirmCh2(v) == IF v = "GOOD" /\ Reached("SENSORS") /\ \E a \in Asics : Excursions(a) >= ConfirmSamples
                 THEN "FAULT" ELSE v

(***************************************************************************)
(* Steps                                                                   *)
(***************************************************************************)
Aged(f) == [a \in Asics |-> [f[a] EXCEPT !.age = IF @ > MaxAge THEN @ ELSE @ + 1]]

\* What a board that has just reached stage s starts from.
FirstFrame(s) ==
    IF Stages[s] >= Stages.SENSORS
    THEN [kind |-> "good", age |-> 0, pllNew |-> TRUE, ch2New |-> TRUE] ELSE NoFrame

\* The evidence of an earlier run of the board means nothing to the next.
Afresh(s) == /\ stage' = s /\ frame' = [a \in Asics |-> FirstFrame(s)]
             /\ unlocks' = [a \in Asics |-> 0] /\ excursions' = [a \in Asics |-> 0]
             /\ counters' = Quiet /\ realign' = Aligned /\ doubt' = NoDoubt

\* A sample that finds nothing to stop the board for; then a period passes.
SampleGood(r) ==
    /\ realign' = r.next /\ UNCHANGED stage
    /\ unlocks' = IF Reached("CLOCKS") THEN [a \in Asics |-> Unlocks(a)] ELSE unlocks
    /\ excursions' = IF Reached("SENSORS") THEN [a \in Asics |-> Excursions(a)] ELSE excursions
    /\ frame' = Aged([a \in Asics |-> [frame[a] EXCEPT !.pllNew = FALSE, !.ch2New = @ /\ ~AllNew]])
    /\ counters' = [Quiet EXCEPT !.framed = counters.framed]
    /\ doubt' = [asic |-> [a \in Asics |-> IF frame[a].kind = "ch2" THEN doubt.asic[a] + 1 ELSE 0],
                 wire |-> IF r.next.recovering THEN doubt.wire + 1 ELSE 0,
                 lock |-> [a \in Asics |-> IF Unlocked(a) THEN doubt.lock[a] + 1 ELSE 0],
                 moves |-> [a \in Asics |-> IF Unlocked(a) THEN doubt.moves[a] ELSE 0]]

SampleRuntimeHealth(board, buffered) ==
    /\ verdict = "GOOD"
    /\ LET r    == Realign(buffered)
           seen == Evaluate(board, counters.discarded + realign.discarded, r.forgiven)
       IN /\ verdict' = ConfirmCh2(ConfirmLocks(seen))
          /\ IF verdict' = "GOOD" THEN SampleGood(r)
             ELSE Afresh(stage)

\* bzm_telemetry_store_apply_frame.  A frame that is replaced before any sample is
\* taken is seen by nobody: one frame per ASIC and period stands for all.
Kinds == {"good", "ch2", "unlocked", "hot", "bad"}
ApplyFrame(a, kind) ==
    /\ Reached("SENSORS") /\ verdict = "GOOD" /\ frame[a].age # 0
    /\ frame' = [frame EXCEPT ![a] = [kind |-> kind, age |-> 0, pllNew |-> TRUE, ch2New |-> TRUE]]
    /\ counters' = [counters EXCEPT !.framed = TRUE]
    /\ UNCHANGED <<stage, unlocks, excursions, realign, verdict, doubt>>

Discard ==
    /\ Reached("CHAIN_4") /\ verdict = "GOOD" /\ counters.discarded <= MaxDiscards
    /\ counters' = [counters EXCEPT !.discarded = @ + 1, !.framed = FALSE]
    /\ UNCHANGED <<stage, telemetry, realign, verdict, doubt>>

ParserError ==
    /\ Reached("CHAIN_4") /\ verdict = "GOOD" /\ ~counters.error
    /\ counters' = [counters EXCEPT !.error = TRUE]
    /\ UNCHANGED <<stage, telemetry, realign, verdict, doubt>>

\* A live change of the clock takes its time, starts the lock confirmation afresh
\* and asks for a sample at once.
FrequencyTransition ==
    /\ stage = "RUNNING" /\ verdict = "GOOD"
    /\ \A a \in Asics : doubt.moves[a] < MaxMoves
    /\ doubt' = [doubt EXCEPT !.moves =
           [a \in Asics |-> IF doubt.lock[a] > 0 THEN @[a] + 1 ELSE 0]]
    /\ unlocks' = [a \in Asics |-> 0]
    /\ frame' = Aged([a \in Asics |-> [frame[a] EXCEPT !.pllNew = TRUE]])
    /\ UNCHANGED <<stage, excursions, counters, realign, verdict>>

\* The power task has stopped the board and starts it again.
Restart(s) == verdict # "GOOD" /\ verdict' = "GOOD" /\ Afresh(s)

Init ==
    /\ \E s \in DOMAIN Stages : stage = s /\ frame = [a \in Asics |-> FirstFrame(s)]
    /\ unlocks = [a \in Asics |-> 0] /\ excursions = [a \in Asics |-> 0]
    /\ counters = Quiet /\ realign = Aligned /\ verdict = "GOOD"
    /\ doubt = NoDoubt

Sample == \E board \in CheckBoard, buffered \in (IF stage = "RUNNING" THEN BOOLEAN ELSE {FALSE}) :
              SampleRuntimeHealth(board, buffered)

Next ==
    \/ Sample \/ Discard \/ ParserError \/ FrequencyTransition
    \/ \E a \in Asics, k \in Kinds : ApplyFrame(a, k)
    \/ \E s \in DOMAIN Stages : Restart(s)

Spec == Init /\ [][Next]_vars

(***************************************************************************)
(* Properties                                                              *)
(***************************************************************************)
\* What is only counted is settled in bounded time: an ASIC in CH2 excursion at every
\* sample stops the board although its frames do not count while another ASIC is
\* silent; one whose clock is unlocked at every sample stops it, although a change of
\* the clock starts that count again, once per change; and a realignment of the parser
\* succeeds or stops the board.
DoubtIsSettled ==
    verdict = "GOOD" =>
        /\ \A a \in Asics :
              /\ doubt.asic[a] < ConfirmSamples * (MaxAge + 1)
              /\ doubt.lock[a] < ConfirmSamples * (MaxAge + 1) * (1 + doubt.moves[a])
        /\ doubt.wire <= MaxWindows
=============================================================================
