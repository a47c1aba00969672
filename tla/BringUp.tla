------------------------------ MODULE BringUp ------------------------------
(***************************************************************************)
(* Staged bring-up of the Bonanza ASIC chain: the stages of bzm_bringup.c,  *)
(* the balanced ramp of bzm_balanced_ramp.c, the staged operations of       *)
(* bzm_driver.c that run them, and the live PLL step of a running chain.    *)
(*                                                                         *)
(* A stage runs in the power task with REACTOR_LOCK held, one register,     *)
(* engine or telemetry exchange after the other.  Meanwhile others withdraw *)
(* the authority to go on, the ASICs send telemetry (TDM frames) on their   *)
(* own and the wire corrupts bytes.  A broadcast register write is not      *)
(* acknowledged and may miss some ASICs; an addressed write counts only     *)
(* when it reads back.  An addressed read is answered behind the frames its *)
(* ASIC has already sent, so it also brings those in.                       *)
(*                                                                         *)
(* Telemetry is stamped when it is read from the UART, not when it is       *)
(* measured: "fresh" is what the code can see (stamped since the last       *)
(* configuration), "current" what it wants to know (measured since).        *)
(***************************************************************************)
EXTENDS Integers, FiniteSets

CONSTANTS AsicCount, Rows, Columns, Holes,  \* the chain and the engine grid of an ASIC
          ConfirmSamples,    \* anomalies in a row that count (ch2_confirm_samples)
          Attempts,          \* telemetry snapshots a stage takes before it gives up
          CleanWindows, MaxWindows,  \* parser windows of staged_settle_parser
          TopClock           \* the clocks a live change may ask for are 1 .. TopClock

VARIABLES
    present,   \* the ASICs that are really on the board
    next,      \* the stage the board runs next: 1 .. 6, or 7 when mining
    pc,        \* where the stage is: step, ASIC, attempt, clean windows, pair or target
    verified,  \* STAGED_BRINGUP: the stages verified
    session,   \* STAGED_TRANSPORT_READY, STAGED_LEASE_IO_OK, STAGED_ENGINE_WINDOW_ACTIVE
    granted,   \* the operation authorizer says yes and the bridge renews the lease
    reset,     \* the reset line of the chain is held low
    chip,      \* the ASICs
    sample,    \* the telemetry store
    anomalies, \* consecutive anomalies (bzm_telemetry_confirmation)
    wire,      \* the frame an ASIC has sent and nobody has read: "none", "old", "current"
    parser,    \* what the parser counted since the last baselines
    ramp,      \* STAGED_BALANCED_RAMP: pairs done and engine counted, per ASIC
    clock      \* domain_clock_mhz: the clock the driver believes in, per ASIC

hardware == <<reset, chip>>
evidence == <<sample, anomalies, wire>>
vars == <<present, next, pc, verified, session, granted, hardware, evidence, parser, ramp, clock>>

Asics == 1 .. AsicCount

(***************************************************************************)
(* Topology: engines are numbered column by column over the grid without    *)
(* its holes; the lower half of the rows is one stack, the upper the other. *)
(***************************************************************************)
CoordinateIsValid(e) == e \in (0 .. Rows - 1) \X (0 .. Columns - 1) /\ e \notin Holes
Engines == {e \in (0 .. Rows - 1) \X (0 .. Columns - 1) : CoordinateIsValid(e)}

\* There is a chain, and it has engines.
Parameters ==
    /\ AsicCount \in Nat \ {0} /\ Rows \in Nat /\ Columns \in Nat /\ Engines # {}
    /\ ConfirmSamples \in Nat /\ Attempts \in Nat /\ CleanWindows \in Nat
    /\ MaxWindows \in Nat /\ TopClock \in Nat
ASSUME BringUpAssumption == Parameters

StackForRow(row) == IF row < Rows \div 2 THEN "bottom" ELSE "top"
Before(e, f) == e[2] < f[2] \/ (e[2] = f[2] /\ e[1] < f[1])
StackIndex(e) ==
    Cardinality({f \in Engines : StackForRow(f[1]) = StackForRow(e[1]) /\ Before(f, e)})
StackEngineAt(stack, i) ==
    CHOOSE e \in Engines : StackForRow(e[1]) = stack /\ StackIndex(e) = i
StackCount(stack) == Cardinality({e \in Engines : StackForRow(e[1]) = stack})
PairCount == StackCount("bottom")
\* Mutant: pairs are taken in the order of the engine numbers.
BalancedPairInOrder(i) ==
    LET At2(k) == CHOOSE e \in Engines : Cardinality({f \in Engines : Before(f, e)}) = k
    IN [bottom |-> At2(2 * i), top |-> At2(2 * i + 1)]

BalancedPairAt(i) == [bottom |-> StackEngineAt("bottom", i), top |-> StackEngineAt("top", i)]
TopologyIsExact == StackCount("bottom") = StackCount("top")

(***************************************************************************)
(* The chain                                                               *)
(***************************************************************************)
PowerOn == [id |-> FALSE, tdm |-> FALSE, sensing |-> FALSE, pll |-> 0,
            reports |-> TRUE, active |-> {}]
NoSample == [quality |-> "none", fresh |-> FALSE, current |-> FALSE]
Uncounted == [a \in Asics |-> [count |-> 0, seen |-> FALSE]]
CleanParser == [discarded |-> FALSE, window |-> FALSE, broken |-> FALSE, partial |-> FALSE]
NoRamp == [a \in Asics |-> [pair |-> 0, prepared |-> FALSE]]
NoSession == [ready |-> FALSE, lease |-> FALSE, window |-> FALSE]
Idle == [at |-> "idle", i |-> 1, n |-> 0, clean |-> 0, pair |-> 0, for |-> "none"]
At(step) == pc.at = step
Go(step) == pc' = [pc EXCEPT !.at = step, !.i = 1, !.n = 0]
\* The next ASIC of a loop over the chain, or the step after the loop.
Each(step) == IF pc.i < AsicCount THEN pc' = [pc EXCEPT !.i = @ + 1] ELSE Go(step)

\* A change of the hardware makes every measurement made so far a thing of the past.
Aged(c) == IF c = "none" THEN c ELSE "old"
Outdated == /\ wire' = [a \in Asics |-> Aged(wire[a])]
            /\ sample' = [a \in Asics |-> [sample[a] EXCEPT !.current = FALSE]]
            /\ UNCHANGED anomalies

\* Frames read from the UART become the samples of their ASICs; tally is what has
\* been counted of the samples so far.
Ingested(from, q, tally) ==
    /\ sample' = [a \in Asics |-> IF a \in from THEN [quality |-> q[a], fresh |-> TRUE,
                                                      current |-> wire[a] = "current"]
                                  ELSE sample[a]]
    /\ anomalies' = [a \in Asics |-> [tally[a] EXCEPT !.seen = @ /\ a \notin from]]
    /\ wire' = [a \in Asics |-> IF a \in from THEN "none" ELSE wire[a]]
\* An odd reading may be looked at again (the third channel or the clock bit is out of
\* bounds; before a batch, any other field too); a bad one, such as a trip, may not.
Qualities == {"good", "odd", "bad"}
OnTheWire == {a \in Asics : wire[a] # "none"}
\* What one poll brings in: some of the frames, of any quality.
SomeIngested(tally) ==
    \E from \in SUBSET OnTheWire : \E q \in [from -> Qualities] : Ingested(from, q, tally)
\* An addressed register read: the answer of ASIC i comes behind its frames.
ReadBehindFrames(i) ==
    \E q \in [{i} \cap OnTheWire -> Qualities] : Ingested({i} \cap OnTheWire, q, anomalies)
\* A reading of a timestamp to compare later samples with.
Stamp(samples) == [a \in Asics |-> [samples[a] EXCEPT !.fresh = FALSE]]

\* write_and_verify_registers: the ASIC has read back what was written.
WriteAndVerify(i, c) == chip' = [chip EXCEPT ![i] = c]

BroadcastTdm(on) ==
    \E reached \in SUBSET Asics :
        chip' = [a \in Asics |-> IF a \in reached THEN [chip[a] EXCEPT !.tdm = on] ELSE chip[a]]

\* staged_lease_check and staged_operation_check of a step that goes on.
Authorized == session.lease /\ granted

\* staged_fail_closed_locked, with the chain left as c when the command to hold
\* it in reset does not reach the bridge.
FailClosedLeaving(c) ==
    /\ \/ reset' = TRUE /\ chip' = [a \in Asics |-> PowerOn]
       \/ UNCHANGED reset /\ chip' = c
    /\ verified' = {} /\ session' = NoSession /\ ramp' = NoRamp
    /\ next' = 1 /\ pc' = Idle
    /\ UNCHANGED <<present, granted, evidence, parser, clock>>

(***************************************************************************)
(* BZM_staged_initialize and BZM_staged_chain4                              *)
(***************************************************************************)
StagedInitialize ==
    /\ At("idle") /\ next = 1 /\ granted
    /\ reset' = TRUE /\ chip' = [a \in Asics |-> PowerOn]
    /\ session' = [ready |-> TRUE, lease |-> TRUE, window |-> FALSE]
    /\ verified' = {} /\ ramp' = NoRamp /\ next' = 2
    /\ sample' = [a \in Asics |-> NoSample] /\ wire' = [a \in Asics |-> "none"]
    /\ parser' = CleanParser
    /\ UNCHANGED <<present, pc, granted, anomalies, clock>>

\* The pulse of the reset line, and the discovery that starts from it.
StagedChain4 ==
    /\ At("idle") /\ next = 2 /\ session.ready /\ Authorized
    /\ reset' = FALSE /\ chip' = [a \in Asics |-> PowerOn]
    /\ verified' = {} /\ pc' = [Idle EXCEPT !.at = "assign"]
    /\ UNCHANGED <<present, next, session, granted, evidence, parser, ramp, clock>>

\* A NOOP to the default address is answered by the first ASIC without identifier.
ProbeNoop(assigned) == assigned < present

\* One ASIC answers at the default address, takes its identifier and reads it
\* back; after the last one nobody may answer there.
AssignId ==
    /\ At("assign") /\ Authorized /\ ProbeNoop(pc.i - 1)
    /\ chip' = [chip EXCEPT ![pc.i].id = TRUE]
    /\ IF pc.i < AsicCount
       THEN pc' = [pc EXCEPT !.i = @ + 1] /\ UNCHANGED <<verified, next>>
       ELSE ~ProbeNoop(pc.i) /\ pc' = Idle /\ verified' = {"chain"} /\ next' = 3
    /\ UNCHANGED <<present, session, granted, reset, evidence, parser, ramp, clock>>

(***************************************************************************)
(* BZM_staged_sensors                                                      *)
(***************************************************************************)
StagedSensors ==
    /\ At("idle") /\ next = 3 /\ session.ready /\ "chain" \in verified /\ ~parser.partial
    /\ verified' = {"chain"} /\ pc' = [Idle EXCEPT !.at = "sensor", !.for = "sensors"]
    /\ parser' = CleanParser
    /\ UNCHANGED <<present, next, session, granted, hardware, evidence, ramp, clock>>

\* Quiesce the ASIC, program its sensors, and read every register back.
ProgramSensors ==
    /\ At("sensor") /\ Authorized
    /\ WriteAndVerify(pc.i, [chip[pc.i] EXCEPT !.tdm = FALSE, !.sensing = TRUE])
    /\ Outdated /\ Each("tdm")
    /\ UNCHANGED <<present, next, verified, session, granted, reset, parser, ramp, clock>>

\* One broadcast starts all transmitters, and the clock is read after it.
StartTdm ==
    /\ At("tdm") /\ Authorized
    /\ BroadcastTdm(TRUE)
    /\ sample' = Stamp(sample) /\ anomalies' = Uncounted /\ UNCHANGED wire
    /\ Go("acquire")
    /\ UNCHANGED <<present, next, verified, session, granted, reset, parser, ramp, clock>>

(***************************************************************************)
(* verify_telemetry: snapshots until every ASIC was heard since the         *)
(* configuration, then until all are safe or one is not for long.           *)
(***************************************************************************)
AllHeard == \A a \in Asics : sample[a].fresh

Acquire ==
    /\ At("acquire") /\ Authorized
    /\ IF AllHeard \/ pc.n = Attempts
       THEN Go("observe") /\ UNCHANGED evidence
       ELSE SomeIngested(anomalies) /\ pc' = [pc EXCEPT !.n = @ + 1]
    /\ UNCHANGED <<present, next, verified, session, granted, hardware, parser, ramp, clock>>

\* Mutant: a sample from before the configuration will do.
SnapshotSafeAnyAge == \A a \in Asics : sample[a].quality \in {"good", "odd"}

\* No sample is missing, from before the configuration, or unsafe beyond doubt.
SnapshotSafe == \A a \in Asics : sample[a].fresh /\ sample[a].quality \in {"good", "odd"}

\* bzm_telemetry_confirmation_observe: a sample counts once, a good one clears, and
\* a trip is enough by itself.
Count(a) == CASE anomalies[a].seen           -> anomalies[a].count
              [] sample[a].quality = "good"  -> 0
              [] sample[a].quality = "odd"   -> anomalies[a].count + 1
              [] OTHER                       -> ConfirmSamples
Tally == [a \in Asics |-> [count |-> Count(a), seen |-> TRUE]]
Confirmed == \A a \in Asics : Count(a) = 0
Continuous == \E a \in Asics : Count(a) >= ConfirmSamples

\* An odd reading is looked at again, as long as it is not there for good.
Recheck ==
    /\ At("observe") /\ Authorized
    /\ SnapshotSafe /\ ~Confirmed /\ ~Continuous /\ pc.n < ConfirmSamples * AsicCount
    /\ SomeIngested(Tally) /\ pc' = [pc EXCEPT !.n = @ + 1]
    /\ UNCHANGED <<present, next, verified, session, granted, hardware, parser, ramp, clock>>

Accepts == At("observe") /\ SnapshotSafe /\ Confirmed

AcceptSensors ==
    /\ Accepts /\ pc.for = "sensors"
    /\ Go("settle")
    /\ UNCHANGED <<present, next, verified, session, granted, hardware, evidence, parser, ramp, clock>>

(***************************************************************************)
(* BZM_staged_clocks                                                       *)
(***************************************************************************)
\* The broadcast that silences the chain before any register is read.
StagedClocks ==
    /\ At("idle") /\ next = 4 /\ session.ready /\ "sensors" \in verified /\ Authorized
    /\ verified' = {"chain", "sensors"} /\ BroadcastTdm(FALSE)
    /\ pc' = [Idle EXCEPT !.at = "quiet", !.for = "clocks"]
    /\ UNCHANGED <<present, next, session, granted, reset, evidence, parser, ramp, clock>>

\* Mutant: the broadcast is taken at its word.
QuietReadBackTrusting ==
    /\ At("quiet") /\ Authorized /\ UNCHANGED evidence
    /\ Each(IF pc.for = "clocks" THEN "pll" ELSE "open")
    /\ UNCHANGED <<present, next, verified, session, granted, hardware, parser, ramp, clock>>

\* TDM control reads back as off, which also brings in what the ASIC had sent.
QuietReadBack ==
    /\ At("quiet") /\ Authorized /\ ~chip[pc.i].tdm
    /\ ReadBehindFrames(pc.i)
    /\ Each(IF pc.for = "clocks" THEN "pll" ELSE "open")
    /\ UNCHANGED <<present, next, verified, session, granted, hardware, parser, ramp, clock>>

\* Dividers written with the PLLs off, PLLs enabled, dividers read back, locks
\* awaited, DLLs off, sensor controls proved again.
ProgramPll ==
    /\ At("pll") /\ Authorized
    /\ WriteAndVerify(pc.i, [chip[pc.i] EXCEPT !.pll = 1])
    /\ Outdated /\ Each("tdm")
    /\ UNCHANGED <<present, next, verified, session, granted, reset, parser, ramp, clock>>

AcceptClocks ==
    /\ Accepts /\ pc.for = "clocks"
    /\ verified' = verified \cup {"clocks"} /\ next' = 5 /\ pc' = Idle
    /\ clock' = [a \in Asics |-> 1]
    /\ UNCHANGED <<present, session, granted, hardware, evidence, parser, ramp>>

(***************************************************************************)
(* BZM_staged_balanced_ramp                                                *)
(***************************************************************************)
StagedBalancedRamp ==
    /\ At("idle") /\ next = 5 /\ session.ready /\ "clocks" \in verified /\ TopologyIsExact
    /\ pc' = [Idle EXCEPT !.at = "mute", !.for = "ramp"]
    /\ parser' = [parser EXCEPT !.broken = FALSE]
    /\ UNCHANGED <<present, next, verified, session, granted, hardware, evidence, ramp, clock>>

\* Mutant: result reports stay as they are during the ramp.
MuteReportsNever ==
    /\ At("mute") /\ Authorized /\ Each("capture")
    /\ UNCHANGED <<present, next, verified, session, granted, hardware, evidence, parser, ramp, clock>>

MuteReports ==
    /\ At("mute") /\ Authorized
    /\ WriteAndVerify(pc.i, [chip[pc.i] EXCEPT !.reports = FALSE])
    /\ ReadBehindFrames(pc.i) /\ Each("capture")
    /\ UNCHANGED <<present, next, verified, session, granted, reset, parser, ramp, clock>>

\* Before each batch, for the choice of the stack to start with: the UART is read
\* until it is idle, and the telemetry that is then in the store is looked at, in an
\* attempt that counts from where the last one of this batch ended.
WaitTdmIdle ==
    /\ At("capture") /\ pc.n < ConfirmSamples * AsicCount /\ ~parser.partial
    /\ pc.n = 0 => Authorized
    /\ \E q \in [OnTheWire -> Qualities] :
           Ingested(OnTheWire, q, IF pc.n = 0 THEN Uncounted ELSE anomalies)
    /\ pc' = [pc EXCEPT !.at = "captured"]
    /\ UNCHANGED <<present, next, verified, session, granted, hardware, parser, ramp, clock>>

\* An odd reading of an attempt: another one is made.
CaptureBatchTelemetry ==
    /\ At("captured") /\ ~Confirmed /\ ~Continuous
    /\ anomalies' = Tally /\ pc' = [pc EXCEPT !.at = "capture", !.n = @ + 1]
    /\ UNCHANGED <<present, next, verified, session, granted, hardware, sample, wire, parser, ramp, clock>>

\* staged_ramp_set_tdm(false): one broadcast silences the chain; it is read back.
PauseTdm ==
    /\ At("captured") /\ Authorized /\ Confirmed
    /\ BroadcastTdm(FALSE) /\ Go("quiet")
    /\ anomalies' = Uncounted /\ UNCHANGED <<sample, wire>>
    /\ UNCHANGED <<present, next, verified, session, granted, reset, parser, ramp, clock>>

OpenWindow ==
    /\ At("open") /\ ~parser.partial
    /\ session' = [session EXCEPT !.window = TRUE]
    /\ parser' = [parser EXCEPT !.window = FALSE] /\ Go("commit")
    /\ UNCHANGED <<present, next, verified, granted, hardware, evidence, ramp, clock>>

\* The engines of ASIC i when its next one is started: a soft reset comes before
\* its first pair.
Prepared(i) == IF ramp[i].prepared THEN chip[i].active ELSE {}
PairEngines == LET p == BalancedPairAt(pc.pair) IN {p.bottom, p.top}
Starting(e) == [chip EXCEPT ![pc.i].active = Prepared(pc.i) \cup {e}]

\* One engine is configured, given a sentinel job and seen busy; the other engine
\* of the pair follows.  Either stack may be the higher one, which comes first.
ActivateEngine ==
    /\ At("commit") /\ Authorized /\ ramp[pc.i].pair = pc.pair
    /\ \E e \in PairEngines \ Prepared(pc.i) : chip' = Starting(e)
    /\ Outdated
    /\ IF pc.n = 0
       THEN /\ pc' = [pc EXCEPT !.n = 1]
            /\ ramp' = [ramp EXCEPT ![pc.i].prepared = TRUE]
       ELSE /\ IF pc.i < AsicCount THEN pc' = [pc EXCEPT !.i = @ + 1, !.n = 0] ELSE Go("close")
            /\ ramp' = [ramp EXCEPT ![pc.i].pair = @ + 1]
    /\ UNCHANGED <<present, next, verified, session, granted, reset, parser, clock>>

\* An engine that starts but cannot be proved busy.
ActivationUnproved ==
    /\ At("commit") /\ \E e \in PairEngines \ Prepared(pc.i) : FailClosedLeaving(Starting(e))

\* staged_balanced_batch_end: the window must be clean; TDM is resumed by one
\* unacknowledged broadcast, and the clock is read after it.
CloseWindow ==
    /\ At("close") /\ session.window /\ ~parser.window /\ ~parser.partial /\ Authorized
    /\ session' = [session EXCEPT !.window = FALSE]
    /\ BroadcastTdm(TRUE)
    /\ sample' = Stamp(sample) /\ anomalies' = Uncounted /\ UNCHANGED wire
    /\ Go("acquire")
    /\ UNCHANGED <<present, next, verified, granted, reset, parser, ramp, clock>>

TransitionDiscardsAccepted == [parser EXCEPT !.discarded = FALSE]

AcceptBatch ==
    /\ Accepts /\ pc.for = "ramp"
    /\ anomalies' = Uncounted
    /\ pc' = IF pc.pair + 1 < PairCount
             THEN [pc EXCEPT !.at = "capture", !.i = 1, !.n = 0, !.pair = @ + 1]
             ELSE [pc EXCEPT !.at = "barrier", !.i = 1, !.n = 0]
    /\ parser' = TransitionDiscardsAccepted
    /\ UNCHANGED <<present, next, verified, session, granted, hardware, sample, wire, ramp, clock>>

BarrierPassed ==
    ~parser.broken /\ ~parser.discarded /\ \A a \in Asics : ramp[a].pair = PairCount

ActivationBarrier ==
    /\ At("barrier") /\ Authorized /\ BarrierPassed
    /\ verified' = verified \cup {"ramp"} /\ next' = 6 /\ pc' = Idle
    /\ UNCHANGED <<present, session, granted, hardware, evidence, parser, ramp, clock>>

(***************************************************************************)
(* BZM_staged_running, and the settling of the parser                       *)
(***************************************************************************)
StagedRunning ==
    /\ At("idle") /\ next = 6 /\ session.ready /\ "ramp" \in verified /\ TopologyIsExact
    /\ pc' = [Idle EXCEPT !.at = "report", !.for = "running"]
    /\ UNCHANGED <<present, next, verified, session, granted, hardware, evidence, parser, ramp, clock>>

EnableReports ==
    /\ At("report") /\ Authorized
    /\ WriteAndVerify(pc.i, [chip[pc.i] EXCEPT !.reports = TRUE])
    /\ ReadBehindFrames(pc.i) /\ Each("enabled")
    /\ UNCHANGED <<present, next, verified, session, granted, reset, parser, ramp, clock>>

\* The clock is read when every ASIC reports.
ReportsEnabled ==
    /\ At("enabled")
    /\ sample' = Stamp(sample) /\ anomalies' = Uncounted /\ UNCHANGED wire
    /\ Go("acquire")
    /\ UNCHANGED <<present, next, verified, session, granted, hardware, parser, ramp, clock>>

\* Running is verified, the reactor rebuilt, and the parser has to settle.
AcceptRunning ==
    /\ Accepts /\ pc.for = "running" /\ ~parser.partial
    /\ verified' = verified \cup {"running"} /\ parser' = CleanParser
    /\ Go("settle")
    /\ UNCHANGED <<present, next, session, granted, hardware, evidence, ramp, clock>>

AtFrameBoundary == ~parser.partial

\* One window of staged_settle_parser that ends at a frame boundary.
SettleWindow ==
    /\ At("settle") /\ Authorized /\ ~parser.broken /\ AtFrameBoundary /\ pc.n < MaxWindows
    /\ SomeIngested(anomalies)
    /\ parser' = [parser EXCEPT !.discarded = FALSE]
    /\ LET clean == IF parser.discarded THEN 0 ELSE pc.clean + 1
       IN IF clean < CleanWindows
          THEN pc' = [pc EXCEPT !.n = @ + 1, !.clean = clean] /\ UNCHANGED <<present, next, verified>>
          ELSE pc' = Idle /\ verified' = verified \cup {pc.for}
               /\ next' = IF pc.for = "sensors" THEN 4 ELSE 7
    /\ UNCHANGED <<present, session, granted, hardware, ramp, clock>>

(***************************************************************************)
(* BZM_staged_frequency_domains_step_live                                  *)
(***************************************************************************)
\* staged_live_mining_check.
LiveAuthorized == Authorized /\ session.ready /\ "running" \in verified

\* Which changes are refused before anything is written: more than one step of the
\* ramp, or a jump that does not start from the power-on clock everywhere.
StepAllowed(target, jump) ==
    IF jump THEN target > 1 /\ \A a \in Asics : clock[a] = 1
            ELSE \A a \in Asics : target - clock[a] \in -1 .. 1

LiveStep(target) ==
    /\ At("idle") /\ next = 7 /\ LiveAuthorized
    /\ \E a \in Asics : clock[a] # target
    /\ \/ /\ StepAllowed(target, FALSE)
          /\ pc' = [Idle EXCEPT !.at = "live", !.pair = target]
       \/ /\ StepAllowed(target, TRUE)
          /\ pc' = [Idle EXCEPT !.at = "jump", !.pair = target]
    /\ UNCHANGED <<present, next, verified, session, granted, hardware, evidence, parser, ramp, clock>>

Tuned(i) == [chip EXCEPT ![i].pll = pc.pair]

\* One domain whose target differs: dividers written, read back, lock awaited.
LiveDomain ==
    /\ At("live") /\ LiveAuthorized
    /\ chip' = Tuned(pc.i) /\ clock' = [clock EXCEPT ![pc.i] = pc.pair]
    /\ pc' = IF pc.i < AsicCount THEN [pc EXCEPT !.i = @ + 1] ELSE Idle
    /\ UNCHANGED <<present, next, verified, session, granted, reset, evidence, parser, ramp>>

\* The dividers go to every ASIC at once; each one's are then read back.
LiveBroadcast ==
    /\ At("jump") /\ LiveAuthorized
    /\ \E reached \in SUBSET Asics :
           chip' = [a \in Asics |-> IF a \in reached THEN Tuned(a)[a] ELSE chip[a]]
    /\ pc' = [pc EXCEPT !.at = "jumped"]
    /\ UNCHANGED <<present, next, verified, session, granted, reset, evidence, parser, ramp, clock>>

LiveVerify ==
    /\ At("jumped") /\ LiveAuthorized /\ chip[pc.i].pll = pc.pair
    /\ IF pc.i < AsicCount THEN pc' = [pc EXCEPT !.i = @ + 1] /\ UNCHANGED clock
       ELSE pc' = Idle /\ clock' = [a \in Asics |-> pc.pair]
    /\ UNCHANGED <<present, next, verified, session, granted, hardware, evidence, parser, ramp>>

LiveAttempts == 3   \* LIVE_FREQUENCY_TRANSIENT_ATTEMPTS

\* An exchange fails, its write having taken effect or not: the step is tried again
\* from the first domain, a limited number of times; then the board has to stop.
LiveTransient ==
    /\ pc.at \in {"live", "jump", "jumped"}
    /\ chip' \in {chip} \cup (IF At("live") THEN {Tuned(pc.i)} ELSE {})
    /\ pc' = IF pc.n + 1 < LiveAttempts
             THEN [pc EXCEPT !.at = IF At("jumped") THEN "jump" ELSE @, !.i = 1, !.n = @ + 1]
             ELSE [Idle EXCEPT !.at = "lost"]
    /\ UNCHANGED <<present, next, verified, session, granted, reset, evidence, parser, ramp, clock>>

(***************************************************************************)
(* Failures and the world around                                           *)
(***************************************************************************)
\* A stage that is refused, loses its authority or meets an I/O error, a wrong
\* readback, a missing answer or bad evidence anywhere; and BZM_staged_hold_reset.
StageFails == pc.at \notin {"live", "jump", "jumped"} /\ FailClosedLeaving(chip)

\* The lease or the execution deadline lapses, or the execution is cancelled; a
\* delay or a check inside the stage may notice, and remembers.
Withdraw ==
    /\ granted /\ granted' = FALSE
    /\ session' \in {session, [session EXCEPT !.lease = FALSE]}
    /\ UNCHANGED <<present, next, pc, verified, hardware, evidence, parser, ramp, clock>>

Grant == ~granted /\ granted' = TRUE
         /\ UNCHANGED <<present, next, pc, verified, session, hardware, evidence, parser, ramp, clock>>

\* A TDM slot: the ASIC sends what it measures now.
Sense(a) ==
    /\ ~reset /\ chip[a].tdm /\ chip[a].sensing /\ wire[a] = "none"
    /\ wire' = [wire EXCEPT ![a] = "current"]
    /\ UNCHANGED <<present, next, pc, verified, session, granted, hardware, sample, anomalies, parser, ramp, clock>>

\* Bytes that form no frame are discarded; a frame nobody asked for or that does not
\* decode is counted; a frame is in the buffer in part.
DiscardedByte == [parser EXCEPT !.discarded = TRUE, !.window = TRUE]
UnexpectedHeader == [parser EXCEPT !.broken = TRUE, !.window = TRUE]
PartialFrame == [parser EXCEPT !.partial = ~@]

Noise ==
    /\ session.ready
    /\ parser' \in {DiscardedByte, UnexpectedHeader, PartialFrame}
    /\ UNCHANGED <<present, next, pc, verified, session, granted, hardware, evidence, ramp, clock>>

Init ==
    /\ present \in AsicCount - 1 .. AsicCount + 1
    /\ next = 1 /\ pc = Idle /\ verified = {} /\ session = NoSession /\ granted = FALSE
    /\ reset = TRUE /\ chip = [a \in Asics |-> PowerOn]
    /\ sample = [a \in Asics |-> NoSample] /\ anomalies = Uncounted
    /\ wire = [a \in Asics |-> "none"] /\ parser = CleanParser
    /\ ramp = NoRamp /\ clock = [a \in Asics |-> 1]

Next ==
    \/ StagedInitialize \/ StagedChain4 \/ AssignId
    \/ StagedSensors \/ ProgramSensors \/ StartTdm \/ Acquire \/ Recheck \/ AcceptSensors
    \/ StagedClocks \/ QuietReadBack \/ ProgramPll \/ AcceptClocks
    \/ StagedBalancedRamp \/ MuteReports \/ WaitTdmIdle \/ CaptureBatchTelemetry \/ PauseTdm \/ OpenWindow \/ ActivateEngine
    \/ ActivationUnproved \/ CloseWindow \/ AcceptBatch \/ ActivationBarrier
    \/ StagedRunning \/ EnableReports \/ ReportsEnabled \/ AcceptRunning \/ SettleWindow
    \/ \E target \in 1 .. TopClock : LiveStep(target)
    \/ LiveDomain \/ LiveBroadcast \/ LiveVerify \/ LiveTransient
    \/ StageFails \/ Withdraw \/ Grant \/ Noise
    \/ \E a \in Asics : Sense(a)

Spec == Init /\ [][Next]_vars

(***************************************************************************)
(* Properties                                                              *)
(***************************************************************************)
\* Telemetry that lets a stage or a batch of engines pass was measured after the
\* last change of the chain, although the code only knows when it was read.
AcceptsCurrent == Accepts /\ pc'.at # "observe" /\ verified' # {}
                    => \A a \in Asics : sample[a].current
EvidenceIsCurrent == [][AcceptsCurrent]_vars

\* No engine works with its results unframed: where engines run and reports are
\* on, TDM is on, even after a failure whose reset did not reach the chain.
FramedReports == \A a \in Asics : chip[a].active # {} /\ chip[a].reports => chip[a].tdm

\* The two stacks of an ASIC, in series on one supply, never differ by more than
\* one running engine, whatever fails in the middle of a pair.
Running(a, stack) == Cardinality({e \in chip[a].active : StackForRow(e[1]) = stack})
StacksBalanced ==
    \A a \in Asics : Running(a, "bottom") - Running(a, "top") \in -1 .. 1

\* A chain taken for running is what the flags say: every ASIC is identified and out
\* of reset, sends framed telemetry and results, runs all its engines, at the clock
\* the driver believes in.
RunningMatchesHardware ==
    At("idle") /\ "running" \in verified =>
        /\ ~reset /\ present = AsicCount
        /\ \A a \in Asics : /\ chip[a].id /\ chip[a].tdm /\ chip[a].reports
                            /\ chip[a].active = Engines /\ chip[a].pll = clock[a]

\* What a start of the chain leaves behind, wherever it stops: no engine works
\* with its reports on and its transmitter off, the stacks are balanced, and a
\* chain taken for running runs.
BringUpVerified == FramedReports /\ StacksBalanced /\ RunningMatchesHardware
=============================================================================
