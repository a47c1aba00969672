---------------------------- MODULE BoardRuntime ----------------------------
(***************************************************************************)
(* The Bonanza board at run time (main/power/bzm_board_power.c): the power  *)
(* task's board operations, the board I/O task, the mining driver that      *)
(* writes work while its gate is open, and the bridge with its own output   *)
(* lease.                                                                  *)
(*                                                                         *)
(* RUNTIME.lock serialises the power task and the I/O task; REACTOR_LOCK    *)
(* serialises the driver, the live PLL transition and the reset of the      *)
(* staged transport.  The dispatch gate and the requests to stop are        *)
(* atomics that anybody may change between two steps.  Every command to     *)
(* the bridge may be lost, or take effect without its answer arriving.      *)
(*                                                                         *)
(* The supervisor is reduced to who owns the board, the fault latch and     *)
(* the lease (module Supervisor has the rest); health verdicts and mining   *)
(* evidence are outcomes (modules HealthSampling and RunningEvidence).      *)
(* Deadlines are the ticks left.  Tuning generations and pause_requested    *)
(* after a lock are left out: only the power task itself changes them.      *)
(***************************************************************************)
EXTENDS Naturals

CONSTANTS Watchdog,     \* ticks of BZM_BOARD_WATCHDOG_MS
          BridgeLease,  \* ticks of the bridge's output lease
          Levels        \* operating points 1 .. Levels: clock and rail voltage

\* The leases and the number of operating points are numbers of ticks and levels.
Parameters == Watchdog \in Nat /\ BridgeLease \in Nat /\ Levels \in Nat
ASSUME BoardRuntimeAssumption == Parameters

VARIABLES
    pc,        \* the power task: where it is, the stage, and what follows a safe-off
    owner,     \* supervisor.owner: "NONE", "MINING" or "MAINTENANCE"
    fault,     \* supervisor.fault_latched
    lease,     \* ticks to supervisor.lease_deadline_ms
    exec,      \* ticks to execution_deadline_ms
    cancelled, \* execution_cancelled
    gate,      \* dispatch_enabled and ticks to dispatch_deadline_ms
    pause,     \* pause_requested
    stop,      \* POWER_MANAGEMENT_stop_requested()
    pools,     \* SYSTEM_MODULE.pools_unavailable
    health,    \* RUNTIME.health: "GOOD", "BAD", or "HOT" (BAD, recoverable overheat)
    proof,     \* running_evidence: "NONE", "PENDING", "GOOD"
    tuning,    \* rail_command_v, domain clocks, and replacement_pending
    staged,    \* the driver: stage reached, STAGED_LEASE_IO_OK, and who has REACTOR_LOCK
    bridge,    \* the bridge: state, ticks of its lease, 5 V, reset
    rail,      \* the ASIC supply
    blame      \* why the last live transition failed (history)

power  == <<owner, fault, lease>>
asked  == <<pause, stop, pools>>
vars   == <<pc, power, exec, cancelled, gate, asked, health, proof, tuning, staged, bridge,
            rail, blame>>

Running == 7   \* BZM_STAGE_RUNNING
Idle == [at |-> "idle", k |-> 0, then |-> "idle", ok |-> TRUE]
At(place) == pc.at = place

\* Who may be inside a section of RUNTIME.lock: nobody while the power task is
\* in one, which it is everywhere but between calls and in a live transition.
LockFree == pc.at \in {"idle", "stopping", "pll", "plldone"}
ReactorFree == staged.lock = "free"

ShutGate == [open |-> FALSE, left |-> 0]
SafeBridge == [state |-> "SAFE_OFF", left |-> 0, v5 |-> FALSE, reset |-> TRUE]

\* bzm_lease_guard_status_is_controlled: what a heartbeat must find.
Controlled == bridge.state = "CONTROLLED" /\ bridge.left > 0

\* bzm_supervisor_dispatch_allowed for this board.
DispatchAllowed == ~fault /\ owner = "MINING" /\ lease > 0

\* Mutant: the gate does not watch its own deadline.
AuthorizedWithoutDeadline == ~stop /\ ~pools /\ ~pause /\ gate.open

\* runtime_dispatch_authorizer.
Authorized == ~stop /\ ~pools /\ ~pause /\ gate.open /\ gate.left > 0

\* runtime_execution_authorizer, and the cancellation it records.
Executing == ~stop /\ ~pools /\ exec > 0
CancelIfAsked == cancelled' = (cancelled \/ stop \/ pools)

\* Mutant: a fault alone shuts the gate.
SyncGateByFault == gate' = IF fault' \/ owner' # "MINING" \/ lease' = 0
                           THEN ShutGate ELSE [open |-> TRUE, left |-> lease']

\* sync_dispatch_locked, from the state the operation leaves behind.
SyncGate == gate' = IF health' # "GOOD" \/ ~(~fault' /\ owner' = "MINING" /\ lease' > 0)
                    THEN ShutGate ELSE [open |-> TRUE, left |-> lease']

Init ==
    /\ pc = [Idle EXCEPT !.at = "off", !.then = "boot"]
    /\ owner = "NONE" /\ fault = FALSE /\ lease = 0 /\ exec = 0 /\ cancelled = FALSE
    /\ gate = ShutGate /\ pause = FALSE /\ stop = FALSE /\ pools = FALSE
    /\ health = "GOOD" /\ proof = "NONE"
    /\ tuning = [rail |-> 1, clock |-> 1, replacing |-> FALSE]
    /\ staged = [stage |-> 0, ioOk |-> FALSE, lock |-> "free"]
    /\ rail \in BOOLEAN
    /\ bridge \in {SafeBridge,
                   [SafeBridge EXCEPT !.state = "FAULT"],
                   [SafeBridge EXCEPT !.state = "CONTROLLED", !.left = BridgeLease, !.v5 = TRUE]}
    /\ blame = "none"

-----------------------------------------------------------------------------
(* runtime_force_safe_off *)

\* The power task continues with a forced safe-off, after which comes next.
ForceOff(next) == pc' = [Idle EXCEPT !.at = "off", !.then = next]

\* The gate is shut, the staged transport taken down, and disarm, reset, 5 V and
\* regulator commands sent.  done are the commands that took effect; the answers
\* may be missing all the same.
SafeOff ==
    /\ At("off") /\ ReactorFree
    /\ gate' = ShutGate /\ proof' = "NONE"
    /\ staged' = [stage |-> 0, ioOk |-> FALSE, lock |-> "free"]
    /\ \E done \in SUBSET {"disarm", "reset", "5v", "rail"}, answered \in BOOLEAN :
         LET cut == bridge.state = "CONTROLLED" /\ "disarm" \in done
         IN  /\ bridge' = IF cut THEN SafeBridge
                          ELSE [bridge EXCEPT !.reset = @ \/ "reset" \in done,
                                              !.v5 = @ /\ "5v" \notin done]
             /\ rail' = (rail /\ "rail" \notin done)
             /\ pc' = [pc EXCEPT !.at = "verify",
                                 !.ok = answered /\ {"reset", "5v", "rail"} \subseteq done]
    /\ UNCHANGED <<power, exec, cancelled, asked, health, tuning, blame>>

\* The latch of a bridge fault is cleared once the supply is proven off.
ClearLatched(b) ==
    IF ~rail /\ b.state = "FAULT" /\ ~b.v5 /\ b.reset THEN {b, SafeBridge} ELSE {b}

\* Mutant: the verdict looks at the regulator alone.
VerdictElectrical(b, ok, readable) == readable /\ ~rail

\* commands_ok, electrical_safe and bridge_safe together; readable is whether
\* the regulator and the bridge answered at all.
Verdict(b, ok, readable) == readable /\ ok /\ ~rail /\ b = SafeBridge

\* What the operation that asked for the safe-off makes of its result:
\* bzm_supervisor_stop, _latch_fault, _request_validation, _acquire_maintenance.
AfterOff(good) ==
    LET ends == pc.then # "stage" \/ ~good
        fresh == pc.then = "own" /\ owner = "NONE"
    IN  /\ owner' = IF pc.then = "own" /\ good /\ (fresh \/ ~fault) THEN "MAINTENANCE" ELSE "NONE"
        /\ fault' = CASE good /\ (pc.then = "clear" \/ fresh) -> FALSE
                      [] pc.then \in {"latch", "failed"} -> TRUE
                      [] OTHER -> fault \/ ~good
        /\ lease' = 0
        /\ exec' = IF ends THEN 0 ELSE exec
        /\ pc' = CASE pc.then = "clear" /\ good -> [Idle EXCEPT !.at = "begin"]
                   [] pc.then = "stage" /\ good -> [Idle EXCEPT !.at = "stage", !.k = 1]
                   [] OTHER -> Idle
        /\ pause' = (pause \/ (ends /\ pc.then \in {"stage", "failed", "cancelled"}))
        /\ tuning' = IF good THEN [rail |-> 1, clock |-> 1, replacing |-> FALSE] ELSE tuning

\* The readback, the clearing of a retained bridge fault, and the verdict.
Verify ==
    /\ At("verify")
    /\ \E readable \in BOOLEAN, b \in ClearLatched(bridge) :
         /\ bridge' = b
         /\ AfterOff(Verdict(b, pc.ok, readable))
    /\ UNCHANGED <<cancelled, gate, stop, pools, health, proof, staged, rail, blame>>

-----------------------------------------------------------------------------
(* BZM_board_start *)

\* board_start up to the validation: a latched fault is cleared by a fresh
\* OFF_SAFE first.  The policy starts only a board it has stopped.
Start ==
    /\ At("idle") /\ owner = "NONE"
    /\ IF fault THEN ForceOff("clear") ELSE pc' = [Idle EXCEPT !.at = "begin"]
    /\ health' = "GOOD" /\ cancelled' = FALSE
    /\ tuning' = [tuning EXCEPT !.replacing = FALSE]
    /\ UNCHANGED <<power, exec, gate, asked, proof, staged, bridge, rail, blame>>

\* start_production_mining_locked hands the board to the validation, whose
\* stage 0 is the safe-off.  A target that cannot be resolved ends the start.
Begin ==
    /\ At("begin")
    /\ \/ /\ ForceOff("stage")
          /\ pause' = FALSE /\ exec' = Watchdog
          /\ gate' = ShutGate
          /\ tuning' = [rail |-> 1, clock |-> 1, replacing |-> FALSE]
       \/ /\ pc' = Idle
          /\ UNCHANGED <<pause, exec, gate, tuning>>
    /\ UNCHANGED <<power, cancelled, stop, pools, health, proof, staged, bridge, rail, blame>>

\* What a stage that passes has done.  run_controls arms, proves and disarms
\* the lease.
Controls == bridge' = SafeBridge /\ UNCHANGED rail

\* run_power_rail arms the lease and enables the regulator, chain still in reset.
PowerRail == /\ bridge' = [bridge EXCEPT !.state = "CONTROLLED", !.left = BridgeLease]
             /\ rail' = TRUE

\* run_chain4 switches 5 V on and releases reset.
Chain4 == /\ bridge' = [bridge EXCEPT !.v5 = TRUE, !.reset = FALSE, !.left = BridgeLease]
          /\ UNCHANGED rail

\* run_sensors, run_clocks, run_balanced_ramp and run_running renew the lease all
\* along.
LaterStage == bridge' = [bridge EXCEPT !.left = BridgeLease] /\ UNCHANGED rail

StageEffect(k) == CASE k = 1 -> Controls
                    [] k = 2 -> PowerRail
                    [] k = 3 -> Chain4
                    [] k > 3 -> LaterStage

\* The bridge is as stage k must find it.
StageReady(k) == IF k <= 2 THEN bridge = SafeBridge ELSE Controlled

\* runtime_run_stage: stages from POWER_RAIL on are authorized on entry and on
\* exit; a staged operation of the driver is authorized throughout.
StagePasses ==
    /\ At("stage") /\ ReactorFree
    /\ pc.k < 2 \/ Executing
    /\ StageReady(pc.k)
    /\ StageEffect(pc.k)
    /\ staged' = IF pc.k >= 3 THEN [stage |-> pc.k, ioOk |-> TRUE, lock |-> "free"] ELSE staged
    /\ IF pc.k = Running THEN pc' = [Idle EXCEPT !.at = "held"] ELSE pc' = [pc EXCEPT !.k = @ + 1]
    /\ IF pc.k = Running THEN owner' = "MINING" /\ lease' = Watchdog /\ exec' = 0
                         ELSE UNCHANGED <<owner, lease, exec>>
    /\ UNCHANGED <<fault, cancelled, gate, asked, health, proof, tuning, blame>>

\* A stage fails: having done its work or part of it.  Cancelled, the start
\* ends without a fault; otherwise the fault is latched.
StageFails ==
    /\ At("stage") /\ ReactorFree
    /\ \/ StageReady(pc.k) /\ StageEffect(pc.k)
       \/ UNCHANGED <<rail, bridge>>
    /\ IF pc.k >= 2 THEN CancelIfAsked ELSE UNCHANGED cancelled
    /\ ForceOff(IF cancelled' THEN "cancelled" ELSE "failed")
    /\ staged' = [staged EXCEPT !.stage = 0, !.ioOk = FALSE]
    /\ UNCHANGED <<power, exec, gate, asked, health, proof, tuning, blame>>

\* The end of start_production_mining_locked: a last health sample, and the gate
\* opens.
Held ==
    /\ At("held")
    /\ \E verdict \in {"GOOD", "BAD", "HOT"} :
         /\ health' = verdict
         /\ IF verdict = "GOOD"
            THEN pc' = Idle /\ proof' = "PENDING" /\ UNCHANGED power /\ SyncGate
            ELSE ForceOff("failed") /\ gate' = ShutGate /\ UNCHANGED <<proof, power>>
    /\ UNCHANGED <<exec, cancelled, asked, tuning, staged, bridge, rail, blame>>

-----------------------------------------------------------------------------
(* The other board operations of the power task *)

\* BZM_board_stop and board_acquire_maintenance publish their intent before
\* they wait for the lock.
Intend(next) ==
    /\ At("idle") /\ (next = "own" => owner # "MAINTENANCE")
    /\ pause' = TRUE
    /\ pc' = [Idle EXCEPT !.at = "stopping", !.then = next]
    /\ UNCHANGED <<power, exec, cancelled, gate, stop, pools, health, proof, tuning, staged,
                   bridge, rail, blame>>

\* BZM_board_stop (then = "stop"), board_acquire_maintenance and
\* board_prepare_restart ("own"), board_release_maintenance ("release").  A stop
\* is refused while maintenance has the board.
TakeDown ==
    /\ At("stopping")
    /\ gate' = ShutGate
    /\ IF pc.then = "stop" /\ owner = "MAINTENANCE" THEN pc' = Idle ELSE ForceOff(pc.then)
    /\ proof' = "NONE"
    /\ UNCHANGED <<power, exec, cancelled, asked, health, tuning, staged, bridge, rail, blame>>

\* BZM_board_sample: the supervisor's lease is renewed, mining evidence is
\* judged, and the gate follows.
Sample ==
    /\ At("idle")
    /\ IF owner = "MINING"
       THEN \E evidence \in {"PENDING", "GOOD", "BAD"} :
              /\ lease' = IF lease > 0 THEN Watchdog ELSE lease
              /\ health' = IF lease = 0 \/ evidence = "BAD" THEN "BAD" ELSE health
              /\ proof' = IF evidence = "BAD" THEN "PENDING" ELSE evidence
       ELSE UNCHANGED <<lease, health, proof>>
    /\ UNCHANGED <<owner, fault>>
    /\ SyncGate
    /\ UNCHANGED <<pc, exec, cancelled, asked, tuning, staged, bridge, rail, blame>>

-----------------------------------------------------------------------------
(* BZM_board_apply: live tuning *)

\* tuning_snapshot: nothing is tuned before the mining proof or without the
\* right to dispatch.
Tunable == At("idle") /\ DispatchAllowed /\ ~pause /\ proof = "GOOD" /\ staged.stage = Running

\* frequency_apply_voltage: refused after a stop request; a rail that does not
\* follow latches a fault.
SetRail(level) ==
    \/ /\ ~stop
       /\ tuning' = [tuning EXCEPT !.rail = level]
       /\ \/ UNCHANGED <<pc, gate>>
          \/ ForceOff("latch") /\ gate' = ShutGate
    \/ stop /\ UNCHANGED <<pc, gate, tuning>>

\* Mutant: the clock is raised first.
RailFirstNever(level) == FALSE

\* The voltage goes first on the way up and last on the way down.
RailFirst(level) == level > tuning.rail

Apply(level) ==
    /\ Tunable /\ ~tuning.replacing
    /\ \/ /\ RailFirst(level) \/ (tuning.clock = level /\ level < tuning.rail)
          /\ SetRail(level)
          /\ UNCHANGED staged
       \/ /\ ~RailFirst(level) /\ tuning.clock # level
          /\ pc' = [Idle EXCEPT !.at = "pll", !.k = level]
          /\ UNCHANGED <<gate, tuning, staged>>
    /\ UNCHANGED <<power, exec, cancelled, asked, health, proof, bridge, rail, blame>>

\* The replacement of the work that crossed a transition is over.
ReplacementEnds ==
    /\ Tunable /\ tuning.replacing
    /\ tuning' = [tuning EXCEPT !.replacing = FALSE]
    /\ UNCHANGED <<pc, power, exec, cancelled, gate, asked, health, proof, staged, bridge, rail,
                   blame>>

\* BZM_staged_frequency_domains_step_live takes REACTOR_LOCK for the transition.
TransitionBegins ==
    /\ At("pll") /\ ReactorFree
    /\ staged' = [staged EXCEPT !.lock = "power"]
    /\ UNCHANGED <<pc, power, exec, cancelled, gate, asked, health, proof, tuning, bridge, rail,
                   blame>>

\* One step of the clock towards the target; the work of the engines is
\* invalidated.
ClockStep(level) == IF level > tuning.clock THEN tuning.clock + 1 ELSE tuning.clock - 1

\* The transition ends.  Every register access asks staged_live_mining_check
\* first, so it fails when the gate shuts or the bridge is lost under it.
TransitionEnds ==
    /\ At("pll") /\ staged.lock = "power"
    /\ \/ /\ Authorized /\ staged.ioOk /\ Controlled
          /\ \E b \in {bridge, [bridge EXCEPT !.left = BridgeLease]} : bridge' = b
          /\ \E ok \in BOOLEAN :
               /\ blame' = IF ok THEN "none" ELSE "hardware"
               /\ pc' = [pc EXCEPT !.at = "plldone", !.ok = ok]
               /\ tuning' = IF ok THEN [tuning EXCEPT !.clock = ClockStep(pc.k)] ELSE tuning
          /\ staged' = [staged EXCEPT !.lock = "free"]
       \/ /\ ~(Authorized /\ staged.ioOk /\ Controlled)
          /\ blame' = CASE ~Controlled \/ ~staged.ioOk -> "hardware"
                        [] Controlled /\ staged.ioOk /\ pools -> "pools"
                        [] OTHER -> "gate"
          /\ pc' = [pc EXCEPT !.at = "plldone", !.ok = FALSE]
          /\ staged' = [staged EXCEPT !.ioOk = FALSE, !.lock = "free"]
          /\ UNCHANGED <<bridge, tuning>>
    /\ UNCHANGED <<power, exec, cancelled, gate, asked, health, proof, rail>>

\* frequency_transition_authorized_locked.
TransitionCounts == ~stop /\ ~pause /\ DispatchAllowed

\* The rest of frequency_apply_domains, under the lock again.
Transition ==
    /\ At("plldone")
    /\ IF ~TransitionCounts THEN pc' = Idle /\ UNCHANGED <<gate, proof, tuning>>
       ELSE IF ~pc.ok THEN ForceOff("latch") /\ gate' = ShutGate /\ UNCHANGED <<proof, tuning>>
       ELSE pc' = Idle /\ proof' = "PENDING" /\ tuning' = [tuning EXCEPT !.replacing = TRUE]
            /\ UNCHANGED gate
    /\ UNCHANGED <<power, exec, cancelled, asked, health, staged, bridge, rail, blame>>

-----------------------------------------------------------------------------
(* The board I/O task, the driver and the world *)

\* Mutant: the bridge is kept alive as long as the power task is.
RenewWhileLeased == lease > 0

\* The I/O task renews the bridge's lease only for a healthy board whose power
\* task is alive.
Renew == health = "GOOD" /\ lease > 0

\* board_io_task: one period.
BoardIo ==
    /\ LockFree /\ ReactorFree /\ owner = "MINING"
    /\ IF Renew
       THEN \E answered \in BOOLEAN, verdict \in {"GOOD", "BAD", "HOT"} :
              LET alive == answered /\ Controlled
              IN  /\ bridge' = IF bridge.state = "CONTROLLED"
                               THEN [bridge EXCEPT !.left = BridgeLease] ELSE bridge
                  /\ health' = IF alive THEN verdict ELSE "BAD"
       ELSE UNCHANGED <<bridge, health>>
    /\ gate' = IF ~Renew \/ health' # "GOOD" THEN ShutGate ELSE gate
    /\ UNCHANGED <<pc, power, exec, cancelled, asked, proof, tuning, staged, rail, blame>>

\* The job creator enters a dispatch, which holds REACTOR_LOCK.
DispatchBegins ==
    /\ ReactorFree /\ staged.stage = Running /\ Authorized
    /\ staged' = [staged EXCEPT !.lock = "driver"]
    /\ UNCHANGED <<pc, power, exec, cancelled, gate, asked, health, proof, tuning, bridge, rail,
                   blame>>

\* staged_mining_dispatch_checkpoint before an engine write: the gate is asked
\* again and the bridge's lease renewed when due; or that fails, for the gate, the
\* bridge's state or a lost answer, and the driver's link to the bridge is given
\* up for good.
Checkpoint ==
    /\ staged.lock = "driver"
    /\ \/ /\ Authorized /\ staged.ioOk
          /\ \E renewed \in BOOLEAN :
               /\ renewed => Controlled
               /\ bridge' = IF renewed THEN [bridge EXCEPT !.left = BridgeLease] ELSE bridge
               /\ staged' = [staged EXCEPT !.lock = "free"]
       \/ /\ staged' = [staged EXCEPT !.ioOk = FALSE, !.lock = "free"]
          /\ UNCHANGED bridge
    /\ UNCHANGED <<pc, power, exec, cancelled, gate, asked, health, proof, tuning, rail, blame>>

\* The Stratum task and the callers of POWER_MANAGEMENT_request.
Ask == /\ \/ stop' \in BOOLEAN /\ stop' # stop /\ UNCHANGED pools
          \/ pools' = ~pools /\ UNCHANGED stop
       /\ UNCHANGED <<pc, power, exec, cancelled, gate, pause, health, proof, tuning, staged,
                      bridge, rail, blame>>

Less(t) == IF t = 0 THEN 0 ELSE t - 1

\* Time passes.  A bridge whose lease runs out latches a fault with its outputs
\* safe.
Tick ==
    /\ lease' = Less(lease) /\ exec' = Less(exec)
    /\ gate' = [gate EXCEPT !.left = Less(@)]
    /\ bridge' = IF bridge.state = "CONTROLLED" /\ bridge.left <= 1
                 THEN [SafeBridge EXCEPT !.state = "FAULT"]
                 ELSE [bridge EXCEPT !.left = Less(@)]
    /\ UNCHANGED <<pc, owner, fault, cancelled, asked, health, proof, tuning, staged, rail, blame>>

\* The trip input: the bridge makes its outputs safe by itself.
Trip ==
    /\ bridge.state = "CONTROLLED"
    /\ bridge' = [SafeBridge EXCEPT !.state = "FAULT"]
    /\ UNCHANGED <<pc, power, exec, cancelled, gate, asked, health, proof, tuning, staged, rail,
                   blame>>

PowerTaskStep ==
    \/ SafeOff \/ Verify
    \/ Start \/ Begin \/ StagePasses \/ StageFails \/ Held
    \/ \E next \in {"stop", "own"} : Intend(next)
    \/ owner = "MAINTENANCE" /\ Intend("release")
    \/ TakeDown \/ Sample
    \/ \E level \in 1 .. Levels : Apply(level)
    \/ ReplacementEnds \/ TransitionBegins \/ TransitionEnds \/ Transition

Next == PowerTaskStep \/ BoardIo \/ DispatchBegins \/ Checkpoint \/ Ask \/ Tick \/ Trip

\* The I/O task and the driver run at their own priorities, and time passes;
\* nothing is assumed of the power task.
Spec == /\ Init /\ [][Next]_vars
        /\ WF_vars(BoardIo) /\ WF_vars(Tick) /\ WF_vars(Checkpoint)

-----------------------------------------------------------------------------
(* Properties *)

\* Dead man's switch: should the power task stop, in whatever place and with
\* whatever lock held, the bridge ends up with 5 V off for good.  The driver and
\* the I/O task, which go on, do not keep the bridge's lease alive for it.
Powered == bridge.v5
DeadManSwitch == []<><<PowerTaskStep>>_vars \/ <>[](~Powered)

\* A mining board found unhealthy loses its 5 V sooner or later even if the
\* power task never acts on the verdict: board_io_task does not extend its lease.
Unhealthy == owner = "MINING" /\ health # "GOOD"
UnhealthyBoardIsCut == Unhealthy ~> ~Powered

\* Whatever commands and answers were lost on the way, a safe-off taken for
\* proven (maintenance granted, or the stages of a start entered) left the supply
\* and 5 V off and the ASICs in reset.
ProvenOffIsOff ==
    owner = "MAINTENANCE" \/ (At("stage") /\ pc.k = 1)
      => ~rail /\ ~bridge.v5 /\ bridge.reset

\* Live tuning between operating points never runs a clock at a voltage too low
\* for it, whatever changes of target, stops and failures come in between.
ClockWithinRail == tuning.clock <= tuning.rail

\* The gate through which the driver writes work is open only while the board
\* mines, no fault is latched and the last verdict on its health was good, however
\* the I/O task, samples, stops and failing transitions followed each other.
GateIsHealthy == gate.open => owner = "MINING" /\ ~fault /\ health = "GOOD"

\* What the board's operations keep, whatever is lost, stopped or edited in between.
BoardIsSafe == ProvenOffIsOff /\ ClockWithinRail /\ GateIsHealthy

\* "latch no false transition fault" (frequency_apply_domains): losing the pools
\* in the middle of a live transition is not a fault of the board.
PoolLossIsNoFault ==
    [][At("plldone") /\ pc'.then = "latch" => blame # "pools"]_vars
=============================================================================
