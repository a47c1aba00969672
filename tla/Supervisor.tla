----------------------------- MODULE Supervisor -----------------------------
(***************************************************************************)
(* The Bonanza supervisor (components/asic/bzm_supervisor.c) with the       *)
(* staged validation it runs (components/asic/bzm_validation.c): who owns   *)
(* the hardware, whether it is proven off, and whether work may be          *)
(* dispatched.                                                             *)
(*                                                                         *)
(* All calls are made under RUNTIME.lock of main/power/bzm_board_power.c,   *)
(* so each public function is one atomic action; the order of the calls is  *)
(* left open.  The results of the two board operations the supervisor      *)
(* calls (run_stage, force_safe_off) are nondeterministic.  rail is the     *)
(* ASIC supply itself, which the supervisor knows only through them.        *)
(*                                                                         *)
(* The validation report is kept as one variable per field that a guard     *)
(* reads: of the per-stage results that is only OFF_SAFE's.  Run numbers,   *)
(* codes and texts are left out.                                           *)
(***************************************************************************)
EXTENDS Integers

CONSTANTS LastStage,     \* BZM_STAGE_RUNNING; stages are 0 (OFF_SAFE) .. LastStage
          PowerStage,    \* BZM_STAGE_POWER_RAIL: the first stage that energizes
          BuildMax,      \* config.build_max_stage
          PoweredBuild,  \* powered stages compiled in and a kill path configured
          MaxLease,      \* config.maximum_lease_ms
          MaxTime        \* bound of the model's clock

ASSUME SupervisorAssumption ==
    /\ LastStage \in Nat /\ PowerStage \in Nat \ {0} /\ PowerStage <= LastStage
    /\ BuildMax \in 0 .. LastStage
    /\ PoweredBuild \in BOOLEAN
    /\ MaxLease \in Nat \ {0}
    /\ MaxTime \in Nat

VARIABLES
    owner,      \* supervisor->owner
    fault,      \* supervisor->fault_latched
    deadline,   \* supervisor->lease_deadline_ms, 0 when there is no lease
    state,      \* report.state
    overall,    \* report.overall
    requested,  \* report.requested_stage
    reached,    \* report.reached_stage
    offStage,   \* report.stages[BZM_STAGE_OFF_SAFE].status
    finalOff,   \* report.final_safe_off.status
    energized,  \* report.energized
    rail,       \* the ASIC supply: "on" or "off"
    now,        \* the millisecond clock
    contact     \* when the present owner last asked for power (history)

report == <<state, overall, requested, reached, offStage, finalOff, energized>>
vars == <<owner, fault, deadline, report, rail, now, contact>>

Stages == 0 .. LastStage
Maintainers == {"BRIDGE_UPDATE", "FACTORY_TEST", "ESP_OTA", "ESP_RESTART"}
Holders == {"VALIDATION", "MINING"}
Owners == {"NONE"} \union Holders \union Maintainers
Statuses == {"NOT_RUN", "GOOD", "BAD", "BLOCKED"}
States == {"IDLE", "OFF_SAFE", "HOLDING", "FAULT_LATCHED", "SHUTDOWN_UNVERIFIED"}

\* Mutant: a passed OFF_SAFE stage alone is proof.
SafeOffVerifiedByStage == offStage = "GOOD"

\* bzm_supervisor_safe_off_verified.
SafeOffVerified ==
    /\ ~energized
    /\ offStage = "GOOD"
    /\ finalOff = "GOOD"
    /\ state \in {"OFF_SAFE", "FAULT_LATCHED"}

\* bzm_supervisor_dispatch_allowed.
DispatchAllowed ==
    /\ ~fault
    /\ owner = "MINING"
    /\ state = "HOLDING"
    /\ overall = "GOOD"
    /\ reached = LastStage
    /\ deadline > now

-----------------------------------------------------------------------------
\* bzm_supervisor_init; nothing is known of the supply yet.
Init ==
    /\ owner = "NONE" /\ fault = FALSE /\ deadline = 0
    /\ state = "IDLE" /\ overall = "NOT_RUN"
    /\ requested = 0 /\ reached = 0
    /\ offStage = "NOT_RUN" /\ finalOff = "NOT_RUN" /\ energized = FALSE
    /\ rail \in {"on", "off"}
    /\ now = 0 /\ contact = 0

-----------------------------------------------------------------------------
(* Pieces of the public functions *)

\* force_safe_off reported GOOD: the supply is off.  Otherwise it is wherever
\* it was, or off without proof.
RailAfter(off, before) ==
    IF off = "GOOD" THEN rail' = "off" ELSE rail' \in {before, "off"}

\* Mutant: a safe-off that could not be verified is taken for one.
StillEnergizedNever(off) == FALSE

\* report.energized after a forced safe-off.
StillEnergized(off) == off # "GOOD"

\* report.state after a forced safe-off.
StateAfter(off, faulted) ==
    CASE off # "GOOD" -> "SHUTDOWN_UNVERIFIED"
      [] off = "GOOD" /\ faulted -> "FAULT_LATCHED"
      [] off = "GOOD" /\ ~faulted -> "OFF_SAFE"

\* stop_internal, from a report whose overall field is ov.
StopFrom(off, ov, faulted) ==
    /\ finalOff' = off
    /\ deadline' = 0
    /\ owner' = "NONE"
    /\ energized' = StillEnergized(off)
    /\ fault' = (faulted \/ off # "GOOD")
    /\ overall' = IF off # "GOOD" THEN "BAD" ELSE ov
    /\ state' = StateAfter(off, faulted)
    /\ RailAfter(off, rail)

\* The fields block_report resets that stop_internal does not set again.
Blocked(target) ==
    /\ requested' = target /\ reached' = 0
    /\ offStage' = IF target = 0 THEN "BLOCKED" ELSE "NOT_RUN"

\* validate_policy refuses the request.
PolicyRefuses(target, arm, lease) ==
    \/ target > BuildMax
    \/ target >= PowerStage /\ (~PoweredBuild \/ ~arm \/ lease = 0)

\* Mutant: the failing stage is counted back from zero.
ReachedStageUnchecked(target, k) == k - 1

\* report.reached_stage when the stages before k were GOOD.
ReachedStage(target, k) == IF k = 0 THEN 0 ELSE k - 1

\* bzm_validation_execute, and what bzm_supervisor_request_validation makes of
\* its report.  The stages before k are GOOD; k = target + 1 when all of them
\* are, otherwise stage k ended with status.  before is the supply as the first
\* stage finds it.
Executed(target, hold, lease, k, status, off, before) ==
    LET complete == k > target
        holds    == complete /\ target >= PowerStage /\ hold
        unproven == ~holds /\ off # "GOOD"
        powered  == k >= PowerStage /\ target >= PowerStage
    IN  /\ requested' = target
        /\ reached' = ReachedStage(target, k)
        /\ offStage' = IF k = 0 THEN status ELSE "GOOD"
        /\ overall' = CASE unproven -> "BAD"
                        [] ~unproven /\ complete -> "GOOD"
                        [] ~unproven /\ ~complete -> status
        /\ fault' = (fault \/ unproven \/ (~complete /\ status = "BAD"))
        /\ finalOff' = IF holds THEN "NOT_RUN" ELSE off
        /\ energized' = (holds \/ unproven)
        /\ state' = CASE unproven -> "SHUTDOWN_UNVERIFIED"
                      [] ~unproven /\ fault' -> "FAULT_LATCHED"
                      [] ~unproven /\ ~fault' /\ holds -> "HOLDING"
                      [] ~unproven /\ ~fault' /\ ~holds -> "OFF_SAFE"
        /\ owner' = CASE holds /\ target = LastStage -> "MINING"
                      [] holds /\ target # LastStage -> "VALIDATION"
                      [] ~holds -> "NONE"
        /\ deadline' = IF holds THEN now + lease ELSE 0
        /\ contact' = IF holds THEN now ELSE contact
        /\ IF holds THEN rail' = "on"
           ELSE RailAfter(off, IF powered THEN "on" ELSE before)

\* The policy check failed: no stage runs, the hardware is forced off.
NotExecuted(target, off, before) ==
    /\ requested' = target /\ reached' = 0
    /\ offStage' = IF target = 0 THEN "BLOCKED" ELSE "NOT_RUN"
    /\ overall' = IF off = "GOOD" THEN "BLOCKED" ELSE "BAD"
    /\ fault' = (fault \/ off # "GOOD")
    /\ finalOff' = off
    /\ energized' = StillEnergized(off)
    /\ state' = StateAfter(off, fault)
    /\ owner' = "NONE"
    /\ deadline' = 0
    /\ RailAfter(off, before)
    /\ UNCHANGED contact

Offs == {"GOOD", "BAD"}
StageFailures == {"BAD", "BLOCKED"}
Leases == 0 .. MaxLease + 1

-----------------------------------------------------------------------------
(* bzm_supervisor_request_validation *)

\* Refused because maintenance owns the hardware: only the report is replaced.
RequestInMaintenance(target) ==
    /\ owner \in Maintainers
    /\ Blocked(target)
    /\ state' = "OFF_SAFE" /\ overall' = "BLOCKED"
    /\ finalOff' = "NOT_RUN" /\ energized' = FALSE
    /\ UNCHANGED <<owner, fault, deadline, rail, now, contact>>

\* Refused for a latched fault or an excessive lease: report replaced, then
\* bzm_supervisor_stop.
RequestRefused(target, lease, off) ==
    /\ owner \notin Maintainers
    /\ (fault /\ target # 0) \/ lease > MaxLease
    /\ Blocked(target)
    /\ StopFrom(off, "BLOCKED", fault)
    /\ UNCHANGED <<now, contact>>

\* Mutant: a latched fault does not stand against a start.
AcceptableDespiteFault(target, lease) ==
    /\ owner \notin Maintainers
    /\ lease <= MaxLease

\* The early returns of bzm_supervisor_request_validation passed.
Acceptable(target, lease) ==
    /\ owner \notin Maintainers
    /\ ~(fault /\ target # 0)
    /\ lease <= MaxLease

\* The present holder cannot be stopped: the request ends there.
RequestStopFails(target, lease) ==
    /\ Acceptable(target, lease) /\ owner \in Holders
    /\ StopFrom("BAD", overall, fault)
    /\ UNCHANGED <<requested, reached, offStage, now, contact>>

\* The holder, if any, was stopped with proof; the policy check or the stages run.
RequestRuns(target, arm, hold, lease) ==
    /\ Acceptable(target, lease)
    /\ \E off \in Offs :
         LET before == IF owner \in Holders THEN "off" ELSE rail
         IN  \/ /\ PolicyRefuses(target, arm, lease)
                /\ NotExecuted(target, off, before)
             \/ /\ ~PolicyRefuses(target, arm, lease)
                /\ \E k \in 0 .. target + 1, status \in StageFailures :
                     Executed(target, hold, lease, k, status, off, before)
    /\ UNCHANGED now

-----------------------------------------------------------------------------
(* The other public functions *)

\* bzm_supervisor_stop.
Stop ==
    /\ owner \notin Maintainers
    /\ \E off \in Offs : StopFrom(off, overall, fault)
    /\ UNCHANGED <<requested, reached, offStage, now, contact>>

\* bzm_supervisor_tick past the deadline.
LeaseExpires ==
    /\ owner \in Holders /\ deadline # 0 /\ now >= deadline
    /\ \E off \in Offs : StopFrom(off, overall, fault)
    /\ UNCHANGED <<requested, reached, offStage, now, contact>>

\* Mutant: the lease of a heartbeat is not bounded.
HeartbeatUnbounded(lease) ==
    /\ owner \in Holders /\ state = "HOLDING"
    /\ lease # 0
    /\ now < deadline
    /\ deadline' = now + lease
    /\ contact' = now
    /\ UNCHANGED <<owner, fault, report, rail, now>>

\* bzm_supervisor_heartbeat: an expired lease cannot be revived.
Heartbeat(lease) ==
    /\ owner \in Holders /\ state = "HOLDING"
    /\ lease \in 1 .. MaxLease
    /\ now < deadline
    /\ deadline' = now + lease
    /\ contact' = now
    /\ UNCHANGED <<owner, fault, report, rail, now>>

\* bzm_supervisor_latch_fault: the only call that takes the hardware from a
\* maintenance owner.
LatchFault ==
    /\ \E off \in Offs : StopFrom(off, "BAD", TRUE)
    /\ UNCHANGED <<requested, reached, offStage, now, contact>>

\* Mutant: clearing a fault needs no proof.
ClearFaultUnproven ==
    /\ fault
    /\ fault' = FALSE
    /\ state' = "OFF_SAFE"
    /\ UNCHANGED <<owner, deadline, overall, requested, reached, offStage, finalOff,
                   energized, rail, now, contact>>

\* bzm_supervisor_clear_fault.
ClearFault ==
    /\ fault /\ requested = 0 /\ SafeOffVerified
    /\ fault' = FALSE
    /\ state' = "OFF_SAFE"
    /\ UNCHANGED <<owner, deadline, overall, requested, reached, offStage, finalOff,
                   energized, rail, now, contact>>

\* bzm_supervisor_acquire_maintenance with no owner: a fresh OFF_SAFE stage
\* must pass and be followed by a verified safe-off, which clears any fault.
AcquireFromIdle(o) ==
    /\ owner = "NONE" /\ o \in Maintainers
    /\ \/ /\ rail' = "off"
          /\ requested' = 0 /\ reached' = 0
          /\ offStage' = "GOOD" /\ finalOff' = "GOOD" /\ overall' = "GOOD"
          /\ energized' = FALSE /\ state' = "OFF_SAFE" /\ fault' = FALSE
          /\ owner' = o /\ deadline' = 0
          /\ UNCHANGED contact
       \/ \E off \in Offs, k \in 0 .. 1, status \in StageFailures :
            /\ k = 0 \/ off # "GOOD"
            /\ Executed(0, FALSE, 0, k, status, off, rail)
    /\ UNCHANGED now

\* Mutant: the grant does not wait for the result of the safe-off.
StopAndTakeUnverified(o, grantable) ==
    \E off \in Offs :
        /\ finalOff' = off
        /\ deadline' = 0
        /\ energized' = StillEnergized(off)
        /\ fault' = (fault \/ off # "GOOD")
        /\ overall' = IF off # "GOOD" THEN "BAD" ELSE overall
        /\ state' = StateAfter(off, fault)
        /\ owner' = IF offStage = "GOOD" /\ grantable THEN o ELSE "NONE"
        /\ RailAfter(off, rail)
        /\ UNCHANGED <<requested, reached, offStage, now, contact>>

\* bzm_supervisor_acquire_maintenance from a validation or mining holder, and
\* bzm_supervisor_prepare_restart (also from no owner): stop, and take the
\* hardware if the safe-off is verified and the grant is not otherwise barred.
StopAndTake(o, grantable) ==
    \E off \in Offs :
        /\ finalOff' = off
        /\ deadline' = 0
        /\ energized' = StillEnergized(off)
        /\ fault' = (fault \/ off # "GOOD")
        /\ overall' = IF off # "GOOD" THEN "BAD" ELSE overall
        /\ state' = StateAfter(off, fault)
        /\ owner' = IF off = "GOOD" /\ offStage = "GOOD" /\ grantable THEN o ELSE "NONE"
        /\ RailAfter(off, rail)
        /\ UNCHANGED <<requested, reached, offStage, now, contact>>

\* bzm_supervisor_clear_fault refuses here, as the holder's requested stage is
\* not OFF_SAFE, so a latched fault bars the grant.
AcquireFromHolder(o) ==
    /\ owner \in Holders /\ o \in Maintainers
    /\ StopAndTake(o, ~fault)

PrepareRestart ==
    /\ owner \notin Maintainers
    /\ StopAndTake("ESP_RESTART", TRUE)

\* bzm_supervisor_acquire_bridge_recovery after board_acquire_bridge_recovery
\* switched the regulator off and read it back.
AcquireBridgeRecovery ==
    /\ owner = "NONE" /\ fault /\ state = "SHUTDOWN_UNVERIFIED"
    /\ rail' = "off"
    /\ owner' = "BRIDGE_UPDATE" /\ deadline' = 0
    /\ UNCHANGED <<fault, report, now, contact>>

\* bzm_supervisor_release_maintenance.  A bridge recovered from blank keeps the
\* safe-off it has just taken part in as its OFF_SAFE proof.
Release(o) ==
    /\ o \in Maintainers /\ owner = o
    /\ \E off \in Offs :
        /\ StopFrom(off, overall, fault)
        /\ IF /\ o = "BRIDGE_UPDATE" /\ fault /\ state = "SHUTDOWN_UNVERIFIED"
              /\ off = "GOOD"
           THEN requested' = 0 /\ reached' = 0 /\ offStage' = "GOOD"
           ELSE UNCHANGED <<requested, reached, offStage>>
    /\ UNCHANGED <<now, contact>>

-----------------------------------------------------------------------------
(* Environment *)

Elapse ==
    /\ now < MaxTime
    /\ now' = now + 1
    /\ UNCHANGED <<owner, fault, deadline, report, rail, contact>>

\* The ESP resets at any moment: the supervisor starts over, the supply stays
\* as it was or is dropped by the bridge's own lease.
Reset ==
    /\ owner' = "NONE" /\ fault' = FALSE /\ deadline' = 0
    /\ state' = "IDLE" /\ overall' = "NOT_RUN"
    /\ requested' = 0 /\ reached' = 0
    /\ offStage' = "NOT_RUN" /\ finalOff' = "NOT_RUN" /\ energized' = FALSE
    /\ rail' \in {rail, "off"}
    /\ now' = 0 /\ contact' = 0

\* The bridge drops the supply on its own (its output lease, a trip).
RailDrops ==
    /\ rail = "on"
    /\ rail' = "off"
    /\ UNCHANGED <<owner, fault, deadline, report, now, contact>>

Next ==
    \/ \E target \in Stages, lease \in Leases :
         \/ RequestInMaintenance(target)
         \/ \E off \in Offs : RequestRefused(target, lease, off)
         \/ RequestStopFails(target, lease)
         \/ \E arm, hold \in BOOLEAN : RequestRuns(target, arm, hold, lease)
    \/ Stop \/ LeaseExpires
    \/ \E lease \in Leases : Heartbeat(lease)
    \/ LatchFault \/ ClearFault
    \/ \E o \in Maintainers : AcquireFromIdle(o) \/ AcquireFromHolder(o) \/ Release(o)
    \/ PrepareRestart \/ AcquireBridgeRecovery
    \/ Elapse \/ RailDrops \/ Reset

Spec == Init /\ [][Next]_vars

-----------------------------------------------------------------------------
(* Properties *)

\* Type invariant.
TypeOK ==
    /\ owner \in Owners /\ fault \in BOOLEAN /\ deadline \in Nat
    /\ state \in States /\ overall \in Statuses
    /\ requested \in Stages /\ reached \in Stages
    /\ offStage \in Statuses /\ finalOff \in Statuses /\ energized \in BOOLEAN
    /\ rail \in {"on", "off"}
    /\ now \in Nat /\ contact \in Nat

\* Once a report exists, a supply that is on is reported as energized: no
\* refusal, failed stop or replaced report (block_report clears the field)
\* makes the supervisor forget an energized rail.
RailAccounted == rail = "on" => energized \/ state = "IDLE"

\* safe_off_verified is proof: whatever sequence of calls produced the report,
\* the supply is off.
SafeOffIsOff == SafeOffVerified => rail = "off"

\* Whoever flashes, tests or restarts does so with the supply off.
MaintenanceIsOff == owner \in Maintainers => rail = "off"

\* Work is dispatched only to a chain reported as energized, and for less than
\* the maximum lease after the last sign of life of the power task.
DispatchIsLeased ==
    DispatchAllowed => energized /\ now < contact + MaxLease

\* A latched fault goes away only with the supply off, and never together with
\* a grant of power (reset of the ESP apart).
FaultNeedsProof ==
    [][fault /\ ~fault' => rail' = "off" \/ state' = "IDLE"]_vars

\* The supply is switched on only by a validation that no latched fault and no
\* maintenance owner stood against, and ends up held under a lease or reported
\* as not shut down.
EnergizedUnderAuthority ==
    [][rail = "off" /\ rail' = "on"
         => /\ ~fault /\ owner \notin Maintainers
            /\ (owner' \in Holders /\ deadline' > now) \/ state' = "SHUTDOWN_UNVERIFIED"]_vars
=============================================================================
