-------------------------- MODULE SupervisorProofs --------------------------
(***************************************************************************)
(* Proofs, for every number of stages, every lease bound and every build    *)
(* configuration, of the properties of Supervisor that MCSupervisor checks *)
(* on a small instance.                                                    *)
(***************************************************************************)
EXTENDS Supervisor, TLAPS

\* What a validation or mining holder can rely on: its report still says
\* HOLDING and energized, no fault is latched, and its lease runs out at most
\* MaxLease after it was last seen.
HolderIsLeased ==
    owner \in Holders =>
        /\ energized /\ state = "HOLDING" /\ ~fault
        /\ contact <= now
        /\ deadline <= contact + MaxLease

\* The inductive invariant.  RailAccounted needs MaintenanceIsOff (a request
\* refused in maintenance clears report.energized) and MaintenanceIsOff needs
\* RailAccounted (a grant relies on the report); DispatchIsLeased needs the
\* history of the holder.
IInv == TypeOK /\ RailAccounted /\ MaintenanceIsOff /\ HolderIsLeased

USE DEF Holders, Maintainers, Owners, Statuses, States, Offs, StageFailures

-----------------------------------------------------------------------------
\* A supply proven off by safe_off_verified is off whenever energized rails are
\* accounted for (bzm_supervisor_safe_off_verified).
LEMMA VerifiedIsOff ==
    ASSUME TypeOK, RailAccounted, SafeOffVerified
    PROVE  rail = "off"
  BY DEF TypeOK, RailAccounted, SafeOffVerified

\* stop_internal establishes the invariant from any typed state, whoever owned
\* the hardware, as long as the stage fields stay typed.
LEMMA StopKeepsIInv ==
    ASSUME TypeOK,
           NEW off \in Offs, NEW ov \in Statuses, NEW faulted \in BOOLEAN,
           StopFrom(off, ov, faulted),
           requested' \in Stages, reached' \in Stages, offStage' \in Statuses,
           now' = now, contact' = contact
    PROVE  IInv'
  BY DEF TypeOK, StopFrom, RailAfter, StillEnergized, StateAfter, IInv, RailAccounted,
         MaintenanceIsOff, HolderIsLeased

\* The stages of a validation (bzm_validation_execute) establish the invariant:
\* the supply is held under a lease, off, or reported as not shut down.
LEMMA ExecutedKeepsIInv ==
    ASSUME TypeOK,
           NEW target \in Stages, NEW hold \in BOOLEAN, NEW lease \in 0 .. MaxLease,
           fault => target = 0,
           NEW k \in 0 .. target + 1, NEW status \in StageFailures, NEW off \in Offs,
           NEW before \in {"on", "off"},
           Executed(target, hold, lease, k, status, off, before),
           now' = now
    PROVE  IInv'
<1> DEFINE complete == k > target
           holds    == complete /\ target >= PowerStage /\ hold
           unproven == ~holds /\ off # "GOOD"
<1> USE SupervisorAssumption DEF SupervisorAssumption, Stages
<1>1. /\ requested' \in Stages /\ reached' \in Stages
      /\ now' \in Nat /\ contact' \in Nat /\ deadline' \in Nat
  BY DEF TypeOK, Executed, ReachedStage
<1>2. /\ fault' \in BOOLEAN /\ energized' \in BOOLEAN
      /\ offStage' \in Statuses /\ finalOff' \in Statuses /\ overall' \in Statuses
  BY DEF TypeOK, Executed
<1>3. CASE holds
  <2>1. ~fault /\ ~fault'
    BY <1>3 DEF TypeOK, Executed
  <2>2. /\ owner' \in Holders /\ state' = "HOLDING" /\ energized' /\ rail' = "on"
        /\ contact' = now /\ deadline' = now + lease
    BY <1>3, <2>1 DEF Executed
  <2> QED
    BY <1>1, <1>2, <2>1, <2>2 DEF TypeOK, IInv, RailAccounted, MaintenanceIsOff, HolderIsLeased
<1>4. CASE ~holds
  <2>1. owner' = "NONE" /\ rail' \in {"on", "off"} /\ state' \in States
    BY <1>4, <1>2 DEF TypeOK, Executed, RailAfter
  <2>2. rail' = "on" => energized'
    BY <1>4 DEF Executed, RailAfter
  <2> QED
    BY <1>1, <1>2, <2>1, <2>2 DEF TypeOK, IInv, RailAccounted, MaintenanceIsOff, HolderIsLeased
<1> QED
  BY <1>3, <1>4

\* A validation refused by its policy (validate_policy) ends in a safe-off and
\* establishes the invariant.
LEMMA NotExecutedKeepsIInv ==
    ASSUME TypeOK, NEW target \in Stages, NEW off \in Offs, NEW before \in {"on", "off"},
           NotExecuted(target, off, before), now' = now
    PROVE  IInv'
<1>1. /\ requested' \in Stages /\ reached' \in Stages /\ offStage' \in Statuses
      /\ overall' \in Statuses /\ finalOff' \in Statuses
      /\ now' \in Nat /\ contact' \in Nat /\ deadline' \in Nat
  BY SupervisorAssumption DEF SupervisorAssumption, Stages, TypeOK, NotExecuted
<1>2. fault' \in BOOLEAN /\ energized' \in BOOLEAN /\ owner' = "NONE"
  BY DEF NotExecuted, StillEnergized
<1>3. rail' \in {"on", "off"} /\ (rail' = "on" => energized')
  BY DEF NotExecuted, RailAfter, StillEnergized
<1>4. state' \in States
  BY DEF TypeOK, NotExecuted, StateAfter
<1> QED
  BY <1>1, <1>2, <1>3, <1>4 DEF TypeOK, IInv, RailAccounted, MaintenanceIsOff, HolderIsLeased

\* bzm_supervisor_acquire_maintenance from a holder and
\* bzm_supervisor_prepare_restart keep the invariant.
LEMMA StopAndTakeKeepsIInv ==
    ASSUME TypeOK, NEW o \in Maintainers, NEW grantable \in BOOLEAN,
           StopAndTake(o, grantable)
    PROVE  IInv'
<1>1. PICK off \in Offs :
        /\ finalOff' = off /\ deadline' = 0
        /\ energized' = StillEnergized(off)
        /\ fault' = (fault \/ off # "GOOD")
        /\ overall' = IF off # "GOOD" THEN "BAD" ELSE overall
        /\ state' = StateAfter(off, fault)
        /\ owner' = IF off = "GOOD" /\ offStage = "GOOD" /\ grantable THEN o ELSE "NONE"
        /\ RailAfter(off, rail)
        /\ UNCHANGED <<requested, reached, offStage, now, contact>>
  BY Zenon DEF StopAndTake
<1>2. fault' \in BOOLEAN /\ energized' \in BOOLEAN /\ owner' \in {o, "NONE"}
  BY <1>1 DEF StillEnergized
<1>3. /\ rail' \in {"on", "off"} /\ (rail' = "on" => energized')
      /\ owner' = o => rail' = "off" \/ owner' = "NONE"
  BY <1>1 DEF TypeOK, RailAfter, StillEnergized
<1>4. state' \in States
  BY <1>1 DEF TypeOK, StateAfter
<1>5. /\ requested' \in Stages /\ reached' \in Stages /\ offStage' \in Statuses
      /\ overall' \in Statuses /\ finalOff' \in Statuses
      /\ now' \in Nat /\ contact' \in Nat /\ deadline' \in Nat
  BY <1>1 DEF TypeOK
<1> QED
  BY <1>2, <1>3, <1>4, <1>5 DEF TypeOK, IInv, RailAccounted, MaintenanceIsOff, HolderIsLeased

-----------------------------------------------------------------------------
\* The initial state satisfies the invariant.
LEMMA InitIInv == Init => IInv
<1> SUFFICES ASSUME Init PROVE IInv
  OBVIOUS
<1>1. requested \in Stages /\ reached \in Stages /\ now \in Nat /\ contact \in Nat /\ deadline \in Nat
  BY SupervisorAssumption DEF SupervisorAssumption, Init, Stages
<1>2. fault \in BOOLEAN /\ energized \in BOOLEAN
  BY DEF Init
<1>3. /\ owner = "NONE" /\ state = "IDLE" /\ overall = "NOT_RUN" /\ offStage = "NOT_RUN"
      /\ finalOff = "NOT_RUN" /\ rail \in {"on", "off"}
  BY DEF Init
<1> QED
  BY <1>1, <1>2, <1>3 DEF IInv, TypeOK, RailAccounted, MaintenanceIsOff, HolderIsLeased

\* Every public function of the supervisor, the clock, a reset and a drop of the
\* supply keep the invariant.
LEMMA NextIInv == IInv /\ [Next]_vars => IInv'
<1> SUFFICES ASSUME IInv, [Next]_vars PROVE IInv'
  OBVIOUS
<1> USE SupervisorAssumption DEF SupervisorAssumption
<1>t. TypeOK /\ RailAccounted /\ MaintenanceIsOff /\ HolderIsLeased
  BY DEF IInv
<1>s. 0 \in Stages
  BY DEF Stages
<1>1. ASSUME NEW target \in Stages, RequestInMaintenance(target) PROVE IInv'
  BY <1>t, <1>1, <1>s
  DEF RequestInMaintenance, Blocked, IInv, TypeOK, RailAccounted, MaintenanceIsOff, HolderIsLeased
<1>2. ASSUME NEW target \in Stages, NEW lease \in Leases, NEW off \in Offs,
             RequestRefused(target, lease, off)
      PROVE IInv'
  <2>1. requested' \in Stages /\ reached' \in Stages /\ offStage' \in Statuses
    BY <1>2, <1>s DEF RequestRefused, Blocked
  <2> QED
    BY <1>t, <1>2, <2>1, StopKeepsIInv DEF RequestRefused, TypeOK
<1>3. ASSUME NEW target \in Stages, NEW lease \in Leases, RequestStopFails(target, lease)
      PROVE IInv'
  BY <1>t, <1>3, StopKeepsIInv DEF RequestStopFails, TypeOK
<1>4. ASSUME NEW target \in Stages, NEW lease \in Leases, NEW arm \in BOOLEAN,
             NEW hold \in BOOLEAN, RequestRuns(target, arm, hold, lease)
      PROVE IInv'
  <2> DEFINE before == IF owner \in Holders THEN "off" ELSE rail
  <2>1. before \in {"on", "off"} /\ lease \in 0 .. MaxLease /\ (fault => target = 0)
    BY <1>t, <1>4 DEF RequestRuns, Acceptable, TypeOK, Leases
  <2>2. PICK off \in Offs :
          \/ NotExecuted(target, off, before)
          \/ \E k \in 0 .. target + 1, status \in StageFailures :
                Executed(target, hold, lease, k, status, off, before)
    BY <1>4 DEF RequestRuns
  <2>3. now' = now
    BY <1>4 DEF RequestRuns
  <2> HIDE DEF before
  <2>4. CASE NotExecuted(target, off, before)
    BY <1>t, <2>1, <2>3, <2>4, NotExecutedKeepsIInv
  <2>5. CASE \E k \in 0 .. target + 1, status \in StageFailures :
               Executed(target, hold, lease, k, status, off, before)
    BY <1>t, <2>1, <2>3, <2>5, ExecutedKeepsIInv
  <2> QED
    BY <2>2, <2>4, <2>5
<1>5. CASE Stop
  BY <1>t, <1>5, StopKeepsIInv DEF Stop, TypeOK
<1>6. CASE LeaseExpires
  BY <1>t, <1>6, StopKeepsIInv DEF LeaseExpires, TypeOK
<1>7. ASSUME NEW lease \in Leases, Heartbeat(lease) PROVE IInv'
  BY <1>t, <1>7
  DEF Heartbeat, report, IInv, TypeOK, RailAccounted, MaintenanceIsOff, HolderIsLeased
<1>8. CASE LatchFault
  BY <1>t, <1>8, StopKeepsIInv DEF LatchFault, TypeOK
<1>9. CASE ClearFault
  BY <1>t, <1>9, VerifiedIsOff
  DEF ClearFault, SafeOffVerified, IInv, TypeOK, RailAccounted, MaintenanceIsOff, HolderIsLeased
<1>10. ASSUME NEW o \in Maintainers, AcquireFromIdle(o) PROVE IInv'
  <2>1. CASE \E off \in Offs, k \in 0 .. 1, status \in StageFailures :
               Executed(0, FALSE, 0, k, status, off, rail)
    <3>1. now' = now /\ rail \in {"on", "off"}
      BY <1>t, <1>10 DEF AcquireFromIdle, TypeOK
    <3>2. PICK off \in Offs, k \in 0 .. 1, status \in StageFailures :
            Executed(0, FALSE, 0, k, status, off, rail)
      BY <2>1
    <3>3. 0 \in 0 .. MaxLease /\ k \in 0 .. 0 + 1
      OBVIOUS
    <3> QED
      BY <1>t, <1>s, <3>1, <3>2, <3>3, ExecutedKeepsIInv, ZenonT(60)
  <2>2. CASE ~ \E off \in Offs, k \in 0 .. 1, status \in StageFailures :
               Executed(0, FALSE, 0, k, status, off, rail)
    <3>1. /\ rail' = "off" /\ requested' = 0 /\ reached' = 0
          /\ offStage' = "GOOD" /\ finalOff' = "GOOD" /\ overall' = "GOOD"
          /\ energized' = FALSE /\ state' = "OFF_SAFE" /\ fault' = FALSE
          /\ owner' = o /\ deadline' = 0 /\ contact' = contact /\ now' = now
      BY <1>10, <2>2 DEF AcquireFromIdle
    <3>2. fault' \in BOOLEAN /\ energized' \in BOOLEAN
      BY <3>1
    <3> QED
      BY <1>t, <1>s, <3>1, <3>2
      DEF IInv, TypeOK, RailAccounted, MaintenanceIsOff, HolderIsLeased
  <2> QED
    BY <2>1, <2>2
<1>11. ASSUME NEW o \in Maintainers, AcquireFromHolder(o) PROVE IInv'
  BY <1>t, <1>11, StopAndTakeKeepsIInv DEF AcquireFromHolder, TypeOK
<1>12. ASSUME NEW o \in Maintainers, Release(o) PROVE IInv'
  <2>1. requested' \in Stages /\ reached' \in Stages /\ offStage' \in Statuses
    BY <1>t, <1>s, <1>12 DEF Release, TypeOK
  <2> QED
    BY <1>t, <1>12, <2>1, StopKeepsIInv DEF Release, TypeOK
<1>13. CASE PrepareRestart
  BY <1>t, <1>13, StopAndTakeKeepsIInv DEF PrepareRestart
<1>14. CASE AcquireBridgeRecovery
  BY <1>t, <1>14
  DEF AcquireBridgeRecovery, report, IInv, TypeOK, RailAccounted, MaintenanceIsOff, HolderIsLeased
<1>15. CASE Elapse
  BY <1>t, <1>15
  DEF Elapse, report, IInv, TypeOK, RailAccounted, MaintenanceIsOff, HolderIsLeased
<1>16. CASE RailDrops
  BY <1>t, <1>16
  DEF RailDrops, report, IInv, TypeOK, RailAccounted, MaintenanceIsOff, HolderIsLeased
<1>17. CASE Reset
  BY <1>t, <1>s, <1>17
  DEF Reset, IInv, TypeOK, RailAccounted, MaintenanceIsOff, HolderIsLeased
<1>18. CASE UNCHANGED vars
  BY <1>t, <1>18
  DEF vars, report, IInv, TypeOK, RailAccounted, MaintenanceIsOff, HolderIsLeased
<1> QED
  BY <1>1, <1>2, <1>3, <1>4, <1>5, <1>6, <1>7, <1>8, <1>9, <1>10, <1>11, <1>12, <1>13,
     <1>14, <1>15, <1>16, <1>17, <1>18 DEF Next

\* The inductive invariant holds in every reachable state.
THEOREM Invariant == Spec => []IInv
  BY InitIInv, NextIInv, PTL DEF Spec

-----------------------------------------------------------------------------
\* The supervisor's state stays typed.
THEOREM TypeCorrect == Spec => []TypeOK
<1>1. IInv => TypeOK
  BY DEF IInv
<1> QED
  BY <1>1, Invariant, PTL

\* An energized supply is never forgotten by the report
\* (report.energized in stop_internal, block_report and force_safe_off).
THEOREM RailIsAccounted == Spec => []RailAccounted
<1>1. IInv => RailAccounted
  BY DEF IInv
<1> QED
  BY <1>1, Invariant, PTL

\* bzm_supervisor_safe_off_verified never vouches for an energized supply.
THEOREM SafeOffIsProof == Spec => []SafeOffIsOff
<1>1. IInv => SafeOffIsOff
  BY VerifiedIsOff DEF IInv, SafeOffIsOff
<1> QED
  BY <1>1, Invariant, PTL

\* Maintenance (bzm_supervisor_acquire_maintenance, prepare_restart, bridge
\* recovery) always has the supply off.
THEOREM MaintenanceSafe == Spec => []MaintenanceIsOff
<1>1. IInv => MaintenanceIsOff
  BY DEF IInv
<1> QED
  BY <1>1, Invariant, PTL

\* bzm_supervisor_dispatch_allowed never outlives the lease of the power task.
THEOREM DispatchLeased == Spec => []DispatchIsLeased
<1>1. IInv => DispatchIsLeased
  BY SupervisorAssumption
  DEF SupervisorAssumption, IInv, TypeOK, HolderIsLeased, DispatchIsLeased, DispatchAllowed
<1> QED
  BY <1>1, Invariant, PTL

-----------------------------------------------------------------------------
\* A latched fault goes away only with the supply off: bzm_supervisor_clear_fault
\* and the grants and releases of maintenance that clear it all rest on a
\* verified safe-off.
LEMMA FaultStep ==
    ASSUME IInv, Next, fault, ~fault'
    PROVE  rail' = "off" \/ state' = "IDLE"
<1>t. TypeOK /\ RailAccounted
  BY DEF IInv
<1>1. ~ \E off \in Offs, ov \in Statuses, faulted \in {fault, TRUE} : StopFrom(off, ov, faulted)
  BY DEF StopFrom
<1>2. ~ \E target, hold, lease, k, status, off, before :
          Executed(target, hold, lease, k, status, off, before)
  <2> SUFFICES ASSUME NEW target, NEW hold, NEW lease, NEW k, NEW status, NEW off, NEW before,
                      Executed(target, hold, lease, k, status, off, before)
               PROVE  FALSE
    OBVIOUS
  <2> DEFINE complete == k > target
             holds    == complete /\ target >= PowerStage /\ hold
             unproven == ~holds /\ off # "GOOD"
  <2>1. fault' = (fault \/ unproven \/ (~complete /\ status = "BAD"))
    BY Zenon DEF Executed
  <2> QED
    BY <2>1
<1>3. ~ \E target, off, before : NotExecuted(target, off, before)
  BY DEF NotExecuted
<1>4. ~ \E o, grantable : StopAndTake(o, grantable)
  BY DEF StopAndTake
<1>5. ASSUME NEW target \in Stages, NEW lease \in Leases,
             \/ RequestInMaintenance(target)
             \/ \E off \in Offs : RequestRefused(target, lease, off)
             \/ RequestStopFails(target, lease)
             \/ \E arm, hold \in BOOLEAN : RequestRuns(target, arm, hold, lease)
      PROVE FALSE
  <2>1. CASE RequestInMaintenance(target)
    BY <2>1 DEF RequestInMaintenance
  <2>2. CASE \E off \in Offs : RequestRefused(target, lease, off)
    BY <1>1, <2>2 DEF RequestRefused
  <2>3. CASE RequestStopFails(target, lease)
    BY <1>t, <1>1, <2>3 DEF RequestStopFails, TypeOK
  <2>4. CASE \E arm, hold \in BOOLEAN : RequestRuns(target, arm, hold, lease)
    BY <1>2, <1>3, <2>4, Zenon DEF RequestRuns
  <2> QED
    BY <1>5, <2>1, <2>2, <2>3, <2>4
<1>6. CASE Stop \/ LeaseExpires \/ LatchFault
  BY <1>t, <1>1, <1>6 DEF Stop, LeaseExpires, LatchFault, TypeOK
<1>7. CASE ClearFault
  BY <1>t, <1>7, VerifiedIsOff DEF ClearFault
<1>8. ASSUME NEW o \in Maintainers, AcquireFromIdle(o) PROVE rail' = "off"
  BY <1>2, <1>8, Zenon DEF AcquireFromIdle
<1>9. ASSUME NEW o \in Maintainers, AcquireFromHolder(o) \/ PrepareRestart PROVE FALSE
  BY <1>4, <1>9, Zenon DEF AcquireFromHolder, PrepareRestart
<1>10. ASSUME NEW o \in Maintainers, Release(o) PROVE rail' = "off"
  BY <1>t, <1>10 DEF Release, StopFrom, RailAfter, TypeOK
<1>11. CASE \/ \E lease \in Leases : Heartbeat(lease)
            \/ AcquireBridgeRecovery \/ Elapse \/ RailDrops \/ Reset
  BY <1>11 DEF Heartbeat, AcquireBridgeRecovery, Elapse, RailDrops, Reset
<1> QED
  BY <1>5, <1>6, <1>7, <1>8, <1>9, <1>10, <1>11 DEF Next

\* Only a verified safe-off, or a reset of the ESP, ends a latched fault.
THEOREM FaultClearedWithProof == Spec => FaultNeedsProof
<1>1. IInv /\ [Next]_vars
        => [fault /\ ~fault' => rail' = "off" \/ state' = "IDLE"]_vars
  BY FaultStep
<1> QED
  BY <1>1, Invariant, PTL DEF Spec, FaultNeedsProof

-----------------------------------------------------------------------------
\* The stages of a validation switch the supply on only when a powered stage was
\* asked for, and leave it under a lease or reported as not shut down.
LEMMA ExecutedPowers ==
    ASSUME TypeOK, NEW target \in Stages, NEW hold \in BOOLEAN, NEW lease \in 0 .. MaxLease,
           fault => target = 0, target >= PowerStage => lease # 0,
           NEW k \in 0 .. target + 1, NEW status \in StageFailures, NEW off \in Offs,
           NEW before \in {"off"},
           Executed(target, hold, lease, k, status, off, before), rail' = "on"
    PROVE  /\ ~fault
           /\ (owner' \in Holders /\ deadline' > now) \/ state' = "SHUTDOWN_UNVERIFIED"
<1> DEFINE holds    == k > target /\ target >= PowerStage /\ hold
<1> USE SupervisorAssumption DEF SupervisorAssumption, Stages
<1>1. target >= PowerStage
  BY DEF Executed, RailAfter
<1>2. ~fault
  BY <1>1
<1>3. CASE holds
  <2>1. owner' \in Holders /\ deadline' = now + lease
    BY <1>3 DEF Executed
  <2> QED
    BY <1>1, <1>2, <2>1 DEF TypeOK
<1>4. CASE ~holds
  BY <1>2, <1>4 DEF Executed, RailAfter
<1> QED
  BY <1>3, <1>4

\* No public function but an accepted validation switches the supply on.
LEMMA EnergizeStep ==
    ASSUME IInv, Next, rail = "off", rail' = "on"
    PROVE  /\ ~fault /\ owner \notin Maintainers
           /\ (owner' \in Holders /\ deadline' > now) \/ state' = "SHUTDOWN_UNVERIFIED"
<1>t. TypeOK
  BY DEF IInv
<1>1. ~ \E off, ov, faulted : StopFrom(off, ov, faulted)
  BY DEF StopFrom, RailAfter
<1>2. ~ \E o, grantable : StopAndTake(o, grantable)
  BY DEF StopAndTake, RailAfter
<1>3. ASSUME NEW target \in Stages, NEW lease \in Leases, NEW arm \in BOOLEAN,
             NEW hold \in BOOLEAN, RequestRuns(target, arm, hold, lease)
      PROVE  /\ ~fault /\ owner \notin Maintainers
             /\ (owner' \in Holders /\ deadline' > now) \/ state' = "SHUTDOWN_UNVERIFIED"
  <2> DEFINE before == IF owner \in Holders THEN "off" ELSE rail
  <2>1. before = "off"
    OBVIOUS
  <2>2. lease \in 0 .. MaxLease /\ (fault => target = 0) /\ owner \notin Maintainers
    BY <1>t, <1>3, SupervisorAssumption
    DEF RequestRuns, Acceptable, TypeOK, Leases, SupervisorAssumption
  <2>3. PICK off \in Offs :
          \/ NotExecuted(target, off, before)
          \/ /\ ~PolicyRefuses(target, arm, lease)
             /\ \E k \in 0 .. target + 1, status \in StageFailures :
                   Executed(target, hold, lease, k, status, off, before)
    BY <1>3 DEF RequestRuns
  <2> HIDE DEF before
  <2>4. ~NotExecuted(target, off, before)
    BY <2>1 DEF NotExecuted, RailAfter
  <2>5. PICK k \in 0 .. target + 1, status \in StageFailures :
          Executed(target, hold, lease, k, status, off, before)
    BY <2>3, <2>4
  <2>6. target >= PowerStage => lease # 0
    BY <2>3, <2>4 DEF PolicyRefuses
  <2> QED
    BY <1>t, <2>1, <2>2, <2>5, <2>6, ExecutedPowers
<1>4. ASSUME NEW o \in Maintainers PROVE ~AcquireFromIdle(o)
  <2>1. ASSUME NEW off, NEW k \in 0 .. 1, NEW status PROVE ~Executed(0, FALSE, 0, k, status, off, rail)
    BY SupervisorAssumption DEF SupervisorAssumption, Executed, RailAfter
  <2> QED
    BY <2>1, Zenon DEF AcquireFromIdle
<1>5. ASSUME NEW o \in Maintainers PROVE ~Release(o)
  BY <1>1 DEF Release
<1> QED
  BY <1>1, <1>2, <1>3, <1>4, <1>5
  DEF Next, RequestInMaintenance, RequestRefused, RequestStopFails, Stop, LeaseExpires, Heartbeat,
      LatchFault, ClearFault, AcquireFromHolder, PrepareRestart, AcquireBridgeRecovery, Elapse,
      RailDrops, Reset, report

\* Power comes on only with authority and stays accounted for.
THEOREM PowerNeedsAuthority == Spec => EnergizedUnderAuthority
<1>1. IInv /\ [Next]_vars
        => [rail = "off" /\ rail' = "on"
              => /\ ~fault /\ owner \notin Maintainers
                 /\ (owner' \in Holders /\ deadline' > now) \/ state' = "SHUTDOWN_UNVERIFIED"]_vars
  BY EnergizeStep
<1> QED
  BY <1>1, Invariant, PTL DEF Spec, EnergizedUnderAuthority
=============================================================================
