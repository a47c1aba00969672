--------------------------- MODULE BridgeStatus ---------------------------
(***************************************************************************)
(* The safety status of the RP2040 bridge and how the host decodes it:      *)
(* safety_command and bzm_bridge_decode_safety_status of bzm_bridge.c.      *)
(*                                                                         *)
(* The control line carries no checksum.  What protects the host is the     *)
(* redundancy of the status: outputs, lease, fault and trip are each said   *)
(* more than once, and a status that contradicts itself decodes as a        *)
(* latched fault.  The bridge answers from its own state (external); the    *)
(* line may damage one field of the answer.                                 *)
(***************************************************************************)
EXTENDS Integers

VARIABLES bridge,   \* the safety state of the bridge, consistent by its own construction
          report    \* the status the host holds

vars == <<bridge, report>>

Stages == {"BOOT_SAFE", "LEASE", "TRIP_LATCH"}
States == {"SAFE_OFF", "CONTROLLED", "FAULT_LATCHED"}
Faults == {"NONE", "LEASE_EXPIRED", "ASIC_TRIP"}

OutputsSafe(s) == ~s.five_volt /\ s.reset /\ s.fan = 100
LeaseValid(s)  == s.stage = "BOOT_SAFE" \/ (s.state = "CONTROLLED" /\ s.lease > 0)

ExpectedRuntime(s) ==
    CASE s.fault # "NONE"          -> "BAD_FAULT"
      [] s.trip                    -> "BAD_TRIP_INPUT"
      [] s.state = "SAFE_OFF"      -> "GOOD_SAFE_OFF"
      [] s.stage # "BOOT_SAFE" /\ ~LeaseValid(s) -> "BAD_LEASE"
      [] OTHER                     -> "GOOD_CONTROLLED"
RuntimeVerdicts == {"GOOD_SAFE_OFF", "GOOD_CONTROLLED", "BAD_FAULT", "BAD_LEASE", "BAD_TRIP_INPUT",
                    "BAD_UNSAFE_OUTPUTS"}

ExpectedProduction(s) ==
    CASE s.stage # "TRIP_LATCH" -> "BAD_STAGE_DISABLED"
      [] s.runtime \notin {"GOOD_SAFE_OFF", "GOOD_CONTROLLED"} -> "BAD_RUNTIME"
      [] ~(s.capabilities.base /\ s.capabilities.cutoff) -> "BAD_CAPABILITY_GAP"
      [] OTHER                  -> "GOOD"
ProductionVerdicts == {"GOOD", "BAD_STAGE_DISABLED", "BAD_CAPABILITY_GAP", "BAD_RUNTIME"}

(***************************************************************************)
(* bzm_bridge_decode_safety_status                                          *)
(***************************************************************************)
Valid(s) == /\ s.stage \in Stages /\ s.state \in States /\ s.fault \in Faults
            /\ s.runtime \in RuntimeVerdicts /\ s.production \in ProductionVerdicts
            /\ s.fan \in 0 .. 100

\* The evidence bits say again what the other fields say.
EvidenceAgrees(s) ==
    /\ s.fan_full = (s.fan = 100)
    /\ s.evidence.outputs_safe = OutputsSafe(s)
    /\ s.evidence.lease_valid = LeaseValid(s)
    /\ s.evidence.trip_clear = ~s.trip
    /\ s.evidence.fault_clear = (s.fault = "NONE")
    /\ s.evidence.cutoff = s.capabilities.cutoff

StateAgrees(s) ==
    LET latched == s.state = "FAULT_LATCHED"
    IN /\ latched = (s.fault # "NONE")
       /\ s.state = "SAFE_OFF" => OutputsSafe(s)
       /\ latched => OutputsSafe(s) /\ s.lease = 0
       /\ s.stage = "BOOT_SAFE" => s.lease = 0 /\ ~latched
       /\ s.stage # "BOOT_SAFE" /\ s.state # "CONTROLLED" => s.lease = 0
       /\ ~(s.stage = "LEASE" /\ s.fault = "ASIC_TRIP")
       /\ s.stage = "TRIP_LATCH" /\ s.trip => latched

\* Mutant: the verdict the bridge sends is believed.
VerdictsAgreeOneSided(s) == s.production = ExpectedProduction(s)

VerdictsAgree(s) == /\ s.runtime = ExpectedRuntime(s)
                    /\ s.production = ExpectedProduction(s)

\* invalidate_safety_status: what the host holds when it has no valid answer.
Invalidated == [valid |-> FALSE, state |-> "FAULT_LATCHED", runtime |-> "BAD_FAULT",
                production |-> "BAD_RUNTIME"]

DecodeSafetyStatus(s) ==
    IF Valid(s) /\ EvidenceAgrees(s) /\ StateAgrees(s) /\ VerdictsAgree(s)
    THEN [valid |-> TRUE, state |-> s.state, runtime |-> s.runtime, production |-> s.production]
    ELSE Invalidated

(***************************************************************************)
(* The bridge (external) and the line                                       *)
(***************************************************************************)
Completed(s) ==
    LET facts == [s EXCEPT
            !.fan_full = (s.fan = 100),
            !.evidence = [outputs_safe |-> OutputsSafe(s), lease_valid |-> LeaseValid(s),
                          trip_clear |-> ~s.trip, fault_clear |-> (s.fault = "NONE"),
                          cutoff |-> s.capabilities.cutoff],
            !.runtime = ExpectedRuntime(s)]
    IN [facts EXCEPT !.production = ExpectedProduction(facts)]

NoEvidence == [outputs_safe |-> FALSE, lease_valid |-> FALSE, trip_clear |-> FALSE,
               fault_clear |-> FALSE, cutoff |-> FALSE]
BridgeStates ==
    {Completed(s) : s \in
        {t \in [stage: Stages, state: States, fault: Faults, runtime: {"GOOD_CONTROLLED"},
                production: {"GOOD"}, capabilities: [base: BOOLEAN, cutoff: BOOLEAN],
                evidence: {NoEvidence},
                lease: {0, 1}, five_volt: BOOLEAN, reset: BOOLEAN, fan: {50, 100},
                fan_full: {TRUE}, trip: BOOLEAN] : StateAgrees(t)}}

\* One field of the answer damaged on the line: a field may turn into another legal
\* value or into none.
Damaged(s) ==
    UNION { {[s EXCEPT !.stage = x]      : x \in Stages \cup {"?"}},
            {[s EXCEPT !.state = x]      : x \in States \cup {"?"}},
            {[s EXCEPT !.fault = x]      : x \in Faults \cup {"?"}},
            {[s EXCEPT !.runtime = x]    : x \in RuntimeVerdicts \cup {"?"}},
            {[s EXCEPT !.production = x] : x \in ProductionVerdicts \cup {"?"}},
            {[s EXCEPT !.capabilities[c] = ~@] : c \in {"base", "cutoff"}},
            {[s EXCEPT !.evidence[b] = ~@] : b \in DOMAIN s.evidence},
            {[s EXCEPT !.lease = x]      : x \in {0, 1}},
            {[s EXCEPT !.five_volt = x]  : x \in BOOLEAN},
            {[s EXCEPT !.reset = x]      : x \in BOOLEAN},
            {[s EXCEPT !.fan_full = x]   : x \in BOOLEAN},
            {[s EXCEPT !.fan = x]        : x \in {50, 100, 101}},
            {[s EXCEPT !.trip = x]       : x \in BOOLEAN} }

Init == bridge \in BridgeStates /\ report = Invalidated

\* safety_command: the status is invalidated before the transaction, so a transaction
\* that fails leaves no earlier answer behind.
SafetyCommand == \/ \E s \in Damaged(bridge) : report' = DecodeSafetyStatus(s) /\ UNCHANGED bridge
                 \/ report' = Invalidated /\ UNCHANGED bridge

\* The bridge moves on and the host's copy ages; the host asks again before it uses it.
BridgeMoves == bridge' \in BridgeStates /\ report' = Invalidated

Next == SafetyCommand \/ BridgeMoves

Spec == Init /\ [][Next]_vars

\* bzm_bridge_decode_safety_status: no single damaged field turns a bridge that has
\* latched a fault, lost its lease or sees the trip input into one the host takes for
\* healthy, nor a bridge that is not fit for production into one that is.
DamageNeverReassures ==
    report.valid =>
        /\ report.runtime = "GOOD_CONTROLLED" => bridge.runtime = "GOOD_CONTROLLED"
        /\ report.runtime = "GOOD_SAFE_OFF"   => bridge.runtime = "GOOD_SAFE_OFF"
        /\ report.production = "GOOD"         => bridge.production = "GOOD"
===========================================================================
