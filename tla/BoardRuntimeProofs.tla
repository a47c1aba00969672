------------------------- MODULE BoardRuntimeProofs -------------------------
(***************************************************************************)
(* Proofs, for any length of the leases and any number of operating points, *)
(* that the Bonanza board is off when it is taken for off, that a clock     *)
(* never outruns its rail, and that the dispatch gate is open only for a    *)
(* board that mines without a fault.                                       *)
(***************************************************************************)
EXTENDS BoardRuntime, TLAPS

-----------------------------------------------------------------------------
(* The inductive invariant, in parts *)

Bridges == [state : {"SAFE_OFF", "CONTROLLED", "FAULT"}, left : Nat, v5 : BOOLEAN, reset : BOOLEAN]

Tunings == [rail : Nat, clock : Nat, replacing : BOOLEAN]

Gates == [open : BOOLEAN, left : Nat]

Places == {"off", "verify", "idle", "begin", "stage", "held", "stopping", "pll", "plldone"}
Nexts == {"boot", "idle", "clear", "stage", "failed", "cancelled", "latch", "stop", "own", "release"}
Tasks == [at : Places, k : Nat, then : Nexts, ok : BOOLEAN]

Types == /\ pc \in Tasks /\ bridge \in Bridges /\ tuning \in Tunings /\ gate \in Gates
         /\ lease \in Nat /\ rail \in BOOLEAN

\* A start is under way only on a board nobody owns, from its first stage on; the
\* gate is shut from a safe-off to its verdict.
Starting == /\ pc.at \in {"begin", "stage"} => owner = "NONE"
            /\ At("stage") => pc.k > 0
            /\ At("verify") => ~gate.open

\* A clock on its way up is on its way to a level the rail already carries.
Targeted == At("pll") => pc.k \in 1 .. tuning.rail

IInv == Types /\ Starting /\ ProvenOffIsOff /\ Targeted /\ ClockWithinRail /\ GateIsHealthy

-----------------------------------------------------------------------------
(* Operations that several steps share *)

\* Everything a safe-off commands only makes the board safer.
Safe(b) == ~b.v5 /\ b.reset

LEMMA IdleTyped == Idle \in Tasks /\ SafeBridge \in Bridges /\ ShutGate \in Gates
  BY DEF Idle, Tasks, Places, Nexts, SafeBridge, Bridges, ShutGate, Gates

\* A task sent to the safe-off keeps its shape, and no board is taken for off yet.
LEMMA Forced ==
    ASSUME NEW next \in Nexts, ForceOff(next)
    PROVE  pc' \in Tasks /\ pc'.at = "off"
  BY DEF ForceOff, Idle, Tasks, Places, Nexts

\* The gate as sync_dispatch_locked leaves it.
LEMMA Synced ==
    ASSUME SyncGate, lease' \in Nat PROVE gate' \in Gates /\ GateIsHealthy'
<1>1. CASE health' # "GOOD" \/ ~(~fault' /\ owner' = "MINING" /\ lease' > 0)
  <2>1. gate' = ShutGate
    BY <1>1 DEF SyncGate
  <2> QED
    BY <2>1, IdleTyped DEF GateIsHealthy, ShutGate
<1>2. CASE ~(health' # "GOOD" \/ ~(~fault' /\ owner' = "MINING" /\ lease' > 0))
  <2>1. gate' = [open |-> TRUE, left |-> lease']
    BY <1>2 DEF SyncGate
  <2> QED
    BY <1>2, <2>1 DEF Gates, GateIsHealthy
<1> QED
  BY <1>1, <1>2

-----------------------------------------------------------------------------
(* The safe-off *)

LEMMA SafeOffKeeps == ASSUME IInv, SafeOff PROVE IInv'
<1>1. /\ At("off") /\ gate' = ShutGate /\ owner' = owner /\ fault' = fault /\ lease' = lease
      /\ health' = health /\ tuning' = tuning
  BY DEF SafeOff, power
<1>2. PICK done \in SUBSET {"disarm", "reset", "5v", "rail"}, answered \in BOOLEAN :
        LET cut == bridge.state = "CONTROLLED" /\ "disarm" \in done
        IN  /\ bridge' = IF cut THEN SafeBridge
                         ELSE [bridge EXCEPT !.reset = @ \/ "reset" \in done,
                                             !.v5 = @ /\ "5v" \notin done]
            /\ rail' = (rail /\ "rail" \notin done)
            /\ pc' = [pc EXCEPT !.at = "verify",
                                !.ok = answered /\ {"reset", "5v", "rail"} \subseteq done]
  BY Zenon DEF SafeOff
<1>3. /\ pc \in Tasks /\ bridge \in Bridges /\ rail \in BOOLEAN
  BY Zenon DEF IInv, Types
<1>4. pc' \in Tasks /\ pc'.at = "verify"
  <2> DEFINE sent == answered /\ {"reset", "5v", "rail"} \subseteq done
  <2>1. sent \in BOOLEAN /\ pc' = [pc EXCEPT !.at = "verify", !.ok = sent]
    BY <1>2, Zenon
  <2> HIDE DEF sent
  <2> QED
    BY <1>3, <2>1 DEF Tasks, Places
<1>5. bridge' \in Bridges /\ (Safe(bridge) => Safe(bridge')) /\ rail' \in BOOLEAN /\ (rail' => rail)
  <2>1. rail' \in BOOLEAN /\ (rail' => rail)
    <3> DEFINE on == rail /\ "rail" \notin done
    <3>1. on \in BOOLEAN /\ (on => rail) /\ rail' = on
      BY <1>2, Zenon
    <3> QED
      BY <3>1, Zenon
  <2>2. CASE bridge' = SafeBridge
    BY <2>1, <2>2, IdleTyped DEF Safe, SafeBridge
  <2>3. CASE bridge' = [bridge EXCEPT !.reset = @ \/ "reset" \in done, !.v5 = @ /\ "5v" \notin done]
    <3> DEFINE reset == bridge.reset \/ "reset" \in done
               v5 == bridge.v5 /\ "5v" \notin done
    <3>1. reset \in BOOLEAN /\ v5 \in BOOLEAN /\ (bridge.reset => reset) /\ (v5 => bridge.v5)
      BY Zenon
    <3>2. bridge' = [bridge EXCEPT !.reset = reset, !.v5 = v5]
      BY <2>3, Zenon
    <3> HIDE DEF reset, v5
    <3> QED
      BY <1>3, <2>1, <3>1, <3>2 DEF Safe, Bridges
  <2> QED
    BY <1>2, <2>1, <2>2, <2>3, Zenon
<1>6. ~gate'.open /\ gate' \in Gates
  BY <1>1, IdleTyped DEF ShutGate
<1> QED
  BY <1>1, <1>3, <1>4, <1>5, <1>6
  DEF IInv, Types, Starting, Targeted, ProvenOffIsOff, ClockWithinRail, GateIsHealthy, At, Safe

LEMMA VerifyKeeps == ASSUME IInv, Verify PROVE IInv'
<1>1. /\ At("verify") /\ gate' = gate /\ health' = health /\ rail' = rail
  BY DEF Verify
<1>2. PICK readable \in BOOLEAN, b \in ClearLatched(bridge) :
        bridge' = b /\ AfterOff(Verdict(b, pc.ok, readable))
  BY Zenon DEF Verify
<1> DEFINE good == Verdict(b, pc.ok, readable)
<1>3. good \in BOOLEAN /\ (good => ~rail /\ b = SafeBridge)
  BY DEF Verdict
<1>4. pc \in Tasks /\ bridge \in Bridges /\ tuning \in Tunings /\ gate \in Gates /\ ~gate.open
      /\ rail \in BOOLEAN /\ ClockWithinRail
  BY <1>1 DEF IInv, Types, Starting
<1>5. b = bridge \/ b = SafeBridge
  BY <1>2 DEF ClearLatched
<1>6. AfterOff(good)
  BY <1>2, Zenon
<1> HIDE DEF good
<1>7. /\ bridge' = b /\ b \in Bridges
  BY <1>2, <1>4, <1>5, IdleTyped
<1>8. /\ lease' = 0 /\ owner' \in {"MAINTENANCE", "NONE"}
      /\ owner' = "MAINTENANCE" => good /\ pc.then = "own"
  BY <1>6 DEF AfterOff
<1>9. tuning' \in Tunings /\ tuning'.clock <= tuning'.rail
  <2>1. CASE good
    <3>1. tuning' = [rail |-> 1, clock |-> 1, replacing |-> FALSE]
      BY <1>6, <2>1, Zenon DEF AfterOff
    <3> QED
      BY <3>1 DEF Tunings
  <2>2. CASE ~good
    BY <1>4, <1>6, <2>2 DEF AfterOff, ClockWithinRail
  <2> QED
    BY <2>1, <2>2
<1>10. /\ pc' \in Tasks /\ pc'.at \in {"idle", "begin", "stage"}
       /\ pc'.at \in {"begin", "stage"} => good /\ pc.then # "own"
       /\ pc'.at = "stage" => pc'.k > 0
  <2>1. \/ pc.then = "clear" /\ good /\ pc' = [Idle EXCEPT !.at = "begin"]
        \/ pc.then = "stage" /\ good /\ pc' = [Idle EXCEPT !.at = "stage", !.k = 1]
        \/ pc' = Idle
    BY <1>6 DEF AfterOff
  <2>2. CASE pc.then = "clear" /\ good /\ pc' = [Idle EXCEPT !.at = "begin"]
    BY <2>2 DEF Idle, Tasks, Places, Nexts
  <2>3. CASE pc.then = "stage" /\ good /\ pc' = [Idle EXCEPT !.at = "stage", !.k = 1]
    <3>1. pc' = [at |-> "stage", k |-> 1, then |-> "idle", ok |-> TRUE]
      BY <2>3 DEF Idle
    <3>2. pc' \in Tasks /\ pc'.at = "stage" /\ pc'.k = 1
      BY <3>1 DEF Tasks, Places, Nexts
    <3>3. 1 > 0
      OBVIOUS
    <3> QED
      BY <2>3, <3>2, <3>3, Zenon
  <2>4. CASE pc' = Idle
    BY <2>4 DEF Idle, Tasks, Places, Nexts
  <2> QED
    BY <2>1, <2>2, <2>3, <2>4
<1>11. Safe(SafeBridge)
  BY DEF Safe, SafeBridge
<1> QED
  BY <1>1, <1>3, <1>4, <1>5, <1>7, <1>8, <1>9, <1>10, <1>11
  DEF IInv, Types, Starting, Targeted, ProvenOffIsOff, ClockWithinRail, GateIsHealthy, At, Safe

-----------------------------------------------------------------------------
(* A start *)

LEMMA StartKeeps == ASSUME IInv, Start PROVE IInv'
<1>1. /\ owner = "NONE" /\ health' = "GOOD" /\ tuning' = [tuning EXCEPT !.replacing = FALSE]
      /\ owner' = owner /\ fault' = fault /\ lease' = lease /\ gate' = gate /\ bridge' = bridge
      /\ rail' = rail
      /\ ForceOff("clear") \/ pc' = [Idle EXCEPT !.at = "begin"]
  BY DEF Start, power
<1>2. pc' \in Tasks /\ pc'.at \in {"off", "begin"}
  <2>1. CASE ForceOff("clear")
    BY <2>1, Forced DEF Nexts
  <2>2. CASE pc' = [Idle EXCEPT !.at = "begin"]
    BY <2>2 DEF Idle, Tasks, Places, Nexts
  <2> QED
    BY <1>1, <2>1, <2>2
<1>3. tuning' \in Tunings /\ tuning'.clock = tuning.clock /\ tuning'.rail = tuning.rail
  BY <1>1 DEF IInv, Types, Tunings
<1> QED
  BY <1>1, <1>2, <1>3
  DEF IInv, Types, Starting, Targeted, ProvenOffIsOff, ClockWithinRail, GateIsHealthy, At

LEMMA BeginKeeps == ASSUME IInv, Begin PROVE IInv'
<1>1. /\ At("begin") /\ owner' = owner /\ fault' = fault /\ lease' = lease /\ health' = health
      /\ bridge' = bridge /\ rail' = rail
      /\ \/ /\ ForceOff("stage") /\ gate' = ShutGate
            /\ tuning' = [rail |-> 1, clock |-> 1, replacing |-> FALSE]
         \/ pc' = Idle /\ gate' = gate /\ tuning' = tuning
  BY DEF Begin, power
<1>2. pc' \in Tasks /\ pc'.at \in {"off", "idle"}
  <2>1. CASE ForceOff("stage")
    BY <2>1, Forced DEF Nexts
  <2>2. CASE pc' = Idle
    BY <2>2, IdleTyped DEF Idle
  <2> QED
    BY <1>1, <2>1, <2>2
<1>3. pc' \in Tasks /\ gate \in Gates /\ tuning \in Tunings /\ tuning.clock <= tuning.rail
  BY <1>2 DEF IInv, Types, ClockWithinRail
<1>4. /\ tuning' \in Tunings /\ tuning'.clock <= tuning'.rail
      /\ gate' \in Gates /\ (gate'.open => gate.open)
  <2>1. CASE gate' = ShutGate /\ tuning' = [rail |-> 1, clock |-> 1, replacing |-> FALSE]
    BY <2>1, IdleTyped DEF ShutGate, Tunings
  <2>2. CASE gate' = gate /\ tuning' = tuning
    BY <1>3, <2>2
  <2> QED
    BY <1>1, <2>1, <2>2
<1> QED
  BY <1>1, <1>2, <1>3, <1>4
  DEF IInv, Types, Starting, Targeted, ProvenOffIsOff, ClockWithinRail, GateIsHealthy, At

\* What a stage has done leaves a bridge of the same shape.
LEMMA StageTyped ==
    ASSUME Parameters, bridge \in Bridges, rail \in BOOLEAN, NEW k \in Nat \ {0}, StageEffect(k)
    PROVE  bridge' \in Bridges /\ rail' \in BOOLEAN
<1>1. CASE k = 1
  <2>1. bridge' = SafeBridge /\ rail' = rail
    BY <1>1 DEF StageEffect, Controls
  <2> QED
    BY <2>1, IdleTyped
<1>2. CASE k = 2
  <2>1. bridge' = [bridge EXCEPT !.state = "CONTROLLED", !.left = BridgeLease] /\ rail' = TRUE
    BY <1>2 DEF StageEffect, PowerRail
  <2> QED
    BY <2>1 DEF Parameters, Bridges
<1>3. CASE k = 3
  <2>1. /\ bridge' = [bridge EXCEPT !.v5 = TRUE, !.reset = FALSE, !.left = BridgeLease]
        /\ rail' = rail
    BY <1>3 DEF StageEffect, Chain4
  <2> QED
    BY <2>1 DEF Parameters, Bridges
<1>4. CASE k > 3
  <2>1. bridge' = [bridge EXCEPT !.left = BridgeLease] /\ rail' = rail
    BY <1>4 DEF StageEffect, LaterStage
  <2> QED
    BY <2>1 DEF Parameters, Bridges
<1> QED
  BY <1>1, <1>2, <1>3, <1>4

\* Types of what a step leaves alone and what it changes, taken together.
LEMMA StagePassesKeeps == ASSUME Parameters, IInv, StagePasses PROVE IInv'
<1>1. /\ At("stage") /\ StageEffect(pc.k) /\ fault' = fault /\ gate' = gate /\ health' = health
      /\ tuning' = tuning
  BY DEF StagePasses
<1>2. \/ pc' = [Idle EXCEPT !.at = "held"] /\ owner' = "MINING" /\ lease' = Watchdog
      \/ pc' = [pc EXCEPT !.k = @ + 1] /\ owner' = owner /\ lease' = lease
  BY DEF StagePasses
<1>3. /\ pc \in Tasks /\ bridge \in Bridges /\ rail \in BOOLEAN /\ lease \in Nat /\ pc.k > 0
      /\ owner = "NONE" /\ ~gate.open
  BY <1>1 DEF IInv, Types, Starting, GateIsHealthy, At
<1>4. bridge' \in Bridges /\ rail' \in BOOLEAN
  <2>1. pc.k \in Nat \ {0}
    BY <1>3 DEF Tasks
  <2> QED
    BY <1>1, <1>3, <2>1, StageTyped
<1>5. /\ pc' \in Tasks /\ lease' \in Nat /\ owner' # "MAINTENANCE"
      /\ \/ pc'.at = "held"
         \/ pc'.at = "stage" /\ pc'.k > 0 /\ pc'.k # 1 /\ owner' = "NONE"
  <2>1. CASE pc' = [Idle EXCEPT !.at = "held"] /\ owner' = "MINING" /\ lease' = Watchdog
    BY <2>1 DEF Idle, Tasks, Places, Nexts, Parameters
  <2>2. CASE pc' = [pc EXCEPT !.k = @ + 1] /\ owner' = owner /\ lease' = lease
    <3>1. pc.k \in Nat /\ pc.k + 1 \in Nat /\ pc.k + 1 > 0 /\ pc.k + 1 # 1
      BY <1>3 DEF Tasks
    <3>2. pc' \in Tasks /\ pc'.at = "stage" /\ pc'.k = pc.k + 1
      BY <1>1, <1>3, <2>2, <3>1 DEF Tasks, At
    <3> QED
      BY <1>3, <2>2, <3>1, <3>2
  <2> QED
    BY <1>2, <2>1, <2>2
<1> QED
  BY <1>1, <1>3, <1>4, <1>5
  DEF IInv, Types, Starting, Targeted, ProvenOffIsOff, ClockWithinRail, GateIsHealthy, At

LEMMA StageFailsKeeps == ASSUME Parameters, IInv, StageFails PROVE IInv'
<1>1. /\ At("stage") /\ owner' = owner /\ fault' = fault /\ lease' = lease /\ gate' = gate
      /\ health' = health /\ tuning' = tuning
      /\ StageEffect(pc.k) \/ (rail' = rail /\ bridge' = bridge)
      /\ ForceOff("cancelled") \/ ForceOff("failed")
  BY DEF StageFails, power
<1>2. /\ pc.k \in Nat \ {0} /\ bridge \in Bridges /\ rail \in BOOLEAN /\ owner = "NONE"
  BY <1>1 DEF IInv, Types, Tasks, Starting, At
<1>3. bridge' \in Bridges /\ rail' \in BOOLEAN
  BY <1>1, <1>2, StageTyped
<1>4. pc' \in Tasks /\ pc'.at = "off"
  BY <1>1, Forced DEF Nexts
<1> QED
  BY <1>1, <1>2, <1>3, <1>4
  DEF IInv, Types, Starting, Targeted, ProvenOffIsOff, ClockWithinRail, GateIsHealthy, At

LEMMA HeldKeeps == ASSUME IInv, Held PROVE IInv'
<1>1. /\ At("held") /\ owner' = owner /\ fault' = fault /\ lease' = lease /\ tuning' = tuning
      /\ bridge' = bridge /\ rail' = rail
      /\ \/ pc' = Idle /\ SyncGate
         \/ ForceOff("failed") /\ gate' = ShutGate
  BY DEF Held, power
<1>2. pc' \in Tasks /\ pc'.at \in {"off", "idle"}
  <2>1. CASE ForceOff("failed")
    BY <2>1, Forced DEF Nexts
  <2>2. CASE pc' = Idle
    BY <2>2, IdleTyped DEF Idle
  <2> QED
    BY <1>1, <2>1, <2>2
<1>3. gate' \in Gates /\ GateIsHealthy'
  <2>1. CASE SyncGate
    BY <1>1, <2>1, Synced DEF IInv, Types
  <2>2. CASE gate' = ShutGate
    BY <2>2, IdleTyped DEF ShutGate, GateIsHealthy
  <2> QED
    BY <1>1, <2>1, <2>2
<1> QED
  BY <1>1, <1>2, <1>3
  DEF IInv, Types, Starting, Targeted, ProvenOffIsOff, ClockWithinRail, At

-----------------------------------------------------------------------------
(* The other operations of the power task *)

LEMMA IntendKeeps ==
    ASSUME IInv, NEW next \in {"stop", "own", "release"}, Intend(next) PROVE IInv'
<1>1. /\ pc' = [Idle EXCEPT !.at = "stopping", !.then = next]
      /\ owner' = owner /\ fault' = fault /\ lease' = lease /\ gate' = gate /\ health' = health
      /\ tuning' = tuning /\ bridge' = bridge /\ rail' = rail
  BY DEF Intend, power
<1>2. pc' \in Tasks /\ pc'.at = "stopping"
  BY <1>1 DEF Idle, Tasks, Places, Nexts
<1> QED
  BY <1>1, <1>2
  DEF IInv, Types, Starting, Targeted, ProvenOffIsOff, ClockWithinRail, GateIsHealthy, At

LEMMA TakeDownKeeps == ASSUME IInv, TakeDown PROVE IInv'
<1>1. /\ At("stopping") /\ gate' = ShutGate
      /\ pc' = Idle \/ ForceOff(pc.then)
      /\ owner' = owner /\ fault' = fault /\ lease' = lease /\ health' = health
      /\ tuning' = tuning /\ bridge' = bridge /\ rail' = rail
  BY DEF TakeDown, power
<1>2. pc.then \in Nexts
  BY DEF IInv, Types, Tasks
<1>3. pc' \in Tasks /\ pc'.at \in {"off", "idle"}
  <2>1. CASE ForceOff(pc.then)
    BY <1>2, <2>1, Forced
  <2>2. CASE pc' = Idle
    BY <2>2, IdleTyped DEF Idle
  <2> QED
    BY <1>1, <2>1, <2>2
<1>4. gate' \in Gates /\ ~gate'.open
  BY <1>1, IdleTyped DEF ShutGate
<1> QED
  BY <1>1, <1>3, <1>4
  DEF IInv, Types, Starting, Targeted, ProvenOffIsOff, ClockWithinRail, GateIsHealthy, At

LEMMA SampleKeeps == ASSUME Parameters, IInv, Sample PROVE IInv'
<1>1. /\ At("idle") /\ SyncGate /\ owner' = owner /\ fault' = fault /\ pc' = pc
      /\ tuning' = tuning /\ bridge' = bridge /\ rail' = rail
      /\ lease' \in {lease, Watchdog}
  BY DEF Sample
<1>2. lease' \in Nat
  BY <1>1 DEF IInv, Types, Parameters
<1>3. gate' \in Gates /\ GateIsHealthy'
  BY <1>1, <1>2, Synced
<1> QED
  BY <1>1, <1>2, <1>3
  DEF IInv, Types, Starting, Targeted, ProvenOffIsOff, ClockWithinRail, At

-----------------------------------------------------------------------------
(* Live tuning *)

\* The target goes to the rail first, or to the clock with the rail high enough.
LEMMA ApplyKeeps ==
    ASSUME Parameters, IInv, NEW level \in 1 .. Levels, Apply(level) PROVE IInv'
<1>1. /\ At("idle") /\ owner' = owner /\ fault' = fault /\ lease' = lease /\ health' = health
      /\ bridge' = bridge /\ rail' = rail
  BY DEF Apply, Tunable, power
<1>2. /\ tuning \in Tunings /\ tuning.clock <= tuning.rail
      /\ level \in Nat /\ level > 0 /\ pc \in Tasks
      /\ gate \in Gates
  BY DEF IInv, Types, ClockWithinRail, Parameters
<1>3. \/ /\ RailFirst(level) \/ (tuning.clock = level /\ level < tuning.rail)
         /\ SetRail(level)
      \/ /\ ~RailFirst(level) /\ pc' = [Idle EXCEPT !.at = "pll", !.k = level]
         /\ gate' = gate /\ tuning' = tuning
  BY DEF Apply
<1>4. CASE /\ RailFirst(level) \/ (tuning.clock = level /\ level < tuning.rail)
           /\ SetRail(level)
  <2>1. tuning.clock <= level
    BY <1>2, <1>4 DEF RailFirst, Tunings
  <2>2. /\ tuning' = tuning \/ tuning' = [tuning EXCEPT !.rail = level]
        /\ \/ pc' = pc /\ gate' = gate
           \/ ForceOff("latch") /\ gate' = ShutGate
    BY <1>4 DEF SetRail
  <2>3. tuning' \in Tunings /\ tuning'.clock <= tuning'.rail
    BY <1>2, <2>1, <2>2 DEF Tunings
  <2>4. /\ pc' \in Tasks /\ pc'.at \in {"idle", "off"}
        /\ gate' \in Gates /\ (gate'.open => gate.open)
    <3>1. CASE pc' = pc /\ gate' = gate
      BY <1>1, <1>2, <3>1 DEF At
    <3>2. CASE ForceOff("latch") /\ gate' = ShutGate
      BY <3>2, Forced, IdleTyped DEF Nexts, ShutGate
    <3> QED
      BY <2>2, <3>1, <3>2
  <2> QED
    BY <1>1, <2>3, <2>4
    DEF IInv, Types, Starting, Targeted, ProvenOffIsOff, ClockWithinRail, GateIsHealthy, At
<1>5. CASE /\ ~RailFirst(level) /\ pc' = [Idle EXCEPT !.at = "pll", !.k = level]
           /\ gate' = gate /\ tuning' = tuning
  <2>0. level \in 1 .. tuning.rail
    BY <1>2, <1>5 DEF RailFirst, Tunings
  <2>1. pc' \in Tasks /\ pc'.at = "pll" /\ pc'.k \in 1 .. tuning'.rail
    <3>1. pc' = [at |-> "pll", k |-> level, then |-> "idle", ok |-> TRUE]
      BY <1>5 DEF Idle
    <3>2. pc' \in Tasks /\ pc'.at = "pll" /\ pc'.k = level
      BY <1>2, <3>1 DEF Tasks, Places, Nexts
    <3> QED
      BY <1>5, <2>0, <3>2
  <2> QED
    BY <1>1, <1>5, <2>1
    DEF IInv, Types, Starting, Targeted, ProvenOffIsOff, ClockWithinRail, GateIsHealthy, At
<1> QED
  BY <1>3, <1>4, <1>5

LEMMA ReplacementEndsKeeps == ASSUME IInv, ReplacementEnds PROVE IInv'
<1>1. /\ tuning' = [tuning EXCEPT !.replacing = FALSE] /\ owner' = owner /\ fault' = fault
      /\ lease' = lease /\ gate' = gate /\ bridge' = bridge /\ rail' = rail /\ health' = health
      /\ pc' = pc
  BY DEF ReplacementEnds, power
<1>2. tuning' \in Tunings /\ tuning'.clock = tuning.clock /\ tuning'.rail = tuning.rail
  BY <1>1 DEF IInv, Types, Tunings
<1> QED
  BY <1>1, <1>2
  DEF IInv, Types, Starting, Targeted, ProvenOffIsOff, ClockWithinRail, GateIsHealthy, At

\* One step of the clock stays below the rail, whichever way it goes.
LEMMA TransitionEndsKeeps == ASSUME Parameters, IInv, TransitionEnds PROVE IInv'
<1>1. /\ At("pll") /\ owner' = owner /\ fault' = fault /\ lease' = lease /\ gate' = gate
      /\ health' = health /\ rail' = rail
      /\ bridge' \in {bridge, [bridge EXCEPT !.left = BridgeLease]}
      /\ tuning' \in {tuning, [tuning EXCEPT !.clock = ClockStep(pc.k)]}
  BY DEF TransitionEnds, power
<1>2. \E ok \in BOOLEAN : pc' = [pc EXCEPT !.at = "plldone", !.ok = ok]
  BY DEF TransitionEnds
<1>3. /\ pc \in Tasks /\ bridge \in Bridges /\ tuning \in Tunings
      /\ pc.k \in 1 .. tuning.rail /\ tuning.clock <= tuning.rail
  BY <1>1 DEF IInv, Types, Targeted, ClockWithinRail
<1>4. pc' \in Tasks /\ pc'.at = "plldone"
  BY <1>2, <1>3 DEF Tasks, Places
<1>5. bridge' \in Bridges /\ bridge'.v5 = bridge.v5 /\ bridge'.reset = bridge.reset
  BY <1>1, <1>3 DEF Bridges, Parameters
<1>6. tuning' \in Tunings /\ tuning'.clock <= tuning'.rail
  <2>1. /\ tuning.clock \in Nat /\ tuning.rail \in Nat /\ pc.k \in Nat
    BY <1>3 DEF Tunings, Tasks
  <2>2. ClockStep(pc.k) \in Nat /\ ClockStep(pc.k) <= tuning.rail
    BY <1>3, <2>1 DEF ClockStep
  <2> QED
    BY <1>1, <1>3, <2>2 DEF Tunings
<1> QED
  BY <1>1, <1>4, <1>5, <1>6
  DEF IInv, Types, Starting, Targeted, ProvenOffIsOff, ClockWithinRail, GateIsHealthy, At

LEMMA TransitionKeeps == ASSUME IInv, Transition PROVE IInv'
<1>1. /\ owner' = owner /\ fault' = fault /\ lease' = lease /\ health' = health
      /\ bridge' = bridge /\ rail' = rail
      /\ tuning' \in {tuning, [tuning EXCEPT !.replacing = TRUE]}
      /\ \/ pc' = Idle /\ gate' = gate
         \/ ForceOff("latch") /\ gate' = ShutGate
  BY DEF Transition, power
<1>2. tuning' \in Tunings /\ tuning'.clock = tuning.clock /\ tuning'.rail = tuning.rail
  BY <1>1 DEF IInv, Types, Tunings
<1>3. /\ pc' \in Tasks /\ pc'.at \in {"idle", "off"}
      /\ gate' \in Gates /\ (gate'.open => gate.open)
  <2>1. CASE pc' = Idle /\ gate' = gate
    BY <2>1, IdleTyped DEF Idle, IInv, Types
  <2>2. CASE ForceOff("latch") /\ gate' = ShutGate
    BY <2>2, Forced, IdleTyped DEF Nexts, ShutGate
  <2> QED
    BY <1>1, <2>1, <2>2
<1> QED
  BY <1>1, <1>2, <1>3
  DEF IInv, Types, Starting, Targeted, ProvenOffIsOff, ClockWithinRail, GateIsHealthy, At

\* The transition takes and returns the transport; nothing else changes hands.
LEMMA TransitionBeginsKeeps == ASSUME IInv, TransitionBegins PROVE IInv'
  BY DEF TransitionBegins, IInv, Types, Starting, Targeted, ProvenOffIsOff, ClockWithinRail,
         GateIsHealthy, At, power

-----------------------------------------------------------------------------
(* The I/O task, the driver and the world *)

\* The I/O task's period only shuts the gate: a verdict that is not good does it.
LEMMA BoardIoKeeps == ASSUME Parameters, IInv, BoardIo PROVE IInv'
<1>1. /\ owner = "MINING" /\ owner' = owner /\ fault' = fault /\ lease' = lease /\ pc' = pc
      /\ tuning' = tuning /\ rail' = rail
      /\ gate' = IF ~Renew \/ health' # "GOOD" THEN ShutGate ELSE gate
      /\ bridge' \in {bridge, [bridge EXCEPT !.left = BridgeLease]}
  BY DEF BoardIo, power
<1>2. bridge' \in Bridges /\ bridge'.v5 = bridge.v5 /\ bridge'.reset = bridge.reset
  BY <1>1 DEF IInv, Types, Bridges, Parameters
<1>3. gate' \in Gates /\ (gate'.open => gate.open /\ health' = "GOOD")
  BY <1>1, IdleTyped DEF IInv, Types, ShutGate
<1> QED
  BY <1>1, <1>2, <1>3
  DEF IInv, Types, Starting, Targeted, ProvenOffIsOff, ClockWithinRail, GateIsHealthy, At

LEMMA DispatchBeginsKeeps == ASSUME IInv, DispatchBegins PROVE IInv'
  BY DEF DispatchBegins, IInv, Types, Starting, Targeted, ProvenOffIsOff, ClockWithinRail,
         GateIsHealthy, At, power

LEMMA CheckpointKeeps == ASSUME Parameters, IInv, Checkpoint PROVE IInv'
<1>1. /\ owner' = owner /\ fault' = fault /\ lease' = lease /\ gate' = gate /\ pc' = pc
      /\ tuning' = tuning /\ rail' = rail /\ health' = health
      /\ bridge' \in {bridge, [bridge EXCEPT !.left = BridgeLease]}
  BY DEF Checkpoint, power
<1>2. bridge' \in Bridges /\ bridge'.v5 = bridge.v5 /\ bridge'.reset = bridge.reset
  BY <1>1 DEF IInv, Types, Bridges, Parameters
<1> QED
  BY <1>1, <1>2
  DEF IInv, Types, Starting, Targeted, ProvenOffIsOff, ClockWithinRail, GateIsHealthy, At

LEMMA AskKeeps == ASSUME IInv, Ask PROVE IInv'
  BY DEF Ask, IInv, Types, Starting, Targeted, ProvenOffIsOff, ClockWithinRail, GateIsHealthy, At,
         power

\* Time passing and a trip make the bridge safer, and open no gate.
LEMMA TickKeeps == ASSUME IInv, Tick PROVE IInv'
<1>1. /\ owner' = owner /\ fault' = fault /\ pc' = pc /\ tuning' = tuning /\ rail' = rail
      /\ health' = health /\ lease' = Less(lease) /\ gate' = [gate EXCEPT !.left = Less(@)]
      /\ bridge' \in {[SafeBridge EXCEPT !.state = "FAULT"], [bridge EXCEPT !.left = Less(@)]}
  BY DEF Tick
<1>2. /\ lease \in Nat /\ gate \in Gates /\ bridge \in Bridges
  BY DEF IInv, Types
<1>3. /\ lease' \in Nat /\ Less(gate.left) \in Nat /\ Less(bridge.left) \in Nat
  BY <1>1, <1>2 DEF Less, Gates, Bridges
<1>4. gate' \in Gates /\ gate'.open = gate.open
  BY <1>1, <1>2, <1>3 DEF Gates
<1>5. bridge' \in Bridges /\ (Safe(bridge) => Safe(bridge'))
  <2>1. CASE bridge' = [SafeBridge EXCEPT !.state = "FAULT"]
    BY <2>1 DEF SafeBridge, Bridges, Safe
  <2>2. CASE bridge' = [bridge EXCEPT !.left = Less(@)]
    BY <1>2, <1>3, <2>2 DEF Bridges, Safe
  <2> QED
    BY <1>1, <2>1, <2>2
<1> QED
  BY <1>1, <1>3, <1>4, <1>5
  DEF IInv, Types, Starting, Targeted, ProvenOffIsOff, ClockWithinRail, GateIsHealthy, At, Safe

LEMMA TripKeeps == ASSUME IInv, Trip PROVE IInv'
<1>1. /\ owner' = owner /\ fault' = fault /\ lease' = lease /\ gate' = gate /\ pc' = pc
      /\ tuning' = tuning /\ rail' = rail /\ health' = health
      /\ bridge' = [SafeBridge EXCEPT !.state = "FAULT"]
  BY DEF Trip, power
<1>2. bridge' \in Bridges /\ ~bridge'.v5 /\ bridge'.reset
  BY <1>1 DEF SafeBridge, Bridges
<1> QED
  BY <1>1, <1>2
  DEF IInv, Types, Starting, Targeted, ProvenOffIsOff, ClockWithinRail, GateIsHealthy, At

-----------------------------------------------------------------------------
(* The theorems *)

LEMMA InitHolds == ASSUME Parameters, Init PROVE IInv
<1>1. /\ pc = [Idle EXCEPT !.at = "off", !.then = "boot"] /\ owner = "NONE" /\ lease = 0
      /\ gate = ShutGate /\ tuning = [rail |-> 1, clock |-> 1, replacing |-> FALSE]
      /\ rail \in BOOLEAN
  BY DEF Init
<1>2. bridge \in {SafeBridge, [SafeBridge EXCEPT !.state = "FAULT"],
                  [SafeBridge EXCEPT !.state = "CONTROLLED", !.left = BridgeLease, !.v5 = TRUE]}
  BY DEF Init
<1>3. bridge \in Bridges
  <2>1. CASE bridge = SafeBridge
    BY <2>1, IdleTyped
  <2>2. CASE bridge = [SafeBridge EXCEPT !.state = "FAULT"]
    BY <2>2 DEF SafeBridge, Bridges
  <2>3. CASE bridge = [SafeBridge EXCEPT !.state = "CONTROLLED", !.left = BridgeLease, !.v5 = TRUE]
    BY <2>3 DEF SafeBridge, Bridges, Parameters
  <2> QED
    BY <1>2, <2>1, <2>2, <2>3
<1>4. pc \in Tasks /\ pc.at = "off"
  BY <1>1 DEF Idle, Tasks, Places, Nexts
<1>5. gate \in Gates /\ ~gate.open
  BY <1>1, IdleTyped DEF ShutGate
<1>6. tuning \in Tunings /\ tuning.clock <= tuning.rail
  BY <1>1 DEF Tunings
<1> QED
  BY <1>1, <1>3, <1>4, <1>5, <1>6
  DEF IInv, Types, Starting, Targeted, ProvenOffIsOff, ClockWithinRail, GateIsHealthy, At

\* Every step of the power task keeps the invariant.
LEMMA PowerTaskKeeps == ASSUME Parameters, IInv, PowerTaskStep PROVE IInv'
<1>1. CASE SafeOff BY <1>1, SafeOffKeeps
<1>2. CASE Verify BY <1>2, VerifyKeeps
<1>3. CASE Start BY <1>3, StartKeeps
<1>4. CASE Begin BY <1>4, BeginKeeps
<1>5. CASE StagePasses BY <1>5, StagePassesKeeps
<1>6. CASE StageFails BY <1>6, StageFailsKeeps
<1>7. CASE Held BY <1>7, HeldKeeps
<1>8. ASSUME NEW next \in {"stop", "own", "release"}, Intend(next) PROVE IInv'
  BY <1>8, IntendKeeps
<1>9. CASE TakeDown BY <1>9, TakeDownKeeps
<1>10. CASE Sample BY <1>10, SampleKeeps
<1>11. ASSUME NEW level \in 1 .. Levels, Apply(level) PROVE IInv'
  BY <1>11, ApplyKeeps
<1>12. CASE ReplacementEnds BY <1>12, ReplacementEndsKeeps
<1>13. CASE TransitionBegins BY <1>13, TransitionBeginsKeeps
<1>14. CASE TransitionEnds BY <1>14, TransitionEndsKeeps
<1>15. CASE Transition BY <1>15, TransitionKeeps
<1> QED
  BY <1>1, <1>2, <1>3, <1>4, <1>5, <1>6, <1>7, <1>8, <1>9, <1>10, <1>11, <1>12, <1>13, <1>14, <1>15
  DEF PowerTaskStep

LEMMA StepKeeps == ASSUME Parameters, IInv, [Next]_vars PROVE IInv'
<1>1. CASE PowerTaskStep BY <1>1, PowerTaskKeeps
<1>2. CASE BoardIo BY <1>2, BoardIoKeeps
<1>3. CASE DispatchBegins BY <1>3, DispatchBeginsKeeps
<1>4. CASE Checkpoint BY <1>4, CheckpointKeeps
<1>5. CASE Ask BY <1>5, AskKeeps
<1>6. CASE Tick BY <1>6, TickKeeps
<1>7. CASE Trip BY <1>7, TripKeeps
<1>8. CASE UNCHANGED vars
  BY <1>8 DEF vars, power, asked, IInv, Types, Starting, Targeted, ProvenOffIsOff, ClockWithinRail,
              GateIsHealthy, At
<1> QED
  BY <1>1, <1>2, <1>3, <1>4, <1>5, <1>6, <1>7, <1>8 DEF Next

\* The inductive invariant of the board's operations.
THEOREM Invariant == Spec => []IInv
<1>1. Init => IInv
  BY InitHolds, BoardRuntimeAssumption
<1>2. IInv /\ [Next]_vars => IInv'
  BY StepKeeps, BoardRuntimeAssumption
<1> QED
  BY <1>1, <1>2, PTL DEF Spec

\* BoardRuntime!ProvenOffIsOff (bzm_board_power.c, runtime_force_safe_off): whatever
\* commands and answers were lost, a safe-off taken for proven is one.
THEOREM OffWhenProven == Spec => []ProvenOffIsOff
<1>1. IInv => ProvenOffIsOff
  BY DEF IInv
<1> QED
  BY <1>1, Invariant, PTL

\* BoardRuntime!ClockWithinRail (BZM_board_apply): live tuning never runs a clock
\* above what its rail carries, wherever it is stopped.
THEOREM ClockFollowsRail == Spec => []ClockWithinRail
<1>1. IInv => ClockWithinRail
  BY DEF IInv
<1> QED
  BY <1>1, Invariant, PTL

\* BoardRuntime!GateIsHealthy (sync_dispatch_locked, board_io_task): work is written
\* only to a board that mines, healthy and without a fault.
THEOREM GateOpensHealthy == Spec => []GateIsHealthy
<1>1. IInv => GateIsHealthy
  BY DEF IInv
<1> QED
  BY <1>1, Invariant, PTL

\* BoardRuntime!BoardIsSafe: the three together, which is what the run checks.
THEOREM BoardStaysSafe == Spec => []BoardIsSafe
<1> QED
  BY OffWhenProven, ClockFollowsRail, GateOpensHealthy, PTL DEF BoardIsSafe
=============================================================================
