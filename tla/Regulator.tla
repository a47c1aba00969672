----------------------------- MODULE Regulator -----------------------------
(***************************************************************************)
(* The TPS546 core regulator (TPS546.c), the two boards that use it         *)
(* (vcore.c, bzm_power.c, board_power.c) and the I2C bus and bridge link    *)
(* between them.                                                           *)
(*                                                                         *)
(* An operation of the code is a sequence of transfers, each of which may   *)
(* fail, with or without having reached the device. Here an operation is    *)
(* an operator from the state to the set of states it can end in; the power *)
(* task performs one operation at a time.                                  *)
(***************************************************************************)
EXTENDS Integers, FiniteSets

CONSTANTS Volts,       \* rail voltages asked for while mining, in millivolts
          Exponents    \* what an unread VOUT_MODE can be taken for

VARIABLE rail

vars == <<rail>>

\* BZM_TPS546_* of bzm_power.h, in millivolts.
FixedVout == 2800
MinVout == 2100
MaxVout == 3200
ReadbackTolerance == 2
OperatingTolerance == 150
\* VOUT_MODE of the device: the rail is commanded in 2^-9 V.
Exponent == 9

\* Three of the registers the Bonanza profile sets, in thousandths of their unit.
Setting == [FREQUENCY_SWITCH |-> 325000, IOUT_OC_FAULT_LIMIT |-> 55000, VIN_OFF |-> 10500]
Registers == DOMAIN Setting

\* Targets of a Bitmain board: core voltage and the clock it is enough for.
Low == [mv |-> 1100, mhz |-> 400]
High == [mv |-> 1200, mhz |-> 500]
Needs(mhz) == IF mhz = High.mhz THEN High.mv ELSE IF mhz = Low.mhz THEN Low.mv ELSE 0

Output(r) == r.operation /\ (r.control => r.pin)

TypeOK ==
    rail \in [board : {"bonanza", "bitmain"}, ready : BOOLEAN,
              operation : BOOLEAN, control : BOOLEAN, pin : BOOLEAN, five : BOOLEAN,
              profile : SUBSET Registers, written : BOOLEAN, code : Nat, asked : Nat,
              clock : Nat, applied : [mv : Nat, mhz : Nat],
              condition : {"good", "low", "fault"}, grace : BOOLEAN, powerFault : BOOLEAN,
              ok : BOOLEAN, lost : BOOLEAN, lost5 : BOOLEAN, disturbed : BOOLEAN,
              misWrite : BOOLEAN, misRead : BOOLEAN, strained : BOOLEAN, busy : BOOLEAN]

Init ==
    \E board \in {"bonanza", "bitmain"}, operation \in BOOLEAN :
        rail = [board |-> board, ready |-> FALSE,
                operation |-> operation, control |-> FALSE, pin |-> FALSE, five |-> FALSE,
                profile |-> {}, written |-> FALSE, code |-> 0, asked |-> 0,
                clock |-> 50, applied |-> [mv |-> 0, mhz |-> 50],
                condition |-> "good", grace |-> FALSE, powerFault |-> FALSE,
                ok |-> TRUE, lost |-> FALSE, lost5 |-> FALSE, disturbed |-> FALSE,
                misWrite |-> FALSE, misRead |-> FALSE, strained |-> FALSE, busy |-> FALSE]

(***************************************************************************)
(* Transfers and their composition.                                        *)
(***************************************************************************)
Fails(r) == [r EXCEPT !.ok = FALSE, !.disturbed = TRUE]
Refuses(r) == [r EXCEPT !.ok = FALSE]

\* A write: done and acknowledged, lost, or done with the answer lost.
smb_write(r, done) == {[done EXCEPT !.ok = TRUE], Fails(r), Fails(done)}
smb_read(r) == {[r EXCEPT !.ok = TRUE], Fails(r)}

\* The next call is made when the one before it returned ESP_OK.
Then(outcomes, Call(_)) == UNION {IF r.ok THEN Call(r) ELSE {r} : r \in outcomes}

\* A call made whatever the one before it, which ended in r, returned.
retain_first_error(r, outcomes) == {[s EXCEPT !.ok = s.ok /\ r.ok] : s \in outcomes}

\* A call whose failure the caller ends by switching everything off.
OnError(outcomes, Call(_)) ==
    UNION {IF r.ok THEN {r} ELSE {Refuses(s) : s \in Call(r)} : r \in outcomes}

(***************************************************************************)
(* Number formats. A register holds a mantissa below 1024 and an exponent;  *)
(* encoding truncates, and gives zero when no exponent fits. A rail voltage is a 16-bit multiple of 2^-exponent V; the *)
(* exponent is read from the device for every conversion, and whatever the  *)
(* variable held is used when that read fails.                             *)
(***************************************************************************)
Least(P(_)) == {i \in 0 .. 15 : P(i) /\ \A j \in 0 .. i - 1 : ~P(j)}
Zero == [mantissa |-> 0, exponent |-> 0]

int_2_slinear11(value) ==
    LET fits(i) == value \div 2^i < 1024
    IN  IF Least(fits) = {} THEN Zero
        ELSE LET i == CHOOSE k \in Least(fits) : TRUE
             IN  [mantissa |-> value \div 2^i, exponent |-> i]

\* Mutant: the first exponent that is too large is kept.
float_2_slinear11_large(milli) ==
    LET full(i) == (milli * 2^i) \div 1000 >= 1024
    IN  IF milli <= 0 \/ Least(full) = {} THEN Zero
        ELSE LET i == CHOOSE k \in Least(full) : TRUE
             IN  [mantissa |-> ((milli * 2^i) \div 1000) % 1024, exponent |-> -i]

float_2_slinear11(milli) ==
    LET full(i) == (milli * 2^i) \div 1000 >= 1024
    IN  IF milli <= 0 \/ Least(full) = {} THEN Zero
        ELSE LET i == (CHOOSE k \in Least(full) : TRUE) - 1
             IN  IF i < 0 THEN [mantissa |-> milli \div 2000, exponent |-> 1]
                 ELSE [mantissa |-> (milli * 2^i) \div 1000, exponent |-> -i]

slinear11_2_float(word) ==
    IF word.exponent >= 0 THEN word.mantissa * 2^word.exponent * 1000
    ELSE (word.mantissa * 1000) \div 2^(-word.exponent)

Encoded(register) ==
    IF register = "FREQUENCY_SWITCH" THEN int_2_slinear11(Setting[register] \div 1000)
    ELSE float_2_slinear11(Setting[register])

\* The device acts on the value the profile means.
Represented(register) == slinear11_2_float(Encoded(register)) = Setting[register]

float_2_ulinear16_mode(mv, exponent) == (mv * 2^exponent) \div 1000

\* Mutant: the tolerance of the startup request instead of the read-back one.
NearExact(code, exponent, mv, tolerance) ==
    LET difference == code * 1000 - mv * 2^exponent
    IN  -(2^exponent) <= difference /\ difference <= 2^exponent

\* |decoded - expected| <= tolerance, in units that keep the comparison exact.
Near(code, exponent, mv, tolerance) ==
    LET difference == code * 1000 - mv * 2^exponent
    IN  -(tolerance * 2^exponent) <= difference /\ difference <= tolerance * 2^exponent

(***************************************************************************)
(* TPS546_init. The regulator is off, and held off by its control pin,      *)
(* while it is configured.                                                 *)
(***************************************************************************)
WriteProfile(r) == [r EXCEPT !.profile = Registers, !.written = TRUE, !.control = FALSE]

\* Every write of the extended profile is checked; the flag is set at the end.
TPS546_write_extended_config(r) ==
    LET begun == [r EXCEPT !.written = FALSE]
    IN  {[WriteProfile(r) EXCEPT !.ok = TRUE]}
        \union {Fails([begun EXCEPT !.profile = @ \union p, !.control = c])
                    : p \in SUBSET Registers, c \in BOOLEAN}

\* The writes of the standard configuration are not checked.
write_entire_config_checked(r) ==
    IF r.board = "bonanza" THEN TPS546_write_extended_config(r)
    ELSE {[r EXCEPT !.profile = p, !.control = c, !.ok = TRUE]
              : p \in SUBSET Registers, c \in BOOLEAN}

TPS546_clear_faults(r) == smb_write(r, [r EXCEPT !.condition = "good"])

TPS546_init(r) ==
    LET off(s) == smb_write(s, [s EXCEPT !.operation = FALSE])
        hold(s) == smb_write(s, [s EXCEPT !.control = TRUE])
    IN  Then(Then(Then(Then(Then(Then(smb_read(r), off), hold), TPS546_clear_faults),
             smb_read), write_entire_config_checked), smb_read)

\* VCORE_init: the Bonanza pin is driven low first; an unreachable bridge is
\* reported and the regulator initialised all the same.
VCORE_init(r) ==
    LET pinned == [r EXCEPT !.pin = (r.board = "bitmain"), !.ready = FALSE]
        bridged == IF r.board = "bonanza"
                   THEN {pinned, [pinned EXCEPT !.five = FALSE]} ELSE {pinned}
    IN  UNION {{[s EXCEPT !.ready = s.ok] : s \in TPS546_init(b)} : b \in bridged}

(***************************************************************************)
(* TPS546_set_vout. Zero switches the output off.                          *)
(***************************************************************************)
Strain(r) == [r EXCEPT !.strained = @ \/ (r.operation /\ ~r.misWrite /\ r.asked < Needs(r.clock))]

SwitchOff(r) ==
    LET done == [r EXCEPT !.operation = FALSE, !.lost = FALSE, !.ok = TRUE]
    IN  {[done EXCEPT !.grace = FALSE], Fails([r EXCEPT !.lost = TRUE]), Fails(done)}

CommandVout(r, mv) ==
    UNION {smb_write(r, Strain([r EXCEPT !.code = float_2_ulinear16_mode(mv, e), !.asked = mv,
                                         !.misWrite = (e # Exponent),
                                         !.disturbed = @ \/ e # Exponent]))
               : e \in Exponents \union {Exponent}}

\* Six registers of a Bitmain board follow the commanded voltage.
TPS546_write_vout_limit_ratios(r) == smb_read(r)

SwitchOn(r) == smb_write(r, Strain([r EXCEPT !.operation = TRUE, !.lost = FALSE]))

InRange(r, mv) ==
    IF r.board = "bonanza" THEN MinVout <= mv /\ mv <= MaxVout ELSE 1000 <= mv /\ mv <= 2000

TPS546_set_vout(r, mv) ==
    LET limits(s) == IF r.board = "bonanza" THEN {s} ELSE TPS546_write_vout_limit_ratios(s)
        started(s) == smb_read([s EXCEPT !.grace = TRUE])
    IN  IF mv = 0 THEN SwitchOff(r)
        ELSE IF ~InRange(r, mv) THEN {Refuses(r)}
        ELSE Then(Then(Then(CommandVout(r, mv), limits), SwitchOn), started)

(***************************************************************************)
(* TPS546_snapshot_status reads the whole status, or fails. The voltages in *)
(* it are converted with an exponent read separately.                      *)
(***************************************************************************)
TPS546_snapshot_status(r) ==
    {[r EXCEPT !.ok = TRUE, !.misRead = FALSE], Fails(r)}
        \union {[Fails(r) EXCEPT !.ok = TRUE, !.misRead = TRUE]}

\* Mutant: the commanded and the measured voltage are not looked at.
ValidatedByStatus(r, mv) == r.operation

\* bonanza_validate_power: power good, no status bit, output commanded on, and
\* the commanded and the measured voltage where they should be.
Validated(r, mv) ==
    \/ /\ ~r.misRead
       /\ Near(r.code, Exponent, mv, ReadbackTolerance)
       /\ Near(r.code, Exponent, mv, OperatingTolerance)
    \/ /\ r.misRead
       /\ \E e \in Exponents : Near(r.code, e, mv, ReadbackTolerance)

bonanza_validate_power(r, mv) ==
    LET judge(s) == {[s EXCEPT !.ok = s.condition = "good" /\ Output(s) /\ Validated(s, mv)]}
        refused == {Refuses(s) : s \in {r}}
    IN  IF r.condition = "low" \/ ~Output(r) THEN refused
        ELSE Then(TPS546_snapshot_status(r), judge)

(***************************************************************************)
(* bzm_power.c: the Bonanza rail is switched on with the 5 V of the ASICs   *)
(* off, and everything is switched off again when one step fails.          *)
(***************************************************************************)
bonanza_set_5v_enabled(r, on) ==
    {[r EXCEPT !.five = on, !.ok = TRUE, !.lost5 = FALSE],
     Fails([r EXCEPT !.lost5 = TRUE]), Fails([r EXCEPT !.five = on, !.lost5 = FALSE])}

bonanza_set_regulator_enabled(r, on) == {[r EXCEPT !.pin = on, !.ok = TRUE]}

\* Mutant: the first failure ends the power-down.
power_down_stopping(r) ==
    LET vout(s) == TPS546_set_vout(s, 0)
        pin(s) == bonanza_set_regulator_enabled(s, FALSE)
    IN  Then(Then(bonanza_set_5v_enabled(r, FALSE), vout), pin)

power_down(r) ==
    LET vout(s) == retain_first_error(s, TPS546_set_vout(s, 0))
        pin(s) == retain_first_error(s, bonanza_set_regulator_enabled(s, FALSE))
    IN  UNION {UNION {pin(t) : t \in vout(s)} : s \in bonanza_set_5v_enabled(r, FALSE)}

bzm_power_set_rail_enabled(r, on) ==
    LET pin(s) == bonanza_set_regulator_enabled(s, TRUE)
        vout(s) == TPS546_set_vout(s, FixedVout)
        check(s) == bonanza_validate_power(s, FixedVout)
    IN  IF ~on THEN power_down(r)
        ELSE OnError(Then(Then(Then(bonanza_set_5v_enabled(r, FALSE), pin), vout), check),
                     power_down)

bzm_power_runtime_voltage_is_allowed(mv) == MinVout <= mv /\ mv <= MaxVout

bzm_power_set_runtime_voltage(r, mv) ==
    LET check(s) == bonanza_validate_power(s, mv)
    IN  IF ~bzm_power_runtime_voltage_is_allowed(mv) THEN {Refuses(r)}
        ELSE OnError(Then(TPS546_set_vout(r, mv), check), power_down)

\* Mutant: the flag that the profile was written once is believed.
TPS546_verify_active_config_flag(r) == {[s EXCEPT !.ok = s.ok /\ s.written] : s \in smb_read(r)}

\* Every register of the profile is read back and compared.
TPS546_verify_active_config(r) ==
    {[s EXCEPT !.ok = s.ok /\ s.written /\ s.profile = Registers] : s \in smb_read(r)}

\* Startup: rail on, profile verified, power re-read; a failed stage is cut.
run_power_rail(r) ==
    LET check(s) == bonanza_validate_power(s, FixedVout)
    IN  OnError(Then(Then(bzm_power_set_rail_enabled(r, TRUE), TPS546_verify_active_config), check),
                power_down)

\* Startup, next stage: the 5 V of the ASICs, confirmed by the bridge.
run_chain4(r) ==
    LET five(s) == {t \in smb_read(s) : t.five \/ ~t.ok}
    IN  OnError(Then(bonanza_set_5v_enabled(r, TRUE), five), power_down)

\* Recovery from a bridge that does not answer, which is not told about the 5 V:
\* the pin first, then the regulator.
VCORE_bzm_force_regulator_off(r) == TPS546_set_vout([r EXCEPT !.pin = FALSE, !.lost5 = TRUE], 0)

(***************************************************************************)
(* A Bitmain board (board_power.c).                                        *)
(***************************************************************************)
VCORE_set_voltage(r, mv) == TPS546_set_vout([r EXCEPT !.pin = (mv # 0)], mv)

ASIC_set_frequency(r, mhz) == {Strain([r EXCEPT !.clock = mhz])}

\* The clock is lowered only while ASICs are initialized; without any it is low already.
bitmain_stop(r) ==
    LET slow == [r EXCEPT !.clock = 50]
    IN  {[s EXCEPT !.applied = [mv |-> 0, mhz |-> 50]] : s \in VCORE_set_voltage(slow, 0)}

\* The voltage comes first; a chain on which no chip answers gets no clock, and the
\* start fails.
bitmain_start(r, target) ==
    LET chips(s) == ASIC_set_frequency(s, target.mhz) \union {[s EXCEPT !.ok = FALSE]}
        applied(s) == {[c EXCEPT !.applied = target] : c \in chips(s)}
    IN  Then(VCORE_set_voltage(r, target.mv), applied)

\* The voltage is raised before the clock and lowered after it.
ApplyVoltage(r, target) ==
    {[s EXCEPT !.applied.mv = IF s.ok THEN target.mv ELSE @] : s \in VCORE_set_voltage(r, target.mv)}

\* Mutant: the voltage is set first in either direction.
RaiseFirstAlways(r, target) == IF target.mv # r.applied.mv THEN ApplyVoltage(r, target) ELSE {r}

RaiseFirst(r, target) == IF target.mv > r.applied.mv THEN ApplyVoltage(r, target) ELSE {r}

LowerLast(r, target) == IF target.mv < r.applied.mv THEN ApplyVoltage(r, target) ELSE {r}

bitmain_apply(r, target) ==
    LET clocked(s) == IF target.mhz # s.applied.mhz
                      THEN {[c EXCEPT !.applied.mhz = target.mhz]
                                : c \in ASIC_set_frequency(s, target.mhz)}
                      ELSE {s}
        lower(s) == LowerLast(s, target)
    IN  Then(Then(RaiseFirst(r, target), clocked), lower)

(***************************************************************************)
(* TPS546_check_status, read once a power step by a running Bitmain board.  *)
(* An output that is not good yet is excused for a while after switching on.*)
(***************************************************************************)
TPS546_parse_status(r) == {[s EXCEPT !.powerFault = IF s.ok THEN TRUE ELSE @] : s \in smb_read(r)}

\* Mutant: the grace period excuses any status.
GraceAny(r) == r.grace /\ r.operation

Grace(r) == r.grace /\ r.operation /\ r.condition = "low"

TPS546_check_status(r) ==
    LET judge(s) ==
            IF Grace(s) THEN smb_read(s) \union TPS546_parse_status(s)
            ELSE IF s.condition # "good"
                 THEN IF s.powerFault THEN {s} ELSE TPS546_parse_status(s)
                 ELSE {[s EXCEPT !.powerFault = FALSE]}
    IN  Then(smb_read(r), judge)

(***************************************************************************)
(* The actions: what the power task asks for, and what happens to the rail. *)
(***************************************************************************)
Fresh(r) == [r EXCEPT !.ok = TRUE, !.strained = FALSE, !.busy = FALSE,
                      !.disturbed = r.condition # "good" \/ r.profile # Registers]

\* The policy stops the board after an operation that failed.
MayRun(r) == r.ready /\ r.ok

Boot == ~rail.ready /\ rail.ok /\ rail' \in VCORE_init(Fresh(rail))

BonanzaStart ==
    /\ rail.board = "bonanza" /\ MayRun(rail) /\ ~rail.operation
    /\ rail' \in run_power_rail(Fresh(rail))

BonanzaFiveVolt ==
    /\ rail.board = "bonanza" /\ MayRun(rail) /\ rail.operation /\ ~rail.five
    /\ rail' \in run_chain4(Fresh(rail))

BonanzaVoltage ==
    /\ rail.board = "bonanza" /\ MayRun(rail) /\ rail.operation
    /\ \E mv \in Volts : rail' \in bzm_power_set_runtime_voltage(Fresh(rail), mv)

BonanzaStop ==
    /\ rail.board = "bonanza" /\ rail.ready
    /\ rail' \in power_down(Fresh(rail)) \union VCORE_bzm_force_regulator_off(Fresh(rail))

BitmainStart ==
    /\ rail.board = "bitmain" /\ MayRun(rail) /\ rail.applied.mv = 0
    /\ \E target \in {Low, High} : rail' \in bitmain_start(Fresh(rail), target)

BitmainApply ==
    /\ rail.board = "bitmain" /\ MayRun(rail) /\ rail.applied.mv # 0
    /\ \E target \in {Low, High} : rail' \in bitmain_apply(Fresh(rail), target)

BitmainStop ==
    /\ rail.board = "bitmain" /\ rail.ready
    /\ rail' \in bitmain_stop(Fresh(rail))

\* VCORE_check_fault of a running Bitmain board.
CheckFault ==
    /\ rail.board = "bitmain" /\ MayRun(rail) /\ rail.applied.mv # 0
    /\ rail' \in {[s EXCEPT !.busy = TRUE] : s \in TPS546_check_status(Fresh(rail))}

GraceEnds == rail.grace /\ rail' = [rail EXCEPT !.grace = FALSE, !.busy = FALSE]

\* The output sags or a protection trips, and the condition clears.
Condition ==
    /\ rail.ready
    /\ \E c \in {"good", "low", "fault"} \ {rail.condition} :
           rail' = [rail EXCEPT !.condition = c, !.busy = FALSE]

\* The regulator loses its supply: factory settings, output off, ASICs unpowered.
Brownout ==
    /\ rail.ready /\ rail.profile # {}
    /\ rail' = [rail EXCEPT !.profile = {}, !.operation = FALSE, !.lost = FALSE, !.busy = FALSE,
                            !.clock = 50, !.strained = FALSE]

Next == Boot \/ BonanzaStart \/ BonanzaFiveVolt \/ BonanzaVoltage \/ BonanzaStop
            \/ BitmainStart \/ BitmainApply \/ BitmainStop \/ CheckFault \/ GraceEnds \/ Condition \/ Brownout

Spec == Init /\ [][Next]_vars

\* A rail operation of the Bonanza board that reports failure leaves the output
\* and the 5 V of the ASICs off, whichever transfers failed, unless the transfer
\* that was to switch it off is among them (power_down, bzm_power.c).
FailedRailIsOff ==
    (rail.board = "bonanza" /\ rail.ready /\ ~rail.ok)
        => (Output(rail) => rail.lost) /\ (rail.five => rail.lost5) /\ ~rail.pin

\* A rail operation of the Bonanza board fails only when a transfer failed, the
\* rail was in trouble or the profile was lost: no voltage in its range is
\* refused because of how VOUT_COMMAND rounds (float_2_ulinear16, 1.953 mV).
NoSpuriousTrip ==
    (rail.board = "bonanza" /\ ~rail.ok) => rail.disturbed

\* A Bonanza rail that an operation left on carries the whole verified profile
\* (after the startup check) and, unless VOUT_MODE could not be read both when
\* the voltage was written and when it was read back, the voltage asked for.
RailAsCommanded ==
    (rail.board = "bonanza" /\ rail.ready /\ rail.ok /\ Output(rail))
        => /\ rail.profile = Registers /\ \A register \in Registers : Represented(register)
           /\ (rail.misWrite /\ rail.misRead) \/ rail.code = float_2_ulinear16_mode(rail.asked, Exponent)

\* At no moment of a start or a change of target, whichever transfer fails, do
\* the ASICs of a Bitmain board run a clock that needs more than the voltage
\* last commanded (bitmain_apply).
ClockWithinVoltage == ~rail.strained

\* A status read that succeeds while a protection has tripped leaves
\* power_fault set, in the grace period of a fresh output too.
TripIsReported ==
    (rail.busy /\ rail.ok /\ rail.condition = "fault") => rail.powerFault
=============================================================================
