---------------------------- MODULE FanControl ----------------------------
(***************************************************************************)
(* The fan.  The fan task polls every 100 ms: it decides what the fan      *)
(* should do and commands the fan only when that differs from fan_perc,    *)
(* what it believes the fan is doing.  On Bonanza boards the fan hangs     *)
(* off the RP2040 bridge, the safety supervisor commands it as well, and   *)
(* the health sampling overwrites fan_perc with what the bridge's status   *)
(* said, without the lock the fan task holds.                              *)
(*                                                                         *)
(* Percentages and temperatures are counted in hundredths.                 *)
(***************************************************************************)
EXTENDS Integers, FiniteSetsExt

CONSTANTS
    Readings,       \* 16-bit readings of a temperature sensor
    SetPoint,       \* NVS_CONFIG_TEMP_TARGET
    MinSpeeds,      \* values of NVS_CONFIG_MIN_FAN_SPEED
    ManualSpeeds,   \* values of NVS_CONFIG_MANUAL_FAN_SPEED
    FanMin,         \* CONFIG_BZM_1002_FAN_MIN_PERCENT
    TempMax,        \* CONFIG_BZM_1002_TEMP_MAX_C
    MaxPolls        \* bound

VARIABLES
    kind,           \* what drives the fan
    fans,           \* the speed set in each of its registers
    fan_perc,
    hardware_fault,
    pid,            \* the PID controller
    pid_output_min,
    filtered_input,
    write,          \* what the poll at work has to record
    status,         \* the fan speed in the bridge status being sampled
    holding,        \* the supervisor holds the board up, and samples it
    last,           \* what the last poll saw and did
    hot,            \* steps taken since a poll first found full speed due
    polls

vars == <<kind, fans, fan_perc, hardware_fault, pid, pid_output_min, filtered_input,
          write, status, holding, last, hot, polls>>

control == <<pid, pid_output_min, filtered_input>>

None == -1
NoWrite == [target |-> None, ok |-> FALSE]
Full == 10000

----------------------------------------------------------------------------
(* The devices                                                             *)

Kinds == {"bridge", "EMC2101", "EMC2103", "EMC2302"}

\* The register value for full speed, and the number of registers.
Scale == [bridge |-> 100, EMC2101 |-> 63, EMC2103 |-> 255, EMC2302 |-> 255]
Fans == 1 .. (IF kind = "EMC2302" THEN 2 ELSE 1)

\* The bridge's command rounds, the others truncate.
BZM_bridge_set_fan_percent(percent) == (percent + 50) \div 100
EMC2101_set_fan_speed(percent) == (63 * percent) \div Full
EMC2103_set_fan_speed(percent) == (255 * percent) \div Full

Setting(percent) ==
    CASE kind = "bridge" -> BZM_bridge_set_fan_percent(percent)
      [] kind = "EMC2101" -> EMC2101_set_fan_speed(percent)
      [] OTHER -> EMC2103_set_fan_speed(percent)

\* Mutant: a failure at the second fan goes unnoticed.
Thermal_set_fan_percent_first(percent, ok) ==
    /\ fans' = IF ok THEN [f \in Fans |-> Setting(percent)]
                     ELSE [fans EXCEPT ![1] = Setting(percent)]
    /\ write' = [target |-> percent, ok |-> ok \/ kind = "EMC2302"]

\* A failed command may or may not have reached the fan; with two fans the second
\* is only commanded after the first was.
Thermal_set_fan_percent(percent, ok) ==
    LET new == Setting(percent) IN
    /\ write' = [target |-> percent, ok |-> ok]
    /\ IF ok THEN fans' = [f \in Fans |-> new]
       ELSE \E reached \in {{}, {1}, Fans} :
                fans' = [f \in Fans |-> IF f \in reached THEN new ELSE fans[f]]

\* A sensor's answer is signed, in the upper bits of two bytes: eleven bits in
\* eighths of a degree, or twelve in sixteenths; -1 stands for no answer.
Signed(raw, bits) == IF raw >= 2^(bits - 1) THEN raw - 2^bits ELSE raw
EMC2101_get_external_temp(reading) == (Signed(reading \div 32, 11) * 100) \div 8
TMP1075_read_temperature(reading) == (Signed(reading \div 16, 12) * 100) \div 16

Temperature(reading) ==
    IF reading = None THEN -100
    ELSE IF kind = "EMC2302" THEN TMP1075_read_temperature(reading)
                             ELSE EMC2101_get_external_temp(reading)

\* chip_temp_avg and chip_temp2_avg: only the EMC2103 and the TMP1075 of the boards
\* with an EMC2302 measure twice.  A bridge board publishes only valid telemetry.
Temperatures ==
    LET Answers == Readings \union {None} IN
    CASE kind = "EMC2101" -> {<<Temperature(a), -100>> : a \in Answers}
      [] kind = "bridge" -> {<<Temperature(r), -100>> : r \in Readings} \union {<<0, 0>>}
      [] OTHER -> {<<Temperature(a), Temperature(b)>> : a, b \in Answers}

----------------------------------------------------------------------------
(* The PID controller                                                      *)

Clamp(x, min, max) == IF x > max THEN max ELSE IF x < min THEN min ELSE x

pid_set_output_limits(p, min, max) ==
    IF min >= max THEN p
    ELSE LET q == [p EXCEPT !.outMin = min, !.outMax = max] IN
         IF p.inAuto
         THEN [q EXCEPT !.output = Clamp(p.output, min, max),
                        !.outputSum = Clamp(p.outputSum, min, max)]
         ELSE q

\* pid_set_mode(AUTOMATIC), with pid_initialize.
pid_set_mode(p, input) ==
    IF p.inAuto THEN p
    ELSE [p EXCEPT !.inAuto = TRUE, !.lastInput = input,
                   !.outputSum = Clamp(p.output, p.outMin, p.outMax)]

\* Mutant: the gains keep their sign, the fan slows down with rising heat.
pid_compute_direct(p, input) ==
    LET error == SetPoint - input
    IN [p EXCEPT !.output = Clamp(5 * error + p.outputSum, p.outMin, p.outMax),
                 !.lastInput = input]

\* One sample with the gains of the fan task: 5, 0.1 a second and 2 seconds, sampled
\* at 100 ms and reversed.  What the limits cut off is taken out of the sum.
pid_compute(p, input) ==
    LET error == SetPoint - input
        dInput == input - p.lastInput
        sum == Clamp(p.outputSum - error \div 100, p.outMin, p.outMax)
        raw == sum - 5 * error + 20 * dInput
        output == Clamp(raw, p.outMin, p.outMax)
    IN [p EXCEPT !.output = output, !.outputSum = sum + (output - raw),
                 !.lastInput = input]

\* The controller's initial limits are 0 and 255; the task lowers them when it first
\* sees a minimum speed other than 0.
pid_init == [inAuto |-> FALSE, output |-> 0, outputSum |-> 0, lastInput |-> 0,
             outMin |-> 0, outMax |-> 25500]

----------------------------------------------------------------------------
(* The fan task                                                            *)

\* The speed is bounded, on bridge boards also from below, and commanded if it is new.
update_fan_speed(target) ==
    LET percent == Clamp(target, IF kind = "bridge" THEN FanMin ELSE 0, Full) IN
    IF fan_perc = percent
    THEN UNCHANGED <<write, fans>>
    ELSE \E ok \in BOOLEAN : Thermal_set_fan_percent(percent, ok)

\* Automatic control with a valid first sensor: the hotter sensor is smoothed and
\* passed on.  A poll that comes a moment early computes nothing.
Automatic(temps, min, early) ==
    LET limited == IF pid_output_min = min THEN pid ELSE pid_set_output_limits(pid, min, Full)
        raw == Max({temps[1], temps[2]})
        input == IF filtered_input < 0 THEN raw ELSE (raw + 4 * filtered_input) \div 5
        started == pid_set_mode(limited, input)
        next == IF early THEN started ELSE pid_compute(started, input)
    IN /\ pid_output_min' = min
       /\ IF temps[1] > 0
          THEN /\ filtered_input' = input
               /\ pid' = next
               /\ update_fan_speed(next.output)
               /\ last' = [auto |-> ~early, min |-> min, rising |-> input >= started.lastInput]
          ELSE /\ pid' = limited
               /\ UNCHANGED filtered_input
               /\ update_fan_speed(7000)
               /\ last' = [last EXCEPT !.auto = FALSE]

bonanza_asic_overheated(temps) ==
    kind = "bridge" /\ (temps[1] > TempMax \/ temps[2] > TempMax)

\* Mutant: a paused miner's fan slows down although it is still hot.
SpeedPausedFirst(allowed, overheat, idle, temps) ==
    IF idle THEN 3000
    ELSE IF (kind = "bridge" /\ ~allowed) \/ bonanza_asic_overheated(temps) \/ overheat
         THEN Full ELSE None

\* The speed that safety, a pause or the lack of a pool ask for.
Speed(allowed, overheat, idle, temps) ==
    IF (kind = "bridge" /\ ~allowed) \/ bonanza_asic_overheated(temps) \/ overheat
    THEN Full
    ELSE IF idle THEN 3000 ELSE None

\* One poll: what is asked for, else what the user chose, up to the fan's answer.
FAN_CONTROLLER_task(allowed, overheat, idle, temps) ==
    LET speed == Speed(allowed, overheat, idle, temps)
        due == overheat \/ (kind = "bridge" /\ (~allowed \/ Max({temps[1], temps[2]}) > TempMax))
    IN /\ write = NoWrite /\ polls < MaxPolls
       /\ polls' = polls + 1
       /\ hot' = IF ~due THEN 0 ELSE IF hot \in {0, 3} THEN hot + 1 ELSE hot
       /\ \/ /\ speed # None
             /\ update_fan_speed(speed)
             /\ last' = [last EXCEPT !.auto = FALSE]
             /\ UNCHANGED control
          \/ /\ speed = None
             /\ \E min \in MinSpeeds, early \in BOOLEAN : Automatic(temps, min, early)
          \/ /\ speed = None
             /\ \E manual \in ManualSpeeds : update_fan_speed(manual)
             /\ last' = [last EXCEPT !.auto = FALSE]
             /\ UNCHANGED control
       /\ UNCHANGED <<kind, fan_perc, hardware_fault, status, holding>>

Poll ==
    \E allowed, overheat, idle \in BOOLEAN, temps \in Temperatures :
        /\ kind = "bridge" \/ allowed
        /\ FAN_CONTROLLER_task(allowed, overheat, idle, temps)

\* The fan's answer: what was commanded is remembered, or the fault is flagged.
Record ==
    /\ write # NoWrite
    /\ write' = NoWrite
    /\ IF write.ok
       THEN fan_perc' = write.target /\ UNCHANGED hardware_fault
       ELSE hardware_fault' = TRUE /\ UNCHANGED fan_perc
    /\ UNCHANGED <<kind, fans, control, status, holding, last, hot, polls>>

----------------------------------------------------------------------------
(* The health sampling and the supervisor of a bridge board                *)

\* BZM_bridge_safety_heartbeat answers with the fan's speed, ...
Heartbeat ==
    /\ kind = "bridge" /\ holding /\ status = None
    /\ status' = fans[1]
    /\ hot' = IF hot = 1 THEN 2 ELSE hot
    /\ UNCHANGED <<kind, fans, fan_perc, hardware_fault, control, write, holding, last, polls>>

\* ... and the sampling publishes it.
Publish ==
    /\ status # None
    /\ fan_perc' = status * 100
    /\ status' = None
    /\ hot' = IF hot = 2 THEN 3 ELSE hot
    /\ UNCHANGED <<kind, fans, hardware_fault, control, write, holding, last, polls>>

\* Safe-off commands full speed; the failure of a step is a fault of the stop.
SafeOff ==
    /\ kind = "bridge" /\ holding /\ status = None
    /\ holding' = FALSE
    /\ \/ fans' = [f \in Fans |-> 100] /\ UNCHANGED hardware_fault
       \/ hardware_fault' = TRUE /\ UNCHANGED fans
    /\ UNCHANGED <<kind, fan_perc, control, write, status, last, hot, polls>>

\* A bring-up commands full speed before it goes on.
run_controls ==
    /\ kind = "bridge" /\ ~holding /\ ~hardware_fault
    /\ holding' = TRUE
    /\ fans' = [f \in Fans |-> 100]
    /\ hot' = IF hot > 1 THEN 1 ELSE hot
    /\ UNCHANGED <<kind, fan_perc, hardware_fault, control, write, status, last, polls>>

\* Thermal_init commands a bridge's fan to full speed, and the boot goes on if that
\* fails; the other devices keep what they had.
Init ==
    /\ kind \in Kinds
    /\ fans \in [Fans -> {0, Scale[kind]}]
    /\ fan_perc = 0 /\ hardware_fault = FALSE
    /\ pid = pid_init /\ pid_output_min = 0 /\ filtered_input = -100
    /\ write = NoWrite /\ status = None /\ holding = FALSE
    /\ last = [auto |-> FALSE, min |-> 0, rising |-> FALSE]
    /\ hot = 0 /\ polls = 0

Next ==
    \/ Poll
    \/ Record
    \/ Heartbeat
    \/ Publish
    \/ SafeOff
    \/ run_controls

Spec == Init /\ [][Next]_vars

----------------------------------------------------------------------------
(* Heat overrides everything: once a poll has found full speed due         *)
(* (overheat, or a bridge board that is not mining), every fan runs at     *)
(* full speed or a hardware fault is flagged, whatever the settings say    *)
(* and whichever command was lost.  While a bridge board is sampled, a     *)
(* status read before the poll may make the fan look faster than it is;    *)
(* the next sample and the next poll put that right.                       *)
FullWhenHot ==
    (write = NoWrite /\ hot > 0 /\ (holding => hot = 4)) =>
        hardware_fault \/ \A f \in Fans : fans[f] = Scale[kind]

(* The automatic control cools: it stays at or above the user's minimum,   *)
(* and runs at full speed at 20 degrees above the target that are not      *)
(* falling, whatever happened before (limits that changed, polls that      *)
(* came early, a sum at its limit).                                        *)
AutomaticCools ==
    last.auto =>
        /\ pid.output >= last.min
        /\ last.rising /\ pid.lastInput >= SetPoint + 2000 => pid.output >= Full
=============================================================================
