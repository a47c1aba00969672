---------------------------- MODULE BitmainClock ----------------------------
(***************************************************************************)
(* The clock of a Bitmain chain: the PLL settings of pll.c and the ramp of *)
(* frequency_transition_bmXX.c, which moves the chain to a new target in   *)
(* steps of 6.25 MHz, each starting from what the PLL made of the last.    *)
(*                                                                         *)
(* Frequencies are in units of 0.25 MHz: the reference clock is 100 units  *)
(* and a ramp step 25.  What the PLL produces is a fraction <<n, d>>.      *)
(***************************************************************************)
EXTENDS Integers

CONSTANTS
    Families,       \* the chips of this instance, of 1397 .. 1373
    Targets         \* clock targets the power task may ask for

VARIABLES
    family,         \* the driver DRIVERS selects for this board
    actual,         \* actual_frequency, what the PLL was last set to
    ramp            \* the frequency transition under way

vars == <<family, actual, ramp>>

Dist(x, y) == IF x < y THEN y - x ELSE x - y

----------------------------------------------------------------------------
(* The PLL                                                                 *)

\* The feedback dividers each driver allows.
BM1397_send_hash_frequency == 60..200
BM1366_send_hash_frequency == 144..235
BM1368_send_hash_frequency == 144..235
BM1370_send_hash_frequency == 160..239
BM1373_send_hash_frequency == 160..239

FbRange(f) == CASE f = 1397 -> BM1397_send_hash_frequency
                [] f = 1366 -> BM1366_send_hash_frequency
                [] f = 1368 -> BM1368_send_hash_frequency
                [] f = 1370 -> BM1370_send_hash_frequency
                [] f = 1373 -> BM1373_send_hash_frequency

\* A reference divider and two post dividers, the first the larger.
Dividers == {d \in (1..2) \X (1..7) \X (1..7) : d[2] > d[3]}

\* Mutant: the quotient is cut off where the code rounds it.
RoundedFbCut(target, div) == (target * div) \div 100

\* round(target / 25 MHz * divider)
RoundedFb(target, div) == (2 * target * div + 100) \div 200

Setting(target, d) == [div |-> d[1] * d[2] * d[3], post |-> d[2] * d[3],
                       ref |-> d[1],
                       fb |-> RoundedFb(target, d[1] * d[2] * d[3])]

\* How far a setting misses the target, times its divider.
Miss(s, target) == Dist(target * s.div, 100 * s.fb)

\* The closest clock first, then the lowest VCO, then the least post divider.
AtLeastAsGood(s, t, target) ==
    \/ Miss(s, target) * t.div < Miss(t, target) * s.div
    \/ /\ Miss(s, target) * t.div = Miss(t, target) * s.div
       /\ \/ s.fb * t.ref < t.fb * s.ref
          \/ s.fb * t.ref = t.fb * s.ref /\ s.post <= t.post

\* A target no setting fits is answered with the initial values, 0 MHz.
pll_get_parameters(f, target) ==
    LET fit == {s \in {Setting(target, d) : d \in Dividers} :
                    s.fb \in FbRange(f)}
    IN IF fit = {} THEN <<0, 1>>
       ELSE LET best == CHOOSE s \in fit :
                            \A t \in fit : AtLeastAsGood(s, t, target)
            IN <<100 * best.fb, best.div>>

----------------------------------------------------------------------------
(* The ramp                                                                *)

Idle == [active |-> FALSE, target |-> 0, step |-> 0, up |-> TRUE]

Above(target) == target * actual[2] > actual[1]
WithinStep(target) == Dist(actual[1], target * actual[2]) < 25 * actual[2]
Reached(target) == actual[1] = target * actual[2]

\* Mutant: the grid point is looked for on the far side of the clock.
GridPointFar(x, up) == IF up THEN (x[1] \div (25 * x[2])) + 1
                             ELSE (x[1] \div (25 * x[2])) - 1

\* The grid point below the clock on the way up, above it on the way down.
GridPoint(x, up) == IF up THEN x[1] \div (25 * x[2])
                          ELSE (x[1] + 25 * x[2] - 1) \div (25 * x[2])

\* set_frequency_fn, and what the caller remembers of it.
SetClock(target) == actual' = pll_get_parameters(family, target)

\* Nothing to do when the clock is at its target; one step when it is near.
ShortTransition(target) ==
    /\ ~ramp.active
    /\ ~Reached(target) /\ WithinStep(target)
    /\ SetClock(target)
    /\ ramp' = [Idle EXCEPT !.target = target]
    /\ UNCHANGED family

BeginRamp(target) ==
    /\ ~ramp.active
    /\ ~WithinStep(target)
    /\ ramp' = [active |-> TRUE, target |-> target, up |-> Above(target),
                step |-> GridPoint(actual, Above(target))]
    /\ UNCHANGED <<family, actual>>

TargetStep == GridPoint(<<ramp.target, 1>>, ramp.up)
MoreSteps == IF ramp.up THEN ramp.step < TargetStep ELSE ramp.step > TargetStep
NextStep == IF ramp.up THEN ramp.step + 1 ELSE ramp.step - 1

\* One round of the loop, which then waits 100 ms.
RampStep ==
    /\ ramp.active /\ MoreSteps
    /\ SetClock(25 * NextStep)
    /\ ramp' = [ramp EXCEPT !.step = NextStep]
    /\ UNCHANGED family

\* After the loop: the rest of the way to a target off the grid.
EndRamp ==
    /\ ramp.active /\ ~MoreSteps
    /\ IF 25 * ramp.step = ramp.target THEN UNCHANGED actual
                                       ELSE SetClock(ramp.target)
    /\ ramp' = [Idle EXCEPT !.target = ramp.target]
    /\ UNCHANGED family

\* Mutant: the rest of the way is left out.
do_frequency_transition_on_grid ==
    \/ \E target \in Targets : ShortTransition(target) \/ BeginRamp(target)
    \/ RampStep
    \/ ~MoreSteps /\ ramp.active /\ ramp' = [Idle EXCEPT !.target = ramp.target]
       /\ UNCHANGED <<family, actual>>

do_frequency_transition ==
    \/ \E target \in Targets : ShortTransition(target) \/ BeginRamp(target)
    \/ RampStep
    \/ EndRamp

----------------------------------------------------------------------------
\* POWER_MANAGEMENT_init_frequency: a chain out of reset runs at 50 MHz.
Init == /\ family \in Families
        /\ actual = <<200, 1>>
        /\ ramp = Idle

Next == do_frequency_transition

Spec == Init /\ [][Next]_vars

----------------------------------------------------------------------------
(* The clock never moves by more than one 6.25 MHz step and what the PLL   *)
(* rounds, although each step starts from what the PLL made of the one     *)
(* before, and no step of a ramp asks for a clock the PLL cannot make.     *)
GentleStep ==
    actual' # actual =>
        /\ actual'[1] > 0
        /\ Dist(actual[1] * actual'[2], actual'[1] * actual[2])
             <= 27 * actual[2] * actual'[2]
GentleRamp == [][GentleStep]_vars

(* A finished transition leaves the clock at its target as closely as any  *)
(* setting of the family's PLL could, wherever the previous one was left.  *)
TargetReached ==
    ~ramp.active /\ ramp.target # 0 =>
        \A fb \in FbRange(family), d \in Dividers :
            LET div == d[1] * d[2] * d[3] IN
            Dist(actual[1], ramp.target * actual[2]) * div
                <= Dist(100 * fb, ramp.target * div) * actual[2]
============================================================================
