------------------------------ MODULE SelfTest ------------------------------
(***************************************************************************)
(* The self test of the boards with Bitmain chips                           *)
(* (main/self_test/self_test.c), from self_test_init at boot to tests_done, *)
(* with the tasks it shares the board with.                                 *)
(*                                                                         *)
(* Actors: the self-test task; the ASIC result task, which records nonces;  *)
(* the hashrate monitor, which publishes what the counters of the hash      *)
(* domains say; the power task, whose rounds read is_finished and the       *)
(* mailbox (module PowerTask has that task in full; here a stop works or    *)
(* fails and the board may be hot meanwhile); the button task; and the task *)
(* that writes settings to flash.  A test of the hardware passes or fails;  *)
(* temperatures, fan speeds and messages are left out.                      *)
(***************************************************************************)
EXTENDS Integers

CONSTANTS Domains,    \* hash domains of the chips
          Rates,      \* hashrates a domain counter may report
          Expected,   \* expected_domain_hashrate
          MinNonces,  \* nonces in the measuring time that make expected_hashrate
          MaxNonces,  \* bound: nonces found in a boot
          MaxReports, \* bound: reports of a domain in a boot
          MaxBoots    \* bound: boots

VARIABLES
    nvs,       \* in flash: NVS_CONFIG_SELF_TEST, and whether BEST_DIFF is 1 or more
    clearing,  \* a cleared NVS_CONFIG_SELF_TEST on its way to flash
    boot,      \* number, mode, and the outcomes of SYSTEM_init_peripherals and the start
    test,      \* self_test_task: where it is, is_finished, and its verdict
    measure,   \* nonce_measurement
    averages,  \* per domain: the SelfTestDomainAverage
    reports,   \* per domain: time and hashrate of domain_measurements
    power,     \* the power task: its place, policy.paused, stopped and fault, its mailbox
    rail,      \* the ASIC supply
    button,    \* longPressSemaphore
    seen       \* history of the boot: a long press, a verified stop, nonces found
               \* in the measuring time, and reports per domain since the prime

vars == <<nvs, clearing, boot, test, measure, averages, reports, power, rail, button, seen>>

NoAverage == [last |-> 0, sum |-> 0, good |-> 0, bad |-> 0]

\* self_test_init with self_test_should_run, from what flash holds; bonanza is
\* the board, held the boot button.
ModeOf(stored, bonanza, held) ==
    IF bonanza THEN "mining"
    ELSE IF stored.flag /\ ~stored.best THEN "factory"
    ELSE IF held THEN "manual" ELSE "mining"

Testing == boot.mode \in {"factory", "manual"}

\* The set-up of a boot, up to the creation of self_test_task.  vcore says whether
\* VCORE_init was reached and worked, started whether the board runs; without
\* that, the supply may be in any state.
BootFrom(stored, number) ==
    \E bonanza, held, vcore, started \in BOOLEAN :
        /\ started => vcore
        /\ boot' = [number |-> number, mode |-> ModeOf(stored, bonanza, held),
                    vcore |-> vcore, started |-> started]
        /\ rail' \in (IF started THEN {"on"} ELSE {"on", "off"})
        /\ test' = [pc |-> "check", finished |-> FALSE, passed |-> TRUE, result |-> "none"]
        /\ measure' = [active |-> FALSE, accepted |-> 0]
        /\ averages' = [d \in Domains |-> NoAverage]
        /\ reports' = [d \in Domains |-> [time |-> 0, rate |-> 0]]
        /\ power' = [pc |-> "mail", paused |-> FALSE, stopped |-> FALSE,
                     fault |-> ~started, request |-> "none"]
        /\ button' = FALSE
        /\ seen' = [pressed |-> FALSE, off |-> FALSE, nonces |-> 0, found |-> 0,
                    fresh |-> [d \in Domains |-> 0]]

\* A new board has the flag set and no best difficulty, one in use any.
Init ==
    /\ nvs \in [flag : BOOLEAN, best : BOOLEAN]
    /\ clearing = FALSE
    /\ \E bonanza, held, vcore, started \in BOOLEAN :
           /\ started => vcore
           /\ boot = [number |-> 1, mode |-> ModeOf(nvs, bonanza, held),
                      vcore |-> vcore, started |-> started]
           /\ rail \in (IF started THEN {"on"} ELSE {"on", "off"})
    /\ test = [pc |-> "check", finished |-> FALSE, passed |-> TRUE, result |-> "none"]
    /\ measure = [active |-> FALSE, accepted |-> 0]
    /\ averages = [d \in Domains |-> NoAverage]
    /\ reports = [d \in Domains |-> [time |-> 0, rate |-> 0]]
    /\ power = [pc |-> "mail", paused |-> FALSE, stopped |-> FALSE,
                fault |-> ~boot.started, request |-> "none"]
    /\ button = FALSE
    /\ seen = [pressed |-> FALSE, off |-> FALSE, nonces |-> 0, found |-> 0,
               fresh |-> [d \in Domains |-> 0]]

-----------------------------------------------------------------------------
(* self_test_task *)

\* What the tests of the hardware say (input voltage, regulator faults, core
\* voltage, power, fan sense), and whether fan and temperature sensor obey.
HardwareTests == BOOLEAN
Thermals == BOOLEAN

At(pc) == Testing /\ test.pc = pc

\* tests_done up to the request for a pause, which a board without VCORE skips.
TestsDone(passed) ==
    /\ test' = [test EXCEPT !.pc = IF boot.vcore THEN "pause" ELSE "verdict",
                            !.finished = TRUE, !.passed = passed]
    /\ measure' = [measure EXCEPT !.active = FALSE]
    /\ power' = IF boot.vcore THEN [power EXCEPT !.request = "asked"] ELSE power

\* The tests before the chips have work: initialisation, PSRAM, DS4432U, input
\* voltage and regulator faults; then the mock job of the pool is parsed and
\* handed to the job creator.
Check ==
    /\ At("check")
    /\ \E good \in HardwareTests :
          /\ good => boot.started
          /\ IF good THEN test' = [test EXCEPT !.pc = "warm"] /\ UNCHANGED <<measure, power>>
             ELSE TestsDone(FALSE)
    /\ UNCHANGED <<nvs, clearing, boot, averages, reports, rail, button, seen>>

\* Fan and temperature up to the warm-up temperature, then the prime of the
\* domain averages and the start of the nonce measurement.
self_test_domain_averages_prime ==
    averages' = [d \in Domains |-> [NoAverage EXCEPT !.last = reports[d].time]]

self_test_start_nonce_measurement == measure' = [active |-> TRUE, accepted |-> 0]

WarmUp ==
    /\ At("warm")
    /\ \E good \in Thermals :
          IF good
          THEN /\ self_test_domain_averages_prime
               /\ self_test_start_nonce_measurement
               /\ test' = [test EXCEPT !.pc = "measure"] /\ UNCHANGED power
          ELSE TestsDone(FALSE) /\ UNCHANGED averages
    /\ UNCHANGED <<nvs, clearing, boot, reports, rail, button, seen>>

\* Mutant: a report is counted again in every turn.
SampledAgain(avg, report) ==
    IF report.time = 0 THEN avg
    ELSE IF report.rate > 3 * Expected THEN [avg EXCEPT !.last = report.time, !.bad = @ + 1]
    ELSE [avg EXCEPT !.last = report.time, !.good = @ + 1, !.sum = @ + report.rate]

\* self_test_domain_averages_sample for one domain: a report counts once, the
\* first one after a prime that found none not at all, an implausible one
\* as rejected.
Sampled(avg, report) ==
    IF report.time = 0 \/ report.time = avg.last THEN avg
    ELSE IF avg.last = 0 THEN [avg EXCEPT !.last = report.time]
    ELSE IF report.rate > 3 * Expected
         THEN [avg EXCEPT !.last = report.time, !.bad = @ + 1]
         ELSE [avg EXCEPT !.last = report.time, !.good = @ + 1, !.sum = @ + report.rate]

Sample == averages' = [d \in Domains |-> Sampled(averages[d], reports[d])]

\* One turn of the loop of 30 s; a fan that cannot be set, an unreadable or a
\* high temperature fails.
Turn ==
    /\ At("measure")
    /\ \E good \in Thermals :
          IF good THEN Sample /\ UNCHANGED <<test, measure, power>>
          ELSE TestsDone(FALSE) /\ UNCHANGED averages
    /\ UNCHANGED <<nvs, clearing, boot, reports, rail, button, seen>>

\* The time is over: the nonce measurement stops.
StopMeasuring ==
    /\ At("measure")
    /\ test' = [test EXCEPT !.pc = "judge"]
    /\ measure' = [measure EXCEPT !.active = FALSE]
    /\ UNCHANGED <<nvs, clearing, boot, averages, reports, power, rail, button, seen>>

\* SelfTestDomainStatus: too many implausible reports leave the judgement to the
\* nonces; otherwise the average lies within a third of what is expected.
Unreliable(avg) == avg.bad > 0 /\ (avg.good = 0 \/ 4 * avg.bad >= avg.good + avg.bad)
Fair(avg) ==
    /\ avg.good > 0
    /\ 100 * avg.sum >= 67 * Expected * avg.good
    /\ 100 * avg.sum <= 133 * Expected * avg.good
DomainFails(avg) == ~Unreliable(avg) /\ ~Fair(avg)

\* self_test_get_nonce_hashrate against expected_hashrate.
HashrateReached == measure.accepted >= MinNonces

\* After a last sample: the domains, the hashrate of the counted nonces, core
\* voltage, power and fan.
Judge ==
    /\ At("judge")
    /\ Sample
    /\ \E good \in HardwareTests :
           TestsDone(/\ ~\E d \in Domains : DomainFails(averages'[d])
                     /\ HashrateReached
                     /\ good)
    /\ UNCHANGED <<nvs, clearing, boot, reports, rail, button, seen>>

\* Mutant: the answer of the pause is not looked at.
PauseReturnsAnyway ==
    /\ At("pause")
    /\ test' = [test EXCEPT !.pc = "verdict"]
    /\ power' = [power EXCEPT !.request = IF @ = "asked" THEN "abandoned" ELSE "none"]
    /\ seen' = [seen EXCEPT !.off = power.request = "done"]
    /\ UNCHANGED <<nvs, clearing, boot, measure, averages, reports, rail, button>>

\* POWER_MANAGEMENT_pause returns: answered, or given up.
PauseReturns ==
    /\ At("pause")
    /\ test' = [test EXCEPT !.pc = "verdict", !.passed = @ /\ power.request = "done"]
    /\ power' = [power EXCEPT !.request = IF @ = "asked" THEN "abandoned" ELSE "none"]
    /\ seen' = [seen EXCEPT !.off = power.request = "done"]
    /\ UNCHANGED <<nvs, clearing, boot, measure, averages, reports, rail, button>>

\* Mutant: every factory test clears the flag.
VerdictClears ==
    /\ At("verdict")
    /\ clearing' = (clearing \/ boot.mode = "factory")
    /\ test' = [test EXCEPT !.pc = IF test.passed THEN "leave" ELSE "hold",
                            !.result = IF test.passed THEN "PASS" ELSE "FAIL"]
    /\ UNCHANGED <<nvs, boot, measure, averages, reports, power, rail, button, seen>>

\* The verdict is shown.  Only a passed factory test clears the flag.
Verdict ==
    /\ At("verdict")
    /\ clearing' = (clearing \/ (test.passed /\ boot.mode = "factory"))
    /\ test' = [test EXCEPT !.pc = IF test.passed THEN "leave" ELSE "hold",
                            !.result = IF test.passed THEN "PASS" ELSE "FAIL"]
    /\ UNCHANGED <<nvs, boot, measure, averages, reports, power, rail, button, seen>>

\* A failed test waits for a long press, which cancels it.
Cancel ==
    /\ At("hold") /\ button
    /\ button' = FALSE /\ clearing' = TRUE
    /\ test' = [test EXCEPT !.pc = "leave"]
    /\ UNCHANGED <<nvs, boot, measure, averages, reports, power, rail, seen>>

\* POWER_MANAGEMENT_prepare_restart is called, once a request of the pause that
\* was given up has been taken out of the mailbox.
AskRestart ==
    /\ At("leave") /\ power.request = "none"
    /\ power' = [power EXCEPT !.request = "asked"]
    /\ test' = [test EXCEPT !.pc = "restart"]
    /\ UNCHANGED <<nvs, clearing, boot, measure, averages, reports, rail, button, seen>>

\* It is refused or given up: a passed test ends, a failed one waits again.
RestartBlocked ==
    /\ At("restart") /\ power.request # "done"
    /\ test' = [test EXCEPT !.pc = IF test.passed THEN "over" ELSE "hold"]
    /\ power' = [power EXCEPT !.request = IF @ = "asked" THEN "abandoned" ELSE "none"]
    /\ UNCHANGED <<nvs, clearing, boot, measure, averages, reports, rail, button, seen>>

TestTask == \/ Check \/ WarmUp \/ Turn \/ StopMeasuring \/ Judge \/ PauseReturns
            \/ Verdict \/ Cancel \/ AskRestart \/ RestartBlocked

-----------------------------------------------------------------------------
(* The other tasks *)

\* self_test_record_nonce.
self_test_record_nonce(valid) ==
    measure' = [measure EXCEPT !.accepted = IF measure.active /\ valid THEN @ + 1 ELSE @]

\* Mutant: a nonce of the test counts as a share.
NonceCredited(valid) ==
    /\ boot.started /\ rail = "on" /\ seen.found < MaxNonces
    /\ Testing => test.pc # "check"
    /\ seen' = [seen EXCEPT !.found = @ + 1,
                            !.nonces = IF At("measure") /\ valid THEN @ + 1 ELSE @]
    /\ self_test_record_nonce(valid) /\ nvs' = [nvs EXCEPT !.best = @ \/ valid]
    /\ UNCHANGED <<clearing, boot, test, averages, reports, power, rail, button>>

\* A result of the mock job, or of a pool's outside the test.  valid: it meets the
\* ticket difficulty.  Only a share of a pool can become a best difficulty.
HasWork == boot.started /\ rail = "on" /\ (Testing => test.pc \notin {"check"})

Nonce(valid) ==
    /\ HasWork /\ seen.found < MaxNonces
    /\ seen' = [seen EXCEPT !.found = @ + 1,
                            !.nonces = IF At("measure") /\ valid THEN @ + 1 ELSE @]
    /\ IF Testing
       THEN self_test_record_nonce(valid) /\ UNCHANGED nvs
       ELSE /\ nvs' = [nvs EXCEPT !.best = @ \/ valid]
            /\ UNCHANGED measure
    /\ UNCHANGED <<clearing, boot, test, averages, reports, power, rail, button>>

\* The hashrate monitor publishes the counter of a domain it has read.
Publish(d) ==
    /\ Testing /\ boot.started /\ rail = "on" /\ reports[d].time < MaxReports
    /\ \E rate \in Rates : reports' = [reports EXCEPT ![d] = [time |-> @.time + 1, rate |-> rate]]
    /\ seen' = IF test.pc \in {"measure", "judge"}
               THEN [seen EXCEPT !.fresh[d] = @ + 1] ELSE seen
    /\ UNCHANGED <<nvs, clearing, boot, test, measure, averages, power, rail, button>>

\* A stop of the board: verified, or a fault.
StopBoard(p, off) ==
    IF p.stopped THEN p ELSE [p EXCEPT !.stopped = off, !.fault = @ \/ ~off]

\* The power task empties its mailbox: a pause, and a restart likewise, stops the
\* board and is answered; a request whose caller has gone stops it all the same.
PowerMail ==
    /\ Testing /\ boot.vcore /\ power.pc = "mail"
    /\ \E off \in BOOLEAN :
         LET stopped == [StopBoard(power, off) EXCEPT !.paused = TRUE]
             asked   == power.request \in {"asked", "abandoned"}
         IN IF asked
            THEN /\ power' = [stopped EXCEPT !.pc = "round",
                                 !.request = IF power.request = "abandoned" THEN "none"
                                             ELSE IF stopped.stopped THEN "done" ELSE "refused"]
                 /\ rail' = IF stopped.stopped THEN "off" ELSE rail
            ELSE power' = [power EXCEPT !.pc = "round"] /\ UNCHANGED rail
    /\ UNCHANGED <<nvs, clearing, boot, test, measure, averages, reports, button, seen>>

\* is_finished is read ...
PowerRound ==
    /\ Testing /\ boot.vcore /\ power.pc = "round"
    /\ power' = [power EXCEPT !.pc = "step", !.paused = @ \/ test.finished]
    /\ UNCHANGED <<nvs, clearing, boot, test, measure, averages, reports, rail, button, seen>>

\* ... and power_policy_step works on what was read: a paused or faulty board is
\* stopped; another one may be too hot and stopped, or cool again and started.
PowerStep ==
    /\ Testing /\ boot.vcore /\ power.pc = "step"
    /\ \/ \E off \in BOOLEAN :
             /\ power' = [StopBoard(power, off) EXCEPT !.pc = "mail"]
             /\ rail' = IF power'.stopped THEN "off" ELSE rail
       \/ /\ ~power.paused /\ ~power.fault
          /\ \/ power' = [power EXCEPT !.pc = "mail"] /\ UNCHANGED rail
             \/ power.stopped /\ power' = [power EXCEPT !.pc = "mail", !.stopped = FALSE]
                              /\ rail' = "on"
    /\ UNCHANGED <<nvs, clearing, boot, test, measure, averages, reports, button, seen>>

\* The button task: held for 2 s, from before the boot or later, also while the
\* test still runs; the binary semaphore keeps one press.
self_test_reset == button' = TRUE

LongPress ==
    /\ Testing /\ ~button
    /\ self_test_reset /\ seen' = [seen EXCEPT !.pressed = TRUE]
    /\ UNCHANGED <<nvs, clearing, boot, test, measure, averages, reports, power, rail>>

\* The settings task writes the flag.
Save ==
    /\ clearing
    /\ clearing' = FALSE /\ nvs' = [nvs EXCEPT !.flag = FALSE]
    /\ UNCHANGED <<boot, test, measure, averages, reports, power, rail, button, seen>>

\* esp_restart after a granted restart, the RESET button or a power cut: a setting
\* that has not reached flash is lost.
Restart ==
    /\ boot.number < MaxBoots
    /\ clearing' = FALSE
    /\ BootFrom(nvs, boot.number + 1)
    /\ UNCHANGED nvs

Next ==
    \/ TestTask
    \/ \E valid \in BOOLEAN : Nonce(valid)
    \/ \E d \in Domains : Publish(d)
    \/ PowerMail \/ PowerRound \/ PowerStep
    \/ LongPress \/ Save \/ Restart

Spec == Init /\ [][Next]_vars

-----------------------------------------------------------------------------
(* Properties *)

\* "SELF-TEST PASS!" is shown only over a board whose supply is off and stays off,
\* whatever round the power task was in when is_finished was set and however its
\* stop went (tests_done); and only a test of this boot's own nonces and of reports
\* every domain made after the prime passes: a counter that stands still never
\* does (self_test_domain_averages_sample).
PassIsEarned ==
    Testing /\ test.result = "PASS" =>
        /\ rail = "off"
        /\ seen.nonces >= MinNonces
        /\ \A d \in Domains : seen.fresh[d] > 0

\* No report of a domain is counted twice, and none from before the prime.
ReportsCountOnce ==
    \A d \in Domains : averages[d].good + averages[d].bad <= seen.fresh[d]

\* A board under factory test has no best difficulty, whatever nonces the test
\* has found: the one reason for which a failed or interrupted test, whose flag
\* is still set, would not run again at the next boot (self_test_should_run).
FactoryTestRunsAgain == boot.mode = "factory" => ~nvs.best

\* The step of FlagNeedsVerdict: the flag goes only with a cause.
FlagCleared ==
    nvs.flag /\ ~nvs'.flag =>
        \/ seen.pressed
        \/ boot.mode = "factory" /\ test.result = "PASS" /\ seen.off

\* The flag in flash is cleared only by a long press or after a factory test that
\* passed with the board verified off; a restart in between leaves it set (tests_done,
\* self_test_init).
FlagNeedsVerdict == [][FlagCleared]_vars

=============================================================================
