--------------------------- MODULE SelfTestProofs ---------------------------
(***************************************************************************)
(* Proofs, for any hash domains, number of nonces a pass takes and bounds,  *)
(* that a board passes its self test only by what it measured itself, that  *)
(* it is off when it has passed, and that a factory test which has not      *)
(* passed runs again.                                                      *)
(***************************************************************************)
EXTENDS SelfTest, TLAPS

-----------------------------------------------------------------------------
(* The inductive invariant, in parts *)

\* Counts and rates are natural numbers.
Parameters == MinNonces \in Nat /\ Rates \subseteq Nat

Places == {"check", "warm", "measure", "judge", "pause", "verdict", "hold", "leave",
           "restart", "over"}

Averages == [last : Nat, sum : Nat, good : Nat, bad : Nat]

Types ==
    /\ nvs \in [flag : BOOLEAN, best : BOOLEAN] /\ clearing \in BOOLEAN /\ button \in BOOLEAN
    /\ boot \in [number : Nat, mode : {"mining", "factory", "manual"},
                 vcore : BOOLEAN, started : BOOLEAN]
    /\ test \in [pc : Places, finished : BOOLEAN, passed : BOOLEAN,
                 result : {"none", "PASS", "FAIL"}]
    /\ measure \in [active : BOOLEAN, accepted : Nat]
    /\ averages \in [Domains -> Averages]
    /\ reports \in [Domains -> [time : Nat, rate : Nat]]
    /\ power \in [pc : {"mail", "round", "step"}, paused : BOOLEAN, stopped : BOOLEAN,
                  fault : BOOLEAN, request : {"none", "asked", "abandoned", "done", "refused"}]
    /\ rail \in {"on", "off"}
    /\ seen \in [pressed : BOOLEAN, off : BOOLEAN, nonces : Nat, found : Nat,
                 fresh : [Domains -> Nat]]

\* What is counted was seen: nonces only while the test measures, and a report that
\* has not been sampled yet is not among those counted so far.
Measuring == test.pc \in {"measure", "judge"}

Counts ==
    /\ measure.active => At("measure")
    /\ measure.accepted <= seen.nonces
    /\ \A d \in Domains :
          /\ averages[d].good + averages[d].bad <= seen.fresh[d]
          /\ Measuring /\ reports[d].time # averages[d].last
               => averages[d].good + averages[d].bad + 1 <= seen.fresh[d]

\* A board that was stopped is off; the answer to a pause or restart is a promise
\* that holds for the rest of the boot.
Halted == power.paused /\ power.stopped

Stops ==
    /\ power.stopped => rail = "off"
    /\ power.request = "done" => Halted

\* What a pass needs.
Earned == seen.nonces >= MinNonces /\ \A d \in Domains : seen.fresh[d] > 0

\* A test that measures runs on a board that started; one that waits for the
\* answer to its pause has earned its pass, one about to be announced is off too,
\* and nothing is announced twice.
Verdicts ==
    /\ test.pc \in {"warm", "measure", "judge"} => boot.vcore
    /\ boot.started => boot.vcore
    /\ test.pc = "pause" /\ test.passed => Earned
    /\ test.pc = "verdict" /\ test.passed => Earned /\ Halted /\ seen.off
    /\ test.result # "none" => test.pc \in {"hold", "leave", "restart", "over"}
    /\ test.result = "PASS" => Earned /\ Halted /\ seen.off

\* The flag is on its way out for a reason.
Cause == seen.pressed \/ (boot.mode = "factory" /\ test.result = "PASS" /\ seen.off)

Flags ==
    /\ button => seen.pressed
    /\ clearing => Cause
    /\ FactoryTestRunsAgain

IInv == Types /\ Counts /\ Stops /\ Verdicts /\ Flags

-----------------------------------------------------------------------------
(* Lemmas about the operators of the model *)

\* A sample counts a report once, and only one that is not the last one counted.
LEMMA SampledCounts ==
    ASSUME NEW a \in Averages, NEW r \in [time : Nat, rate : Nat]
    PROVE  LET b == Sampled(a, r)
           IN  /\ b \in Averages
               /\ b.last = IF r.time = 0 THEN a.last ELSE r.time
               /\ \/ b.good + b.bad = a.good + a.bad
                  \/ r.time \notin {0, a.last} /\ b.good + b.bad = a.good + a.bad + 1
<1>1. CASE r.time = 0 \/ r.time = a.last
  BY <1>1 DEF Sampled, Averages
<1>2. CASE ~(r.time = 0 \/ r.time = a.last) /\ a.last = 0
  BY <1>2 DEF Sampled, Averages
<1>3. CASE ~(r.time = 0 \/ r.time = a.last) /\ a.last # 0 /\ r.rate > 3 * Expected
  <2>1. Sampled(a, r) = [a EXCEPT !.last = r.time, !.bad = @ + 1]
    BY <1>3 DEF Sampled
  <2>2. Sampled(a, r) = [last |-> r.time, sum |-> a.sum,
                         good |-> a.good, bad |-> a.bad + 1]
    BY <2>1 DEF Averages
  <2>3. /\ a.last \in Nat /\ a.sum \in Nat /\ a.good \in Nat /\ a.bad \in Nat
        /\ r.time \in Nat /\ r.rate \in Nat
    BY DEF Averages
  <2>4. Sampled(a, r) \in Averages
    BY <2>2, <2>3 DEF Averages
  <2>5. Sampled(a, r).good + Sampled(a, r).bad = a.good + a.bad + 1
    BY <2>2, <2>3
  <2> QED
    BY <1>3, <2>2, <2>4, <2>5
<1>4. CASE ~(r.time = 0 \/ r.time = a.last) /\ a.last # 0 /\ ~(r.rate > 3 * Expected)
  <2>1. Sampled(a, r) = [a EXCEPT !.last = r.time, !.good = @ + 1, !.sum = @ + r.rate]
    BY <1>4 DEF Sampled
  <2>2. Sampled(a, r) = [last |-> r.time, sum |-> a.sum + r.rate,
                         good |-> a.good + 1, bad |-> a.bad]
    BY <2>1 DEF Averages
  <2>3. /\ a.last \in Nat /\ a.sum \in Nat /\ a.good \in Nat /\ a.bad \in Nat
        /\ r.time \in Nat /\ r.rate \in Nat
    BY DEF Averages
  <2>4. Sampled(a, r) \in Averages
    BY <2>2, <2>3 DEF Averages
  <2>5. Sampled(a, r).good + Sampled(a, r).bad = a.good + a.bad + 1
    BY <2>2, <2>3
  <2> QED
    BY <1>4, <2>2, <2>4, <2>5
<1> QED
  BY <1>1, <1>2, <1>3, <1>4

\* The averages after a sample of every domain.
LEMMA SampleCounts ==
    ASSUME Types, Counts, Sample
    PROVE  /\ averages' \in [Domains -> Averages]
           /\ Measuring => \A d \in Domains :
                /\ averages'[d].good + averages'[d].bad <= seen.fresh[d]
                /\ reports[d].time # averages'[d].last
                     => averages'[d].good + averages'[d].bad + 1 <= seen.fresh[d]
<1>1. \A d \in Domains : /\ averages'[d] = Sampled(averages[d], reports[d])
                         /\ averages[d] \in Averages /\ reports[d] \in [time : Nat, rate : Nat]
                         /\ seen.fresh[d] \in Nat
  BY DEF Types, Sample
<1>2. \A d \in Domains : averages'[d] \in Averages
  BY <1>1, SampledCounts
<1>3. averages' \in [Domains -> Averages]
  BY <1>2 DEF Sample
<1>4. ASSUME NEW d \in Domains, Measuring
      PROVE  /\ averages'[d].good + averages'[d].bad <= seen.fresh[d]
             /\ reports[d].time # averages'[d].last
                  => averages'[d].good + averages'[d].bad + 1 <= seen.fresh[d]
  <2>1. /\ averages[d].good + averages[d].bad <= seen.fresh[d]
        /\ reports[d].time # averages[d].last
             => averages[d].good + averages[d].bad + 1 <= seen.fresh[d]
    BY <1>4 DEF Counts
  <2>2. /\ averages'[d].last = IF reports[d].time = 0 THEN averages[d].last ELSE reports[d].time
        /\ \/ averages'[d].good + averages'[d].bad = averages[d].good + averages[d].bad
           \/ /\ reports[d].time \notin {0, averages[d].last}
              /\ averages'[d].good + averages'[d].bad = averages[d].good + averages[d].bad + 1
    BY <1>1, SampledCounts
  <2>3. /\ averages[d].good \in Nat /\ averages[d].bad \in Nat
        /\ averages'[d].good \in Nat /\ averages'[d].bad \in Nat
    BY <1>1, <1>2 DEF Averages
  <2>4. CASE averages'[d].good + averages'[d].bad = averages[d].good + averages[d].bad
    BY <2>1, <2>2, <2>3, <2>4, <1>1
  <2>5. CASE /\ reports[d].time \notin {0, averages[d].last}
             /\ averages'[d].good + averages'[d].bad = averages[d].good + averages[d].bad + 1
    <3>1. averages'[d].last = reports[d].time
      BY <2>2, <2>5
    <3> QED
      BY <2>1, <2>3, <2>5, <3>1, <1>1
  <2> QED
    BY <2>2, <2>4, <2>5
<1> QED
  BY <1>3, <1>4

\* tests_done leaves the measurement closed and everything else of the board as it
\* was, and asks for a pause if there is a supply to stop.
LEMMA TestsDoneEffect ==
    ASSUME Types, NEW p \in BOOLEAN, TestsDone(p)
    PROVE  /\ test' \in [pc : Places, finished : BOOLEAN, passed : BOOLEAN,
                         result : {"none", "PASS", "FAIL"}]
           /\ test'.pc = IF boot.vcore THEN "pause" ELSE "verdict"
           /\ test'.passed = p /\ test'.result = test.result
           /\ measure' \in [active : BOOLEAN, accepted : Nat]
           /\ ~measure'.active /\ measure'.accepted = measure.accepted
           /\ power' \in [pc : {"mail", "round", "step"}, paused : BOOLEAN, stopped : BOOLEAN,
                          fault : BOOLEAN,
                          request : {"none", "asked", "abandoned", "done", "refused"}]
           /\ power'.paused = power.paused /\ power'.stopped = power.stopped
           /\ power'.request \in {power.request, "asked"}
<1>1. /\ test' \in [pc : Places, finished : BOOLEAN, passed : BOOLEAN,
                    result : {"none", "PASS", "FAIL"}]
      /\ test'.pc = IF boot.vcore THEN "pause" ELSE "verdict"
      /\ test'.passed = p /\ test'.result = test.result
  <2> DEFINE at == IF boot.vcore THEN "pause" ELSE "verdict"
  <2>1. at \in Places
    BY DEF Places
  <2>2. test' = [test EXCEPT !.pc = at, !.finished = TRUE, !.passed = p]
    BY DEF TestsDone
  <2> HIDE DEF at
  <2>3. test'.pc = at /\ test'.passed = p /\ test'.result = test.result
        /\ test' \in [pc : Places, finished : BOOLEAN, passed : BOOLEAN,
                      result : {"none", "PASS", "FAIL"}]
    BY <2>1, <2>2 DEF Types
  <2> QED
    BY <2>3 DEF at
<1>2. /\ measure' \in [active : BOOLEAN, accepted : Nat]
      /\ ~measure'.active /\ measure'.accepted = measure.accepted
  BY DEF TestsDone, Types
<1>3. /\ power' \in [pc : {"mail", "round", "step"}, paused : BOOLEAN, stopped : BOOLEAN,
                     fault : BOOLEAN, request : {"none", "asked", "abandoned", "done", "refused"}]
      /\ power'.paused = power.paused /\ power'.stopped = power.stopped
      /\ power'.request \in {power.request, "asked"}
  <2>1. power' = power \/ power' = [power EXCEPT !.request = "asked"]
    BY DEF TestsDone
  <2> QED
    BY <2>1 DEF Types
<1> QED
  BY <1>1, <1>2, <1>3

\* However a test ends before its pause.
LEMMA DoneKeeps ==
    ASSUME IInv, NEW p \in BOOLEAN, TestsDone(p),
           p => Earned /\ boot.vcore,
           test.result = "none",
           averages' \in [Domains -> Averages],
           \A d \in Domains : averages'[d].good + averages'[d].bad <= seen.fresh[d],
           UNCHANGED <<nvs, clearing, boot, reports, rail, button, seen>>
    PROVE  IInv'
<1>1. Types
  BY DEF IInv
<1>2. /\ test' \in [pc : Places, finished : BOOLEAN, passed : BOOLEAN,
                    result : {"none", "PASS", "FAIL"}]
      /\ test'.pc = IF boot.vcore THEN "pause" ELSE "verdict"
      /\ test'.passed = p /\ test'.result = "none"
      /\ measure' \in [active : BOOLEAN, accepted : Nat]
      /\ ~measure'.active /\ measure'.accepted = measure.accepted
  BY <1>1, TestsDoneEffect
<1>3. /\ power' \in [pc : {"mail", "round", "step"}, paused : BOOLEAN, stopped : BOOLEAN,
                     fault : BOOLEAN, request : {"none", "asked", "abandoned", "done", "refused"}]
      /\ power'.paused = power.paused /\ power'.stopped = power.stopped
      /\ power'.request \in {power.request, "asked"}
  BY <1>1, TestsDoneEffect
<1>4. Types'
  BY <1>1, <1>2, <1>3 DEF Types
<1>5. Counts'
  BY <1>2 DEF IInv, Counts, Measuring
<1>6. Stops'
  BY <1>3 DEF IInv, Stops, Halted
<1>7. Verdicts'
  <2>1. Earned' = Earned
    BY DEF Earned
  <2> QED
    BY <1>2, <2>1 DEF IInv, Verdicts
<1>8. Flags'
  BY <1>2 DEF IInv, Flags, Cause, FactoryTestRunsAgain
<1> QED
  BY <1>4, <1>5, <1>6, <1>7, <1>8 DEF IInv

-----------------------------------------------------------------------------
(* The steps of self_test_task *)

\* Nothing has been announced before a test ends.
LEMMA NothingAnnounced ==
    ASSUME IInv, test.pc \in {"check", "warm", "measure", "judge", "pause", "verdict"}
    PROVE  test.result = "none"
  BY DEF IInv, Verdicts

LEMMA CheckKeeps == ASSUME IInv, Check PROVE IInv'
<1>1. test.result = "none" /\ test.pc = "check"
  BY NothingAnnounced DEF Check, At
<1>2. UNCHANGED <<nvs, clearing, boot, averages, reports, rail, button, seen>>
  BY DEF Check
<1>3. CASE /\ boot.started
           /\ test' = [test EXCEPT !.pc = "warm"] /\ UNCHANGED <<measure, power>>
  <2>1. /\ test' \in [pc : Places, finished : BOOLEAN, passed : BOOLEAN,
                      result : {"none", "PASS", "FAIL"}]
        /\ test'.pc = "warm" /\ test'.result = "none"
    BY <1>1, <1>3 DEF IInv, Types, Places
  <2>2. ~measure.active
    BY <1>1 DEF IInv, Counts, At
  <2>3. Types'
    BY <1>2, <1>3, <2>1 DEF IInv, Types
  <2>4. Counts'
    BY <1>2, <1>3, <2>1, <2>2 DEF IInv, Counts, Measuring
  <2>5. Stops' /\ Verdicts' /\ Flags'
    BY <1>2, <1>3, <2>1
    DEF IInv, Stops, Halted, Verdicts, Earned, Flags, Cause, FactoryTestRunsAgain
  <2> QED
    BY <2>3, <2>4, <2>5 DEF IInv
<1>4. CASE TestsDone(FALSE)
  <2>1. \A d \in Domains : averages'[d].good + averages'[d].bad <= seen.fresh[d]
    BY <1>2 DEF IInv, Counts
  <2>2. averages' \in [Domains -> Averages]
    BY <1>2 DEF IInv, Types
  <2> QED
    BY <1>1, <1>2, <1>4, <2>1, <2>2, DoneKeeps
<1> QED
  BY <1>3, <1>4 DEF Check, HardwareTests

LEMMA WarmUpKeeps == ASSUME IInv, WarmUp PROVE IInv'
<1>1. test.result = "none" /\ test.pc = "warm" /\ Testing /\ boot.vcore
  BY NothingAnnounced DEF WarmUp, At, IInv, Verdicts
<1>2. UNCHANGED <<nvs, clearing, boot, reports, rail, button, seen>>
  BY DEF WarmUp
<1>3. CASE /\ self_test_domain_averages_prime /\ self_test_start_nonce_measurement
           /\ test' = [test EXCEPT !.pc = "measure"] /\ UNCHANGED power
  <2>1. /\ test' \in [pc : Places, finished : BOOLEAN, passed : BOOLEAN,
                      result : {"none", "PASS", "FAIL"}]
        /\ test'.pc = "measure" /\ test'.result = "none"
    BY <1>1, <1>3 DEF IInv, Types, Places
  <2>2. /\ averages' \in [Domains -> Averages]
        /\ \A d \in Domains : /\ averages'[d].good = 0 /\ averages'[d].bad = 0
                              /\ averages'[d].last = reports[d].time
    <3>1. averages' = [d \in Domains |-> [last |-> reports[d].time, sum |-> 0, good |-> 0, bad |-> 0]]
      BY <1>3 DEF self_test_domain_averages_prime, NoAverage
    <3>2. \A d \in Domains : reports[d].time \in Nat
      BY DEF IInv, Types
    <3> QED
      BY <3>1, <3>2 DEF Averages
  <2>3. measure' = [active |-> TRUE, accepted |-> 0]
    BY <1>3 DEF self_test_start_nonce_measurement
  <2>4. Types'
    BY <1>2, <1>3, <2>1, <2>2, <2>3 DEF IInv, Types
  <2>5. Counts'
    <3>1. seen.nonces \in Nat /\ \A d \in Domains : seen.fresh[d] \in Nat
      BY DEF IInv, Types
    <3>2. At("measure")'
      BY <1>1, <1>2, <2>1 DEF At, Testing
    <3> QED
      BY <1>2, <2>2, <2>3, <3>1, <3>2 DEF Counts
  <2>6. Stops' /\ Verdicts' /\ Flags'
    BY <1>1, <1>2, <1>3, <2>1
    DEF IInv, Stops, Halted, Verdicts, Earned, Flags, Cause, FactoryTestRunsAgain
  <2> QED
    BY <2>4, <2>5, <2>6 DEF IInv
<1>4. CASE TestsDone(FALSE) /\ UNCHANGED averages
  <2>1. \A d \in Domains : averages'[d].good + averages'[d].bad <= seen.fresh[d]
    BY <1>4 DEF IInv, Counts
  <2>2. averages' \in [Domains -> Averages]
    BY <1>4 DEF IInv, Types
  <2> QED
    BY <1>1, <1>2, <1>4, <2>1, <2>2, DoneKeeps
<1> QED
  BY <1>3, <1>4 DEF WarmUp, Thermals

LEMMA TurnKeeps == ASSUME IInv, Turn PROVE IInv'
<1>1. test.result = "none" /\ test.pc = "measure" /\ Measuring
  BY NothingAnnounced DEF Turn, At, Measuring
<1>2. UNCHANGED <<nvs, clearing, boot, reports, rail, button, seen>>
  BY DEF Turn
<1>3. CASE Sample /\ UNCHANGED <<test, measure, power>>
  <2>1. /\ averages' \in [Domains -> Averages]
        /\ \A d \in Domains :
             /\ averages'[d].good + averages'[d].bad <= seen.fresh[d]
             /\ reports[d].time # averages'[d].last
                  => averages'[d].good + averages'[d].bad + 1 <= seen.fresh[d]
    BY <1>1, <1>3, SampleCounts DEF IInv
  <2>2. Types'
    BY <1>2, <1>3, <2>1 DEF IInv, Types
  <2>3. Counts'
    BY <1>2, <1>3, <2>1 DEF IInv, Counts, At, Testing
  <2>4. Stops' /\ Verdicts' /\ Flags'
    BY <1>2, <1>3
    DEF IInv, Stops, Halted, Verdicts, Earned, Flags, Cause, FactoryTestRunsAgain
  <2> QED
    BY <2>2, <2>3, <2>4 DEF IInv
<1>4. CASE TestsDone(FALSE) /\ UNCHANGED averages
  <2>1. \A d \in Domains : averages'[d].good + averages'[d].bad <= seen.fresh[d]
    BY <1>4 DEF IInv, Counts
  <2>2. averages' \in [Domains -> Averages]
    BY <1>4 DEF IInv, Types
  <2> QED
    BY <1>1, <1>2, <1>4, <2>1, <2>2, DoneKeeps
<1> QED
  BY <1>3, <1>4 DEF Turn, Thermals

LEMMA StopMeasuringKeeps == ASSUME IInv, StopMeasuring PROVE IInv'
<1>1. test.result = "none" /\ test.pc = "measure" /\ Measuring /\ boot.vcore
  BY NothingAnnounced DEF StopMeasuring, At, Measuring, IInv, Verdicts
<1>2. UNCHANGED <<nvs, clearing, boot, averages, reports, power, rail, button, seen>>
  BY DEF StopMeasuring
<1>3. /\ test' \in [pc : Places, finished : BOOLEAN, passed : BOOLEAN,
                    result : {"none", "PASS", "FAIL"}]
      /\ test'.pc = "judge" /\ test'.result = "none"
  BY <1>1 DEF StopMeasuring, IInv, Types, Places
<1>4. /\ measure' \in [active : BOOLEAN, accepted : Nat]
      /\ ~measure'.active /\ measure'.accepted = measure.accepted
  BY DEF StopMeasuring, IInv, Types
<1>5. Types'
  BY <1>2, <1>3, <1>4 DEF IInv, Types
<1>6. Counts'
  BY <1>1, <1>2, <1>4 DEF IInv, Counts
<1>7. Stops' /\ Verdicts' /\ Flags'
  BY <1>1, <1>2, <1>3
  DEF IInv, Stops, Halted, Verdicts, Earned, Flags, Cause, FactoryTestRunsAgain
<1> QED
  BY <1>5, <1>6, <1>7 DEF IInv

\* A domain without a fresh report fails, and so does a test with too few nonces.
LEMMA JudgeKeeps == ASSUME IInv, Parameters, Judge PROVE IInv'
<1>1. test.result = "none" /\ test.pc = "judge" /\ Measuring /\ boot.vcore
  BY NothingAnnounced DEF Judge, At, Measuring, IInv, Verdicts
<1>2. UNCHANGED <<nvs, clearing, boot, reports, rail, button, seen>> /\ Sample
  BY DEF Judge
<1>3. /\ averages' \in [Domains -> Averages]
      /\ \A d \in Domains : averages'[d].good + averages'[d].bad <= seen.fresh[d]
  BY <1>1, <1>2, SampleCounts DEF IInv
<1>4. PICK good \in HardwareTests :
        TestsDone(/\ ~\E d \in Domains : DomainFails(averages'[d])
                  /\ HashrateReached
                  /\ good)
  BY DEF Judge
<1> DEFINE p == /\ ~\E d \in Domains : DomainFails(averages'[d])
                /\ HashrateReached
                /\ good
<1>5. p => Earned
  <2> SUFFICES ASSUME p PROVE Earned
    OBVIOUS
  <2>1. seen.nonces >= MinNonces
    <3>1. measure.accepted >= MinNonces /\ measure.accepted <= seen.nonces
      BY DEF HashrateReached, IInv, Counts
    <3>2. measure.accepted \in Nat /\ seen.nonces \in Nat
      BY DEF IInv, Types
    <3> QED
      BY <3>1, <3>2 DEF Parameters
  <2>2. ASSUME NEW d \in Domains PROVE seen.fresh[d] > 0
    <3>1. ~DomainFails(averages'[d])
      OBVIOUS
    <3>2. averages'[d].bad > 0 \/ averages'[d].good > 0
      BY <3>1 DEF DomainFails, Unreliable, Fair
    <3>3. /\ averages'[d].bad \in Nat /\ averages'[d].good \in Nat /\ seen.fresh[d] \in Nat
          /\ averages'[d].good + averages'[d].bad <= seen.fresh[d]
      BY <1>3 DEF Averages, IInv, Types
    <3> QED
      BY <3>2, <3>3
  <2> QED
    BY <2>1, <2>2 DEF Earned
<1>6. p \in BOOLEAN
  BY DEF HardwareTests
<1>7. TestsDone(p)
  BY <1>4
<1> HIDE DEF p
<1> QED
  BY <1>1, <1>2, <1>3, <1>5, <1>6, <1>7, DoneKeeps

\* The records that the steps below write.
TestRecords == [pc : Places, finished : BOOLEAN, passed : BOOLEAN,
                result : {"none", "PASS", "FAIL"}]
PowerRecords == [pc : {"mail", "round", "step"}, paused : BOOLEAN, stopped : BOOLEAN,
                 fault : BOOLEAN, request : {"none", "asked", "abandoned", "done", "refused"}]
History == [pressed : BOOLEAN, off : BOOLEAN, nonces : Nat, found : Nat, fresh : [Domains -> Nat]]

\* A pass that survives the pause was paid for with a board that is verified off.
LEMMA PauseReturnsKeeps == ASSUME IInv, PauseReturns PROVE IInv'
<1> DEFINE done == power.request = "done"
           passed == test.passed /\ done
           left == IF power.request = "asked" THEN "abandoned" ELSE "none"
<1>1. test.result = "none" /\ test.pc = "pause"
  BY NothingAnnounced DEF PauseReturns, At
<1>2. UNCHANGED <<nvs, clearing, boot, measure, averages, reports, rail, button>>
  BY DEF PauseReturns
<1>3. /\ test' = [test EXCEPT !.pc = "verdict", !.passed = passed]
      /\ power' = [power EXCEPT !.request = left]
      /\ seen' = [seen EXCEPT !.off = done]
  BY DEF PauseReturns
<1>4. done \in BOOLEAN /\ passed \in BOOLEAN /\ left \in {"abandoned", "none"}
  OBVIOUS
<1>5. (passed => done /\ test.passed) /\ (done => Halted)
  BY DEF IInv, Stops
<1> HIDE DEF done, passed, left
<1>6. /\ test' \in TestRecords /\ test'.pc = "verdict" /\ test'.passed = passed
      /\ test'.result = "none"
  BY <1>1, <1>3, <1>4 DEF IInv, Types, TestRecords, Places
<1>7. /\ power' \in PowerRecords /\ power'.request \in {"abandoned", "none"}
      /\ power'.paused = power.paused /\ power'.stopped = power.stopped
  BY <1>3, <1>4 DEF IInv, Types, PowerRecords
<1>8. /\ seen' \in History /\ seen'.off = done /\ seen'.nonces = seen.nonces
      /\ seen'.fresh = seen.fresh /\ seen'.pressed = seen.pressed
  BY <1>3, <1>4 DEF IInv, Types, History
<1>9. Types'
  BY <1>2, <1>6, <1>7, <1>8 DEF IInv, Types, TestRecords, PowerRecords, History
<1>10. Counts'
  BY <1>1, <1>2, <1>6, <1>8 DEF IInv, Counts, Measuring, At
<1>11. Stops' /\ Flags'
  BY <1>1, <1>2, <1>6, <1>7, <1>8 DEF IInv, Stops, Halted, Flags, Cause, FactoryTestRunsAgain
<1>12. Verdicts'
  BY <1>1, <1>2, <1>5, <1>6, <1>7, <1>8 DEF IInv, Verdicts, Earned, Halted
<1> QED
  BY <1>9, <1>10, <1>11, <1>12 DEF IInv

LEMMA VerdictKeeps == ASSUME IInv, Verdict PROVE IInv'
<1> DEFINE go == clearing \/ (test.passed /\ boot.mode = "factory")
           place == IF test.passed THEN "leave" ELSE "hold"
           shown == IF test.passed THEN "PASS" ELSE "FAIL"
<1>1. test.result = "none" /\ test.pc = "verdict"
  BY NothingAnnounced DEF Verdict, At
<1>2. UNCHANGED <<nvs, boot, measure, averages, reports, power, rail, button, seen>>
  BY DEF Verdict
<1>3. clearing' = go /\ test' = [test EXCEPT !.pc = place, !.result = shown]
  BY DEF Verdict
<1>4. /\ go \in BOOLEAN /\ place \in {"leave", "hold"} /\ shown \in {"PASS", "FAIL"}
      /\ shown = "PASS" => test.passed
      /\ go => clearing \/ (shown = "PASS" /\ boot.mode = "factory")
  OBVIOUS
<1> HIDE DEF go, place, shown
<1>5. /\ test' \in TestRecords /\ test'.pc = place /\ test'.result = shown
      /\ test'.passed = test.passed
  BY <1>3, <1>4 DEF IInv, Types, TestRecords, Places
<1>6. Types'
  BY <1>2, <1>3, <1>4, <1>5 DEF IInv, Types, TestRecords
<1>7. Counts' /\ Stops'
  BY <1>1, <1>2, <1>4, <1>5 DEF IInv, Counts, Measuring, At, Stops, Halted
<1>8. Verdicts'
  BY <1>1, <1>2, <1>4, <1>5 DEF IInv, Verdicts, Earned, Halted
<1>9. Flags'
  <2>1. go => Cause'
    <3>1. CASE clearing
      BY <1>1, <1>2, <3>1 DEF IInv, Flags, Cause
    <3>2. CASE shown = "PASS" /\ boot.mode = "factory"
      BY <1>1, <1>2, <1>4, <1>5, <3>2 DEF IInv, Verdicts, Cause
    <3> QED
      BY <1>4, <3>1, <3>2
  <2> QED
    BY <1>2, <1>3, <2>1 DEF IInv, Flags, FactoryTestRunsAgain
<1> QED
  BY <1>6, <1>7, <1>8, <1>9 DEF IInv

LEMMA CancelKeeps == ASSUME IInv, Cancel PROVE IInv'
<1>1. /\ test.pc = "hold" /\ button /\ ~button' /\ clearing'
      /\ clearing' \in BOOLEAN /\ button' \in BOOLEAN
      /\ test' = [test EXCEPT !.pc = "leave"]
      /\ UNCHANGED <<nvs, boot, measure, averages, reports, power, rail, seen>>
  BY DEF Cancel, At
<1>2. /\ test' \in TestRecords /\ test'.pc = "leave" /\ test'.result = test.result
  BY <1>1 DEF IInv, Types, TestRecords, Places
<1>3. Types'
  BY <1>1, <1>2 DEF IInv, Types, TestRecords
<1>4. Counts' /\ Stops'
  BY <1>1, <1>2 DEF IInv, Counts, Measuring, At, Stops, Halted
<1>5. Verdicts' /\ Flags'
  BY <1>1, <1>2 DEF IInv, Verdicts, Earned, Halted, Flags, Cause, FactoryTestRunsAgain
<1> QED
  BY <1>3, <1>4, <1>5 DEF IInv

LEMMA AskRestartKeeps == ASSUME IInv, AskRestart PROVE IInv'
<1>1. /\ test.pc = "leave" /\ power' = [power EXCEPT !.request = "asked"]
      /\ test' = [test EXCEPT !.pc = "restart"]
      /\ UNCHANGED <<nvs, clearing, boot, measure, averages, reports, rail, button, seen>>
  BY DEF AskRestart, At
<1>2. /\ test' \in TestRecords /\ test'.pc = "restart" /\ test'.result = test.result
  BY <1>1 DEF IInv, Types, TestRecords, Places
<1>3. /\ power' \in PowerRecords /\ power'.request = "asked"
      /\ power'.paused = power.paused /\ power'.stopped = power.stopped
  BY <1>1 DEF IInv, Types, PowerRecords
<1>4. Types'
  BY <1>1, <1>2, <1>3 DEF IInv, Types, TestRecords, PowerRecords
<1>5. Counts' /\ Stops'
  BY <1>1, <1>2, <1>3 DEF IInv, Counts, Measuring, At, Stops, Halted
<1>6. Verdicts' /\ Flags'
  BY <1>1, <1>2, <1>3 DEF IInv, Verdicts, Earned, Halted, Flags, Cause, FactoryTestRunsAgain
<1> QED
  BY <1>4, <1>5, <1>6 DEF IInv

LEMMA RestartBlockedKeeps == ASSUME IInv, RestartBlocked PROVE IInv'
<1> DEFINE place == IF test.passed THEN "over" ELSE "hold"
           left == IF power.request = "asked" THEN "abandoned" ELSE "none"
<1>1. /\ test.pc = "restart" /\ power' = [power EXCEPT !.request = left]
      /\ test' = [test EXCEPT !.pc = place]
      /\ UNCHANGED <<nvs, clearing, boot, measure, averages, reports, rail, button, seen>>
  BY DEF RestartBlocked, At
<1>2. place \in {"over", "hold"} /\ left \in {"abandoned", "none"}
  OBVIOUS
<1> HIDE DEF place, left
<1>3. /\ test' \in TestRecords /\ test'.pc = place /\ test'.result = test.result
  BY <1>1, <1>2 DEF IInv, Types, TestRecords, Places
<1>4. /\ power' \in PowerRecords /\ power'.request = left
      /\ power'.paused = power.paused /\ power'.stopped = power.stopped
  BY <1>1, <1>2 DEF IInv, Types, PowerRecords
<1>5. Types'
  BY <1>1, <1>3, <1>4 DEF IInv, Types, TestRecords, PowerRecords
<1>6. Counts' /\ Stops'
  BY <1>1, <1>2, <1>3, <1>4 DEF IInv, Counts, Measuring, At, Stops, Halted
<1>7. Verdicts' /\ Flags'
  BY <1>1, <1>2, <1>3, <1>4 DEF IInv, Verdicts, Earned, Halted, Flags, Cause, FactoryTestRunsAgain
<1> QED
  BY <1>5, <1>6, <1>7 DEF IInv

-----------------------------------------------------------------------------
(* The steps of the other tasks *)

\* A nonce that the test counts was found while it measures.
LEMMA NonceKeeps == ASSUME IInv, Parameters, NEW valid \in BOOLEAN, Nonce(valid) PROVE IInv'
<1> DEFINE n == IF At("measure") /\ valid THEN seen.nonces + 1 ELSE seen.nonces
           m == IF measure.active /\ valid THEN measure.accepted + 1 ELSE measure.accepted
           b == nvs.best \/ valid
<1>1. UNCHANGED <<clearing, boot, test, averages, reports, power, rail, button>>
  BY DEF Nonce
<1>2. seen' = [seen EXCEPT !.found = @ + 1, !.nonces = n]
  BY DEF Nonce
<1>3. /\ n \in Nat /\ m \in Nat /\ b \in BOOLEAN /\ n >= seen.nonces /\ m <= n
      /\ measure.accepted <= n
  <2>1. seen.nonces \in Nat /\ measure.accepted \in Nat /\ measure.accepted <= seen.nonces
    BY DEF IInv, Types, Counts
  <2>2. measure.active => At("measure")
    BY DEF IInv, Counts
  <2>3. n = seen.nonces + 1 \/ n = seen.nonces
    OBVIOUS
  <2>4. CASE measure.active /\ valid
    <3>1. n = seen.nonces + 1 /\ m = measure.accepted + 1
      BY <2>2, <2>4
    <3> QED
      BY <2>1, <3>1
  <2>5. CASE ~(measure.active /\ valid)
    <3>1. m = measure.accepted
      BY <2>5
    <3> QED
      BY <2>1, <2>3, <3>1
  <2> QED
    BY <2>4, <2>5
<1>4. \/ measure' = [measure EXCEPT !.accepted = m] /\ nvs' = nvs
      \/ ~Testing /\ nvs' = [nvs EXCEPT !.best = b] /\ measure' = measure
  BY DEF Nonce, self_test_record_nonce
<1> HIDE DEF n, m, b
<1>5. /\ seen' \in History /\ seen'.nonces = n /\ seen'.fresh = seen.fresh
      /\ seen'.pressed = seen.pressed /\ seen'.off = seen.off
  <2>1. seen \in History /\ seen.found + 1 \in Nat
    BY DEF IInv, Types, History
  <2> QED
    BY <1>2, <1>3, <2>1 DEF History
<1>6. /\ measure' \in [active : BOOLEAN, accepted : Nat] /\ measure'.active = measure.active
      /\ measure'.accepted \in {m, measure.accepted}
      /\ nvs' \in [flag : BOOLEAN, best : BOOLEAN]
      /\ boot.mode = "factory" => nvs' = nvs
  <2>1. CASE measure' = [measure EXCEPT !.accepted = m] /\ nvs' = nvs
    BY <1>3, <2>1 DEF IInv, Types
  <2>2. CASE ~Testing /\ nvs' = [nvs EXCEPT !.best = b] /\ measure' = measure
    BY <1>3, <2>2 DEF IInv, Types, Testing
  <2> QED
    BY <1>4, <2>1, <2>2
<1>7. Types'
  BY <1>1, <1>5, <1>6 DEF IInv, Types, History
<1>8. Counts'
  BY <1>1, <1>3, <1>5, <1>6 DEF IInv, Counts, Measuring, At, Testing
<1>9. Earned => Earned'
  <2>1. (seen.nonces >= MinNonces /\ n >= seen.nonces) => n >= MinNonces
    BY <1>3 DEF IInv, Types, Parameters
  <2> QED
    BY <1>3, <1>5, <2>1 DEF Earned
<1>10. Stops' /\ Verdicts'
  BY <1>1, <1>5, <1>9 DEF IInv, Stops, Halted, Verdicts
<1>11. Flags'
  BY <1>1, <1>5, <1>6 DEF IInv, Flags, Cause, FactoryTestRunsAgain
<1> QED
  BY <1>7, <1>8, <1>10, <1>11 DEF IInv

\* A report published while the test measures is a fresh one.
LEMMA PublishKeeps == ASSUME IInv, Parameters, NEW d \in Domains, Publish(d) PROVE IInv'
<1>1. UNCHANGED <<nvs, clearing, boot, test, measure, averages, power, rail, button>>
  BY DEF Publish
<1>2. PICK rate \in Rates : reports' = [reports EXCEPT ![d] = [time |-> @.time + 1, rate |-> rate]]
  BY DEF Publish
<1>3. reports' \in [Domains -> [time : Nat, rate : Nat]]
  BY <1>2 DEF IInv, Types, Parameters
<1>4. \A e \in Domains : e # d => reports'[e] = reports[e]
  BY <1>2 DEF IInv, Types
<1>5. /\ seen' \in History /\ seen'.nonces = seen.nonces
      /\ seen'.pressed = seen.pressed /\ seen'.off = seen.off
      /\ \A e \in Domains : seen.fresh[e] \in Nat /\ seen'.fresh[e] >= seen.fresh[e]
      /\ Measuring => seen'.fresh[d] = seen.fresh[d] + 1
  <2>1. CASE Measuring
    <3>1. seen' = [seen EXCEPT !.fresh[d] = @ + 1]
      BY <2>1 DEF Publish, Measuring
    <3>2. /\ seen.fresh \in [Domains -> Nat] /\ seen \in History
      BY DEF IInv, Types, History
    <3>3. /\ seen'.fresh = [seen.fresh EXCEPT ![d] = @ + 1] /\ seen' \in History
          /\ seen'.nonces = seen.nonces /\ seen'.pressed = seen.pressed /\ seen'.off = seen.off
      BY <3>1, <3>2 DEF History
    <3> QED
      BY <3>2, <3>3
  <2>2. CASE ~Measuring
    BY <2>2 DEF Publish, Measuring, IInv, Types, History
  <2> QED
    BY <2>1, <2>2
<1>6. Types'
  BY <1>1, <1>3, <1>5 DEF IInv, Types, History
<1>7. Counts'
  <2>1. \A e \in Domains : averages[e].good \in Nat /\ averages[e].bad \in Nat
    BY DEF IInv, Types, Averages
  <2>2. ASSUME NEW e \in Domains
        PROVE  /\ averages[e].good + averages[e].bad <= seen'.fresh[e]
               /\ Measuring /\ reports'[e].time # averages[e].last
                    => averages[e].good + averages[e].bad + 1 <= seen'.fresh[e]
    <3>1. /\ averages[e].good + averages[e].bad <= seen.fresh[e]
          /\ Measuring /\ reports[e].time # averages[e].last
               => averages[e].good + averages[e].bad + 1 <= seen.fresh[e]
      BY DEF IInv, Counts
    <3>2. seen'.fresh[e] \in Nat
      BY <1>5 DEF History
    <3>3. CASE e = d
      BY <1>5, <2>1, <3>1, <3>2, <3>3
    <3>4. CASE e # d
      BY <1>4, <1>5, <2>1, <3>1, <3>2, <3>4
    <3> QED
      BY <3>3, <3>4
  <2> QED
    BY <1>1, <1>5, <2>2 DEF IInv, Counts, Measuring, At, Testing
<1>8. Earned => Earned'
  <2>1. \A e \in Domains : seen.fresh[e] > 0 => seen'.fresh[e] > 0
    BY <1>5 DEF History
  <2> QED
    BY <1>5, <2>1 DEF Earned
<1>9. Stops' /\ Verdicts' /\ Flags'
  BY <1>1, <1>5, <1>8 DEF IInv, Stops, Halted, Verdicts, Flags, Cause, FactoryTestRunsAgain
<1> QED
  BY <1>6, <1>7, <1>9 DEF IInv

\* stop_board leaves a stopped board alone and forgets neither a pause nor a request.
LEMMA StopBoardEffect ==
    ASSUME power \in PowerRecords, NEW off \in BOOLEAN
    PROVE  LET q == StopBoard(power, off)
           IN  /\ q \in PowerRecords /\ (power.stopped => q.stopped)
               /\ q.paused = power.paused /\ q.request = power.request /\ q.pc = power.pc
<1> DEFINE latched == power.fault \/ ~off
<1>1. latched \in BOOLEAN
  OBVIOUS
<1>2. \/ power.stopped /\ StopBoard(power, off) = power
      \/ ~power.stopped /\ StopBoard(power, off) = [power EXCEPT !.stopped = off, !.fault = latched]
  BY DEF StopBoard
<1> HIDE DEF latched
<1> QED
  BY <1>1, <1>2 DEF PowerRecords

\* Steps of the power task and of the button touch neither the test nor what it has
\* counted.
LEMMA PowerKeeps ==
    ASSUME IInv, power' \in PowerRecords, rail' \in {"on", "off"}, Stops', Halted => Halted',
           UNCHANGED <<nvs, clearing, boot, test, measure, averages, reports, button, seen>>
    PROVE  IInv'
<1>1. Types'
  BY DEF IInv, Types, PowerRecords
<1>2. Counts'
  BY DEF IInv, Counts, Measuring, At, Testing
<1>3. Verdicts' /\ Flags'
  BY DEF IInv, Verdicts, Earned, Flags, Cause, FactoryTestRunsAgain
<1> QED
  BY <1>1, <1>2, <1>3 DEF IInv

LEMMA PowerMailKeeps == ASSUME IInv, PowerMail PROVE IInv'
<1>1. UNCHANGED <<nvs, clearing, boot, test, measure, averages, reports, button, seen>>
  BY DEF PowerMail
<1>2. power \in PowerRecords /\ rail \in {"on", "off"}
  BY DEF IInv, Types, PowerRecords
<1>3. PICK off \in BOOLEAN :
        LET stopped == [StopBoard(power, off) EXCEPT !.paused = TRUE]
            asked   == power.request \in {"asked", "abandoned"}
        IN IF asked
           THEN /\ power' = [stopped EXCEPT !.pc = "round",
                                !.request = IF power.request = "abandoned" THEN "none"
                                            ELSE IF stopped.stopped THEN "done" ELSE "refused"]
                /\ rail' = IF stopped.stopped THEN "off" ELSE rail
           ELSE power' = [power EXCEPT !.pc = "round"] /\ UNCHANGED rail
  BY Zenon DEF PowerMail
<1>4. CASE power.request \in {"asked", "abandoned"}
  <2> DEFINE q == [StopBoard(power, off) EXCEPT !.paused = TRUE]
             answer == IF power.request = "abandoned" THEN "none"
                       ELSE IF q.stopped THEN "done" ELSE "refused"
  <2>1. q \in PowerRecords /\ q.paused /\ (power.stopped => q.stopped)
    BY <1>2, StopBoardEffect, ZenonT(60) DEF PowerRecords
  <2>2. power' = [q EXCEPT !.pc = "round", !.request = answer]
    BY <1>3, <1>4
  <2>3. rail' = IF q.stopped THEN "off" ELSE rail
    BY <1>3, <1>4
  <2>4. answer \in {"none", "done", "refused"} /\ (answer = "done" => q.stopped)
    OBVIOUS
  <2> HIDE DEF q, answer
  <2>5. /\ power' \in PowerRecords /\ power'.paused /\ power'.stopped = q.stopped
        /\ power'.request = answer
    BY <2>1, <2>2, <2>4 DEF PowerRecords
  <2>6. rail' \in {"on", "off"}
    BY <1>2, <2>3
  <2>7. Stops' /\ (Halted => Halted')
    BY <2>1, <2>3, <2>4, <2>5 DEF Stops, Halted
  <2> QED
    BY <1>1, <2>5, <2>6, <2>7, PowerKeeps
<1>5. CASE ~(power.request \in {"asked", "abandoned"})
  <2>1. power' = [power EXCEPT !.pc = "round"] /\ UNCHANGED rail
    BY <1>3, <1>5
  <2>2. /\ power' \in PowerRecords /\ power'.paused = power.paused
        /\ power'.stopped = power.stopped /\ power'.request = power.request
    BY <1>2, <2>1 DEF PowerRecords
  <2>3. Stops' /\ (Halted => Halted')
    BY <2>1, <2>2 DEF IInv, Stops, Halted
  <2> QED
    BY <1>1, <1>2, <2>1, <2>2, <2>3, PowerKeeps
<1> QED
  BY <1>4, <1>5

LEMMA PowerRoundKeeps == ASSUME IInv, PowerRound PROVE IInv'
<1> DEFINE pause == power.paused \/ test.finished
<1>1. /\ power' = [power EXCEPT !.pc = "step", !.paused = pause]
      /\ UNCHANGED <<nvs, clearing, boot, test, measure, averages, reports, rail, button, seen>>
  BY DEF PowerRound
<1>2. power \in PowerRecords /\ rail \in {"on", "off"}
  BY DEF IInv, Types, PowerRecords
<1>3. pause \in BOOLEAN /\ (power.paused => pause)
  OBVIOUS
<1> HIDE DEF pause
<1>4. /\ power' \in PowerRecords /\ power'.paused = pause
      /\ power'.stopped = power.stopped /\ power'.request = power.request
  BY <1>1, <1>2, <1>3 DEF PowerRecords
<1>5. Stops' /\ (Halted => Halted')
  BY <1>1, <1>3, <1>4 DEF IInv, Stops, Halted
<1> QED
  BY <1>1, <1>2, <1>4, <1>5, PowerKeeps

\* A paused board that is off stays off: only one that is not paused is started.
LEMMA PowerStepKeeps == ASSUME IInv, PowerStep PROVE IInv'
<1>1. UNCHANGED <<nvs, clearing, boot, test, measure, averages, reports, button, seen>>
  BY DEF PowerStep
<1>2. power \in PowerRecords /\ rail \in {"on", "off"}
  BY DEF IInv, Types, PowerRecords
<1>3. ASSUME NEW off \in BOOLEAN, power' = [StopBoard(power, off) EXCEPT !.pc = "mail"],
             rail' = IF power'.stopped THEN "off" ELSE rail
      PROVE  IInv'
  <2>1. /\ StopBoard(power, off) \in PowerRecords
        /\ power.stopped => StopBoard(power, off).stopped
        /\ StopBoard(power, off).paused = power.paused
        /\ StopBoard(power, off).request = power.request
    BY <1>2, StopBoardEffect
  <2>2. /\ power' \in PowerRecords /\ power'.paused = power.paused
        /\ power.stopped => power'.stopped
        /\ power'.request = power.request
    BY <1>3, <2>1 DEF PowerRecords
  <2>3. rail' \in {"on", "off"}
    BY <1>2, <1>3
  <2>4. Stops' /\ (Halted => Halted')
    BY <1>3, <2>2 DEF IInv, Stops, Halted
  <2> QED
    BY <1>1, <2>2, <2>3, <2>4, PowerKeeps
<1>4. CASE ~power.paused /\ power' = [power EXCEPT !.pc = "mail"] /\ UNCHANGED rail
  <2>1. /\ power' \in PowerRecords /\ power'.paused = power.paused
        /\ power'.stopped = power.stopped /\ power'.request = power.request
    BY <1>2, <1>4 DEF PowerRecords
  <2>2. Stops' /\ (Halted => Halted')
    BY <1>4, <2>1 DEF IInv, Stops, Halted
  <2> QED
    BY <1>1, <1>2, <1>4, <2>1, <2>2, PowerKeeps
<1>5. CASE ~power.paused /\ power' = [power EXCEPT !.pc = "mail", !.stopped = FALSE] /\ rail' = "on"
  <2>1. /\ power' \in PowerRecords /\ ~power'.stopped /\ power'.request = power.request
    BY <1>2, <1>5 DEF PowerRecords
  <2>2. Stops' /\ (Halted => Halted')
    BY <1>5, <2>1 DEF IInv, Stops, Halted
  <2> QED
    BY <1>1, <1>5, <2>1, <2>2, PowerKeeps
<1> QED
  BY <1>3, <1>4, <1>5, Zenon DEF PowerStep

LEMMA LongPressKeeps == ASSUME IInv, LongPress PROVE IInv'
<1>1. /\ button' = TRUE /\ seen' = [seen EXCEPT !.pressed = TRUE]
      /\ UNCHANGED <<nvs, clearing, boot, test, measure, averages, reports, power, rail>>
  BY DEF LongPress, self_test_reset
<1>2. /\ seen' \in History /\ seen'.pressed /\ seen'.off = seen.off
      /\ seen'.nonces = seen.nonces /\ seen'.fresh = seen.fresh
  BY <1>1 DEF IInv, Types, History
<1>3. Types'
  BY <1>1, <1>2 DEF IInv, Types, History
<1>4. Counts' /\ Stops'
  BY <1>1, <1>2 DEF IInv, Counts, Measuring, At, Testing, Stops, Halted
<1>5. Verdicts' /\ Flags'
  BY <1>1, <1>2 DEF IInv, Verdicts, Earned, Halted, Flags, Cause, FactoryTestRunsAgain
<1> QED
  BY <1>3, <1>4, <1>5 DEF IInv

LEMMA SaveKeeps == ASSUME IInv, Save PROVE IInv'
<1>1. /\ ~clearing' /\ clearing' \in BOOLEAN /\ nvs' = [nvs EXCEPT !.flag = FALSE]
      /\ UNCHANGED <<boot, test, measure, averages, reports, power, rail, button, seen>>
  BY DEF Save
<1>2. nvs' \in [flag : BOOLEAN, best : BOOLEAN] /\ nvs'.best = nvs.best
  BY <1>1 DEF IInv, Types
<1>3. Types'
  BY <1>1, <1>2 DEF IInv, Types
<1>4. Counts' /\ Stops'
  BY <1>1 DEF IInv, Counts, Measuring, At, Testing, Stops, Halted
<1>5. Verdicts' /\ Flags'
  BY <1>1, <1>2 DEF IInv, Verdicts, Earned, Halted, Flags, Cause, FactoryTestRunsAgain
<1> QED
  BY <1>3, <1>4, <1>5 DEF IInv

-----------------------------------------------------------------------------
(* Boots *)

\* The state in which a boot leaves the board for self_test_task.
Booted ==
    /\ nvs \in [flag : BOOLEAN, best : BOOLEAN] /\ clearing = FALSE
    /\ boot \in [number : Nat, mode : {"mining", "factory", "manual"},
                 vcore : BOOLEAN, started : BOOLEAN]
    /\ boot.started => boot.vcore
    /\ FactoryTestRunsAgain
    /\ rail \in {"on", "off"}
    /\ test = [pc |-> "check", finished |-> FALSE, passed |-> TRUE, result |-> "none"]
    /\ measure = [active |-> FALSE, accepted |-> 0]
    /\ averages = [d \in Domains |-> NoAverage]
    /\ reports = [d \in Domains |-> [time |-> 0, rate |-> 0]]
    /\ power \in PowerRecords /\ ~power.stopped /\ power.request = "none"
    /\ button = FALSE
    /\ seen = [pressed |-> FALSE, off |-> FALSE, nonces |-> 0, found |-> 0,
               fresh |-> [d \in Domains |-> 0]]

LEMMA BootedHolds == Booted => IInv
<1> SUFFICES ASSUME Booted PROVE IInv
  OBVIOUS
<1>1. \A d \in Domains : averages[d] = NoAverage /\ seen.fresh[d] = 0
  BY DEF Booted
<1>2. Types
  BY DEF Booted, Types, Places, Averages, NoAverage, PowerRecords
<1>3. Counts
  BY <1>1 DEF Booted, Counts, Measuring, NoAverage
<1>4. Stops /\ Verdicts /\ Flags
  BY DEF Booted, Stops, Verdicts, Flags
<1> QED
  BY <1>2, <1>3, <1>4 DEF IInv

LEMMA NextBootHolds == Booted' => IInv'
  BY BootedHolds, PTL

\* The mode of a boot is a mode, and a factory test is for a board without a record.
LEMMA ModeOfBoot ==
    ASSUME NEW stored, NEW bonanza, NEW held
    PROVE  /\ ModeOf(stored, bonanza, held) \in {"mining", "factory", "manual"}
           /\ ModeOf(stored, bonanza, held) = "factory" => ~stored.best
  BY DEF ModeOf

LEMMA InitHolds == Init => IInv
<1> SUFFICES ASSUME Init PROVE Booted
  BY BootedHolds
<1>1. PICK bonanza \in BOOLEAN, held \in BOOLEAN, vcore \in BOOLEAN, started \in BOOLEAN :
        /\ started => vcore
        /\ boot = [number |-> 1, mode |-> ModeOf(nvs, bonanza, held),
                   vcore |-> vcore, started |-> started]
        /\ rail \in (IF started THEN {"on"} ELSE {"on", "off"})
  BY DEF Init
<1>2. /\ boot \in [number : Nat, mode : {"mining", "factory", "manual"},
                   vcore : BOOLEAN, started : BOOLEAN]
      /\ boot.started => boot.vcore
      /\ FactoryTestRunsAgain
      /\ rail \in {"on", "off"} /\ boot.started = started
  BY <1>1, ModeOfBoot DEF FactoryTestRunsAgain
<1> DEFINE fault == ~boot.started
<1>3. power = [pc |-> "mail", paused |-> FALSE, stopped |-> FALSE, fault |-> fault, request |-> "none"]
  BY DEF Init
<1>4. fault \in BOOLEAN
  OBVIOUS
<1> HIDE DEF fault
<1>5. power \in PowerRecords /\ ~power.stopped /\ power.request = "none"
  BY <1>3, <1>4 DEF PowerRecords
<1> QED
  BY <1>2, <1>5 DEF Init, Booted

LEMMA RestartKeeps == ASSUME IInv, Restart PROVE IInv'
<1> SUFFICES Booted'
  BY NextBootHolds
<1>1. clearing' = FALSE /\ nvs' = nvs /\ BootFrom(nvs, boot.number + 1)
  BY DEF Restart
<1>2. PICK bonanza \in BOOLEAN, held \in BOOLEAN, vcore \in BOOLEAN, started \in BOOLEAN :
        /\ started => vcore
        /\ boot' = [number |-> boot.number + 1, mode |-> ModeOf(nvs, bonanza, held),
                    vcore |-> vcore, started |-> started]
        /\ rail' \in (IF started THEN {"on"} ELSE {"on", "off"})
        /\ power' = [pc |-> "mail", paused |-> FALSE, stopped |-> FALSE,
                     fault |-> ~started, request |-> "none"]
  BY <1>1, ZenonT(60) DEF BootFrom
<1>3. boot.number \in Nat
  BY DEF IInv, Types
<1>4. /\ boot' \in [number : Nat, mode : {"mining", "factory", "manual"},
                    vcore : BOOLEAN, started : BOOLEAN]
      /\ boot'.started => boot'.vcore
      /\ FactoryTestRunsAgain'
      /\ rail' \in {"on", "off"}
  BY <1>1, <1>2, <1>3, ModeOfBoot DEF FactoryTestRunsAgain
<1> DEFINE fault == ~started
<1>5. power' = [pc |-> "mail", paused |-> FALSE, stopped |-> FALSE, fault |-> fault, request |-> "none"]
  BY <1>2
<1>6. fault \in BOOLEAN
  OBVIOUS
<1> HIDE DEF fault
<1>7. power' \in PowerRecords /\ ~power'.stopped /\ power'.request = "none"
  BY <1>5, <1>6 DEF PowerRecords
<1>8. /\ test' = [pc |-> "check", finished |-> FALSE, passed |-> TRUE, result |-> "none"]
      /\ measure' = [active |-> FALSE, accepted |-> 0]
      /\ averages' = [d \in Domains |-> NoAverage]
      /\ reports' = [d \in Domains |-> [time |-> 0, rate |-> 0]]
      /\ button' = FALSE
      /\ seen' = [pressed |-> FALSE, off |-> FALSE, nonces |-> 0, found |-> 0,
                  fresh |-> [d \in Domains |-> 0]]
  BY <1>1, Zenon DEF BootFrom
<1>9. nvs' \in [flag : BOOLEAN, best : BOOLEAN]
  BY <1>1 DEF IInv, Types
<1> QED
  BY <1>1, <1>4, <1>7, <1>8, <1>9 DEF Booted

-----------------------------------------------------------------------------
(* Theorems *)

\* Every step keeps the invariant.
LEMMA StepHolds == ASSUME Parameters, IInv, [Next]_vars PROVE IInv'
<1>1. CASE TestTask
  BY <1>1, CheckKeeps, WarmUpKeeps, TurnKeeps, StopMeasuringKeeps, JudgeKeeps, PauseReturnsKeeps,
     VerdictKeeps, CancelKeeps, AskRestartKeeps, RestartBlockedKeeps DEF TestTask
<1>2. CASE (\E valid \in BOOLEAN : Nonce(valid)) \/ (\E d \in Domains : Publish(d))
  BY <1>2, NonceKeeps, PublishKeeps
<1>3. CASE PowerMail \/ PowerRound \/ PowerStep
  BY <1>3, PowerMailKeeps, PowerRoundKeeps, PowerStepKeeps
<1>4. CASE LongPress \/ Save \/ Restart
  BY <1>4, LongPressKeeps, SaveKeeps, RestartKeeps
<1>5. CASE UNCHANGED vars
  BY <1>5 DEF vars, IInv, Types, Counts, Measuring, At, Testing, Stops, Halted, Verdicts, Earned,
              Flags, Cause, FactoryTestRunsAgain
<1> QED
  BY <1>1, <1>2, <1>3, <1>4, <1>5 DEF Next

\* What self_test_task, the power task and flash agree on holds in every state, for
\* any hash domains, nonces needed and bounds.
THEOREM Invariant == ASSUME Parameters PROVE Spec => []IInv
<1>1. Init => IInv
  BY InitHolds
<1>2. IInv /\ [Next]_vars => IInv'
  BY StepHolds
<1> QED
  BY <1>1, <1>2, PTL DEF Spec

\* SelfTest!PassIsEarned (tests_done, self_test_domain_averages_sample): a pass is
\* shown only over a board that is off, and only for nonces and reports of its own.
THEOREM PassesAreEarned == ASSUME Parameters PROVE Spec => []PassIsEarned
<1>1. IInv => PassIsEarned
  BY DEF IInv, Verdicts, Stops, Halted, Earned, PassIsEarned
<1> QED
  BY <1>1, Invariant, PTL

\* SelfTest!ReportsCountOnce (self_test_domain_averages_prime, _sample): no report of
\* a domain counts twice, and none from before the prime.
THEOREM ReportsCounted == ASSUME Parameters PROVE Spec => []ReportsCountOnce
<1>1. IInv => ReportsCountOnce
  BY DEF IInv, Counts, ReportsCountOnce
<1> QED
  BY <1>1, Invariant, PTL

\* SelfTest!FactoryTestRunsAgain (self_test_should_run, SYSTEM_notify_found_nonce): a
\* board under factory test has no best difficulty, so that the test runs again.
THEOREM FactoryTestRepeats == ASSUME Parameters PROVE Spec => []FactoryTestRunsAgain
<1>1. IInv => FactoryTestRunsAgain
  BY DEF IInv, Flags
<1> QED
  BY <1>1, Invariant, PTL

\* SelfTest!FlagNeedsVerdict (tests_done, self_test_init): the flag in flash is cleared
\* only after a long press or a factory test that passed with the board verified
\* off, whatever restarts came in between.
THEOREM FlagClearedByVerdict == ASSUME Parameters PROVE Spec => FlagNeedsVerdict
<1>1. IInv /\ [Next]_vars => [FlagCleared]_vars
  <2> SUFFICES ASSUME IInv, Next PROVE FlagCleared
    BY DEF FlagCleared, vars
  <2>1. CASE Save
    BY <2>1 DEF Save, IInv, Flags, Cause, FlagCleared
  <2>2. CASE \E valid \in BOOLEAN : Nonce(valid)
    <3>1. PICK valid \in BOOLEAN : Nonce(valid)
      BY <2>2
    <3>2. nvs'.flag = nvs.flag
      <4> DEFINE best == nvs.best \/ valid
      <4>1. nvs' = nvs \/ nvs' = [nvs EXCEPT !.best = best]
        BY <3>1 DEF Nonce
      <4> HIDE DEF best
      <4> QED
        BY <4>1 DEF IInv, Types
    <3> QED
      BY <3>2 DEF FlagCleared
  <2>3. CASE ~Save /\ ~(\E valid \in BOOLEAN : Nonce(valid))
    <3>1. nvs' = nvs
      BY <2>3 DEF Next, TestTask, Check, WarmUp, Turn, StopMeasuring, Judge, PauseReturns, Verdict,
                  Cancel, AskRestart, RestartBlocked, Publish, PowerMail, PowerRound, PowerStep,
                  LongPress, Restart
    <3> QED
      BY <3>1 DEF FlagCleared
  <2> QED
    BY <2>1, <2>2, <2>3
<1> QED
  BY <1>1, Invariant, PTL DEF Spec, FlagNeedsVerdict
=============================================================================
