-------------------------- MODULE RunningEvidence --------------------------
(***************************************************************************)
(* The proof that a powered board really mines: bzm_running_evidence.c,     *)
(* evaluate_running_evidence_locked of bzm_board_power.c and the counters    *)
(* of bzm_driver.c it reads.                                                *)
(*                                                                         *)
(* The driver counts batches, attributed results, locally valid and         *)
(* rejected ones; the power task compares them with a baseline every round. *)
(* A first proof has one deadline, a proof in doubt another, a proof after  *)
(* a change of the clock a third, longer one.  The clock moves in steps     *)
(* towards the target of the settings, and every step starts the proof anew. *)
(***************************************************************************)
EXTENDS Integers

CONSTANTS MinValid,           \* minimum_valid_results
          MaxRejections,      \* maximum_local_rejections
          ProofTimeout, RecoveryTimeout, TransitionTimeout, \* in rounds of the power task
          Ramp,               \* bound: steps of the clock on the way to a target
          MaxTargets          \* bound: starts and targets that follow without a proof

VARIABLES
    stats,       \* the driver's counters since the baseline, and its two recovery flags
    mapped,      \* a mapped result waits for its local validation
    monitoring,  \* running_evidence_monitoring
    transition,  \* running_evidence_frequency_transition
    life,        \* running_evidence_lifecycle
    elapsed,     \* rounds since running_evidence_started_at, while the first proof is due
    verdict,     \* running_evidence.status
    steps,       \* steps of the clock left on the way to the target
    replacing,   \* replacement_pending: the engines still work at the old clock
    credit,      \* history: rounds granted since there was last a proof and not yet used
    grants       \* history: starts and targets since then

clock == <<steps, replacing>>
vars == <<stats, mapped, monitoring, transition, life, elapsed, verdict, clock, credit, grants>>

Max(a, b) == IF a > b THEN a ELSE b
Deadline == Max(ProofTimeout, Max(RecoveryTimeout, TransitionTimeout))
Later(n) == IF n > Deadline THEN n ELSE n + 1

\* The rounds a proof may take that is awaited since a start or a doubt (a first proof
\* that is completed in doubt has its two deadlines one after the other), or since a
\* step of the clock; and the rounds that n steps yet to come may take.
Grant(after) == IF after THEN TransitionTimeout ELSE ProofTimeout + RecoveryTimeout - 1
GrantFor(n) == n * TransitionTimeout

NoStats == [full |-> FALSE, failures |-> FALSE, mapped |-> 0, valid |-> 0, grown |-> FALSE,
            unmapped |-> FALSE, unmappedPending |-> FALSE,
            rejected |-> FALSE, rejectedPending |-> FALSE, streak |-> 0]
NewLife == [completed |-> FALSE, recovering |-> FALSE, since |-> 0]

\* Rebasing leaves the flags and the streak, which are not counters, as they are.
Rebased(s) == [NoStats EXCEPT !.unmappedPending = s.unmappedPending,
                              !.rejectedPending = s.rejectedPending, !.streak = s.streak]

(***************************************************************************)
(* bzm_running_evidence_evaluate                                            *)
(***************************************************************************)
ProofRequirementsMet == stats.full /\ stats.mapped >= MinValid /\ stats.valid >= MinValid

InDoubt == \/ stats.unmapped /\ stats.unmappedPending
           \/ stats.rejected /\ stats.rejectedPending /\ stats.streak >= MaxRejections

Evaluate(time, timeout) ==
    CASE stats.failures                      -> "BAD"
      [] ~InDoubt /\ ProofRequirementsMet    -> "GOOD"
      [] OTHER -> IF time >= timeout THEN "BAD" ELSE "PENDING"

\* The result with no time elapsed tells immediate faults from late ones.
Immediate == Evaluate(0, 1)

(***************************************************************************)
(* bzm_running_evidence_track                                               *)
(***************************************************************************)
\* The first proof: the deadline comes before everything else.
TrackFirst ==
    CASE Immediate = "BAD" \/ elapsed >= ProofTimeout -> [verdict |-> "BAD", life |-> life]
      [] Immediate = "GOOD" -> [verdict |-> "GOOD", life |-> [NewLife EXCEPT !.completed = TRUE]]
      [] ProofRequirementsMet ->
             [verdict |-> "GOOD", life |-> [completed |-> TRUE, recovering |-> TRUE, since |-> 0]]
      [] OTHER -> [verdict |-> "PENDING", life |-> life]

\* Mutant: a recovery starts again in every round.
RecoveryStartsAlways == TRUE

\* A recovery starts, or starts again because there is a new valid result.
RecoveryStarts == ~life.recovering \/ stats.grown

\* A proof that was complete once is retained while its recovery is in time.
TrackLater(timeout) ==
    CASE Immediate = "BAD"  -> [verdict |-> "BAD", life |-> life]
      [] Immediate = "GOOD" -> [verdict |-> "GOOD", life |-> [NewLife EXCEPT !.completed = TRUE]]
      [] OTHER -> LET since == IF RecoveryStarts THEN 0 ELSE life.since
                  IN [verdict |-> IF since >= timeout THEN "BAD" ELSE "GOOD",
                      life    |-> [completed |-> TRUE, recovering |-> TRUE, since |-> since]]

Track == IF life.completed
         THEN TrackLater(IF transition THEN TransitionTimeout ELSE RecoveryTimeout)
         ELSE TrackFirst

\* evaluate_running_evidence_locked, once per round of the power task, and the time
\* until the next round.
EvaluateRunningEvidence ==
    /\ monitoring /\ verdict # "BAD"
    /\ LET t == Track
       IN /\ verdict' = t.verdict
          /\ life' = [t.life EXCEPT !.since = Later(@)]
          /\ transition' = (transition /\ ~(/\ t.verdict = "GOOD" /\ ProofRequirementsMet
                                            /\ ~stats.unmappedPending /\ ~stats.rejectedPending))
    /\ IF Immediate = "PENDING" /\ ~stats.grown
       THEN credit' = credit - 1 /\ UNCHANGED grants
       ELSE credit' = Grant(transition') + GrantFor(steps) /\ grants' = 0
    /\ stats' = [stats EXCEPT !.grown = FALSE]
    /\ elapsed' = IF life'.completed THEN 0 ELSE Later(elapsed)
    /\ UNCHANGED <<mapped, monitoring, clock>>

(***************************************************************************)
(* The driver                                                              *)
(***************************************************************************)
Counted(s) == /\ stats' = s
              /\ UNCHANGED <<monitoring, transition, life, elapsed, verdict, clock,
                             credit, grants>>

\* BZM_send_work: enough engine writes since the baseline, or a failed one.
DispatchBatch == ~stats.full /\ Counted([stats EXCEPT !.full = TRUE]) /\ UNCHANGED mapped
DispatchFails == ~stats.failures /\ Counted([stats EXCEPT !.failures = TRUE]) /\ UNCHANGED mapped

\* BZM_receive: a result that maps is validated later by the result task.
MapResult == /\ ~mapped /\ mapped' = TRUE
             /\ Counted([stats EXCEPT !.mapped = IF @ < MinValid THEN @ + 1 ELSE @])
RejectMapping ==
    /\ ~mapped /\ UNCHANGED mapped
    /\ Counted([stats EXCEPT !.unmapped = TRUE, !.unmappedPending = TRUE])

RecordProof ==
    /\ mapped /\ mapped' = FALSE
    /\ Counted([stats EXCEPT !.valid = IF @ < MinValid THEN @ + 1 ELSE @, !.grown = TRUE,
                             !.unmappedPending = FALSE, !.rejectedPending = FALSE, !.streak = 0])
RecordRejection ==
    /\ mapped /\ mapped' = FALSE
    /\ Counted([stats EXCEPT !.rejected = TRUE, !.rejectedPending = TRUE,
                             !.streak = IF @ < MaxRejections THEN @ + 1 ELSE @])

(***************************************************************************)
(* The board                                                               *)
(***************************************************************************)
\* reset_running_evidence_locked, the baseline taken by run_running, and the end of
\* start_production_mining_locked; the clock is at its power-on value, any number of
\* steps from the target.
StartMonitoring ==
    /\ ~monitoring /\ monitoring' = TRUE /\ grants < MaxTargets
    /\ stats' = Rebased(stats) /\ life' = NewLife /\ transition' = FALSE
    /\ elapsed' = 0 /\ verdict' = "PENDING"
    /\ steps' \in 0 .. Ramp /\ replacing' = FALSE
    /\ credit' = credit + Grant(FALSE) + GrantFor(steps') /\ grants' = grants + 1
    /\ UNCHANGED mapped

\* tuning_snapshot: the settings ask for another clock.
Retarget ==
    /\ monitoring /\ verdict # "BAD" /\ grants < MaxTargets
    /\ steps' \in 0 .. Ramp
    /\ credit' = credit + GrantFor(steps' - steps) /\ grants' = grants + 1
    /\ UNCHANGED <<stats, mapped, monitoring, transition, life, elapsed, verdict, replacing>>

\* BZM_board_apply, once the evidence is good and the engines work at the last clock:
\* one more step, whose proof starts from a baseline of its own and counts as a
\* recovery (the end of frequency_apply_domains).
FrequencyTransition ==
    /\ monitoring /\ verdict = "GOOD" /\ ~replacing /\ steps > 0
    /\ stats' = Rebased(stats) /\ life' = [NewLife EXCEPT !.completed = TRUE]
    /\ transition' = TRUE /\ elapsed' = 0 /\ verdict' = "PENDING"
    /\ steps' = steps - 1 /\ replacing' = TRUE
    /\ UNCHANGED <<mapped, monitoring, credit, grants>>

\* Every engine has been given work at the new clock.
ReplacementCompletes ==
    /\ replacing /\ replacing' = FALSE
    /\ UNCHANGED <<stats, mapped, monitoring, transition, life, elapsed, verdict, steps,
                   credit, grants>>

\* reset_running_evidence_locked for a board that is condemned, paused or taken over; its
\* counters matter again from the next baseline.  A condemned board has been found out;
\* one stopped for another reason goes on owing its proof.
StopMonitoring ==
    /\ monitoring /\ monitoring' = FALSE
    /\ stats' = Rebased(stats) /\ life' = NewLife /\ transition' = FALSE
    /\ elapsed' = 0 /\ verdict' = "PENDING" /\ steps' = 0
    /\ IF verdict = "BAD" THEN credit' = 0 /\ grants' = 0
                          ELSE credit' = credit - GrantFor(steps) /\ UNCHANGED grants
    /\ UNCHANGED <<mapped, replacing>>

Init ==
    /\ stats = NoStats /\ mapped = FALSE /\ monitoring = FALSE /\ transition = FALSE
    /\ life = NewLife /\ elapsed = 0 /\ verdict = "PENDING"
    /\ steps = 0 /\ replacing = FALSE /\ credit = 0 /\ grants = 0

Next ==
    \/ EvaluateRunningEvidence \/ DispatchBatch \/ DispatchFails \/ MapResult \/ RejectMapping
    \/ RecordProof \/ RecordRejection
    \/ StartMonitoring \/ Retarget \/ FrequencyTransition \/ ReplacementCompletes \/ StopMonitoring

Spec == Init /\ [][Next]_vars

(***************************************************************************)
(* Properties                                                              *)
(***************************************************************************)
\* The evidence is not kept alive by restarts of its proof: a board whose proof is in
\* doubt, and which shows no new valid result, is condemned before it has used up the
\* deadlines granted since the last proof, one per start and one per step of the clock
\* that a target calls for, whatever was recovered, rejected or rebased in between.
\* (A clean proof whose totals are kept is never in doubt again by itself: a board that
\* stops yielding results only after it is not found out by this evidence.)
StarvedMiningIsFound == monitoring /\ verdict # "BAD" => credit >= 0
=============================================================================
