------------------------------ MODULE BzmDriver ------------------------------
(***************************************************************************)
(* The Bonanza driver (components/asic/bzm_driver.c) between the task that  *)
(* creates jobs and the chips: dispatch of work to the engines in rotation, *)
(* clean-job and clock-change invalidation, the flush barrier, the path of  *)
(* a result from an engine through the bridge and the host ring back to    *)
(* the job it solves, and duplicate suppression.                           *)
(*                                                                         *)
(* Actors: the job creator (create_jobs_task with ASIC_send_job), the       *)
(* Stratum task (publishes jobs, runs SYSTEM_clean_jobs_queue), the result  *)
(* task (BZM_process_work), the live tuning worker (clock steps), the       *)
(* power task (stops and restarts mining), and the hardware.  A function   *)
(* that holds REACTOR_LOCK from start to end is one action.                *)
(***************************************************************************)
EXTENDS Reactor, Sequences, FiniteSets

CONSTANTS DedupCapacity,   \* BZM_RESULT_DEDUP_CAPACITY
          PendingCapacity, \* BZM_PENDING_RESULT_COUNT
          Variants,        \* distinct headers one pool job can be given: the
                           \* extranonce of a rollable job never repeats, the
                           \* version bits of a fixed merkle root wrap around
          MaxTransit,      \* bound: results between engine and host
          MaxGeneration,   \* bound: handles and invalidations of the store
          MaxPool          \* bound: pool generations

ASSUME BzmDriverAssumption ==
    /\ DedupCapacity \in Nat \ {0} /\ PendingCapacity \in Nat \ {0} /\ Variants \in Nat \ {0}
    /\ MaxTransit \in Nat /\ MaxGeneration \in Nat /\ MaxPool \in Nat

VARIABLES
    store,     \* the job store (JobStore)
    reactor,   \* the reactor (Reactor)
    running,   \* INITIALIZED and STAGED_BRINGUP.running_verified
    dispatch,  \* fast-dispatch budget, replacement generations, and history
    dedup,     \* RESULT_DEDUP: the last DedupCapacity share identities
    chip,      \* per engine: the work it runs and the work it just replaced
    transit,   \* results emitted but not yet read from the bridge
    pending,   \* the host ring of decoded results
    poolGen,   \* stratum_work_generation
    published, \* generation of the job in the creator's notification
    cleaner,   \* progress of SYSTEM_clean_jobs_queue in the Stratum task
    creator,   \* create_jobs_task: its job, clean flag and place in the loop
    rejections,\* RUNNING_MAPPING_REJECTIONS, saturating at one
    credited   \* the last DedupCapacity shares handed to the result task (history)

vars == <<store, reactor, running, dispatch, dedup, chip, transit, pending,
          poolGen, published, cleaner, creator, rejections, credited>>

driverVars == <<store, reactor, running, dispatch, dedup, rejections>>
wireVars   == <<chip, transit, pending>>
poolVars   == <<poolGen, published, cleaner>>

-----------------------------------------------------------------------------
(* Data *)

\* A pool job as the driver sees it: its work generation and the variant of
\* its header (extranonce or base version).
Jobs == [gen : 1 .. MaxPool, n : 0 .. Variants - 1]

Idle == [active |-> FALSE]
LoadedWork(seq, handle, job) ==
    [active |-> TRUE, seq |-> seq, handle |-> handle, job |-> job]

\* A decoded result frame.  handle and job name the work that really produced
\* it and overdue marks one emitted before the last flush: history, unseen by
\* the driver, which reads engine and seq only.
Result(e, w) == [engine |-> e, seq |-> w.seq, handle |-> w.handle,
                 job |-> w.job, overdue |-> FALSE]

-----------------------------------------------------------------------------
(* Work replacement (FAST_DISPATCH_REMAINING) *)

\* Mutant: the budget is one engine short.
StartFastShort(d) ==
    [d EXCEPT !.fast = EngineCount - 1, !.fresh = {}, !.disturbed = FALSE]

\* start_fast_dispatch_locked.  fresh: engines programmed since this start and
\* not flushed since; disturbed: a failed flush or assignment, or a restart of
\* mining, interrupted this replacement; report: how the last replacement that
\* was reported complete had gone (history).
\* WORK_REPLACEMENT_GENERATION advances here and work_replacement_completed
\* catches up when the budget reaches zero, so the two are equal exactly when
\* fast = 0 and are not kept.
StartFast(d) == [d EXCEPT !.fast = EngineCount, !.fresh = {}, !.disturbed = FALSE]

\* The two places that start a replacement only when none is in progress.
StartFastIfIdle(d) == IF d.fast = 0 THEN StartFast(d) ELSE d

\* BZM_send_work after a successful assignment of engine e.
CountAssigned(d, e) ==
    LET fresh == d.fresh \union {e}
    IN  [d EXCEPT !.fresh     = fresh,
                  !.report    = CASE d.fast # 1 -> @
                                  [] d.fast = 1 /\ fresh = Engines -> "full"
                                  [] OTHER -> IF d.disturbed THEN "interrupted" ELSE "partial",
                  !.fast      = IF @ # 0 THEN @ - 1 ELSE 0]

\* Every engine lost its work while the budget kept running.
Disturb(d) == [d EXCEPT !.fresh = {}, !.disturbed = TRUE]

-----------------------------------------------------------------------------
(* Hardware and transport *)

\* bzm_serial_write_work reached the engine: it runs the new work and may
\* still report what it found for the one it replaced.
Load(c, e, w) == [c EXCEPT ![e] = [new |-> w, old |-> @.new]]

\* bzm_transport_program_flush over the first n engines; a failure stops at
\* the first register write that is refused.
Flushed(c, n) ==
    [e \in Engines |-> IF e < n THEN [new |-> Idle, old |-> Idle] ELSE c[e]]

Overdue(t) == [i \in DOMAIN t |-> [t[i] EXCEPT !.overdue = TRUE]]

\* queue_result_locked: a full ring drops its oldest result.
Enqueue(ring, res) ==
    Append(IF Len(ring) = PendingCapacity THEN Tail(ring) ELSE ring, res)

EnqueueAll(ring, results) ==
    LET all == ring \o results
        extra == Len(all) - PendingCapacity
    IN  IF extra > 0 THEN SubSeq(all, extra + 1, Len(all)) ELSE all

\* bzm_serial_poll at a dispatch checkpoint reads the n oldest results in
\* flight.  The hardware assumption of the barrier: what was emitted before a
\* flush has been read when the rotation that follows it is complete.
CheckpointReads(t, n, rotationComplete) ==
    /\ n \in 0 .. Len(t)
    /\ rotationComplete => \A i \in n + 1 .. Len(t) : ~t[i].overdue

-----------------------------------------------------------------------------
Init ==
    /\ store = InitStore
    /\ reactor = InitReactor
    /\ running = TRUE
    /\ dispatch = [fast |-> EngineCount, fresh |-> {},
                   disturbed |-> FALSE, report |-> "none"]
    /\ dedup = <<>>
    /\ chip = [e \in Engines |-> [new |-> Idle, old |-> Idle]]
    /\ transit = <<>>
    /\ pending = <<>>
    /\ poolGen = 0
    /\ published = 0
    /\ cleaner = "idle"
    /\ creator = [pc |-> "wait", gen |-> 0, clean |-> FALSE, n |-> 0]
    /\ rejections = 0
    /\ credited = <<>>

-----------------------------------------------------------------------------
(* The Stratum task *)

\* stratum_publish_job of a clean notify: new generation, notification with
\* overwrite.
Publish ==
    /\ cleaner = "idle" /\ poolGen < MaxPool
    /\ poolGen' = poolGen + 1
    /\ published' = poolGen + 1
    /\ UNCHANGED <<driverVars, wireVars, cleaner, creator, credited>>

\* SYSTEM_clean_jobs_queue on disconnect, first step: stratum_invalidate_work.
InvalidatePool ==
    /\ cleaner = "idle" /\ poolGen \in 1 .. MaxPool - 1
    /\ poolGen' = poolGen + 1
    /\ cleaner' = "clear"
    /\ UNCHANGED <<driverVars, wireVars, published, creator, credited>>

\* Second step: ASIC_clear_work, that is BZM_clear_work under REACTOR_LOCK.
ClearWork ==
    /\ cleaner = "clear"
    /\ cleaner' = "store"
    /\ dedup' = <<>>
    /\ IF running
       THEN /\ reactor' = InvalidateWork(reactor)
            /\ store' = InvalidateAll(store)
            /\ dispatch' = StartFastIfIdle(dispatch)
       ELSE UNCHANGED <<reactor, store, dispatch>>
    /\ UNCHANGED <<running, rejections, wireVars, poolGen, published, creator, credited>>

\* Third step: asic_job_store_invalidate_all, outside REACTOR_LOCK.
ClearStore ==
    /\ cleaner = "store"
    /\ cleaner' = "idle"
    /\ store' = InvalidateAll(store)
    /\ UNCHANGED <<reactor, running, dispatch, dedup, rejections, wireVars, poolGen,
                   published, creator, credited>>

-----------------------------------------------------------------------------
(* The job creator *)

\* create_jobs_task: take the notification if there is one, otherwise go on
\* with the current job.  generate_work_from_miner_job gives up while the chain
\* is down; it and then ASIC_send_job read the generation before the first
\* attempt to send: one read here, as nothing the driver can see happens
\* between them.
TakeJob ==
    /\ creator.pc = "wait" /\ published # 0
    /\ LET taken == IF published = creator.gen THEN creator
                    ELSE [creator EXCEPT !.gen = published, !.clean = TRUE, !.n = 0]
       IN  creator' = [taken EXCEPT !.pc = IF taken.gen = poolGen /\ running
                                           THEN "send" ELSE "wait"]
    /\ UNCHANGED <<driverVars, wireVars, poolVars, credited>>

\* A further, non-clean notify of the current generation is taken: the driver
\* sees only that a clean flag not yet sent is gone.
TakeSuccessor ==
    /\ creator.pc = "wait" /\ cleaner = "idle"
    /\ poolGen # 0 /\ creator.gen = poolGen
    /\ creator' = [creator EXCEPT !.clean = FALSE]
    /\ UNCHANGED <<driverVars, wireVars, poolVars, credited>>

\* ASIC_send_job: the generation is read again before, and outside the lock
\* of, each further attempt to send.
CheckGeneration ==
    /\ creator.pc = "check"
    /\ creator' = [creator EXCEPT !.pc = IF creator.gen = poolGen THEN "send" ELSE "wait"]
    /\ UNCHANGED <<driverVars, wireVars, poolVars, credited>>

\* BZM_send_work, clean part: what the lock holder starts from.
CleanedReactor  == IF creator.clean THEN InvalidateWork(reactor) ELSE reactor
CleanedStore    == IF creator.clean THEN InvalidateAll(store) ELSE store
CleanedDispatch == IF creator.clean THEN StartFastIfIdle(dispatch) ELSE dispatch
CleanedDedup    == IF creator.clean THEN <<>> ELSE dedup

\* BZM_send_work, flush barrier: BZM_ASSIGN_FLUSH_REQUIRED makes the driver
\* flush, finish the flush and start a new replacement before assigning.
BarrierNeeded   == FlushRequired(CleanedReactor)
BarrierStore    == IF BarrierNeeded /\ FlushInvalidatesStore(CleanedReactor)
                   THEN InvalidateAll(CleanedStore) ELSE CleanedStore
BarrierReactor  == IF BarrierNeeded THEN FinishFlush(BeginFlush(CleanedReactor, TRUE))
                   ELSE CleanedReactor
BarrierDispatch == IF BarrierNeeded THEN StartFast(CleanedDispatch) ELSE CleanedDispatch
BarrierChip     == IF BarrierNeeded THEN Flushed(chip, EngineCount) ELSE chip
BarrierPending  == IF BarrierNeeded THEN <<>> ELSE pending
BarrierTransit  == IF BarrierNeeded THEN Overdue(transit) ELSE transit

Sendable == creator.pc = "send" /\ running /\ store.nextGeneration <= MaxGeneration

\* The flush of the barrier fails after n engines: BZM_send_work returns false
\* with the flush still pending and ASIC_send_job tries again.
SendBarrierFails ==
    /\ Sendable /\ BarrierNeeded
    /\ \E n \in 0 .. EngineCount - 1 : chip' = Flushed(chip, n)
    /\ reactor' = BeginFlush(CleanedReactor, FALSE)
    /\ store' = BarrierStore
    /\ dispatch' = Disturb(CleanedDispatch)
    /\ dedup' = CleanedDedup
    /\ pending' = <<>>
    /\ transit' = Overdue(transit)
    /\ creator' = [creator EXCEPT !.pc = "check"]
    /\ UNCHANGED <<running, rejections, poolVars, credited>>

Job == [gen |-> creator.gen, n |-> creator.n]
TargetWork == LoadedWork(BarrierReactor.nextSequence[BarrierReactor.nextEngine],
                         NextHandle(BarrierStore), Job)

\* The assignment succeeds: work written, checkpoint passed, bookkeeping done,
\* and the ring is discarded when this assignment ends the quarantine.
SendAccepted ==
    /\ Sendable
    /\ LET r == BarrierReactor
           e == r.nextEngine
           assigned == Assigned(r, NextHandle(BarrierStore))
           released == r.quarantined /\ ~assigned.quarantined
       IN  /\ reactor' = assigned
           /\ store' = AssignedStore(r, StoreGenerated(BarrierStore, Job))
           /\ dispatch' = CountAssigned(BarrierDispatch, e)
           /\ chip' = Load(BarrierChip, e, TargetWork)
           /\ \E n \in 0 .. Len(transit) :
                /\ CheckpointReads(BarrierTransit, n, assigned.nextEngine = 0)
                /\ pending' = IF released THEN <<>>
                              ELSE EnqueueAll(BarrierPending, SubSeq(BarrierTransit, 1, n))
                /\ transit' = SubSeq(BarrierTransit, n + 1, Len(transit))
    /\ dedup' = CleanedDedup
    /\ creator' = IF creator.gen = poolGen
                  THEN [creator EXCEPT !.pc = "wait", !.clean = FALSE, !.n = (@ + 1) % Variants]
                  ELSE [creator EXCEPT !.pc = "wait"]
    /\ UNCHANGED <<running, rejections, poolVars, credited>>

\* The write is refused (gate closed, UART error) before or after the engine
\* took the work, or the checkpoint fails: bzm_reactor_assign releases the
\* handle and flushes, which may itself fail after n engines.
SendFails ==
    /\ Sendable
    /\ \E loaded \in BOOLEAN, n \in 0 .. EngineCount :
         /\ chip' = Flushed(IF loaded THEN Load(BarrierChip, BarrierReactor.nextEngine, TargetWork)
                                      ELSE BarrierChip, n)
         /\ reactor' = FinishFlush(BeginFlush(BarrierReactor, n = EngineCount))
    /\ store' = InvalidateAll(Release(StoreGenerated(BarrierStore, Job),
                                      NextHandle(BarrierStore)))
    /\ dispatch' = Disturb(BarrierDispatch)
    /\ dedup' = CleanedDedup
    /\ pending' = <<>>
    /\ transit' = Overdue(transit)
    /\ creator' = [creator EXCEPT !.pc = "check"]
    /\ UNCHANGED <<running, rejections, poolVars, credited>>

\* BZM_send_work refuses before it takes the lock: the driver is not running,
\* or the dispatch gate is closed.
SendRefused ==
    /\ creator.pc = "send"
    /\ creator' = [creator EXCEPT !.pc = "check"]
    /\ UNCHANGED <<driverVars, wireVars, poolVars, credited>>

-----------------------------------------------------------------------------
(* Results *)

\* An engine reports a solution of the work it runs or has just replaced; the
\* same solution may be reported more than once.
Emit ==
    /\ Len(transit) < MaxTransit
    /\ \E e \in Engines : \E w \in {chip[e].new, chip[e].old} :
         w.active /\ transit' = Append(transit, Result(e, w))
    /\ UNCHANGED <<driverVars, chip, pending, poolVars, creator, credited>>

\* bzm_serial_poll outside a dispatch (BZM_process_work itself, register
\* reads, telemetry): one decoded frame enters the ring.
Poll ==
    /\ transit # <<>>
    /\ pending' = Enqueue(pending, Head(transit))
    /\ transit' = Tail(transit)
    /\ UNCHANGED <<driverVars, chip, poolVars, creator, credited>>

\* The identity bzm_result_is_duplicate fingerprints: the solved header and
\* the pool job, not the assignment.
Remember(seq, share) == Append(IF Len(seq) = DedupCapacity THEN Tail(seq) ELSE seq, share)
Knows(seq, share) == \E i \in DOMAIN seq : seq[i] = share

\* How BZM_process_work disposes of a result once it is out of the ring.  The
\* quarantine is tested first; a nonce frame that neither maps nor is stale is
\* counted as corruption of the wire.
Mapped(res)   == Maps(reactor, store, res.engine, res.seq)
Rejected(res) == /\ ~reactor.quarantined
                 /\ ~Mapped(res)
                 /\ ~IsStale(reactor, store, res.engine, res.seq)
HandleOf(res) == FindAssignment(reactor, res.engine, res.seq).handle

\* BZM_process_work on the oldest result of the ring.
ProcessWork ==
    /\ running /\ pending # <<>>
    /\ pending' = Tail(pending)
    /\ LET res   == Head(pending)
           share == Snapshot(store, HandleOf(res))
       IN  IF Mapped(res) /\ ~Knows(dedup, share)
           THEN /\ dedup' = Remember(dedup, share)
                /\ credited' = Remember(credited, share)
                /\ UNCHANGED rejections
           ELSE /\ rejections' = IF Rejected(res) THEN 1 ELSE rejections
                /\ UNCHANGED <<dedup, credited>>
    /\ UNCHANGED <<store, reactor, running, dispatch, chip, transit, poolVars, creator>>

-----------------------------------------------------------------------------
(* Clock changes and restarts *)

\* Mutant: a clock step forgets the shares already seen.
FrequencyStepForgets ==
    /\ running /\ store.nextGeneration <= MaxGeneration
    /\ reactor' = InvalidateWork(reactor)
    /\ store' = InvalidateAll(store)
    /\ pending' = <<>>
    /\ dedup' = <<>>
    /\ dispatch' = StartFast(dispatch)
    /\ UNCHANGED <<running, rejections, chip, transit, poolVars, creator, credited>>

\* BZM_staged_frequency_domains_step_live after a good step: work that crossed
\* the transition is retired, the duplicate cache is kept.
FrequencyStep ==
    /\ running /\ store.nextGeneration <= MaxGeneration
    /\ reactor' = InvalidateWork(reactor)
    /\ store' = InvalidateAll(store)
    /\ pending' = <<>>
    /\ dispatch' = StartFast(dispatch)
    /\ UNCHANGED <<running, dedup, rejections, chip, transit, poolVars, creator, credited>>

\* staged_fail_closed_locked: the driver closes and tries to put the ASICs in
\* reset.
StopMining ==
    /\ running
    /\ running' = FALSE
    /\ chip' \in {chip, Flushed(chip, EngineCount)}
    /\ UNCHANGED <<store, reactor, dispatch, dedup, rejections, transit, pending, poolVars,
                   creator, credited>>

\* A bring-up that succeeds: BZM_staged_initialize and BZM_staged_chain4 reset
\* the ASICs and rebuild the transport, BZM_staged_running rebuilds the reactor;
\* the store, the duplicate cache and the fast-dispatch budget are what they
\* were.
StartMining ==
    /\ ~running
    /\ running' = TRUE
    /\ reactor' = InitReactor
    /\ chip' = Flushed(chip, EngineCount)
    /\ transit' = <<>>
    /\ pending' = <<>>
    /\ dispatch' = Disturb(dispatch)
    /\ UNCHANGED <<store, dedup, rejections, poolVars, creator, credited>>

-----------------------------------------------------------------------------
Next ==
    \/ Publish \/ InvalidatePool \/ ClearWork \/ ClearStore
    \/ TakeJob \/ TakeSuccessor \/ CheckGeneration
    \/ SendBarrierFails \/ SendAccepted \/ SendFails \/ SendRefused
    \/ Emit \/ Poll \/ ProcessWork
    \/ FrequencyStep \/ StopMining \/ StartMining

Spec == Init /\ [][Next]_vars

-----------------------------------------------------------------------------
(* Properties *)

Handles == [generation : Nat, slot : Slots]
Entries == {NoEntry} \union [valid : {TRUE}, handle : Handles, job : Jobs]
Assignments == {NoWork} \union
    [active : {TRUE}, flushing : BOOLEAN, seq : Sequences, epoch : Nat, handle : Handles]
Works == {Idle} \union [active : {TRUE}, seq : Sequences, handle : Handles, job : Jobs]
Results == [engine : Engines, seq : Sequences, handle : Handles, job : Jobs, overdue : BOOLEAN]

\* Type invariant of the driver, the wire and the two tasks around it.
TypeOK ==
    /\ store.entries \in [Slots -> Entries]
    /\ store.nextSlot \in Slots
    /\ store.nextGeneration \in Nat
    /\ reactor.current \in [Engines -> Assignments]
    /\ reactor.previous \in [Engines -> Assignments]
    /\ reactor.nextSequence \in [Engines -> 0 .. SequenceSpace]
    /\ reactor.retired \in [Engines -> SUBSET Sequences]
    /\ reactor.nextEngine \in Engines
    /\ reactor.flushComplete => reactor.flushPending
    /\ dispatch.fast \in 0 .. EngineCount
    /\ dispatch.fresh \subseteq Engines
    /\ rejections \in 0 .. 1
    /\ chip \in [Engines -> [new : Works, old : Works]]
    /\ transit \in Seq(Results) /\ Len(transit) <= MaxTransit
    /\ pending \in Seq(Results) /\ Len(pending) <= PendingCapacity
    /\ dedup \in Seq(Jobs) /\ Len(dedup) <= DedupCapacity
    /\ cleaner \in {"idle", "clear", "store"}
    /\ creator.pc \in {"wait", "check", "send"}

ResultsInFlight == {pending[i] : i \in DOMAIN pending} \union {transit[i] : i \in DOMAIN transit}

\* A result is only ever attributed to the very work that produced it, however
\* late it arrives: a wire sequence is not reused while a result carrying it
\* can still be mapped (sequence_space, the flush barrier, the quarantine and
\* the discard of the ring at its end).
AttributionSound ==
    running => \A res \in ResultsInFlight : Mapped(res) => HandleOf(res) = res.handle

\* A genuine result is never counted as a mapping rejection, which runtime
\* health takes for corruption, except while a flush that failed is pending:
\* retired_sequences remembers every sequence the reactor itself retired.
NoFalseRejection ==
    running => \A res \in ResultsInFlight : Rejected(res) => reactor.flushPending

\* The job of every engine that holds work of the current epoch and the
\* current pool generation can be found in the store, whatever the rotation,
\* failed assignments and concurrent clean-ups did to the ring.
CurrentAddressable ==
    \A e \in DOMAIN reactor.current :
        LET a == reactor.current[e]
        IN  a.active /\ ~a.flushing /\ a.epoch = reactor.epoch
              /\ chip[e].new.active /\ chip[e].new.job.gen = poolGen
            => Contains(store, a.handle)

\* A work replacement that no failure interrupted is reported complete
\* (work_replacement_completed) only when every engine has been given new work
\* since it started, however clean jobs and stale sends fell into it.
ReplacementCoversEngines == dispatch.report # "partial"

\* A share of the current pool generation is handed to the result task once:
\* it is not among the DedupCapacity shares handed over before it, across
\* flushes, clock steps, clean jobs, restarts of mining and a header that comes
\* round again.
CreditedOnce ==
    LET share == credited'[Len(credited')]
    IN  credited' # credited /\ share.gen = poolGen => ~Knows(credited, share)
NoRepeatWithinWindow == [][CreditedOnce]_vars
=============================================================================
