------------------------------- MODULE Reactor ------------------------------
(***************************************************************************)
(* The Bonanza reactor (components/asic/bzm_reactor.c): which job each      *)
(* logical engine was given, under which wire sequence number, and which   *)
(* job a raw result of the chip therefore belongs to.                      *)
(*                                                                         *)
(* The reactor is a record and every function of the C module is an        *)
(* operator on it; BzmDriver calls them under REACTOR_LOCK.  Engines are    *)
(* numbered in schedule order (scheduled_engine_at is a permutation of the  *)
(* physical identifiers).  The C module keeps assignments in two arrays of  *)
(* BZM_MAX_ACTIVE_WORK = 256 entries searched by engine; there are only 236 *)
(* engines and an engine keeps its entry, so both are functions of the      *)
(* engine here and BZM_ASSIGN_BUSY cannot happen.                          *)
(*                                                                         *)
(* Left out: the shared-template dispatcher bzm_reactor_dispatch with its   *)
(* previous_batch state and bzm_reactor_clear_work, which production code  *)
(* never calls, and the argument checks on raw frames whose engine or ASIC *)
(* does not exist.                                                          *)
(***************************************************************************)
EXTENDS JobStore

CONSTANTS EngineCount,    \* BZM_ENGINES_PER_ASIC (236 in the firmware)
          SequenceSpace   \* sequence_space(): 63 in enhanced mode

ASSUME ReactorAssumption == /\ EngineCount \in Nat \ {0}
                            /\ SequenceSpace \in Nat \ {0}
                            /\ EngineCount <= Capacity

Engines == 0 .. EngineCount - 1
Sequences == 0 .. SequenceSpace - 1

NoWork == [active |-> FALSE]

Assignment(seq, epoch, handle) ==
    [active |-> TRUE, flushing |-> FALSE, seq |-> seq, epoch |-> epoch,
     handle |-> handle]

\* bzm_reactor_init.
InitReactor == [current       |-> [e \in Engines |-> NoWork],
                previous      |-> [e \in Engines |-> NoWork],
                nextSequence  |-> [e \in Engines |-> 0],
                retired       |-> [e \in Engines |-> {}],
                nextEngine    |-> 0,
                epoch         |-> 1,
                flushPending  |-> FALSE,
                flushComplete |-> FALSE,
                quarantined   |-> FALSE]

\* The sequence a retire_assignment call adds to the retired set.
SequenceOf(a) == IF a.active THEN {a.seq} ELSE {}

Flushing(a) == IF a.active THEN [a EXCEPT !.flushing = TRUE] ELSE a

\* bzm_reactor_begin_flush: done is the outcome of transport.flush.  The store
\* is invalidated only by the first of a series of attempts
\* (FlushInvalidatesStore); a retry only repeats the transport call.
FlushInvalidatesStore(r) == ~r.flushPending

BeginFlush(r, done) ==
    IF r.flushPending
    THEN [r EXCEPT !.flushComplete = r.flushComplete \/ done]
    ELSE [r EXCEPT !.flushPending  = TRUE,
                   !.flushComplete = done,
                   !.epoch         = @ + 1,
                   !.current       = [e \in Engines |-> Flushing(@[e])],
                   !.previous      = [e \in Engines |-> Flushing(@[e])]]

\* Mutant: results are trusted as soon as the flush is finished.
FinishFlushUnquarantined(r) ==
    IF r.flushPending /\ r.flushComplete
    THEN [InitReactor EXCEPT !.epoch = r.epoch] ELSE r

\* bzm_reactor_finish_flush: everything but the epoch starts again, and
\* results are quarantined until one whole rotation is programmed.
FinishFlush(r) ==
    IF r.flushPending /\ r.flushComplete
    THEN [InitReactor EXCEPT !.epoch = r.epoch, !.quarantined = TRUE]
    ELSE r

\* bzm_reactor_invalidate_work: retire every wire sequence in use, move to a
\* new epoch, keep the cursor and the sequence counters.
InvalidateWork(r) ==
    [r EXCEPT !.epoch   = @ + 1,
              !.retired = [e \in Engines |->
                  @[e] \union SequenceOf(r.current[e])
                       \union SequenceOf(r.previous[e])]]

\* bzm_reactor_assign refuses to reuse a wire sequence without a flush.
FlushRequired(r) == \/ r.flushPending
                    \/ r.nextSequence[r.nextEngine] >= SequenceSpace

\* Mutant: the wire sequence wraps around instead of forcing a flush.
AssignedWrapping(r, handle) ==
    LET e == r.nextEngine
    IN  [r EXCEPT
            !.retired[e]      = @ \union SequenceOf(r.previous[e]),
            !.previous[e]     = r.current[e],
            !.current[e]      = Assignment(r.nextSequence[e], r.epoch, handle),
            !.nextEngine      = (e + 1) % EngineCount,
            !.quarantined     = @ /\ (e + 1) % EngineCount # 0,
            !.nextSequence[e] = (@ + 1) % SequenceSpace]

\* bzm_reactor_assign, the bookkeeping after the chip accepted the work.
Assigned(r, handle) ==
    LET e    == r.nextEngine
        next == (e + 1) % EngineCount
    IN  [r EXCEPT
            !.retired[e]      = @ \union SequenceOf(r.previous[e]),
            !.previous[e]     = r.current[e],
            !.current[e]      = Assignment(r.nextSequence[e], r.epoch, handle),
            !.nextEngine      = next,
            !.quarantined     = @ /\ next # 0,
            !.nextSequence[e] = @ + 1]

\* The store after the same call: the handle of the assignment that falls out
\* of the previous slot is released.
AssignedStore(r, st) ==
    LET old == r.previous[r.nextEngine]
    IN  IF old.active THEN Release(st, old.handle) ELSE st

\* find_assignment: the current assignment of the engine shadows the previous.
FindAssignment(r, e, seq) ==
    CASE r.current[e].active  /\ r.current[e].seq  = seq -> r.current[e]
      [] r.previous[e].active /\ r.previous[e].seq = seq
         /\ ~(r.current[e].active /\ r.current[e].seq = seq) -> r.previous[e]
      [] OTHER -> NoWork

\* bzm_reactor_map_result accepts a raw result.
Maps(r, st, e, seq) ==
    LET a == FindAssignment(r, e, seq)
    IN  /\ ~r.flushPending /\ ~r.quarantined
        /\ a.active /\ ~a.flushing
        /\ a.epoch = r.epoch
        /\ Contains(st, a.handle)

\* Mutant: a result is stale only by its epoch, not by a job that left the store.
IsStaleByEpoch(r, st, e, seq) ==
    LET a == FindAssignment(r, e, seq)
    IN  (a.active /\ a.epoch # r.epoch) \/ seq \in r.retired[e]

\* bzm_reactor_result_is_stale.
IsStale(r, st, e, seq) ==
    LET a == FindAssignment(r, e, seq)
    IN  \/ a.active /\ (a.epoch # r.epoch \/ ~Contains(st, a.handle))
        \/ seq \in r.retired[e]
=============================================================================
