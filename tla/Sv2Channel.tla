----------------------------- MODULE Sv2Channel -----------------------------
(***************************************************************************)
(* The Stratum V2 client (stratum_v2_client.c, sv2_noise.c, sv2_protocol.c): *)
(* the phases of a connection, the encrypted stream, the jobs of a mining   *)
(* channel, and the shares the submission task writes meanwhile.            *)
(*                                                                         *)
(* A job is stored in the slot job_id modulo the number of slots, which it  *)
(* shares with other ids and with the job the creator is working on. A      *)
(* future job waits there for the SetNewPrevHash that names it.             *)
(***************************************************************************)
EXTENDS Integers, Sequences, FiniteSets

CONSTANTS JobIds,       \* job ids the pool uses
          PoolSize,     \* MINER_JOB_POOL_SIZE
          Hashes,       \* previous block hashes
          MaxActive,    \* SV2_MAX_ACTIVE_JOB_IDS
          MaxGen,       \* bound: work generations
          MaxFrames     \* bound: frames written on a connection

VARIABLES
    phase,      \* how far stratum_v2_run has come
    kind,       \* channel type: "standard" or "extended"
    socket,     \* "none", "open" or "shut"
    conn,       \* has_prev_hash with prev_hash, pending_jobs_valid, active_job_ids
    slots,      \* the job pool
    generation, \* stratum_work_generation
    current,    \* the slot last published, what it was published as
    shares,     \* generations of the shares waiting to be submitted
    stream      \* the encrypted stream as the pool sees it

vars == <<phase, kind, socket, conn, slots, generation, current, shares, stream>>

None == "none"
NoId == -1
Slots == 0 .. PoolSize - 1
SlotOf(id) == id % PoolSize

Phases == <<"closed", "connected", "handshake", "setup", "opening", "running">>
NoConn == [prev |-> None, pending |-> {}, active |-> <<>>]
EmptyJob == [id |-> NoId, prev |-> None, gen |-> 0]
Nothing == [slot |-> 0, id |-> NoId, prev |-> None, gen |-> 0]
Quiet == [frames |-> 0, torn |-> FALSE, misread |-> FALSE]

TypeOK ==
    /\ phase \in {Phases[i] : i \in 1 .. Len(Phases)}
    /\ kind \in {"standard", "extended"}
    /\ socket \in {"none", "open", "shut"}
    /\ conn.prev \in Hashes \union {None} /\ conn.pending \subseteq Slots
    /\ conn.active \in Seq(JobIds) /\ Len(conn.active) <= MaxActive
    /\ slots \in [Slots -> [id : JobIds \union {NoId}, prev : Hashes \union {None},
                            gen : 0 .. MaxGen]]
    /\ generation \in 0 .. MaxGen
    /\ current = Nothing \/ current \in [slot : Slots, id : JobIds, prev : Hashes, gen : 0 .. MaxGen]
    /\ shares \subseteq 0 .. MaxGen
    /\ stream \in [frames : 0 .. MaxFrames, torn : BOOLEAN, misread : BOOLEAN]

Init ==
    /\ phase = "closed" /\ kind \in {"standard", "extended"} /\ socket = "none"
    /\ conn = NoConn
    /\ slots = [s \in Slots |-> EmptyJob]
    /\ generation = 0
    /\ current = Nothing
    /\ shares = {}
    /\ stream = Quiet

(***************************************************************************)
(* The encrypted stream: header and payload are encrypted with consecutive  *)
(* nonces and leave in one write. A write that breaks off has used its      *)
(* nonces, and the pool cannot read what would follow.                      *)
(***************************************************************************)
Written == [stream EXCEPT !.frames = @ + 1, !.misread = stream.torn]
Broken == [stream EXCEPT !.torn = TRUE]

\* noise_send_all on a socket that was shut down fails; noise_encrypt and malloc may too.
NoiseSend(frame, failure) ==
    \/ socket = "open" /\ stream.frames < MaxFrames /\ stream' = Written /\ frame
    \/ stream' \in {stream, Broken} /\ failure

\* Mutant: work of the old connection stays current.
CleanJobsQueueKept == generation

\* SYSTEM_clean_jobs_queue: stratum_invalidate_work.
CleanJobsQueue == generation + 1

CloseConnection ==
    /\ phase' = "closed" /\ socket' = "none"
    /\ conn' = NoConn
    /\ generation < MaxGen /\ generation' = CleanJobsQueue
    /\ stream' = Quiet
    /\ UNCHANGED <<kind, slots, current, shares>>

(***************************************************************************)
(* stratum_v2_run up to the open channel                                    *)
(***************************************************************************)
\* Resolving and connecting; the transport is published under the mutex.
Connect ==
    /\ phase = "closed"
    /\ phase' = "connected" /\ socket' = "open"
    /\ UNCHANGED <<kind, conn, slots, generation, current, shares, stream>>

\* load_authority_pubkey: a key that is required and cannot be read ends the attempt.
LoadAuthority(required, key) == key \/ ~required

\* sv2_noise_handshake: two messages, and the certificate when there is a key.
NoiseHandshake(key, certified) == socket = "open" /\ (key => certified)

Handshake ==
    /\ phase = "connected"
    /\ \E required, key, certified \in BOOLEAN :
          IF LoadAuthority(required, key) /\ NoiseHandshake(key, certified)
          THEN /\ phase' = "handshake"
               /\ UNCHANGED <<kind, socket, conn, slots, generation, current, shares, stream>>
          ELSE CloseConnection

\* SetupConnection, its answer, OpenMiningChannel, its answer.
SendSetup(from, to) ==
    /\ phase = from
    /\ \/ NoiseSend(phase' = to /\ UNCHANGED <<kind, socket, conn, slots, generation, current,
                                               shares>>, FALSE)
       \/ CloseConnection

SendSetupConnection == SendSetup("handshake", "setup")

\* An answer of the wrong type, or one that asks for a fixed version, ends the attempt.
OpenChannel == SendSetup("setup", "opening")

ChannelOpened ==
    /\ phase = "opening"
    /\ \/ /\ phase' = "running"
          /\ UNCHANGED <<kind, socket, conn, slots, generation, current, shares, stream>>
       \/ CloseConnection

\* A request, a pause, or a stream that cannot be read ends the receive loop.
LeaveLoop == phase = "running" /\ CloseConnection

(***************************************************************************)
(* Jobs. A message of another channel, or one that cannot be parsed, is     *)
(* dropped; an extended job may have filled its slot by then.               *)
(***************************************************************************)
AddActiveJobId(active, id) ==
    IF Len(active) < MaxActive THEN Append(active, id) ELSE Append(Tail(active), id)

\* Mutant: a slot that is filled anew keeps the generation of its last job.
MinerJobResetKeeping(s, id) == [id |-> id, prev |-> None, gen |-> slots[s].gen]

MinerJobReset(s, id) == [id |-> id, prev |-> None, gen |-> 0]

\* stratum_publish_job: a clean job starts a generation.
Publish(s, id, hash, gen) ==
    /\ generation' = gen
    /\ slots' = [slots EXCEPT ![s] = [id |-> id, prev |-> hash, gen |-> gen]]
    /\ current' = [slot |-> s, id |-> id, prev |-> hash, gen |-> gen]

Fill(s, id) ==
    /\ slots' = [slots EXCEPT ![s] = MinerJobReset(s, id)]
    /\ UNCHANGED <<generation, current>>

\* A job for the current block is published at once, unless its id is known.
StoreJob(id, future) ==
    LET s == SlotOf(id)
        known == \E i \in 1 .. Len(conn.active) : conn.active[i] = id
        now == ~future /\ conn.prev # None /\ ~known
    IN /\ conn' = [conn EXCEPT !.pending = @ \union {s},
                               !.active = IF now THEN AddActiveJobId(@, id) ELSE @]
       /\ IF now THEN Publish(s, id, conn.prev, generation) ELSE Fill(s, id)

\* sv2_noise_recv gives the client whole messages that were decrypted, or an error.
NoiseRecv == socket = "open"

Receiving == phase = "running" /\ NoiseRecv

\* sv2_parse_new_extended_mining_job measures the message, then resets the slot and
\* fills it, which the capacity of its buffers may end.
ParseBreaksOff(id) == Fill(SlotOf(id), id) \/ UNCHANGED <<slots, generation, current>>

NewMiningJob(id, future) ==
    /\ Receiving /\ kind = "standard"
    /\ StoreJob(id, future)
    /\ UNCHANGED <<phase, kind, socket, shares, stream>>

NewExtendedMiningJob(id, future) ==
    /\ Receiving /\ kind = "extended"
    /\ \/ StoreJob(id, future)
       \/ /\ ParseBreaksOff(id)
          /\ conn' = [conn EXCEPT !.pending = @ \ {SlotOf(id)}]
    /\ UNCHANGED <<phase, kind, socket, shares, stream>>

\* Mutant: the slot alone decides which job is meant.
IsWaitingSlotOnly(id) == SlotOf(id) \in conn.pending

IsWaiting(id) == SlotOf(id) \in conn.pending /\ slots[SlotOf(id)].id = id

SetNewPrevHash(id, hash) ==
    /\ Receiving /\ hash # conn.prev
    /\ IF IsWaiting(id)
       THEN /\ generation < MaxGen
            /\ conn' = [conn EXCEPT !.prev = hash, !.active = <<id>>]
            /\ LET s == SlotOf(id)
               IN /\ generation' = generation + 1
                  /\ slots' = [slots EXCEPT ![s] = [@ EXCEPT !.prev = hash, !.gen = generation + 1]]
                  /\ current' = [slot |-> s, id |-> id, prev |-> hash, gen |-> generation + 1]
       ELSE conn' = [conn EXCEPT !.prev = hash] /\ UNCHANGED <<generation, slots, current>>
    /\ UNCHANGED <<phase, kind, socket, shares, stream>>

(***************************************************************************)
(* Shares: the ASIC finds one for work of a generation; the submission      *)
(* task writes it under the transport mutex.                                *)
(***************************************************************************)
FindShare ==
    /\ current # Nothing
    /\ shares' = shares \union {current.gen}
    /\ UNCHANGED <<phase, kind, socket, conn, slots, generation, current, stream>>

\* Mutant: a failed frame leaves the socket open.
RetireSocketNever == socket

RetireSocket == "shut"

MaySubmit(gen) == phase \notin {"closed", "connected"} /\ gen = generation

SubmitShare(gen) ==
    /\ gen \in shares
    /\ shares' = shares \ {gen}
    /\ IF MaySubmit(gen)
       THEN NoiseSend(socket' = socket, socket' = RetireSocket)
       ELSE UNCHANGED <<socket, stream>>
    /\ UNCHANGED <<phase, kind, conn, slots, generation, current>>

Next ==
    \/ Connect \/ Handshake \/ SendSetupConnection \/ OpenChannel \/ ChannelOpened \/ LeaveLoop
    \/ \E id \in JobIds, future \in BOOLEAN :
          NewMiningJob(id, future) \/ NewExtendedMiningJob(id, future)
    \/ \E id \in JobIds, hash \in Hashes : SetNewPrevHash(id, hash)
    \/ FindShare \/ \E gen \in shares : SubmitShare(gen)

Spec == Init /\ [][Next]_vars

(***************************************************************************)
(* Properties                                                               *)
(***************************************************************************)
\* The creator keeps working from the slot that was published while the client fills
\* slots. Whenever the slot carries the current generation it holds the very job the
\* pool announced, completed with the hash the pool named; a slot that was overwritten
\* says so by its generation. (Generation 0, before the first clean job or the first
\* disconnection since the boot, is the one a slot that was reset carries as well.)
ActiveSlotIsWhole ==
    current # Nothing /\ generation # 0 /\ slots[current.slot].gen = generation
        => /\ slots[current.slot].id = current.id
           /\ slots[current.slot].prev = current.prev

\* The pool can read every frame: nothing is written after a frame that broke off, even
\* when more shares are queued.
StreamInStep == ~stream.misread

\* Shares of an earlier connection never get into the setup of the next one, which is
\* written without the transport mutex: none that waits would be sent before it is done.
SharesAfterOpening ==
    socket = "open" /\ (\E gen \in shares : MaySubmit(gen)) => phase = "running"
=============================================================================
