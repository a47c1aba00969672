----------------------------- MODULE WorkPipeline -----------------------------
(***************************************************************************)
(* The way of a pool job to the ASIC and of its shares back to the pool:    *)
(* the Stratum V1 client (stratum_v1_client.c) parses a notify into one of  *)
(* two job slots and publishes it under a work generation (stratum_work.c); *)
(* the job creator (create_jobs_task.c, asic_submit.c) takes the task       *)
(* notification, builds work and hands it to the driver; the result task    *)
(* (asic_result_handler.c, asic_result_task.c) queues the shares; the       *)
(* submission task (stratum_submission.c) writes them under the transport   *)
(* mutex.  A section under that mutex is one action; the slots, the active  *)
(* index and the generation are read without it.                           *)
(*                                                                         *)
(* What is inside a job is left out: a slot holds the generation it was     *)
(* published under and, in place of the content, the session and the number *)
(* of clean jobs of the session it was announced with.                     *)
(***************************************************************************)
EXTENDS Integers, Sequences

CONSTANTS Pools,         \* configured pools, by index
          QueueLength,   \* STRATUM_SHARE_QUEUE_LENGTH
          MaxEra,        \* bound: number of a session plus clean jobs in it
          MaxSession,    \* bound: sessions opened
          MaxInputs      \* bound: reconnect requests and stops

ASSUME PipelineAssumption ==
    /\ 0 \in Pools
    /\ QueueLength \in Nat \ {0}
    /\ MaxEra \in Nat
    /\ MaxSession \in Nat
    /\ MaxInputs \in Nat

Slots  == 0 .. 1  \* the two slots a V1 client alternates between
NoSlot == -1

VARIABLES
    pc,           \* the Stratum task: its place in stratum_v1_run
    transport,    \* GLOBAL_STATE->transport: none, open, or left destroyed
    conn,         \* s_v1_conn # NULL
    pool,         \* s_v1_conn->pool_idx
    buffer,       \* s_v1_msg # NULL
    target,       \* the slot the notify at hand is parsed into
    reconnect,    \* s_should_reconnect
    gen,          \* stratum_work_generation
    slots,        \* work generation (and history) of each job slot
    active,       \* active_job_slot_idx
    notified,     \* pending notification of the creator
    cpc,          \* the job creator: its place in the loop
    current,      \* current_work, as a slot
    work,         \* the work being built or sent
    owned,        \* work in the job store: what results can be attributed to
    initialized,  \* ASIC_initalized
    queue,        \* stratum_share_queue
    inputs,       \* reconnect requests and stops so far
    session,      \* sessions opened so far, the number of the last (history)
    era,          \* clean jobs published in the session (history)
    delivered     \* the last share written in the session (history)

clientVars  == <<pc, transport, conn, pool, buffer, target, session, era>>
creatorVars == <<active, cpc, current, work>>
shareVars   == <<queue, delivered>>
inputVars   == <<reconnect, initialized, inputs>>

vars == <<clientVars, slots, creatorVars, shareVars, inputVars,
          gen, notified, owned>>

-----------------------------------------------------------------------------
(* Data *)

\* One piece of work: generation and pool as the code carries them; session and
\* era say when the content was announced.
Works == [gen : Nat, pool : Pools, session : Nat, era : Nat]

\* A slot after miner_job_reset: generation 0 is never current, since every
\* session starts by counting up.  Also stands for no work at all.
Blank == [gen |-> 0, pool |-> 0, session |-> 0, era |-> 0]

\* stratum_work_is_current
Current(g) == g = gen

Init ==
    /\ pc = "idle" /\ transport = "none"
    /\ conn = FALSE /\ pool = 0 /\ buffer = FALSE
    /\ target = 0
    /\ reconnect = FALSE
    /\ gen = 0
    /\ slots = [s \in Slots |-> Blank]
    /\ active = 0 /\ notified = NoSlot
    /\ cpc = "wait" /\ current = NoSlot /\ work = Blank
    /\ owned = {} /\ initialized = FALSE
    /\ queue = <<>>
    /\ inputs = 0
    /\ session = 0 /\ era = 0
    /\ delivered = Blank

-----------------------------------------------------------------------------
(* The Stratum task: stratum_v1_run *)

\* stratum_task picks a pool and forgets reconnect requests; stratum_v1_run
\* replaces whatever connection record a failed attempt left behind, or returns
\* at once for want of a valid configuration or of a buffer.
StartRun ==
    /\ pc = "idle"
    /\ reconnect' = FALSE
    /\ \/ pc' = "connect" /\ conn' = TRUE /\ pool' \in Pools
       \/ UNCHANGED <<pc, conn, pool>>
    /\ UNCHANGED <<transport, buffer, target, session, era, slots,
                   creatorVars, shareVars, initialized, inputs,
                   gen, notified, owned>>

\* No memory for the record, no address, no transport or no connection.
ConnectFails ==
    /\ pc = "connect"
    /\ pc' = "idle"
    /\ conn' \in BOOLEAN
    /\ UNCHANGED <<transport, pool, buffer, target, session, era, slots,
                   creatorVars, shareVars, inputVars, gen, notified, owned>>

\* The connected transport becomes visible to the other tasks.
Connected ==
    /\ pc = "connect"
    /\ session < MaxSession
    /\ pc' = "setup"
    /\ transport' = "open"
    /\ session' = session + 1 /\ era' = 0
    /\ UNCHANGED <<conn, pool, buffer, target, slots, creatorVars, shareVars,
                   inputVars, gen, notified, owned>>

\* Mutant: a closed session is not invalidated, only the next one.
CleanJobsQueueOnSetup ==
    /\ \/ pc = "setup" /\ pc' = "prepare" /\ gen' = gen + 1
       \/ pc = "closed" /\ pc' = "idle" /\ UNCHANGED gen
    /\ owned' = {}
    /\ UNCHANGED <<transport, conn, pool, buffer, target, session, era,
                   slots, creatorVars, shareVars, inputVars, notified>>

\* SYSTEM_clean_jobs_queue, called when a session is set up and again when it
\* is closed: stratum_invalidate_work counts the generation up under the mutex,
\* ASIC_clear_work and asic_job_store_invalidate_all leave no result
\* attributable.  Between the two, results of stored work are no longer current.
CleanJobsQueue ==
    /\ \/ pc = "setup" /\ pc' = "prepare"
       \/ pc = "closed" /\ pc' = "idle"
    /\ gen' = gen + 1
    /\ owned' = {}
    /\ UNCHANGED <<transport, conn, pool, buffer, target, session, era,
                   slots, creatorVars, shareVars, inputVars, notified>>

\* The handshake is sent and the message buffer allocated, once and for all.
Prepare ==
    /\ pc = "prepare"
    /\ pc' = "loop"
    /\ buffer' = TRUE
    /\ UNCHANGED <<transport, conn, pool, target, session, era, slots,
                   creatorVars, shareVars, inputVars, gen, notified, owned>>

\* Without memory for the buffer the transport is destroyed, but the other
\* tasks still see its handle.
PrepareFails ==
    /\ pc = "prepare" /\ ~buffer
    /\ pc' = "idle"
    /\ transport' = "destroyed"
    /\ era' = 0 /\ delivered' = Blank
    /\ UNCHANGED <<conn, pool, buffer, target, session, slots, creatorVars, queue,
                   inputVars, gen, notified, owned>>

\* The receive loop goes on to read unless a reconnect was requested.
EnterReceive ==
    /\ pc = "loop" /\ ~reconnect
    /\ pc' = "recv"
    /\ UNCHANGED <<transport, conn, pool, buffer, target, session, era,
                   slots, creatorVars, shareVars, inputVars, gen, notified, owned>>

\* Reconnect requested, or mining paused, or hardware fault.
LeaveLoop ==
    /\ pc = "loop"
    /\ pc' = "close"
    /\ UNCHANGED <<transport, conn, pool, buffer, target, session, era,
                   slots, creatorVars, shareVars, inputVars, gen, notified, owned>>

\* The read ends without a line: error, timeout, a line too long, or the socket
\* was shut down (a line already buffered is still handled).  Or the pool asks
\* the client to reconnect.
ReceiveFails ==
    /\ pc = "recv"
    /\ pc' = "close"
    /\ UNCHANGED <<transport, conn, pool, buffer, target, session, era, slots,
                   creatorVars, shareVars, inputVars, gen, notified, owned>>

\* A notify: the slot to parse it into is the one the creator does not mine,
\* as far as the active index tells at this moment.
ReceiveNotify ==
    /\ pc = "recv"
    /\ pc' = "parse"
    /\ target' = (active + 1) % 2
    /\ UNCHANGED <<transport, conn, pool, buffer, session, era, slots,
                   creatorVars, shareVars, inputVars, gen, notified, owned>>

\* A line that does not parse, or any message other than a notify: no slot, no
\* generation and no work is touched.
ReceiveOther ==
    /\ pc = "recv"
    /\ pc' = "loop"
    /\ UNCHANGED <<transport, conn, pool, buffer, target, session, era,
                   slots, creatorVars, shareVars, inputVars, gen, notified, owned>>

\* parse_mining_notify, once every field is checked: miner_job_reset, then the
\* fields of the new job; the client adds its pool.  A clean job counts for the
\* next era.  If the creator is just reading the slot, without a lock, it ends up
\* with the old content or the new one under the generation it read before; a
\* mixture counts as one of the two.
ParseNotify(clean) ==
    /\ pc = "parse"
    /\ pc' = "admit"
    /\ clean => session + era < MaxEra
    /\ LET job == [gen |-> 0, pool |-> pool, session |-> session,
                   era |-> IF clean THEN era + 1 ELSE era]
       IN  /\ slots' = [slots EXCEPT ![target] = job]
           /\ \/ UNCHANGED work
              \/ cpc = "copy" /\ current = target /\ work' = [job EXCEPT !.gen = work.gen]
    /\ UNCHANGED <<transport, conn, pool, buffer, target, session, era, active, cpc, current,
                   shareVars, inputVars, gen, notified, owned>>

\* Not subscribed, invalid coinbase, or a job identifier already seen.
RefuseJob ==
    /\ pc = "admit"
    /\ pc' = "loop"
    /\ target' = 0
    /\ UNCHANGED <<transport, conn, pool, buffer, session, era,
                   slots, creatorVars, shareVars, inputVars, gen, notified, owned>>

\* stratum_publish_job, under the mutex: a clean job starts a generation and an
\* era, and the slot gets the generation.
PublishJob ==
    /\ pc = "admit"
    /\ pc' = "notify"
    /\ gen' = IF slots[target].era > era THEN gen + 1 ELSE gen
    /\ era' = slots[target].era
    /\ slots' = [slots EXCEPT ![target].gen = gen']
    /\ UNCHANGED <<transport, conn, pool, buffer, target, session,
                   creatorVars, shareVars, inputVars, notified, owned>>

\* xTaskNotify with eSetValueWithOverwrite.
NotifyCreator ==
    /\ pc = "notify"
    /\ pc' = "loop"
    /\ notified' = target
    /\ target' = 0
    /\ UNCHANGED <<transport, conn, pool, buffer, session, era,
                   slots, creatorVars, shareVars, inputVars, gen, owned>>

\* stratum_v1_close_connection up to the unlock; invalidation comes after it.
CloseConnection ==
    /\ pc = "close"
    /\ pc' = "closed"
    /\ transport' = "none"
    /\ conn' = FALSE /\ pool' = 0
    /\ era' = 0 /\ delivered' = Blank
    /\ UNCHANGED <<buffer, target, session, slots, creatorVars, queue,
                   inputVars, gen, notified, owned>>

-----------------------------------------------------------------------------
(* The job creator: create_jobs_task, ASIC_send_job *)

\* xTaskNotifyWait returns a slot; the active index still names the old one.
TakeNotification ==
    /\ cpc = "wait" /\ notified # NoSlot
    /\ cpc' = "activate"
    /\ current' = notified /\ notified' = NoSlot
    /\ UNCHANGED <<clientVars, slots, active, work,
                   shareVars, inputVars, gen, owned>>

\* The new work becomes the active slot.  It is sent at once if it is a clean
\* boundary and waits for the end of the job interval otherwise; which of the
\* two depends on flags that BzmDriver follows.
ActivateWork ==
    /\ cpc = "activate"
    /\ active' = current
    /\ cpc' \in {"generate", "wait"}
    /\ UNCHANGED <<clientVars, slots, current, work, shareVars, inputVars,
                   gen, notified, owned>>

\* The job interval is over.
IntervalOver ==
    /\ cpc = "wait" /\ notified = NoSlot /\ current # NoSlot
    /\ cpc' = "generate"
    /\ UNCHANGED <<clientVars, slots, active, current, work,
                   shareVars, inputVars, gen, notified, owned>>

\* generate_work_from_miner_job: without an ASIC or a current generation
\* nothing is sent; otherwise the generation is remembered and the content of
\* the slot read after it.
StartWork ==
    /\ cpc = "generate"
    /\ IF initialized /\ Current(slots[current].gen)
       THEN cpc' = "copy" /\ work' = slots[current]
       ELSE cpc' = "wait" /\ UNCHANGED work
    /\ UNCHANGED <<clientVars, slots, active, current,
                   shareVars, inputVars, gen, notified, owned>>

\* mining_build_asic_job has copied the slot, or refuses what it found there.
BuildWork ==
    /\ cpc = "copy"
    /\ \/ cpc' = "send" /\ UNCHANGED work
       \/ cpc' = "wait" /\ work' = Blank
    /\ UNCHANGED <<clientVars, slots, active, current,
                   shareVars, inputVars, gen, notified, owned>>

\* ASIC_send_job looks at the generation before every attempt; work that is no
\* longer current is given up.
CheckWork ==
    /\ cpc = "send"
    /\ IF Current(work.gen)
       THEN cpc' = "driver" /\ UNCHANGED work
       ELSE cpc' = "wait" /\ work' = Blank
    /\ UNCHANGED <<clientVars, slots, active, current,
                   shareVars, inputVars, gen, notified, owned>>

DriverRefuses ==
    /\ cpc = "driver"
    /\ cpc' = "send"
    /\ UNCHANGED <<clientVars, slots, active, current, work,
                   shareVars, inputVars, gen, notified, owned>>

\* The driver stores the work and gives it to an engine (BzmDriver).
DriverAccepts ==
    /\ cpc = "driver" /\ initialized
    /\ cpc' = "wait" /\ work' = Blank
    /\ owned' = owned \union {work}
    /\ UNCHANGED <<clientVars, slots, active, current,
                   shareVars, inputVars, gen, notified>>

-----------------------------------------------------------------------------
(* Results and shares *)

\* Mutant: the queue takes one share too many.
QueueShareOverfull(w) ==
    /\ initialized
    /\ Current(w.gen)
    /\ queue' = IF Len(queue) <= QueueLength THEN Append(queue, w) ELSE queue
    /\ UNCHANGED <<clientVars, slots, creatorVars, delivered, inputVars,
                   gen, notified, owned>>

\* asic_result_handle and stratum_queue_share: a result of stored work that is
\* still current becomes a share; a full queue drops it.  The result is then
\* credited if its generation is still current, which changes no pool work.
QueueShare(w) ==
    /\ initialized
    /\ Current(w.gen)
    /\ queue' = IF Len(queue) < QueueLength THEN Append(queue, w) ELSE queue
    /\ UNCHANGED <<clientVars, slots, creatorVars, delivered, inputVars,
                   gen, notified, owned>>

\* Mutant: only the pool tells the sessions apart.
MayWriteByPool(share) ==
    /\ transport # "none"
    /\ conn
    /\ pool = share.pool

\* What stratum_v1_submit_share requires of a share under the mutex.
MayWrite(share) ==
    /\ transport # "none"
    /\ conn
    /\ Current(share.gen)
    /\ pool = share.pool

\* stratum_submission_task: the share is written under the mutex.
WriteShare ==
    /\ queue # <<>>
    /\ queue' = Tail(queue)
    /\ MayWrite(Head(queue))
    /\ delivered' = Head(queue)
    /\ UNCHANGED <<clientVars, slots, creatorVars, inputVars, gen, notified, owned>>

\* The share is dropped, under the mutex or before: the unlocked checks of the
\* generation and of the selected pool, like version bits outside the mask of
\* the session, only ever drop a share.  So does a write that fails; it also
\* shuts the socket down, which ends the read of the Stratum task.
DropShare ==
    /\ queue # <<>>
    /\ queue' = Tail(queue)
    /\ UNCHANGED <<clientVars, slots, creatorVars, delivered, inputVars, gen,
                   notified, owned>>

-----------------------------------------------------------------------------
(* The rest of the firmware *)

CountInput == inputs < MaxInputs /\ inputs' = inputs + 1

\* stratum_request_reconnect sets the flag and shuts the socket down, which ends
\* the read of the Stratum task; the flag alone ends its loop.
RequestReconnect ==
    /\ CountInput
    /\ reconnect' = TRUE
    /\ UNCHANGED <<clientVars, slots, creatorVars, shareVars, initialized,
                   gen, notified, owned>>

\* The power task starts the ASICs, and stops them.
PowerOn ==
    /\ ~initialized
    /\ initialized' = TRUE
    /\ UNCHANGED <<clientVars, slots, creatorVars, shareVars, reconnect,
                   inputs, gen, notified, owned>>

PowerOff ==
    /\ initialized
    /\ CountInput
    /\ initialized' = FALSE
    /\ UNCHANGED <<clientVars, slots, creatorVars, shareVars, reconnect,
                   gen, notified, owned>>

-----------------------------------------------------------------------------
ClientStep ==
    \/ StartRun \/ ConnectFails \/ Connected \/ CleanJobsQueue \/ Prepare \/ PrepareFails
    \/ EnterReceive \/ LeaveLoop \/ ReceiveFails \/ ReceiveNotify \/ ReceiveOther
    \/ (\E c \in BOOLEAN : ParseNotify(c)) \/ RefuseJob \/ PublishJob \/ NotifyCreator
    \/ CloseConnection

CreatorStep ==
    \/ TakeNotification \/ ActivateWork \/ IntervalOver \/ StartWork \/ BuildWork \/ CheckWork
    \/ DriverRefuses \/ DriverAccepts

ShareStep == (\E w \in owned : QueueShare(w)) \/ WriteShare \/ DropShare

InputStep == RequestReconnect \/ PowerOn \/ PowerOff

Next == ClientStep \/ CreatorStep \/ ShareStep \/ InputStep

Spec == Init /\ [][Next]_vars

-----------------------------------------------------------------------------
(* Properties *)

\* Types of the state of the tasks, the slots and the queue.
TypeOK ==
    /\ pc \in {"idle", "connect", "setup", "prepare", "loop", "recv", "parse", "admit",
               "notify", "close", "closed"}
    /\ transport \in {"none", "open", "destroyed"}
    /\ conn \in BOOLEAN /\ pool \in Pools /\ buffer \in BOOLEAN
    /\ reconnect \in BOOLEAN /\ initialized \in BOOLEAN
    /\ gen \in Nat /\ session \in Nat /\ era \in Nat /\ inputs \in Nat
    /\ slots \in [Slots -> Works]
    /\ active \in Slots /\ target \in Slots
    /\ notified \in Slots \union {NoSlot} /\ current \in Slots \union {NoSlot}
    /\ cpc \in {"wait", "activate", "generate", "copy", "send", "driver"}
    /\ cpc # "wait" => current # NoSlot
    /\ work \in Works /\ delivered \in Works
    /\ owned \subseteq Works
    /\ queue \in Seq(Works) /\ Len(queue) <= QueueLength

\* The work a task, a slot, the store or the queue still holds.
LiveWork ==
    {slots[s] : s \in Slots} \union {work} \union owned
        \union {queue[i] : i \in 1 .. Len(queue)}

\* The receive loop of a session, up to its close.
InSession == pc \in {"loop", "recv", "parse", "admit", "notify", "close"}

\* The number the final check compares is enough: work of the current
\* generation, wherever it is, was announced in the open session and is not of a
\* job that a clean job has retired (stratum_work.c, stratum_v1_submit_share).
\* After a session is closed and before it is invalidated such work may be left,
\* but then there is no transport.
GenerationNamesSession ==
    \A w \in LiveWork :
        w.gen = gen /\ gen > 0 =>
            \/ InSession /\ w.session = session /\ w.era >= era
            \/ pc = "closed" /\ transport = "none"

Delivery == INSTANCE ShareDelivery
                WITH open <- transport = "open",
                     delivered <- [session |-> delivered.session, era |-> delivered.era]

\* No share reaches a pool outside the session its job was announced in, or
\* after a clean job has retired that job, whatever the four tasks, the slots
\* they share and the reconnects do in between (stratum_v1_submit_share,
\* stratum_v1_close_connection, generate_work_from_miner_job).
ImplementsShareDelivery == Delivery!Spec

\* Whenever the client is not about to replace a job, the slot the creator mines
\* or is told to mine holds a published job: a notify that was not admitted has
\* not destroyed one (stratum_v1_run: "Invalid clean jobs must not clear IDs,
\* retire active work, ...").
CreatorHasPublishedWork ==
    pc \in {"loop", "recv"} =>
        \A s \in {current, notified} \ {NoSlot} : slots[s].gen > 0

=============================================================================
