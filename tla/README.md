# TLA+ verification of the Bonanza miner firmware

This directory holds TLA+ models of the ESP-Miner firmware for boards with the
Bonanza (BZM 1002) ASIC and of the parts it shares with the Bitmain boards, the
TLC configurations that check them, and TLAPS proofs. Every definition is a
translation of code under `src/`; `PROJECT.json` ("map") gives the lines.

## The system

The firmware is a set of FreeRTOS tasks on an ESP32-S3. On a Bonanza board they
drive one chain of four ASICs with 236 logical engines, reached through an RP2040
bridge over UART; on the other boards a chain of Bitmain chips on a UART.

| Part | State it keeps | Operations | Hard behaviour | Module |
|---|---|---|---|---|
| Job store `asic_job_store.c` | ring of 256 job templates, cursor, generation | store, look up, release, invalidate all | handles outlive entries; overwritten while in use | JobStore |
| Reactor `bzm_reactor.c` | current and previous assignment per engine, wire sequences, epoch, flush and quarantine flags | assign, begin/finish flush, invalidate, map result | six-bit sequences are reused; results arrive late; a flush fails half way | Reactor |
| Driver `bzm_driver.c`, transport, duplicate cache | running flag, replacement budget, seen shares, result ring | send work, clear work, process result, clock step, stop, restart | five tasks meet at one lock, and some steps are outside it | BzmDriver |
| Staged start `bzm_bringup.c`, `bzm_balanced_ramp.c` | registers, engines, telemetry, stage | one stage after the other, abort, live PLL step | broadcasts miss chips; telemetry older than the change it should confirm | BringUp |
| Supervisor `bzm_supervisor.c`, `bzm_validation.c` | owner, lease, latched fault, report | request, stop, tick, heartbeat, fault, maintenance, restart | operations fail without proof; reset at any time | Supervisor |
| Board layer `bzm_board_power.c`, dispatch gate, lease guard | runtime lock, authorisation, board I/O task, tuning transition | start, stop, heartbeat, tune | two locks, a bridge with a lease of its own, a stalled task | BoardRuntime |
| Health `bzm_runtime_health.c`, `bzm_telemetry.c`, evidence `bzm_running_evidence.c` | confirmation counters, baselines, deadlines | sample, evaluate | what is only counted must be settled in the end | HealthSampling, RunningEvidence |
| Bridge `bzm_bridge.c`, update over SWD | command ids, link state, progress of an update | transact, flash, verify | late answers, damaged fields, failure at any step | BridgeStatus, BridgeUpdate |
| Power policy, power task, mailbox | policy record, mailbox, epochs, published flags | pause, resume, acquire, release, step | timeouts race completion, full mailbox, stop during start, cooldown across resets | PowerTask |
| Regulator `TPS546.c`, `vcore.c` | registers, rail, grace after a trip | set up, set voltage, check, recover | transfers that fail having worked; rounding of the encodings | Regulator |
| Bitmain drivers | job numbers, clock, chip count | send, decode result, ramp, probe | numbers come back after 16 jobs; two tasks on one UART | BitmainWork, BitmainClock, BitmainChain |
| Fan `fan_controller_task.c` and sensors | fan_perc, PID | poll, command | three writers of fan_perc; failed commands | FanControl |
| Job creator, work generations, share submission, V1 client | two job slots, generation, share queue | notify, publish, build, submit, close | slot overwritten while read; share of retired work | WorkPipeline, ShareDelivery |
| V1 stream `sv1_client.c` | receive buffer, table of message ids, counters | read, cut a line, stamp, answer | lines in pieces; answers before their share is noted | Sv1Session |
| V2 client | phase, frame, jobs by slot | open channel, new job, new prev-hash, submit | ids collide in slots; writes of two tasks on one cipher stream | Sv2Channel |
| Coordinator `stratum_task.c` | selection, fallback, outage, reconnect request | choose, run, fail over, probe, recover | three tasks on plain variables | Coordinator |
| Settings, uploads, OTA guard | cache, write queue, flash, partitions | set, write, upload, restart | power loss between cache and flash, between partitions | Settings |
| Self test `self_test.c` | mode, verdict, nonce count, domain averages | check, warm up, measure, judge, pause, verdict | a verdict that must not outrun the power task; a flag in flash that decides about the next boot | SelfTest |
| Scoreboard, best difficulty, hash counter `scoreboard.c`, `system.c` | rows in memory and flash, two limbs | add, load, count, save | a record is many writes, and power may be lost between any two | Records |
| Log ring, WebSocket table, accessory port, Wi-Fi, Bluetooth setup, hashrate monitor | ring and readers; clients; sentences; timers; fields; readings | see modules | overrun, reuse of socket numbers, damage on a line, events in any order | LogBuffer, LiveUpdates, Accessory, WifiLink, SetupBle, HashMonitor |

The chain of calls: the coordinator runs a Stratum client; a pool notify is
parsed by the client into a job slot and published under a work generation; the
creator takes the notification, builds a job and sends it to the driver; the
reactor stores the job, assigns it to the next engine in rotation under a wire
sequence number, and the transport writes it through the bridge. A result travels
back through the host ring, is mapped to its job by engine and sequence, tested
against the seen shares, and handed to the result task, which submits it. Above
this the power task alone switches the board on and off, on requests from a
mailbox; on a Bonanza board its operations go through the board layer to the
supervisor, whose lease also decides whether the driver may dispatch, and the
board I/O task, which renews the lease of the bridge as long as the board is
healthy and the power task alive.

What makes each part correct is stated as properties below; the hazards they
answer to are listed line by line in `PROJECT.json`.

## Modules

`JobStore` and `Reactor` are records with one operator per C function; they
have no variables of their own, so `BzmDriver`, which extends them, calls them
the way the driver does, several per locked section.

**JobStore.** A handle is the pair (generation, slot). The generation never
returns, the cursor does. The 16-bit slot counter is kept as its residue.

**Reactor.** An assignment is (sequence, epoch, handle, flushing). Engines are
numbered in schedule order. The two 256-entry arrays of the C module are
functions of the engine.

**BzmDriver.** One action per function that holds `REACTOR_LOCK`, split where
the code is outside it: `SYSTEM_clean_jobs_queue` is three actions
(`InvalidatePool`, `ClearWork`, `ClearStore`), `ASIC_send_job` reads the
generation (`CheckGeneration`) before it sends (`SendAccepted`, `SendFails`,
`SendBarrierFails`, `SendRefused`). `BZM_send_work` is one action with its
parts named after the code: the clean part (`Cleaned...`), the flush barrier
(`Barrier...`), the assignment. The hardware (`chip`, `transit`) is external:
an engine reports solutions of the work it runs or has just replaced, any number
of times; a result in flight remembers which work really produced it, which the
driver cannot see and the properties compare with. A flush stops an engine, but
what it had already emitted may still arrive (`overdue`); a checkpoint at the
end of a rotation reads what was emitted before the flush. A header is a
variant number: the extranonce does not repeat, the version bits of a fixed
merkle root wrap around, so a header may return.

**BzmDriverProofs.** The theorems about BzmDriver, with the lemmas about
JobStore and Reactor they need.

**Supervisor.** All calls come under `RUNTIME.lock`, so each public function is
atomic and their order is left entirely open. `rail` is the supply itself, which
the supervisor knows only through the results of `force_safe_off` (GOOD means
off, anything else proves nothing) and `run_stage`. The ESP may reset at any
moment and the bridge may drop the supply by itself.

**SupervisorProofs.** The theorems about Supervisor.

**PowerTask.** The power task is a sequence of program points, one per access to
something another task can change: `begin`, `drain`, `op`, `starting`,
`started`, `apply`, `abort`, `coolstop`, `finish`, `step`, `publish`. A start of
the board is split from the reads of `cancelled()` that follow it, since stops
arrive in between. Callers are processes that enqueue, wait, give up or return.
The settings handler checks and writes in two steps.

**PowerTaskProofs.** The theorems about PowerTask.

**ShareDelivery.** What the pool side promises, without tasks, slots, queues or
generations: a session is opened, clean jobs retire what came before them, the
session is closed, and a share may be delivered only in the session that
announced its job and only while no clean job has retired it.

**WorkPipeline.** The Stratum V1 client, the job creator, the result task and
the submission task around the two job slots, the work generation and the share
queue. A section under the transport mutex is one action; everything the code
reads without it is an action of its own: the client picks a slot
(`ReceiveNotify`), parses into it (`ParseNotify`), refuses the job (`RefuseJob`)
or publishes it (`PublishJob`) and then notifies (`NotifyCreator`); the creator
takes the notification (`TakeNotification`), moves the active index
(`ActivateWork`), reads the generation (`StartWork`), copies the content
(`BuildWork`) and looks at the generation before every attempt to send
(`CheckWork`). A close (`CloseConnection`) and its invalidation
(`CleanJobsQueue`) are apart, as in the code. In place of the content, work
carries two history fields: the session and the number of clean jobs (the era)
it was announced with; a clean job that is parsed but not yet published carries
the next era. A copy of a slot that is torn by a parse counts as the old job or
as the new one. The clean flag of the creator is left to BzmDriver. The unlocked
checks of the submission path, a failed write and version bits outside the mask
only drop shares (`DropShare`). `shutdown` of the socket only ends a read, which
may fail at any moment. The 64-bit generation never wraps.

**WorkPipelineProofs.** The theorems about WorkPipeline, among them that it
implements ShareDelivery.

**BringUp.** A stage runs exchange by exchange, with everything the code checks
between two exchanges; authority, telemetry and the wire act in between. It keeps
two views of telemetry: what the code can see (read since the last change) and
what it wants to know (measured since).

**BringUpProofs.** The theorems about BringUp.

**BoardRuntime.** The power task and the board I/O task as program points around
`RUNTIME.lock` and `REACTOR_LOCK`, the driver as whoever writes work while the
gate is open, and the bridge with its own countdown. A command to the bridge may
be lost or take effect without an answer. The supervisor is reduced to owner,
fault latch and lease; verdicts on health and evidence are inputs here and
derived in the next two modules.

**BoardRuntimeProofs.** The theorems about BoardRuntime.

**HealthSampling, RunningEvidence.** One action per sample or evaluation, with
the checks in the order of the code; limits and conversions are outcomes. The clock
moves to its target in steps (`steps`), each once the evidence is good and the
engines have work at the last clock, and each restarts the proof. The history
`credit` holds what is left of the rounds granted since there was last a proof: one
deadline per start or doubt and one per step that a start or a new target calls for.
A restart of the proof does not reset it. The history `doubt` of HealthSampling does
not forget an unlocked PLL at a change of the clock either, but counts the changes.

**BridgeStatus, BridgeUpdate.** The decoding of the safety status against an
answer with one damaged field; transactions with ids and late answers beside an
update that takes the lease, closes the link, flashes in chunks, verifies,
restarts and asks the new firmware for its version.

**Regulator.** An operation is an operator from the state to the set of states it
may end in, since each of its transfers can fail with or without having reached
the device. Voltages keep their encodings (two exponents), as far as rounding and
limits depend on them.

**BitmainWork, BitmainClock, BitmainChain.** Job numbers and the byte a result
carries them in, for all five families; the PLL search and the ramp in exact
fractions; the probe of the chain against the result task that reads the same
UART.

**FanControl.** The fan task, the bridge status that overwrites its idea of the
fan, and the supervisor's safe-off. The PID is kept in integers (hundredths).

**Coordinator.** Coordinator, heartbeat and web server as three tasks over plain
variables; every read used after another task may have run is a step. A client is
reduced to running, delivering work, failing.

**Sv2Channel, Sv1Session.** The two wire protocols as streams: what is in a slot,
in a frame or in a line, and what the submission task writes meanwhile.
`shares_pending` of a V1 session is a plain counter that the receive loop takes down
without the mutex under which the submission task takes it up: each change is a
load and a store, and the history `drift` counts what a store undoes of the other
task's, and answers that find nothing to take off.

**Settings.** Cache, queue and flash, the two firmware partitions, the web
partition and the choice at boot; power may be lost at every step.

**SettingsProofs.** The theorems about Settings.

**LogBuffer, LiveUpdates, Accessory, WifiLink, HashMonitor, SetupBle.** One
module per service; the header of each says what its tokens stand for. A value
that only has to be told from another (a log byte, a reading, a field) is what
identifies it: position, run and time, number of the write. In LiveUpdates a failed
send is three steps, the send, the removal from the table and the request to close,
of the API and of the log task, with the socket perhaps reused in between. In
WifiLink the history `ignored` names why a loss was not acted upon.

**SelfTest.** The self-test task from boot to verdict, beside the tasks that find
nonces, publish domain counters, stop the board, watch the button and write the
flag. A test of the hardware passes or fails; what the verdict says about nonces,
counters and supply is compared with a history of the boot (`seen`).

**SelfTestProofs.** The theorems about SelfTest.

**Records.** One value at a time on its way from memory through the settings queue
to flash, and a restart or power cut at any moment. A behaviour either finds shares
(best difficulty and scoreboard) or counts hashes.

**MCHardware, MCPeriphery, MCServices, MCLiveness.** Suites. Each extends one
component (BringUp, Supervisor, Settings, BoardRuntime), whose constants the .cfg
gives, and instantiates others, and checks them one at a time: the variable
`part` is chosen in the initial state and says which component the behaviour is of;
the slots `v1`, `v2`, ... are the variables of an instantiated component, and what
a behaviour does not need stays put. Components of one suite therefore share a run
but no state. Their own properties are conjuncts of the suite's properties,
guarded by the part; the properties of the extended component are checked as they
stand, in every state, and are those the theorems state.

## Runs

| Run | Instance | Shows |
|---|---|---|
| `driver_rotation` | 2 engines, store of 3, 2 sequences, ring of 1, window of 2 | attribution, no false rejection, addressability of current work, replacement accounting, no repeat within the window |
| `power_task` | mailbox of 1; 2 callers and 3 requests with board I/O and hardware faults, or 1 caller and 2 requests with overheating, settings and resets, or with pools and resets | mailbox, ownership, I/O exclusion, fan, cooldown across resets |
| `pipeline_shares` | 2 pools, 2 sessions, queue of 1 | the pipeline implements ShareDelivery; the generation tells sessions and clean jobs apart |
| `hardware` | parts bringup, work, clock, probe, selftest, records | a start that verified what it believes; Bitmain work, clock and probe; self test; what outlives a restart |
| `periphery` | parts supervisor, health, evidence, status, update, regulator, fan, sv2, sv1 | supervisor safety; verdicts, bridge, regulator, fan; the two wire protocols |
| `services` | parts settings, log, accessory, wifi, live, hash, ble | persistence, reachability, truth of what is shown |
| `liveness` | parts power, board, pools, with fairness | stops take effect, calls are answered, dead man's switch, a client returns |
| `ownership_ends` | 2 callers, mailbox of 1 | **violated**: a release that cannot be enqueued is lost |
| `refused_job` | as `pipeline_shares` | **violated**: a notify that is refused has destroyed a published job |
| `pool_loss_fault` | BoardRuntime, two levels | **violated**: losing every pool in the middle of a clock transition latches a fault |
| `lost_reconnect` | Coordinator, 2 pools | **violated**: a reconnect request during the start of a client is forgotten |
| `stuck_unavailable` | Coordinator, 2 pools, fairness | **violated**: a reconnect during an outage leaves the outage marked, and mining off |

The five violated runs are disagreements between the code and its documentation
or comments, quoted under "findings".

### Bounds

The driver is small in engines and sequences because the code treats engines
alike and only the wrap of the rotation, of the ring and of the sequence space
matter. The rotation run keeps the firmware's inequality: the store holds one
rotation (3 >= 2 engines; 256 >= 236) but not two (3 < 4; 256 < 472). Two
sequences run out at the third assignment of an engine, so that a flush retires
them, and a result on the wire can outlast that flush. `MaxGeneration` bounds the handles issued and
invalidations made, `MaxPool` the clean jobs, `MaxTransit` the results on the
wire. Unbounded C counters (epoch, generations) are unbounded in the model too
and limited only through these guards.

In the supervisor part stage 2 of 0..3 is the first that energizes, which gives
every class of stage (off, unpowered, powered, running) a member; the lease of 2
on a clock of 4 allows expiry, renewal and a late heartbeat. Bring-up has two
ASICs with six rows of one engine, two of them holes, which leaves each stack two
engines to pair; two samples confirm a reading. The Bitmain parts run all
five families; 34 jobs are more than two rounds of the shortest numbering, the
clock targets include one that the PLL only approximates. The self test has one
hash domain with a plausible and a wild reading, one nonce, two reports and a
second boot, which is what a report from before the prime, a rejected report and a
verdict cut off by a restart take. The scoreboard has three rows for five
shares, two of them with an empty extranonce2, a queue of two and three restarts;
hashes are counted to the base 3, so that the low limb wraps.

In the power runs a mailbox of one makes "full" reachable with two callers;
`Scenarios` says who calls how often and which of the surrounding tasks are active,
and the initial state picks one, so that each question gets the surroundings it
depends on; three requests are what it takes to have an
ownership, a competitor and a release that finds the mailbox full. Liveness has
one caller, whose three requests fill a mailbox it no longer waits for.

Health, evidence and board deadlines are two to four ticks: enough to renew,
to miss and to be late by one. The bridge has a chunk of two pages and a sector
of one chunk, an image that ends inside a chunk, and three command ids so that an
id returns while an answer to its first use is under way. The regulator's
voltages lie on both sides of what an exponent can represent. The fan task polls
three times on three readings (cold, warm, hot).

In the pipeline run `MaxSession` allows a second session, so that work and shares
of the first can outlive it; `MaxEra` gives the first session a clean job. V2 has
three job ids on two slots; V1 has lines of 0, 3 and 4 bytes against a limit of
3 and a buffer that starts at 2, and its ids stay below the size of the table,
which therefore does not wrap. The clock is two steps from its target, and a
doubtful proof meets one start or new target before it is settled (`MaxTargets`) and
one change of the clock while a lock is in doubt (`MaxMoves`). There is one more
socket than places in the table of clients. The coordinator has one pool of each protocol;
`MaxEvents` and `MaxBeats` bound edits, outages and heartbeats. Settings have a
queue of one, and the write of one key may fail for good. The other
services have sizes of two to four where the code has hundreds, always so that
full, wrap and overrun happen. The hashrate monitor assumes that a start of the
chips, which takes several seconds, is longer than one period of the monitor.

The suites run without a check for deadlock: a component that has used up its
bounded inputs stops. `driver_rotation`, `power_task` and `pipeline_shares`
check it. In TLC's statistics of actions each component of a suite is one disjunct
of the suite's next-state relation; that each of the component's own actions
happens in its part was looked up in TLC's coverage of the part run by itself.

### Fairness

PowerTask assumes strong fairness of the power task and weak fairness of the end
of a board I/O section. The task has priority 16 and blocks only on its
notification (bounded wait), on board operations (bounded by their own timeouts)
and on the board I/O mutex without a timeout; FreeRTOS gives a mutex to the
highest-priority waiter, so a stream of other sections cannot shut it out: hence
strong rather than weak fairness. Callers are not fair: in particular nothing
forces a caller to time out, so `CallsAnswered` is about the task, not about
timeouts.

BoardRuntime assumes weak fairness of the board I/O task, which is periodic, of
the clock, and of the driver's checkpoint, a few exchanges with time-outs under
REACTOR_LOCK. The power task is not fair there: `DeadManSwitch` is about the case
that it stops, possibly with a lock held that the I/O task needs. Coordinator
assumes weak fairness of the coordinator and the heartbeat task, all of whose
waits have time-outs, and of a handler of the web server once it has begun;
pools, users and edits are free.

### Properties

Every property has a mutant in `PROJECT.json`: a plausible bug in the code it
depends on (defined next to the original and marked "Mutant") under which TLC
finds it violated. Where a suite's property is a conjunction, the modules hold a
mutant for the other conjuncts too.

Driver: `AttributionSound` (a result is mapped only to the work that produced
it), `NoFalseRejection` (a genuine result counts as corruption only while a
failed flush is pending), `CurrentAddressable` (current work of the current
generation is found in the store), `ReplacementCoversEngines` (an undisturbed
replacement is complete only when every engine was reprogrammed),
`NoRepeatWithinWindow` (a share is credited once).

Supervisor: `RailAccounted`, `SafeOffIsOff`, `MaintenanceIsOff`,
`DispatchIsLeased`, `FaultNeedsProof`, `EnergizedUnderAuthority`.

Power task: `PauseHolds` (an acknowledged pause holds until a later resume),
`MaintenanceHeld`, `MaintenanceClaimed` (grants and releases survive timeouts),
`StoppedIsOff`, `RoundEndsSafe`, `IoExclusive`, `FanUnderControl`,
`RecoveryNeedsCooldown` (during a cooldown the supply comes on only at its end,
with the reduced target saved),
`StopTakesEffect`, `CallsAnswered`.

Hardware: `BringUpVerified` (engines report only in frames, the two stacks stay
balanced whatever fails, a chain taken for running runs on what its registers
hold), `StepsAreSafe` (accepted telemetry was measured after the last change; a
Bitmain clock moves in small steps; the self-test flag is cleared by a verdict or a
long press only; a stored score is not overwritten before it has moved),
`BitmainAsBelieved` (a nonce is credited to
its job and version; a ramp ends at the closest clock there is; a probe reads its
own answers; a running chain is whole; a self test passes on this boot's nonces
and fresh reports and ends without supply; the scoreboard stays in order and
counted hashes are kept over restarts).

Periphery: `DoubtIsSettled` (a fault that shows is found or disproved within the
allowed samples; mining whose proof is in doubt and that yields nothing is found out
within the deadlines granted since the last proof, one per start and per step of the
clock to its target; that a board which stops yielding only after a clean proof is
never in doubt in this code, the property does not hide and does not judge), `BridgeIsTrusted` (no damaged status reassures, an answer is the one
to its request, an update reported good is in flash), `RailIsRegulated` (a failed
bring-up ends with the rail off, no trip by rounding, clock within voltage, trips
are reported), `FanCools` (a hot board's fan is at full speed or a fault is
flagged).

Board: `BoardIsSafe` (a proven safe-off left everything off; the clock never
exceeds what the rail carries; work is written only to a healthy board that mines),
`DeadManSwitch` (should the power task stop,
wherever and with whatever lock, 5 V ends up off for good),
`UnhealthyBoardIsCut`.

Pools and pipeline: `GenerationNamesSession` (work that carries the current
generation belongs to the open session and has not been retired, so the one
number compared before a write is enough), `ImplementsShareDelivery`
(refinement), `ChannelInStep` (V2: the active job is whole, nothing is written
after a broken frame, no old share in a new set-up; V1: lines as sent, legal ones
taken, answers counted for their shares, the pending ones up to what two tasks lose
by counting without a common lock), `ClientReturns`.

Services: `SettingsSurvive` (a drained queue leaves flash as the cache, a custom
interface is served only under its build, the partition to boot holds an image, an
ended request gave its lease back), `StaysReachable` and `ReportsAreTrue`, whose
conjuncts are named in the comments of MCServices. `StaysReachable` says that the
table of WebSocket clients is neither stale nor incomplete, and that a lost Wi-Fi
link is retried or the setup AP is on for the guest it gave way to. It excepts two
cases by name, because the code fails there: a station event that a scan swallowed
(`"scan"`), and a loss handled while the guest counted had left (`"gone"`, for
instance because a scan swallowed the event of its leaving, connect.c:417,489). In
both, nothing brings the link back before a restart, and in the second the setup AP
may be off too. `ReportsAreTrue` excepts from its claim about the hashrate an answer
of the last run that is recorded after the reset of hashrate_monitor_task.c:184-189
(`late`): that reset does not prevent it, and the next reading is compared with it.

### Behaviour met while modelling

Not stated as runs, but visible in the models: previous work of an engine may be
overwritten in the store before its rotation is over; a replacement may be
counted complete early after a failed assignment emptied engines; the overheat
marker can be cleared by a settings request that checked before the recovery
began; a CR LF at the end of an accessory sentence runs its parser twice, which
the duplicate filter hides; a Wi-Fi link lost during a scan, or to a guest on the
setup AP, is not retried when the scan is over or the guest has gone, and a leaving
that a scan swallowed stops all retries; the pending shares of a V1 session may stay
one too high or too low for each lost update, until the connection ends; with a minimum fan speed of 0 the PID keeps its initial output
limits, a failing first sensor selects 70 % although the second may be hot, and
fan_perc is stale until the next health sample; in V1 an answer that overtakes
the note of its share is counted without its time, and set-up messages and pongs
are written without the transport mutex; a share with an empty extranonce2 (a V2
standard channel, sv2_mining_job.c:45) is stored as a row that scoreboard_init
cannot parse (scoreboard.c:26): the row is dropped at the next boot, and the rows
behind it are saved one place too high from then on, over rows that are still
good; a long press while a self test still runs stays in its semaphore, so that
a failure later cancels itself at once and clears the flag of a factory test.

## Proofs

`SupervisorProofs` proves the type invariant and the six supervisor properties
of the `periphery` run for every number of stages, every first powered stage, every
build configuration and every lease bound (`SupervisorAssumption`).

None of the state properties is inductive alone. `RailAccounted` needs
`MaintenanceIsOff`, because a request refused during maintenance clears
`report.energized`; `MaintenanceIsOff` needs `RailAccounted`, because a grant
relies on the report; `DispatchIsLeased` needs what a holder may rely on
(`HolderIsLeased`: the report says HOLDING and energized, no fault is latched,
and the lease ends within `MaxLease` of the last contact). Their conjunction
with the types is `IInv`. The proof has a lemma for each piece of the public
functions (`StopKeepsIInv`, `ExecutedKeepsIInv`, ...), one step per action, and
the corollaries `TypeCorrect`, `RailIsAccounted`, `SafeOffIsProof`,
`MaintenanceSafe` and `DispatchLeased`; the action properties
`FaultClearedWithProof` and `PowerNeedsAuthority` follow from the invariant and
a case split over the actions.

`WorkPipelineProofs` proves `TypeOK`, `GenerationNamesSession` and
`ImplementsShareDelivery` for every set of pools, queue length and bound
(`PipelineAssumption`). The property is not inductive: that current work is of
the open session says nothing yet about work whose generation may become
current, nor about the moment between parse and publication. The inductive
invariant `IInv` adds four facts. Every piece of live work is `Sound`: it is no
newer than the generation, and if it is current it is of the session, unless the
session is over. `Phases` ties the program point of the client to whether
the transport is open. `Counted` says that generation 0, which a reset slot
carries, is over before there is work to take, to send or to earn a share.
`Parsed` says what is in the target slot between parse and publication. A
lemma per fact goes
through the actions; `GenerationGrows` and `LiveStep` (where the live work after
a step comes from) keep these short. For the refinement, `Connected` is `Open`, a clean
`PublishJob` is `Retire`, `CloseConnection` and `PrepareFails` are `Close`,
`WriteShare` is `Deliver` (by `WrittenShareIsCurrent`, the only step that needs
the invariant), and everything else leaves the abstract state alone.

`PowerTaskProofs` proves the type invariant and all eight properties of the
`power_task` run for every set of callers and maintenance owners, mailbox length,
cooldown and bound (`PowerTaskAssumption`). The parts of its `IInv`:

- `Board`: what the policy, the place of the task and the supply have to do with
  each other. A running board is not marked stopped, an owned one is off, and
  inside a start nobody owns or pauses the board and a cooldown has been served;
  without the last, a start that a stop interrupts could leave the supply on.
- `Errand`: whose request an operation is on behalf of. `Shut`: maintenance is
  announced before the board I/O lock is taken, for `IoExclusive`.
- `Mail`: a request that was not withdrawn is the only one of a caller that waits,
  so an answer can reach nobody else.
- `Rights`: the right to maintenance is in exactly one place (a caller, a release
  in the mailbox, the task between acquire and answer), and it is the right of
  the owner on record. `Accounted`: an owner without anybody in that place is a
  lost release, the one hole `ownership_ends` shows.
- `Epochs`: a resume carries an epoch no newer than the newest resume, and one
  that is acted on is no older than any acknowledged pause.

A timeout is the hard step: `Withdraw` takes back a grant, posts nothing, and must
move the right; `RightsWork` and `AccountedStep` go through its cases.

`BzmDriverProofs` proves the type invariant and the five properties of
`driver_rotation` for every number of engines, sequences,
slots of the store and of the rings, and every bound (`CapacityAssumption`,
`ReactorAssumption`, `BzmDriverAssumption`: what the C constants satisfy, the store
no smaller than one rotation). The parts of its `IInv`:

- `Trusted`, for `AttributionSound`: unless a flush is pending, every engine's
  sequences were handed out in order, and whatever a chip runs or the wire
  carries is `Known`, its sequence issued, not yet forgotten (assigned or
  retired) and standing for no other work. A result from before a flush is
  `overdue` and then the reactor is quarantined. `Flushes` says that
  assignments flush exactly while a flush is pending.
- `Issued`: a handle is given out once, so current work shares its entry of the
  store with nothing.
- `Rotates`, for `CurrentAddressable`: the rotation comes back to an engine before
  the cursor of the store comes back to its job (`Ahead`, distances on a ring).
- `Covers`, for `ReplacementCoversEngines`: an undisturbed replacement still has as
  many sends to go as engines lie before it.
- `Generations` and `Window`, for `NoRepeatWithinWindow`: the duplicate cache is the
  end of the list of credited shares, and what it has forgotten is of an older
  generation than the current one.

`BoardRuntimeProofs` proves the three conjuncts of `BoardIsSafe`,
`ProvenOffIsOff`, `ClockWithinRail` and `GateIsHealthy`, for every length of the
leases and number of operating points (`BoardRuntimeAssumption`: these are natural
numbers), and with them `BoardIsSafe` itself. `Starting` says that a start is under way
only on a board nobody owns and that the gate is shut until a safe-off has its
verdict; `Targeted` that a clock on its way up aims at a level the rail carries.

`SelfTestProofs` proves the four properties of SelfTest for every set of hash domains,
number of nonces a pass takes and rates (`Parameters`, again natural numbers). The
parts of its `IInv`: `Counts` (only a measuring test counts nonces, and a report not
yet sampled is one more than those counted), `Stops` (a stopped board is off,
and the answer to a pause is a promise: the board is paused and stopped, and
nothing starts a paused board), `Verdicts` (what has to be true at each place before
a pass may be shown) and `Flags` (a clear of the flag that is under way has a cause).

`BringUpProofs` proves `BringUpVerified` and its three conjuncts (`FramedReports`,
`StacksBalanced`, `RunningMatchesHardware`) and the part of `StepsAreSafe` that is
about BringUp (`EvidenceIsCurrent`), for any number of ASICs, any grid of engines with
any holes that leave an engine, and any number of confirmations and attempts
(`BringUpAssumption`). A grid whose stacks differ is
no assumption but refused by the code, `TopologyIsExact`. The parts of `IInv`:

- `Located` says at which program points a stage can be and what each flag of
  `verified` means there; `Identified` what has been numbered.
- `Silenced` and `Heard`, for `EvidenceIsCurrent`: when the hardware is about to be
  changed, an ASIC sends nothing and nothing of it is unread, so that what is
  read afterwards was measured afterwards. The code compares times of reading only,
  and it is the quiesce before each change that makes this enough.
- `Framed`: while engines start, result reports are off.
- `Paired`, for `StacksBalanced`: the engines that run are those of the pairs done,
  with one engine more in the middle of a pair. The lemmas on the topology show
  that numbering the engines of a stack is injective, hence onto by counting, so
  every engine is in exactly one pair, and whole pairs balance by a bijection.
- `Clocked`: the dividers of every ASIC hold the clock believed in, outside of a step.

Lemmas say once what an exchange, a broadcast or a read of frames leaves alone, and
the proof of each action cites them.

`SettingsProofs` proves `SettingsSurvive` for any set of builds, any length of the
write queue and any bound on lost writes (`SettingsAssumption`: the marks for "no
build" are no builds, and there are two partitions). Flash, cache, queue and the
lists of the three tasks hold the same setting at different times, and a restart may
keep any prefix of the writes. The parts of `IInv`:

- `Types` lists the updates that are ever made and the orders in which one task makes
  them; the interface is always cleared before the fingerprint is written or taken
  away. `Phased` says what each phase of a boot or of a request starts from.
- `Locked` and `Followed`, for `FlashFollowsCache`: only the holder of
  `nvs_update_mutex` has an update in its hands, so the last update of a key that is
  in a hand or in the queue has the value of the cache.
- `FlashAgrees`, for `MatchingWebUi`: flash never pairs an interface of one build with
  the fingerprint of another. It is kept by the order of the writes still to come:
  a foreign fingerprint is replaced before an interface is turned on (`StampComes`),
  a foreign interface before this build's fingerprint is written (`ClearedFirst`).
- `CacheAgrees`: a foreign interface in the cache is about to be cleared by the
  migration, or a write was lost.

A lost write is the hard step: it takes a key out of all these claims, and a later
write of the same key that succeeds must bring it back under them.

Only model-checked: the other components. Among them `LiveUpdates`,
`Sv1Session` and `Records` are within the prover's reach and not done; the PLL search, the PID and the encodings of voltages are
computations over data, which TLC evaluates on the values there are. Liveness is
outside the prover, and so are ENABLED and what a recursion computes for every
input.

## Not modelled

Listed with reasons under "components". Byte layouts, JSON, hashing and
cryptography (mining job construction, coinbase decoding, the Noise handshake)
are data without control that matters here. Code without a caller outside the
tests: the Bonanza branches of `VCORE_*`, the ramp in `bzm_frequency.c`,
`bzm_frequency_qualification.c` and `bzm_overheat_recovery.c`. The constants of
register sequences, the bits of SWD, the DS4432U of older boards, set-up of the
sensor chips and tachometer readings are I/O. Fonts, images, display and buttons
draw, and statistics only show. In what is modelled, log texts, codes and units are left out.

## Plan

1. *Done:* the components with state, as above; Supervisor, WorkPipeline with its
   refinement, PowerTask, BzmDriver with JobStore and Reactor, BoardRuntime, SelfTest,
   BringUp and Settings with proofs.
2. Proofs: LiveUpdates (`TableIsLive`), Sv1Session (`LinesInStep`), Records.
3. Proofs: RunningEvidence and HealthSampling.
4. Model: statistics, calibration of the fan sensors, version rolling.
