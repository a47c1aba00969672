------------------------------ MODULE PowerTask ------------------------------
(***************************************************************************)
(* The power owner: POWER_MANAGEMENT_task with its request mailbox          *)
(* (main/tasks/power_management_task.c) and the board-independent policy it *)
(* alone executes (components/power_management/power_policy.c).            *)
(*                                                                         *)
(* Actors: the power task; the callers of POWER_MANAGEMENT_request (HTTP    *)
(* handlers, the bridge updater, the restart guards), each of which may     *)
(* give up waiting; the tasks that enter a board I/O section; the settings  *)
(* handler of the HTTP server; the Stratum task (pools_unavailable); and    *)
(* the board, whose start, stop, apply and maintenance operations may fail. *)
(*                                                                         *)
(* The policy record is private to the task, so a piece of the task that    *)
(* touches shared state once is one action.  Targets (voltage, frequency)   *)
(* are left out; the cooldown clock is the number of ticks elapsed since    *)
(* cooling_since_ms.  Self-test mode (is_finished) is in module SelfTest;   *)
(* boot_complete and its waiter are not modelled.                          *)
(***************************************************************************)
EXTENDS Integers, Sequences

CONSTANTS Callers,      \* tasks that call POWER_MANAGEMENT_request
          PowerOwners,  \* maintenance owners they may ask for
          QueueLength,  \* length of the request queue (4 in the firmware)
          CoolTime,     \* ticks in the 30000 ms of the cooldown
          Scenarios     \* bound: the surroundings a behaviour may play in, see budget

ASSUME PowerTaskAssumption == /\ "NONE" \notin PowerOwners
                              /\ QueueLength \in Nat \ {0}
                              /\ CoolTime \in Nat \ {0}
                              /\ Scenarios \subseteq
                                   [callers : SUBSET Callers, calls : Nat,
                                    around : SUBSET {"io", "heat", "settings", "pools",
                                                     "fault", "reset"}]

VARIABLES
    policy,      \* power_policy_t
    task,        \* where the power task is, with the request it processes
    requests,    \* the mailbox
    callers,     \* per caller: place in POWER_MANAGEMENT_request and what it holds
    stopEpoch,   \* stop_epoch
    accepted,    \* accepted_epoch
    maintenance, \* the atomic read by POWER_MANAGEMENT_board_io_begin
    fanAllowed,  \* fan_allowed
    recovering,  \* cooling: the atomic behind overheat_recovery_active
    ioLock,      \* board_io_lock: "free", or held by a board I/O section
    ready,       \* ready: the mining stack is up
    pools,       \* SYSTEM_MODULE.pools_unavailable
    hwFault,     \* SYSTEM_MODULE.hardware_fault
    marker,      \* NVS_CONFIG_OVERHEAT_MODE, which survives a reset
    patch,       \* a settings request past its recovery check
    rail,        \* the ASIC supply
    budget,      \* bound: who calls, how often still, and what else goes on around the task
    pausedAt,    \* stop epoch of the last pause that returned true (history)
    resumedAt,   \* highest epoch any resume request carried (history)
    lost         \* a release could not be enqueued (history)

shared  == <<maintenance, fanAllowed, recovering, ioLock>>
world   == <<ready, pools, hwFault, marker, patch, rail>>
epochs  == <<stopEpoch, accepted>>
mailbox == <<requests, callers, budget>>
history == <<pausedAt, resumedAt, lost>>
vars    == <<policy, task, epochs, mailbox, shared, world, history>>

NoRequest == [kind |-> "NONE"]
Unset == -1   \* cooling_since_ms = UINT64_MAX

\* power_policy_init and the static initialisers; failed is the outcome of
\* BoardPower_init.
InitPolicy(failed) ==
    [ready |-> FALSE, pool |-> FALSE, running |-> FALSE, stopped |-> FALSE,
     paused |-> FALSE, fault |-> failed, cooling |-> FALSE, saved |-> FALSE,
     owner |-> "NONE", age |-> 0]

IdleCaller == [pc |-> "idle", kind |-> "NONE", owner |-> "NONE", epoch |-> 0,
               success |-> FALSE, holds |-> "NONE"]

InitTask == [pc |-> "begin", req |-> NoRequest, success |-> FALSE,
             from |-> "request", result |-> "OK"]

Init ==
    /\ \E failed \in BOOLEAN : policy = InitPolicy(failed)
    /\ task = InitTask
    /\ requests = <<>>
    /\ callers = [c \in Callers |-> IdleCaller]
    /\ stopEpoch = 0 /\ accepted = 0
    /\ maintenance = FALSE /\ fanAllowed = FALSE /\ recovering = FALSE /\ ioLock = "free"
    /\ ready = FALSE /\ pools = FALSE /\ hwFault = FALSE
    /\ budget \in Scenarios
    /\ marker \in (IF "heat" \in budget.around THEN BOOLEAN ELSE {FALSE}) /\ patch = "none"
    /\ rail \in {"on", "off"}
    /\ pausedAt = 0 /\ resumedAt = 0 /\ lost = FALSE

\* POWER_MANAGEMENT_stop_requested.
StopRequested == stopEpoch # accepted

\* cancelled() of main/power/board_power.c.
Cancelled == StopRequested \/ pools

-----------------------------------------------------------------------------
(* POWER_MANAGEMENT_request *)

Kinds == {"PAUSE", "RESUME", "ACQUIRE", "RELEASE"}

\* The call up to the enqueue.  A pause or an acquire revokes work at once,
\* whatever becomes of the request.  epoch is the stop epoch the request
\* carries.  Only whoever was granted maintenance releases it, and ends its use
\* of the board by doing so.
Call(c, kind, owner) ==
    /\ callers[c].pc = "idle" /\ c \in budget.callers /\ budget.calls > 0
    /\ kind \in {"PAUSE", "RESUME"} => owner = "NONE" /\ callers[c].holds = "NONE"
    /\ kind = "ACQUIRE" => owner \in PowerOwners /\ callers[c].holds = "NONE"
    /\ kind = "RELEASE" => owner \in PowerOwners /\ callers[c].holds = owner
    /\ stopEpoch' = IF kind \in {"PAUSE", "ACQUIRE"} THEN stopEpoch + 1 ELSE stopEpoch
    /\ callers' = [callers EXCEPT ![c] =
                     [pc |-> "send", kind |-> kind, owner |-> owner, epoch |-> stopEpoch',
                      success |-> FALSE, holds |-> "NONE"]]
    /\ budget' = [budget EXCEPT !.calls = @ - 1]
    /\ resumedAt' = IF kind = "RESUME" THEN stopEpoch ELSE resumedAt
    /\ UNCHANGED <<policy, task, accepted, requests, shared, world, pausedAt, lost>>

\* No memory for the request, or the queue is full: false.
CallFails(c) ==
    /\ callers[c].pc = "send"
    /\ callers' = [callers EXCEPT ![c] = IdleCaller]
    /\ lost' = (lost \/ callers[c].kind = "RELEASE")
    /\ UNCHANGED <<policy, task, epochs, requests, budget, shared, world, pausedAt, resumedAt>>

\* Mutant: the queue takes any number of requests.
EnqueueUnbounded(c) ==
    /\ callers[c].pc = "send"
    /\ requests' = Append(requests, [caller |-> c, kind |-> callers[c].kind,
                                     owner |-> callers[c].owner,
                                     epoch |-> callers[c].epoch, cancelled |-> FALSE])
    /\ callers' = [callers EXCEPT ![c].pc = "waiting"]
    /\ UNCHANGED <<policy, task, epochs, budget, shared, world, history>>

\* The request enters the queue and the caller waits.
Enqueue(c) ==
    /\ callers[c].pc = "send" /\ Len(requests) < QueueLength
    /\ requests' = Append(requests, [caller |-> c, kind |-> callers[c].kind,
                                     owner |-> callers[c].owner,
                                     epoch |-> callers[c].epoch, cancelled |-> FALSE])
    /\ callers' = [callers EXCEPT ![c].pc = "waiting"]
    /\ UNCHANGED <<policy, task, epochs, budget, shared, world, history>>

\* This request is the one caller c waits for.
Awaited(r, c) == r.kind # "NONE" /\ r.caller = c /\ ~r.cancelled
Withdrawn(r, c) == IF Awaited(r, c) THEN [r EXCEPT !.cancelled = TRUE] ELSE r

\* The caller gives up before the task completed the request: it cancels the
\* request, wherever it is, and revokes work (the compare-and-swap and revoke_work
\* right after it, by the same caller, are one step).
CallTimesOut(c) ==
    /\ callers[c].pc = "waiting"
    /\ requests' = [i \in DOMAIN requests |-> Withdrawn(requests[i], c)]
    /\ task' = [task EXCEPT !.req = Withdrawn(@, c)]
    /\ stopEpoch' = stopEpoch + 1
    /\ callers' = [callers EXCEPT ![c] = IdleCaller]
    /\ UNCHANGED <<policy, accepted, budget, shared, world, history>>

\* The result reaches the caller, by the semaphore or by losing the timeout
\* race.  An acquire that returned true lets it use the board.
CallReturns(c) ==
    /\ callers[c].pc = "done"
    /\ callers' = [callers EXCEPT ![c] =
          [IdleCaller EXCEPT !.holds =
              IF callers[c].kind = "ACQUIRE" /\ callers[c].success
              THEN callers[c].owner ELSE "NONE"]]
    /\ UNCHANGED <<policy, task, epochs, requests, budget, shared, world, history>>

-----------------------------------------------------------------------------
(* Board operations, each under board_io_lock *)

\* stop() of power_policy.c, with ok the board's verdict.
Stopped(p, ok) == [p EXCEPT !.running = FALSE, !.stopped = ok, !.fault = @ \/ ~ok]

\* Mutant: the fan loop keeps control through a stop.
BoardStopKeepsFan(ok) ==
    /\ ioLock = "free"
    /\ IF ok THEN rail' = "off" ELSE rail' \in {rail, "off"}
    /\ UNCHANGED fanAllowed

\* board_stop.
BoardStop(ok) ==
    /\ ioLock = "free"
    /\ fanAllowed' = FALSE
    /\ IF ok THEN rail' = "off" ELSE rail' \in {rail, "off"}

NoBoardOperation == UNCHANGED <<fanAllowed, rail>>

\* stop p if needed is true.
StopIf(needed, p, ok) ==
    IF needed THEN policy' = Stopped(p, ok) /\ BoardStop(ok)
    ELSE policy' = p /\ NoBoardOperation

-----------------------------------------------------------------------------
(* The task: draining the mailbox *)

\* The top of the loop reads ready and pools_unavailable.
Begin ==
    /\ task.pc = "begin"
    /\ policy' = [policy EXCEPT !.ready = ready, !.pool = pools]
    /\ task' = [task EXCEPT !.pc = "drain"]
    /\ UNCHANGED <<epochs, mailbox, shared, world, history>>

\* Mutant: a resume is honoured whatever was asked since.
LiveAnyEpoch(r) ==
    CASE r.kind = "PAUSE" -> TRUE
      [] r.kind = "RELEASE" -> TRUE
      [] r.kind = "ACQUIRE" -> ~r.cancelled
      [] r.kind = "RESUME" -> ~r.cancelled

\* process_request acts on the request: a pause and a release always, the
\* others unless their caller has gone, and a resume only if nobody has asked
\* for a stop since it was made.
Live(r) ==
    CASE r.kind = "PAUSE" -> TRUE
      [] r.kind = "RELEASE" -> TRUE
      [] r.kind = "ACQUIRE" -> ~r.cancelled
      [] r.kind = "RESUME" -> ~r.cancelled /\ r.epoch = stopEpoch

\* Mutant: board I/O is not shut out before maintenance is acquired.
ReceiveUnannounced ==
    /\ task.pc = "drain" /\ requests # <<>>
    /\ LET r == Head(requests)
       IN  /\ task' = [task EXCEPT !.req = r, !.success = FALSE,
                                   !.pc = IF Live(r) THEN "op" ELSE "finish"]
           /\ accepted' = IF r.kind = "RESUME" /\ Live(r) THEN r.epoch ELSE accepted
    /\ requests' = Tail(requests)
    /\ UNCHANGED <<policy, stopEpoch, callers, budget, shared, world, history>>

\* xQueueReceive and the first part of process_request.
Receive ==
    /\ task.pc = "drain" /\ requests # <<>>
    /\ LET r == Head(requests)
       IN  /\ task' = [task EXCEPT !.req = r, !.success = FALSE,
                                   !.pc = IF Live(r) THEN "op" ELSE "finish"]
           /\ accepted' = IF r.kind = "RESUME" /\ Live(r) THEN r.epoch ELSE accepted
           /\ maintenance' = (maintenance \/ (r.kind = "ACQUIRE" /\ Live(r)))
    /\ requests' = Tail(requests)
    /\ UNCHANGED <<policy, stopEpoch, callers, budget, fanAllowed, recovering, ioLock, world,
                   history>>

Operating(kind) == task.pc = "op" /\ task.req.kind = kind

\* The operation is over and its result known; taskStays is what no operation
\* on behalf of a request touches.
Done(success) == task' = [task EXCEPT !.pc = "finish", !.success = success]
taskStays == <<epochs, mailbox, maintenance, recovering, ioLock,
               ready, pools, hwFault, patch, history>>

\* power_policy_pause.
Pause ==
    /\ Operating("PAUSE")
    /\ \E ok \in BOOLEAN :
         /\ StopIf(policy.owner = "NONE", [policy EXCEPT !.paused = TRUE], ok)
         /\ Done(policy.owner = "NONE" /\ ok)
    /\ UNCHANGED <<taskStays, marker>>

\* power_policy_resume, as far as it needs no start.
ResumeAnswered ==
    /\ Operating("RESUME")
    /\ \/ /\ ~policy.ready \/ policy.fault \/ policy.owner # "NONE"
          /\ UNCHANGED policy
          /\ Done(FALSE)
       \/ /\ policy.ready /\ ~policy.fault /\ policy.owner = "NONE"
          /\ policy.cooling \/ policy.pool \/ policy.running
          /\ policy' = [policy EXCEPT !.paused = FALSE]
          /\ Done(TRUE)
    /\ NoBoardOperation
    /\ UNCHANGED <<taskStays, marker>>

\* power_policy_resume up to the start of the board.
ResumeStarts ==
    /\ Operating("RESUME")
    /\ policy.ready /\ ~policy.fault /\ policy.owner = "NONE"
    /\ ~policy.cooling /\ ~policy.pool /\ ~policy.running
    /\ policy' = [policy EXCEPT !.paused = FALSE]
    /\ task' = [task EXCEPT !.pc = "starting", !.from = "request"]
    /\ fanAllowed' = FALSE
    /\ UNCHANGED <<taskStays, marker, rail>>

\* power_policy_maintenance, acquire.
Acquire ==
    /\ Operating("ACQUIRE")
    /\ \/ /\ policy.owner # "NONE"
          /\ Done(FALSE)
          /\ UNCHANGED policy /\ NoBoardOperation
       \/ /\ policy.owner = "NONE"
          /\ \E ok \in BOOLEAN :
               /\ policy' = [policy EXCEPT !.paused = TRUE, !.running = FALSE, !.stopped = ok,
                                           !.owner = IF ok THEN task.req.owner ELSE "NONE",
                                           !.fault = @ \/ ~ok]
               /\ BoardStop(ok)
               /\ Done(ok)
    /\ UNCHANGED <<taskStays, marker>>

\* power_policy_maintenance, release: ownership ends whatever the board says.
Released(p, ok) == [p EXCEPT !.owner = "NONE", !.fault = @ \/ ~ok, !.stopped = @ /\ ok]

Release ==
    /\ Operating("RELEASE")
    /\ \/ /\ policy.owner # task.req.owner
          /\ Done(FALSE)
          /\ UNCHANGED policy /\ NoBoardOperation
       \/ /\ policy.owner = task.req.owner
          /\ ioLock = "free" /\ fanAllowed' = FALSE
          /\ \E ok \in BOOLEAN : policy' = Released(policy, ok) /\ Done(ok)
          /\ UNCHANGED rail
    /\ UNCHANGED <<taskStays, marker>>

\* Mutant: only a success is reported.
CompleteSuccessOnly ==
    /\ task.pc = "finish" /\ ~task.req.cancelled
    /\ callers' = IF task.success
                  THEN [callers EXCEPT ![task.req.caller].pc = "done",
                                       ![task.req.caller].success = TRUE]
                  ELSE callers
    /\ maintenance' = (policy.owner # "NONE")
    /\ task' = [InitTask EXCEPT !.pc = "drain"]
    /\ pausedAt' = IF task.req.kind = "PAUSE" /\ task.success THEN task.req.epoch ELSE pausedAt
    /\ UNCHANGED <<policy, epochs, requests, budget, fanAllowed, recovering, ioLock, world,
                   resumedAt, lost>>

\* The end of process_request when the caller is still there: the result is
\* published and the caller woken.  pausedAt records an acknowledged pause.
Complete ==
    /\ task.pc = "finish" /\ ~task.req.cancelled
    /\ callers' = [callers EXCEPT ![task.req.caller].pc = "done",
                                  ![task.req.caller].success = task.success]
    /\ maintenance' = (policy.owner # "NONE")
    /\ task' = [InitTask EXCEPT !.pc = "drain"]
    /\ pausedAt' = IF task.req.kind = "PAUSE" /\ task.success THEN task.req.epoch ELSE pausedAt
    /\ UNCHANGED <<policy, epochs, requests, budget, fanAllowed, recovering, ioLock, world,
                   resumedAt, lost>>

\* Mutant: an operation that finished after its caller left is not undone.
WithdrawNothing ==
    /\ task.pc = "finish" /\ task.req.cancelled
    /\ maintenance' = (policy.owner # "NONE")
    /\ task' = [InitTask EXCEPT !.pc = "drain"]
    /\ UNCHANGED <<policy, epochs, mailbox, fanAllowed, recovering, ioLock, world, history>>

\* Mutant: a withdrawn acquire is undone even if it was refused.
WithdrawReleasesAlways ==
    /\ task.pc = "finish" /\ task.req.cancelled
    /\ \E ok, released \in BOOLEAN :
         LET granted == task.req.kind = "ACQUIRE"
             p == IF granted THEN Released(policy, released) ELSE policy
             idle == p.owner = "NONE"
         IN  /\ StopIf(idle, IF idle THEN [p EXCEPT !.paused = TRUE] ELSE p, ok)
             /\ maintenance' = (policy'.owner # "NONE")
    /\ task' = [InitTask EXCEPT !.pc = "drain"]
    /\ UNCHANGED <<epochs, mailbox, recovering, ioLock, ready, pools, hwFault, marker, patch,
                   history>>

\* The end of process_request when the caller left first: maintenance granted
\* to nobody is given back, and the board is stopped.
Withdraw ==
    /\ task.pc = "finish" /\ task.req.cancelled
    /\ \E ok, released \in BOOLEAN :
         LET granted == task.success /\ task.req.kind = "ACQUIRE"
             p == IF granted THEN Released(policy, released) ELSE policy
             idle == p.owner = "NONE"
         IN  /\ StopIf(idle, IF idle THEN [p EXCEPT !.paused = TRUE] ELSE p, ok)
             /\ maintenance' = (policy'.owner # "NONE")
    /\ task' = [InitTask EXCEPT !.pc = "drain"]
    /\ UNCHANGED <<epochs, mailbox, recovering, ioLock, ready, pools, hwFault, marker, patch,
                   history>>

-----------------------------------------------------------------------------
(* The task: stop intent and power_policy_step *)

\* Mutant: stop intent without a request in the queue is not noticed.
CheckNothing ==
    /\ task.pc = "drain" /\ requests = <<>>
    /\ UNCHANGED policy /\ NoBoardOperation
    /\ task' = [task EXCEPT !.pc = "step"]
    /\ UNCHANGED <<taskStays, marker>>

\* The mailbox is empty: a stop request that never got into it still stops
\* mining.
Check ==
    /\ task.pc = "drain" /\ requests = <<>>
    /\ LET due == StopRequested /\ ~policy.paused /\ policy.owner = "NONE"
       IN  \E ok \in BOOLEAN :
             StopIf(due, IF due THEN [policy EXCEPT !.paused = TRUE] ELSE policy, ok)
    /\ task' = [task EXCEPT !.pc = "step"]
    /\ UNCHANGED <<taskStays, marker>>

\* BoardPower_sample, as power_policy_step tells samples apart: health, and
\* whether the sensors say hot, cool, or nothing that helps.
Health == {"OK", "OVERHEAT", "FAULT"}
StartResults == {"OK", "OVERHEAT", "FAILED"}
Sensors == {"hot", "cool", "unknown"}

\* Bound: the surroundings of the behaviour include what is sampled.
Occurs(outcome) == /\ outcome = "OVERHEAT" => "heat" \in budget.around
                   /\ outcome = "FAULT" => "fault" \in budget.around

Publishing == task' = [task EXCEPT !.pc = "publish"]

\* power_policy_step while maintenance owns the board.
StepOwned ==
    /\ task.pc = "step" /\ policy.owner # "NONE"
    /\ policy' = [policy EXCEPT !.pool = pools]
    /\ Publishing /\ NoBoardOperation
    /\ UNCHANGED <<taskStays, marker>>

Stepping(health) == task.pc = "step" /\ policy.owner = "NONE" /\ Occurs(health)
Faulty(health) == policy.fault \/ hwFault \/ health = "FAULT"

StepFaulty(health) ==
    /\ Stepping(health) /\ Faulty(health)
    /\ \E ok \in BOOLEAN :
         StopIf(~policy.stopped, [policy EXCEPT !.pool = pools, !.fault = TRUE], ok)
    /\ Publishing
    /\ UNCHANGED <<taskStays, marker>>

\* begin_cooling up to its stop; the marker is saved, the recovering flag is
\* not yet published.
BeginCooling(p, age, from) ==
    /\ policy' = [p EXCEPT !.cooling = TRUE, !.age = age, !.saved = FALSE]
    /\ marker' = TRUE
    /\ task' = [task EXCEPT !.pc = "coolstop", !.from = from]

\* The cooldown part of power_policy_step, reached at once, returns: no time
\* has passed.
StepOverheats(health) ==
    /\ Stepping(health) /\ ~Faulty(health)
    /\ ~policy.cooling /\ (health = "OVERHEAT" \/ marker)
    /\ BeginCooling([policy EXCEPT !.pool = pools], 0, "step")
    /\ NoBoardOperation
    /\ UNCHANGED taskStays

Started == IF policy.age = Unset THEN 0 ELSE policy.age

\* Mutant: the cooldown is one tick short.
WaitingBriefly(sensors) == \/ ~policy.stopped
                           \/ sensors # "cool"
                           \/ Started < CoolTime - 1

\* The cooldown is not over, or it is not known to be.
Waiting(sensors) == \/ ~policy.stopped
                    \/ sensors # "cool"
                    \/ Started < CoolTime

\* Mutant: recovery does not ask whether anyone wants the board off.
StepRecoversEagerly(health, sensors) ==
    /\ Stepping(health) /\ ~Faulty(health) /\ policy.cooling
    /\ ~Waiting(sensors)
    /\ policy' = [policy EXCEPT !.pool = pools, !.saved = TRUE]
    /\ task' = [task EXCEPT !.pc = "starting", !.from = "cool"]
    /\ fanAllowed' = FALSE
    /\ UNCHANGED <<taskStays, marker, rail>>

\* The cooldown goes on; a hot off-ASIC sensor starts it again.
StepCools(health, sensors) ==
    /\ Stepping(health) /\ ~Faulty(health) /\ policy.cooling
    /\ Waiting(sensors)
    /\ policy' = [policy EXCEPT !.pool = pools,
                                !.age = IF policy.stopped /\ sensors = "hot" THEN 0 ELSE Started]
    /\ Publishing /\ NoBoardOperation
    /\ UNCHANGED <<taskStays, marker>>

\* The cooldown is over: the reduced target is saved, once, and the board is
\* started unless someone wants it off.
StepRecovers(health, sensors) ==
    /\ Stepping(health) /\ ~Faulty(health) /\ policy.cooling
    /\ ~Waiting(sensors)
    /\ \/ /\ ~policy.saved     \* save_target fails
          /\ policy' = [policy EXCEPT !.pool = pools, !.fault = TRUE]
          /\ Publishing
          /\ UNCHANGED fanAllowed
       \/ /\ policy' = [policy EXCEPT !.pool = pools, !.saved = TRUE]
          /\ IF ~policy.ready \/ policy.paused \/ pools
             THEN Publishing /\ UNCHANGED fanAllowed
             ELSE /\ task' = [task EXCEPT !.pc = "starting", !.from = "cool"]
                  /\ fanAllowed' = FALSE
    /\ UNCHANGED <<taskStays, marker, rail>>

\* Neither faulty nor overheated.
Normal(health) == /\ Stepping(health) /\ ~Faulty(health)
                  /\ ~policy.cooling /\ health # "OVERHEAT" /\ ~marker

StepIdle(health) ==
    /\ Normal(health)
    /\ policy.paused \/ pools \/ ~policy.ready
    /\ \E ok \in BOOLEAN : StopIf(~policy.stopped, [policy EXCEPT !.pool = pools], ok)
    /\ Publishing
    /\ UNCHANGED <<taskStays, marker>>

\* Mining is wanted: tune a running board, start one that is not.
StepMines(health) ==
    /\ Normal(health)
    /\ ~policy.paused /\ ~pools /\ policy.ready
    /\ policy' = [policy EXCEPT !.pool = FALSE]
    /\ task' = [task EXCEPT !.from = "step", !.pc = IF policy.running THEN "apply" ELSE "starting"]
    /\ fanAllowed' = (fanAllowed /\ policy.running)
    /\ UNCHANGED <<taskStays, marker, rail>>

\* The board start ends, with or without the supply on.
StartEnds(result) ==
    /\ task.pc = "starting" /\ ioLock = "free" /\ Occurs(result)
    /\ rail' \in IF result = "OK" THEN {"on"} ELSE {"on", "off"}
    /\ task' = [task EXCEPT !.pc = IF result = "FAILED" THEN "abort" ELSE "started",
                            !.result = result]
    /\ UNCHANGED <<policy, taskStays, marker, fanAllowed>>

\* Where a start or a stop on behalf of task.from returns to.
Return(t, success) ==
    IF t.from = "request" THEN [t EXCEPT !.pc = "finish", !.success = success]
                          ELSE [t EXCEPT !.pc = "publish"]

\* Mutant: the proof of the last shutdown survives a start.
StartAcceptedStillStopped ==
    /\ task.pc = "started" /\ task.result = "OK" /\ ~Cancelled
    /\ policy' = [policy EXCEPT !.running = TRUE, !.cooling = @ /\ task.from # "cool"]
    /\ marker' = (marker /\ task.from # "cool")
    /\ task' = IF task.from = "step" THEN [task EXCEPT !.pc = "apply"] ELSE Return(task, TRUE)
    /\ UNCHANGED <<taskStays, fanAllowed, rail>>

\* A good start that nobody cancelled.
StartAccepted ==
    /\ task.pc = "started" /\ task.result = "OK" /\ ~Cancelled
    /\ policy' = [policy EXCEPT !.running = TRUE, !.stopped = FALSE,
                                !.cooling = @ /\ task.from # "cool"]
    /\ marker' = (marker /\ task.from # "cool")
    /\ task' = IF task.from = "step" THEN [task EXCEPT !.pc = "apply"] ELSE Return(task, TRUE)
    /\ UNCHANGED <<taskStays, fanAllowed, rail>>

\* A start that found the board too hot: from power_policy_resume the cooldown
\* clock is set by the next step.
StartOverheats ==
    /\ task.pc = "started" /\ task.result = "OVERHEAT" /\ ~Cancelled
    /\ BeginCooling(policy, IF task.from = "cool" THEN 0 ELSE Unset, task.from)
    /\ UNCHANGED <<taskStays, fanAllowed, rail>>

StartCancelled ==
    /\ task.pc = "started" /\ Cancelled
    /\ task' = [task EXCEPT !.pc = "abort"]
    /\ UNCHANGED <<policy, taskStays, marker, fanAllowed, rail>>

\* apply, and the check after it.
Apply ==
    /\ task.pc = "apply"
    /\ \E ok \in BOOLEAN :
         task' = [task EXCEPT !.pc = IF ~ok \/ Cancelled THEN "abort" ELSE "publish"]
    /\ UNCHANGED <<policy, taskStays, marker, fanAllowed, rail>>

\* Mutant: an aborted start is not shut down.
AbortWithoutStop ==
    /\ task.pc = "abort"
    /\ policy' = [policy EXCEPT !.fault = ~Cancelled]
    /\ NoBoardOperation
    /\ task' = Return(task, FALSE)
    /\ UNCHANGED <<taskStays, marker>>

\* A failed or cancelled start or apply: cancelled() is read once more to tell
\* a failure from a cancellation, and the board is stopped.
Abort ==
    /\ task.pc = "abort"
    /\ \E ok \in BOOLEAN :
         StopIf(TRUE, [policy EXCEPT !.fault = ~Cancelled], ok)
    /\ task' = Return(task, FALSE)
    /\ UNCHANGED <<taskStays, marker>>

\* Mutant: begin_cooling leaves the board as it is.
CoolStopSkipped ==
    /\ task.pc = "coolstop"
    /\ UNCHANGED policy /\ NoBoardOperation
    /\ task' = Return(task, FALSE)
    /\ UNCHANGED <<taskStays, marker>>

\* The stop of begin_cooling.
CoolStop ==
    /\ task.pc = "coolstop"
    /\ \E ok \in BOOLEAN : StopIf(TRUE, policy, ok)
    /\ task' = Return(task, FALSE)
    /\ UNCHANGED <<taskStays, marker>>

\* The end of the loop: what other tasks may see.
Publish ==
    /\ task.pc = "publish"
    /\ recovering' = policy.cooling
    /\ fanAllowed' = (policy.running /\ ~policy.fault /\ ~policy.cooling)
    /\ hwFault' = (hwFault \/ policy.fault)
    /\ task' = InitTask
    /\ UNCHANGED <<policy, epochs, mailbox, maintenance, ioLock, ready, pools, marker, patch,
                   rail, history>>

Task ==
    \/ Begin \/ Receive \/ Pause \/ ResumeAnswered \/ ResumeStarts \/ Acquire \/ Release
    \/ Complete \/ Withdraw \/ Check \/ StepOwned
    \/ \E health \in Health :
         \/ StepFaulty(health) \/ StepOverheats(health) \/ StepIdle(health) \/ StepMines(health)
         \/ \E sensors \in Sensors : StepCools(health, sensors) \/ StepRecovers(health, sensors)
    \/ \E result \in StartResults : StartEnds(result)
    \/ StartAccepted \/ StartOverheats \/ StartCancelled \/ Apply \/ Abort \/ CoolStop
    \/ Publish

-----------------------------------------------------------------------------
(* The other tasks *)

\* POWER_MANAGEMENT_board_io_begin and _end (fan controller, HTTP).
IoBegin ==
    /\ "io" \in budget.around
    /\ ioLock = "free" /\ ~maintenance
    /\ ioLock' = "io"
    /\ UNCHANGED <<policy, task, epochs, mailbox, maintenance, fanAllowed, recovering, world,
                   history>>

IoEnd ==
    /\ ioLock = "io"
    /\ ioLock' = "free"
    /\ UNCHANGED <<policy, task, epochs, mailbox, maintenance, fanAllowed, recovering, world,
                   history>>

\* The settings handler: a request to clear the marker is dropped while recovery
\* is active; otherwise the setting is written later.
SettingsCheck ==
    /\ "settings" \in budget.around
    /\ patch = "none"
    /\ patch' \in {"set"} \union IF recovering THEN {} ELSE {"clear"}
    /\ UNCHANGED <<policy, task, epochs, mailbox, shared, ready, pools, hwFault, marker, rail,
                   history>>

SettingsWrite ==
    /\ patch # "none"
    /\ marker' = (patch = "set")
    /\ patch' = "none"
    /\ UNCHANGED <<policy, task, epochs, mailbox, shared, ready, pools, hwFault, rail, history>>

\* POWER_MANAGEMENT_set_ready.
SetReady ==
    /\ ~ready
    /\ ready' = TRUE
    /\ UNCHANGED <<policy, task, epochs, mailbox, shared, pools, hwFault, marker, patch, rail,
                   history>>

\* The Stratum task loses or finds the pools.
PoolsChange ==
    /\ "pools" \in budget.around
    /\ pools' = ~pools
    /\ UNCHANGED <<policy, task, epochs, mailbox, shared, ready, hwFault, marker, patch, rail,
                   history>>

\* Another task latches a hardware fault (fan, regulator).
HardwareFault ==
    /\ "fault" \in budget.around
    /\ ~hwFault
    /\ hwFault' = TRUE
    /\ UNCHANGED <<policy, task, epochs, mailbox, shared, ready, pools, marker, patch, rail,
                   history>>

\* Time passes; elapsed time beyond the cooldown makes no difference.
Tick ==
    /\ policy.cooling /\ policy.age \in 0 .. CoolTime - 1
    /\ policy' = [policy EXCEPT !.age = @ + 1]
    /\ UNCHANGED <<task, epochs, mailbox, shared, world, history>>

\* The ESP resets: memory is lost, the marker and the supply are not.
Reset ==
    /\ "reset" \in budget.around
    /\ \E failed \in BOOLEAN : policy' = InitPolicy(failed)
    /\ task' = InitTask
    /\ requests' = <<>>
    /\ callers' = [c \in Callers |-> IdleCaller]
    /\ stopEpoch' = 0 /\ accepted' = 0
    /\ maintenance' = FALSE /\ fanAllowed' = FALSE /\ recovering' = FALSE /\ ioLock' = "free"
    /\ ready' = FALSE /\ pools' = FALSE /\ hwFault' = FALSE /\ patch' = "none"
    /\ pausedAt' = 0 /\ resumedAt' = 0 /\ lost' = FALSE
    /\ UNCHANGED <<marker, rail, budget>>

Calling ==
    \E c \in Callers :
        \/ \E kind \in Kinds, owner \in PowerOwners \union {"NONE"} : Call(c, kind, owner)
        \/ CallFails(c) \/ Enqueue(c) \/ CallTimesOut(c) \/ CallReturns(c)

Next ==
    \/ Task \/ Calling
    \/ IoBegin \/ IoEnd \/ SettingsCheck \/ SettingsWrite
    \/ SetReady \/ PoolsChange \/ HardwareFault \/ Tick \/ Reset

Spec == Init /\ [][Next]_vars

\* The power task runs at priority 16 and every board operation is bounded.  It
\* waits for board_io_lock without a timeout and FreeRTOS hands a mutex to the
\* waiter of highest priority, so board I/O sections, which end, cannot shut it
\* out for ever: strong fairness.
FairSpec == Spec /\ SF_vars(Task) /\ WF_vars(IoEnd)

-----------------------------------------------------------------------------
(* Properties *)

PolicyType ==
    [ready : BOOLEAN, pool : BOOLEAN, running : BOOLEAN, stopped : BOOLEAN, paused : BOOLEAN,
     fault : BOOLEAN, cooling : BOOLEAN, saved : BOOLEAN,
     owner : PowerOwners \union {"NONE"}, age : Unset .. CoolTime]

\* Type invariant.
TypeOK ==
    /\ policy \in PolicyType
    /\ Len(requests) <= QueueLength
    /\ \A i \in DOMAIN requests : requests[i].kind \in Kinds /\ requests[i].caller \in Callers
    /\ \A c \in Callers : callers[c].pc \in {"idle", "send", "waiting", "done"}
    /\ stopEpoch \in Nat /\ accepted \in 0 .. stopEpoch
    /\ ioLock \in {"free", "io"} /\ rail \in {"on", "off"}

\* Once a pause has returned true, the supply stays off until a resume that was
\* made after that pause: no older resume, recovery from overheat or return of
\* the pools turns mining on again.
PauseHolds == rail = "on" => resumedAt >= pausedAt

\* A caller that was told it has maintenance does have it, with the supply off,
\* until it gives it back, whatever other callers ask for or give up on.
MaintenanceHeld ==
    \A c \in DOMAIN callers :
        callers[c].holds # "NONE" => policy.owner = callers[c].holds /\ rail = "off"

\* Someone is responsible for maintenance owner o: a caller holds it, is about
\* to be told so or is giving it back, or its release is still to be processed.
Claims(o) ==
    \/ \E c \in DOMAIN callers :
                          \/ callers[c].holds = o
                          \/ callers[c].owner = o /\ callers[c].pc # "idle"
    \/ \E i \in DOMAIN requests : requests[i].kind = "RELEASE" /\ requests[i].owner = o
    \/ task.req.kind # "NONE" /\ task.req.owner = o

\* Maintenance granted to a caller that stopped waiting does not stay behind,
\* and a release whose caller stopped waiting still takes effect: ownership
\* outlives whoever is responsible for it only if a release could not even be
\* enqueued.
MaintenanceClaimed == policy.owner # "NONE" => Claims(policy.owner) \/ lost

\* The same without the exception, which is what the comment in process_request
\* wants to make sure of: an update that has already finished does not retain
\* board ownership.
OwnershipEnds == policy.owner # "NONE" => Claims(policy.owner)

\* policy->stopped, by which later shutdowns are skipped, is never stale: while
\* the task is not inside a start or its undoing, it implies that the supply is
\* off.
StoppedIsOff ==
    policy.stopped /\ task.pc \notin {"starting", "started", "abort", "coolstop"}
        => rail = "off"

\* At the end of every round of the loop the supply is on only for mining that
\* nothing stands against, or a fault is latched.
RoundEndsSafe ==
    task.pc = "publish" /\ rail = "on"
        => \/ policy.fault
           \/ policy.running /\ ~policy.paused /\ ~policy.cooling /\ policy.owner = "NONE"

\* No other task touches the board's buses while maintenance owns it.
IoExclusive == ioLock = "io" => policy.owner = "NONE"

\* The fan controller may leave full speed only while the board mines: the flag
\* published at the end of one round does not outlive a stop or a start that
\* fails in the next.
FanUnderControl == fanAllowed => policy.running /\ ~policy.fault

\* While a cooldown is in force the supply comes on only at its end: the time
\* is over, the reduced target saved, and neither a pause nor maintenance
\* stands against it.
CooledRestart ==
    rail = "off" /\ rail' = "on" /\ policy.cooling
        => policy.age = CoolTime /\ policy.saved /\ ~policy.paused
RecoveryNeedsCooldown == [][CooledRestart]_vars

\* Every wish to stop is met, even one whose request never reached the mailbox:
\* the board is verified off for good, or a fault is latched, unless a newer
\* resume withdraws the wish.
StopMet == (policy.paused /\ policy.stopped) \/ policy.fault \/ ~StopRequested
StopTakesEffect == StopRequested ~> StopMet

\* No caller waits for ever, even one that never gives up.
Unanswered(c) == callers[c].pc = "waiting"
CallsAnswered == \A c \in Callers : Unanswered(c) ~> ~Unanswered(c)
=============================================================================
