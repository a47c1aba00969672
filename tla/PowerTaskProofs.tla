-------------------------- MODULE PowerTaskProofs --------------------------
(***************************************************************************)
(* Proofs, for any number of callers, maintenance owners, queue length and  *)
(* cooldown, that the power task keeps its promises: an acknowledged pause  *)
(* holds, granted maintenance is held and given back, a proof of shutdown   *)
(* is never stale, and a cooldown is served to its end.                     *)
(***************************************************************************)
EXTENDS PowerTask, SequenceTheorems, TLAPS

-----------------------------------------------------------------------------
(* The inductive invariant, in parts *)

Owners == PowerOwners \union {"NONE"}

Requests == [caller : Callers, kind : Kinds, owner : Owners, epoch : Nat, cancelled : BOOLEAN]

Points == {"begin", "drain", "op", "starting", "started", "apply", "abort", "coolstop",
           "finish", "step", "publish"}

Tasks == [pc : Points, req : Requests \union {NoRequest}, success : BOOLEAN,
          from : {"request", "step", "cool"}, result : StartResults]

CallerStates == [pc : {"idle", "send", "waiting", "done"}, kind : Kinds \union {"NONE"},
                 owner : Owners, epoch : Nat, success : BOOLEAN, holds : Owners]

\* What every variable may hold: TypeOK with the contents of the mailbox, of the
\* task and of the callers.
Types ==
    /\ policy \in PolicyType
    /\ task \in Tasks
    /\ requests \in Seq(Requests) /\ Len(requests) <= QueueLength
    /\ callers \in [Callers -> CallerStates]
    /\ stopEpoch \in Nat /\ accepted \in 0 .. stopEpoch
    /\ maintenance \in BOOLEAN /\ fanAllowed \in BOOLEAN /\ recovering \in BOOLEAN
    /\ ioLock \in {"free", "io"} /\ rail \in {"on", "off"}
    /\ ready \in BOOLEAN /\ pools \in BOOLEAN /\ hwFault \in BOOLEAN /\ marker \in BOOLEAN
    /\ pausedAt \in Nat /\ resumedAt \in Nat /\ lost \in BOOLEAN

\* The task is inside a start of the board or its undoing.
Unsettled == {"starting", "started", "abort", "coolstop"}

\* What the policy, the place of the task and the supply have to do with each
\* other.
Board ==
    /\ StoppedIsOff /\ RoundEndsSafe /\ FanUnderControl
    /\ policy.running => ~policy.stopped
    /\ policy.owner # "NONE" => rail = "off"
    /\ task.pc \in Unsettled \union {"apply"} => policy.owner = "NONE"
    /\ task.pc \in {"starting", "started", "apply"} => ~policy.paused
    /\ task.pc = "apply" => policy.running /\ ~policy.cooling
    /\ task.pc \in {"starting", "started"} /\ policy.cooling
         => task.from = "cool" /\ policy.age = CoolTime /\ policy.saved
    /\ policy.cooling /\ task.pc \notin Unsettled => rail = "off" \/ policy.fault

\* A start on behalf of a request is on behalf of a resume; an operation is on
\* behalf of a request, and a caller that sends has one to send.
Errand ==
    /\ task.pc \in Unsettled \union {"apply"} /\ task.from = "request" => task.req.kind = "RESUME"
    /\ task.pc \in {"op", "finish"} => task.req \in Requests
    /\ \A c \in Callers : callers[c].pc = "send" => callers[c].kind \in Kinds

\* Board I/O stays shut out from before maintenance is acquired until it ends.
Shut ==
    /\ IoExclusive
    /\ policy.owner # "NONE" => maintenance
    /\ Operating("ACQUIRE") => maintenance

\* The request is what its caller waits for.
Matches(r) == /\ callers[r.caller].pc = "waiting"
              /\ callers[r.caller].kind = r.kind /\ callers[r.caller].owner = r.owner

\* A request that was not withdrawn is the only one of a caller that waits.
Mail ==
    /\ \A i \in 1 .. Len(requests) : ~requests[i].cancelled => Matches(requests[i])
    /\ task.req \in Requests /\ ~task.req.cancelled => Matches(task.req)
    /\ \A i, j \in 1 .. Len(requests) :
          /\ requests[i].caller = requests[j].caller
          /\ ~requests[i].cancelled /\ ~requests[j].cancelled
          => i = j
    /\ \A i \in 1 .. Len(requests) :
          task.req \in Requests /\ ~task.req.cancelled /\ ~requests[i].cancelled
          => requests[i].caller # task.req.caller

\* The right to maintenance is in one place: with a caller that holds it, was
\* granted it or is about to give it back, in a release in the mailbox, or with
\* the task, which has just acquired or is about to release.
WithCaller(c) ==
    \/ callers[c].holds # "NONE"
    \/ callers[c].pc = "done" /\ callers[c].kind = "ACQUIRE" /\ callers[c].success
    \/ callers[c].pc = "send" /\ callers[c].kind = "RELEASE"
RightOf(c) == IF callers[c].holds # "NONE" THEN callers[c].holds ELSE callers[c].owner
InMailbox(i) == requests[i].kind = "RELEASE"
WithTask == \/ Operating("RELEASE")
            \/ task.pc = "finish" /\ task.req.kind = "ACQUIRE" /\ task.success

\* The right is that of the owner on record, and nobody else has it.
Rights ==
    /\ \A c \in Callers :
          /\ callers[c].holds # "NONE" => callers[c].pc = "idle"
          /\ callers[c].kind \in {"ACQUIRE", "RELEASE"} => callers[c].owner # "NONE"
          /\ WithCaller(c) => policy.owner = RightOf(c) /\ policy.owner # "NONE" /\ ~WithTask
          /\ \A d \in Callers : WithCaller(c) /\ WithCaller(d) => c = d
    /\ \A i \in 1 .. Len(requests) :
          /\ requests[i].kind \in {"ACQUIRE", "RELEASE"} => requests[i].owner # "NONE"
          /\ InMailbox(i) => /\ policy.owner = requests[i].owner /\ ~WithTask
                             /\ \A c \in Callers : ~WithCaller(c)
                             /\ \A j \in 1 .. Len(requests) : InMailbox(j) => i = j
    /\ task.req.kind \in {"ACQUIRE", "RELEASE"} => task.req.owner # "NONE"
    /\ WithTask => policy.owner = task.req.owner

\* Ownership without anybody who has the right to it is a lost release.
Accounted ==
    policy.owner # "NONE" =>
        \/ lost \/ WithTask
        \/ \E c \in Callers : WithCaller(c)
        \/ \E i \in 1 .. Len(requests) : InMailbox(i)

\* A resume carries an epoch no newer than the newest resume; one that is being
\* acted on is newer than every acknowledged pause.
Epochs ==
    /\ PauseHolds
    /\ ~policy.paused => resumedAt >= pausedAt
    /\ pausedAt <= stopEpoch /\ resumedAt <= stopEpoch
    /\ \A c \in Callers : callers[c].pc = "send" =>
          /\ callers[c].epoch <= stopEpoch
          /\ callers[c].kind = "RESUME" => callers[c].epoch <= resumedAt
    /\ \A i \in 1 .. Len(requests) :
          /\ requests[i].epoch <= stopEpoch
          /\ requests[i].kind = "RESUME" => requests[i].epoch <= resumedAt
    /\ task.req \in Requests =>
          /\ task.req.epoch <= stopEpoch
          /\ task.req.kind = "RESUME" => task.req.epoch <= resumedAt
    /\ Operating("RESUME") => pausedAt <= task.req.epoch
    /\ task.pc = "finish" /\ task.req.kind = "PAUSE" /\ task.success
         => rail = "off" /\ policy.paused

IInv == Types /\ Board /\ Errand /\ Shut /\ Mail /\ Rights /\ Accounted /\ Epochs

-----------------------------------------------------------------------------
(* Lemmas about the operators of the model *)

\* Taking the head of the mailbox keeps the rest (xQueueReceive).
LEMMA TailOfMailbox ==
    ASSUME NEW q \in Seq(Requests), q # <<>>
    PROVE  /\ Tail(q) \in Seq(Requests)
           /\ Len(q) \in Nat /\ Len(Tail(q)) = Len(q) - 1
           /\ 1 \in 1 .. Len(q) /\ Head(q) = q[1] /\ Head(q) \in Requests
           /\ \A i \in 1 .. Len(Tail(q)) : i + 1 \in 1 .. Len(q) /\ Tail(q)[i] = q[i + 1]
<1>1. Len(q) \in Nat /\ Len(q) > 0
  BY EmptySeq, LenProperties
<1>2. Head(q) = q[1]
  OBVIOUS
<1>3. /\ Tail(q) \in Seq(Requests) /\ Head(q) \in Requests
      /\ Len(Tail(q)) = Len(q) - 1
      /\ \A i \in 1 .. Len(Tail(q)) : Tail(q)[i] = q[i + 1]
  BY HeadTailProperties
<1> QED
  BY <1>1, <1>2, <1>3

\* Adding a request keeps the others and adds only that one (xQueueSend).
LEMMA AppendToMailbox ==
    ASSUME NEW q \in Seq(Requests), NEW r \in Requests
    PROVE  /\ Append(q, r) \in Seq(Requests)
           /\ Len(q) \in Nat /\ Len(Append(q, r)) = Len(q) + 1
           /\ \A i \in 1 .. Len(q) : i \in 1 .. Len(q) + 1 /\ Append(q, r)[i] = q[i]
           /\ Append(q, r)[Len(q) + 1] = r
           /\ \A i \in 1 .. Len(q) + 1 : i \in 1 .. Len(q) \/ i = Len(q) + 1
<1>1. Len(q) \in Nat
  BY LenProperties
<1>2. /\ Append(q, r) \in Seq(Requests)
      /\ Len(Append(q, r)) = Len(q) + 1
      /\ \A i \in 1 .. Len(q) : Append(q, r)[i] = q[i]
      /\ Append(q, r)[Len(q) + 1] = r
  BY AppendProperties
<1> QED
  BY <1>1, <1>2

\* A request taken back by its caller keeps everything but the mark, and only the
\* requests of that caller get it (request->cancelled).
LEMMA WithdrawnRequest ==
    ASSUME NEW c \in Callers, NEW r \in Requests
    PROVE  /\ Withdrawn(r, c) \in Requests
           /\ Withdrawn(r, c).caller = r.caller /\ Withdrawn(r, c).kind = r.kind
           /\ Withdrawn(r, c).owner = r.owner /\ Withdrawn(r, c).epoch = r.epoch
           /\ Withdrawn(r, c).cancelled \in BOOLEAN
           /\ r.cancelled \/ r.caller = c => Withdrawn(r, c).cancelled
           /\ ~r.cancelled /\ r.caller # c => Withdrawn(r, c) = r
  BY DEF Withdrawn, Awaited, Requests, Kinds

\* Taking back the requests of a caller leaves the mailbox as it is otherwise.
LEMMA WithdrawnMailbox ==
    ASSUME NEW c \in Callers, NEW q \in Seq(Requests),
           NEW w, w = [i \in DOMAIN q |-> Withdrawn(q[i], c)]
    PROVE  /\ w \in Seq(Requests) /\ Len(w) = Len(q)
           /\ \A i \in 1 .. Len(q) : q[i] \in Requests /\ w[i] = Withdrawn(q[i], c)
<1>1. Len(q) \in Nat /\ DOMAIN q = 1 .. Len(q) /\ \A i \in 1 .. Len(q) : q[i] \in Requests
  BY LenProperties, ElementOfSeq
<1>2. w \in [1 .. Len(q) -> Requests]
  BY <1>1, WithdrawnRequest
<1>3. w \in Seq(Requests)
  BY <1>1, <1>2, SeqDef
<1>4. Len(w) = Len(q)
  BY <1>1, <1>2, <1>3, LenProperties
<1> QED
  BY <1>1, <1>3, <1>4

\* The task keeps its form when its caller takes the request back.
LEMMA WithdrawnTask ==
    ASSUME NEW c \in Callers, NEW r \in Requests \union {NoRequest}
    PROVE  /\ r = NoRequest => Withdrawn(r, c) = NoRequest
           /\ Withdrawn(r, c) \in Requests \union {NoRequest}
           /\ Withdrawn(r, c).kind = r.kind
           /\ Withdrawn(r, c) \in Requests <=> r \in Requests
           /\ NoRequest \notin Requests
<1>1. NoRequest.kind = "NONE" /\ \A x \in Requests : x.kind # "NONE"
  BY DEF NoRequest, Requests, Kinds
<1>2. CASE r = NoRequest
  BY <1>1, <1>2 DEF Withdrawn, Awaited
<1>3. CASE r \in Requests
  BY <1>1, <1>3, WithdrawnRequest
<1> QED
  BY <1>2, <1>3

-----------------------------------------------------------------------------
(* Lemmas about the policy record *)

\* stop(): the board does not run afterwards, and is believed off only when its
\* verdict was good; a bad one is a fault.
LEMMA StoppedPolicy ==
    ASSUME NEW p \in PolicyType, NEW ok \in BOOLEAN
    PROVE  /\ Stopped(p, ok) \in PolicyType
           /\ Stopped(p, ok).ready = p.ready /\ Stopped(p, ok).pool = p.pool
           /\ Stopped(p, ok).paused = p.paused /\ Stopped(p, ok).cooling = p.cooling
           /\ Stopped(p, ok).saved = p.saved /\ Stopped(p, ok).owner = p.owner
           /\ Stopped(p, ok).age = p.age
           /\ ~Stopped(p, ok).running /\ Stopped(p, ok).stopped = ok
           /\ p.fault => Stopped(p, ok).fault
           /\ ~ok => Stopped(p, ok).fault
  BY ZenonT(60) DEF Stopped, PolicyType

\* The stop of the policy and of the board together (StopIf): nothing but the
\* run state, the fault and the supply changes, and the supply only goes off.
LEMMA StopEffect ==
    ASSUME NEW p \in PolicyType, NEW needed \in BOOLEAN, NEW ok \in BOOLEAN,
           rail \in {"on", "off"}, fanAllowed \in BOOLEAN,
           StopIf(needed, p, ok)
    PROVE  /\ policy' \in PolicyType /\ rail' \in {"on", "off"} /\ fanAllowed' \in BOOLEAN
           /\ policy'.paused = p.paused /\ policy'.cooling = p.cooling
           /\ policy'.saved = p.saved /\ policy'.owner = p.owner /\ policy'.age = p.age
           /\ p.fault => policy'.fault
           /\ rail = "off" => rail' = "off"
           /\ needed => /\ ~policy'.running /\ ~fanAllowed'
                        /\ policy'.stopped = ok
                        /\ ok => rail' = "off"
                        /\ ~ok => policy'.fault
           /\ ~needed => policy' = p /\ rail' = rail /\ fanAllowed' = fanAllowed
<1>1. CASE needed
  <2>1. policy' = Stopped(p, ok) /\ BoardStop(ok)
    BY <1>1 DEF StopIf
  <2>2. /\ rail' \in {"on", "off"} /\ fanAllowed' = FALSE
        /\ rail = "off" => rail' = "off"
        /\ ok => rail' = "off"
    BY <2>1 DEF BoardStop
  <2> QED
    BY <1>1, <2>1, <2>2, StoppedPolicy
<1>2. CASE ~needed
  BY <1>2 DEF StopIf, NoBoardOperation
<1> QED
  BY <1>1, <1>2

\* release(): ownership ends, a bad verdict is a fault and the board is no longer
\* believed off.
LEMMA ReleasedPolicy ==
    ASSUME NEW p \in PolicyType, NEW ok \in BOOLEAN
    PROVE  /\ Released(p, ok) \in PolicyType
           /\ Released(p, ok).paused = p.paused /\ Released(p, ok).cooling = p.cooling
           /\ Released(p, ok).saved = p.saved /\ Released(p, ok).age = p.age
           /\ Released(p, ok).running = p.running
           /\ Released(p, ok).owner = "NONE"
           /\ p.fault => Released(p, ok).fault
           /\ ~ok => Released(p, ok).fault
           /\ Released(p, ok).stopped => p.stopped
  BY ZenonT(60) DEF Released, PolicyType

\* The fields of a record of the policy that only has other wishes: paused, pool.
LEMMA WishesPolicy ==
    ASSUME NEW p \in PolicyType, NEW b \in BOOLEAN
    PROVE  /\ [p EXCEPT !.paused = b] \in PolicyType
           /\ [p EXCEPT !.paused = b].paused = b
           /\ [p EXCEPT !.paused = b].owner = p.owner
           /\ [p EXCEPT !.paused = b].stopped = p.stopped
           /\ [p EXCEPT !.paused = b].running = p.running
           /\ [p EXCEPT !.paused = b].fault = p.fault
           /\ [p EXCEPT !.paused = b].cooling = p.cooling
           /\ [p EXCEPT !.paused = b].saved = p.saved
           /\ [p EXCEPT !.paused = b].age = p.age
           /\ [p EXCEPT !.pool = b] \in PolicyType
           /\ [p EXCEPT !.pool = b].paused = p.paused
           /\ [p EXCEPT !.pool = b].owner = p.owner
           /\ [p EXCEPT !.pool = b].stopped = p.stopped
           /\ [p EXCEPT !.pool = b].running = p.running
           /\ [p EXCEPT !.pool = b].fault = p.fault
           /\ [p EXCEPT !.pool = b].cooling = p.cooling
           /\ [p EXCEPT !.pool = b].saved = p.saved
           /\ [p EXCEPT !.pool = b].age = p.age
  BY DEF PolicyType
-----------------------------------------------------------------------------
(* What the operations on the board do, field by field *)

\* The fields of the task record after an operation for a request.
LEMMA DoneTask ==
    ASSUME task \in Tasks, NEW s \in BOOLEAN, Done(s)
    PROVE  /\ task' \in Tasks /\ task'.pc = "finish" /\ task'.success = s
           /\ task'.req = task.req /\ task'.from = task.from
  BY DEF Done, Tasks, Points

\* The request the task works on is one of the mailbox.
LEMMA RequestOfTask ==
    ASSUME task \in Tasks, Errand, task.pc \in {"op", "finish"}
    PROVE  /\ task.req \in Requests /\ task.req.owner \in Owners /\ task.req.caller \in Callers
           /\ task.req.kind \in Kinds /\ task.req.epoch \in Nat
           /\ task.req.cancelled \in BOOLEAN
  BY DEF Errand, Requests

\* power_policy_pause.
LEMMA PauseEffect ==
    ASSUME Types, Pause
    PROVE  /\ policy' \in PolicyType /\ rail' \in {"on", "off"} /\ fanAllowed' \in BOOLEAN
           /\ task' \in Tasks /\ task'.pc = "finish" /\ task'.req = task.req
           /\ policy'.paused /\ policy'.cooling = policy.cooling /\ policy'.saved = policy.saved
           /\ policy'.age = policy.age /\ policy'.owner = policy.owner
           /\ policy.fault => policy'.fault
           /\ rail = "off" => rail' = "off"
           /\ policy.owner = "NONE" =>
                /\ ~policy'.running /\ ~fanAllowed'
                /\ rail' = "on" => ~policy'.stopped /\ policy'.fault
           /\ policy.owner # "NONE" =>
                /\ policy'.running = policy.running /\ policy'.stopped = policy.stopped
                /\ policy'.fault = policy.fault
                /\ rail' = rail /\ fanAllowed' = fanAllowed
           /\ task'.success => rail' = "off"
<1> DEFINE p == [policy EXCEPT !.paused = TRUE]
           none == policy.owner = "NONE"
<1>1. PICK ok \in BOOLEAN : StopIf(none, p, ok) /\ Done(none /\ ok)
  BY Zenon DEF Pause
<1>2. /\ p \in PolicyType /\ p.paused /\ p.owner = policy.owner /\ p.stopped = policy.stopped
      /\ p.running = policy.running /\ p.fault = policy.fault /\ p.cooling = policy.cooling
      /\ p.saved = policy.saved /\ p.age = policy.age
  BY WishesPolicy DEF Types
<1>3. none \in BOOLEAN /\ (none /\ ok) \in BOOLEAN /\ (none <=> policy.owner = "NONE")
  OBVIOUS
<1> HIDE DEF p, none
<1>4. /\ policy' \in PolicyType /\ rail' \in {"on", "off"} /\ fanAllowed' \in BOOLEAN
      /\ policy'.paused = p.paused /\ policy'.cooling = p.cooling
      /\ policy'.saved = p.saved /\ policy'.owner = p.owner /\ policy'.age = p.age
      /\ p.fault => policy'.fault
      /\ rail = "off" => rail' = "off"
      /\ none => /\ ~policy'.running /\ ~fanAllowed'
                 /\ policy'.stopped = ok
                 /\ ok => rail' = "off"
                 /\ ~ok => policy'.fault
      /\ ~none => policy' = p /\ rail' = rail /\ fanAllowed' = fanAllowed
  BY <1>1, <1>2, <1>3, StopEffect, ZenonT(60) DEF Types
<1>5. /\ task' \in Tasks /\ task'.pc = "finish" /\ task'.success = (none /\ ok)
      /\ task'.req = task.req
  BY <1>1, <1>3, DoneTask DEF Types
<1>6. task'.success => none /\ ok
  BY <1>5, Zenon
<1> QED
  BY <1>2, <1>3, <1>4, <1>5, <1>6

\* power_policy_maintenance, acquire.
LEMMA AcquireEffect ==
    ASSUME Types, Errand, Acquire
    PROVE  /\ policy' \in PolicyType /\ rail' \in {"on", "off"} /\ fanAllowed' \in BOOLEAN
           /\ task' \in Tasks /\ task'.pc = "finish" /\ task'.req = task.req
           /\ policy'.cooling = policy.cooling /\ policy'.saved = policy.saved
           /\ policy'.age = policy.age
           /\ policy.fault => policy'.fault
           /\ policy.paused => policy'.paused
           /\ rail = "off" => rail' = "off"
           /\ policy.owner = "NONE" =>
                /\ ~policy'.running /\ ~fanAllowed'
                /\ ioLock = "free"
                /\ rail' = "on" => ~policy'.stopped /\ policy'.fault
                /\ task'.success => rail' = "off" /\ policy'.owner = task.req.owner
                /\ ~task'.success => policy'.owner = "NONE"
           /\ policy.owner # "NONE" =>
                /\ policy' = policy /\ rail' = rail /\ fanAllowed' = fanAllowed
                /\ ~task'.success
<1>1. CASE policy.owner # "NONE"
  <2>1. Done(FALSE) /\ UNCHANGED policy /\ NoBoardOperation
    BY <1>1, Zenon DEF Acquire
  <2>2. /\ task' \in Tasks /\ task'.pc = "finish" /\ task'.success = FALSE
        /\ task'.req = task.req
    BY <2>1, DoneTask DEF Types
  <2> QED
    BY <1>1, <2>1, <2>2 DEF NoBoardOperation, Types
<1>2. CASE policy.owner = "NONE"
  <2>1. PICK ok \in BOOLEAN :
          /\ policy' = [policy EXCEPT !.paused = TRUE, !.running = FALSE, !.stopped = ok,
                                      !.owner = IF ok THEN task.req.owner ELSE "NONE",
                                      !.fault = @ \/ ~ok]
          /\ BoardStop(ok)
          /\ Done(ok)
    BY <1>2, Zenon DEF Acquire
  <2>2. task.req.owner \in Owners
    BY RequestOfTask DEF Acquire, Operating, Types
  <2>3. /\ task' \in Tasks /\ task'.pc = "finish" /\ task'.success = ok
        /\ task'.req = task.req
    BY <2>1, DoneTask DEF Types
  <2>4. /\ rail' \in {"on", "off"} /\ fanAllowed' = FALSE /\ ioLock = "free"
        /\ rail = "off" => rail' = "off"
        /\ ok => rail' = "off"
    BY <2>1 DEF BoardStop, Types
  <2>5. /\ policy'.cooling = policy.cooling /\ policy'.saved = policy.saved
        /\ policy'.age = policy.age /\ policy'.paused /\ ~policy'.running
        /\ policy'.stopped = ok
        /\ policy'.owner = (IF ok THEN task.req.owner ELSE "NONE")
        /\ policy.fault => policy'.fault
        /\ ~ok => policy'.fault
        /\ policy' \in PolicyType
    BY <2>1, <2>2, ZenonT(60) DEF Types, PolicyType, Owners
  <2> QED
    BY <1>2, <2>3, <2>4, <2>5
<1> QED
  BY <1>1, <1>2

\* power_policy_maintenance, release.
LEMMA ReleaseEffect ==
    ASSUME Types, Release
    PROVE  /\ policy' \in PolicyType /\ rail' = rail /\ fanAllowed' \in BOOLEAN
           /\ task' \in Tasks /\ task'.pc = "finish" /\ task'.req = task.req
           /\ policy'.cooling = policy.cooling /\ policy'.saved = policy.saved
           /\ policy'.age = policy.age /\ policy'.paused = policy.paused
           /\ policy'.running = policy.running
           /\ policy.fault => policy'.fault
           /\ policy'.stopped => policy.stopped
           /\ fanAllowed' => fanAllowed /\ policy' = policy
           /\ policy.owner = task.req.owner => policy'.owner = "NONE"
           /\ policy.owner # task.req.owner => policy' = policy
<1>1. CASE policy.owner # task.req.owner
  <2>1. Done(FALSE) /\ UNCHANGED policy /\ NoBoardOperation
    BY <1>1, Zenon DEF Release
  <2>2. /\ task' \in Tasks /\ task'.pc = "finish" /\ task'.success = FALSE
        /\ task'.req = task.req
    BY <2>1, DoneTask DEF Types
  <2> QED
    BY <1>1, <2>1, <2>2 DEF NoBoardOperation, Types
<1>2. CASE policy.owner = task.req.owner
  <2>1. PICK ok \in BOOLEAN :
          policy' = Released(policy, ok) /\ Done(ok) /\ fanAllowed' = FALSE /\ UNCHANGED rail
    BY <1>2, Zenon DEF Release
  <2>2. /\ task' \in Tasks /\ task'.pc = "finish" /\ task'.success = ok
        /\ task'.req = task.req
    BY <2>1, DoneTask DEF Types
  <2> QED
    BY <1>2, <2>1, <2>2, ReleasedPolicy, ZenonT(60) DEF Types
<1> QED
  BY <1>1, <1>2

\* The end of process_request when the caller left first.
LEMMA WithdrawEffect ==
    ASSUME Types, Withdraw
    PROVE  /\ policy' \in PolicyType /\ rail' \in {"on", "off"} /\ fanAllowed' \in BOOLEAN
           /\ policy'.cooling = policy.cooling /\ policy'.saved = policy.saved
           /\ policy'.age = policy.age
           /\ policy.paused => policy'.paused
           /\ policy.fault => policy'.fault
           /\ rail = "off" => rail' = "off"
           /\ maintenance' = (policy'.owner # "NONE")
           /\ task.success /\ task.req.kind = "ACQUIRE" => policy'.owner = "NONE"
           /\ policy'.owner = "NONE" =>
                /\ ~policy'.running /\ ~fanAllowed'
                /\ rail' = "on" => ~policy'.stopped /\ policy'.fault
           /\ policy'.owner # "NONE" =>
                policy' = policy /\ rail' = rail /\ fanAllowed' = fanAllowed
           /\ ~(task.success /\ task.req.kind = "ACQUIRE") => policy'.owner = policy.owner
<1> DEFINE granted == task.success /\ task.req.kind = "ACQUIRE"
           p(r) == IF granted THEN Released(policy, r) ELSE policy
           idle(r) == p(r).owner = "NONE"
           q(r) == IF idle(r) THEN [p(r) EXCEPT !.paused = TRUE] ELSE p(r)
<1>1. PICK ok \in BOOLEAN, r \in BOOLEAN :
        StopIf(idle(r), q(r), ok) /\ maintenance' = (policy'.owner # "NONE")
  BY Zenon DEF Withdraw
<1>2. /\ p(r) \in PolicyType
      /\ p(r).paused = policy.paused /\ p(r).cooling = policy.cooling
      /\ p(r).saved = policy.saved /\ p(r).age = policy.age
      /\ policy.fault => p(r).fault
      /\ granted => p(r).owner = "NONE"
      /\ ~granted => p(r) = policy
  BY ReleasedPolicy, ZenonT(60) DEF Types
<1> HIDE DEF p, granted
<1>3. /\ q(r) \in PolicyType
      /\ p(r).paused => q(r).paused
      /\ q(r).cooling = p(r).cooling
      /\ q(r).saved = p(r).saved /\ q(r).age = p(r).age /\ q(r).fault = p(r).fault
      /\ q(r).owner = p(r).owner
      /\ ~idle(r) => q(r) = p(r)
  BY <1>2, WishesPolicy
<1>4. idle(r) \in BOOLEAN /\ (idle(r) <=> p(r).owner = "NONE")
  OBVIOUS
<1> HIDE DEF q, idle
<1>5. /\ policy' \in PolicyType /\ rail' \in {"on", "off"} /\ fanAllowed' \in BOOLEAN
      /\ policy'.paused = q(r).paused /\ policy'.cooling = q(r).cooling
      /\ policy'.saved = q(r).saved /\ policy'.owner = q(r).owner /\ policy'.age = q(r).age
      /\ q(r).fault => policy'.fault
      /\ rail = "off" => rail' = "off"
      /\ idle(r) => /\ ~policy'.running /\ ~fanAllowed'
                    /\ policy'.stopped = ok
                    /\ ok => rail' = "off"
                    /\ ~ok => policy'.fault
      /\ ~idle(r) => policy' = q(r) /\ rail' = rail /\ fanAllowed' = fanAllowed
  BY <1>1, <1>3, <1>4, StopEffect DEF Types
<1>6. granted <=> task.success /\ task.req.kind = "ACQUIRE"
  BY DEF granted
<1> QED
  BY <1>1, <1>2, <1>3, <1>4, <1>5, <1>6

\* What Check, StepFaulty, StepIdle, Abort and CoolStop have in common: a policy p
\* with the ownership and the cooldown of the present one is stopped if need be.
OnlyStops(needed, p) ==
    /\ policy' \in PolicyType /\ rail' \in {"on", "off"} /\ fanAllowed' \in BOOLEAN
    /\ policy'.cooling = policy.cooling /\ policy'.saved = policy.saved
    /\ policy'.owner = policy.owner /\ policy'.age = policy.age
    /\ policy'.paused = p.paused
    /\ p.fault => policy'.fault
    /\ rail = "off" => rail' = "off"
    /\ needed => /\ ~policy'.running /\ ~fanAllowed'
                 /\ rail' = "on" => ~policy'.stopped /\ policy'.fault
    /\ ~needed => policy' = p /\ rail' = rail /\ fanAllowed' = fanAllowed

\* Stopping such a policy does no more.
LEMMA OnlyStopsEffect ==
    ASSUME Types, NEW needed \in BOOLEAN, NEW ok \in BOOLEAN, NEW p \in PolicyType,
           p.cooling = policy.cooling, p.saved = policy.saved, p.owner = policy.owner,
           p.age = policy.age, StopIf(needed, p, ok)
    PROVE  OnlyStops(needed, p)
<1>1. rail \in {"on", "off"} /\ fanAllowed \in BOOLEAN
  BY DEF Types
<1>2. /\ policy' \in PolicyType /\ rail' \in {"on", "off"} /\ fanAllowed' \in BOOLEAN
      /\ policy'.paused = p.paused /\ policy'.cooling = p.cooling
      /\ policy'.saved = p.saved /\ policy'.owner = p.owner /\ policy'.age = p.age
      /\ p.fault => policy'.fault
      /\ rail = "off" => rail' = "off"
      /\ needed => /\ ~policy'.running /\ ~fanAllowed'
                   /\ policy'.stopped = ok
                   /\ ok => rail' = "off"
                   /\ ~ok => policy'.fault
      /\ ~needed => policy' = p /\ rail' = rail /\ fanAllowed' = fanAllowed
  BY <1>1, StopEffect
<1> QED
  BY <1>1, <1>2 DEF OnlyStops

\* The stop intent found with an empty mailbox.
LEMMA CheckEffect ==
    ASSUME Types, Check
    PROVE  \E needed \in BOOLEAN, p \in PolicyType :
              /\ OnlyStops(needed, p)
              /\ needed => policy.owner = "NONE" /\ p.paused
              /\ policy.paused => p.paused
              /\ policy.fault => p.fault
              /\ ~needed => p = policy
<1> DEFINE due == StopRequested /\ ~policy.paused /\ policy.owner = "NONE"
           p == IF due THEN [policy EXCEPT !.paused = TRUE] ELSE policy
<1>1. PICK ok \in BOOLEAN : StopIf(due, p, ok)
  BY Zenon DEF Check
<1>2. /\ p \in PolicyType /\ p.owner = policy.owner /\ p.fault = policy.fault
      /\ p.cooling = policy.cooling /\ p.saved = policy.saved /\ p.age = policy.age
      /\ policy.paused => p.paused
      /\ due => p.paused
      /\ ~due => p = policy
  BY WishesPolicy DEF Types
<1>3. due \in BOOLEAN /\ (due => policy.owner = "NONE")
  OBVIOUS
<1> HIDE DEF due, p
<1>4. OnlyStops(due, p)
  BY <1>1, <1>2, <1>3, OnlyStopsEffect
<1> QED
  BY <1>2, <1>3, <1>4

\* power_policy_step on a fault.
LEMMA StepFaultyEffect ==
    ASSUME Types, NEW h \in Health, StepFaulty(h)
    PROVE  \E p \in PolicyType : /\ OnlyStops(~policy.stopped, p)
                                 /\ p.fault /\ p.paused = policy.paused
                                 /\ p.stopped = policy.stopped /\ p.running = policy.running
<1> DEFINE p == [policy EXCEPT !.pool = pools, !.fault = TRUE]
           needed == ~policy.stopped
<1>1. PICK ok \in BOOLEAN : StopIf(needed, p, ok)
  BY Zenon DEF StepFaulty
<1>2. /\ p \in PolicyType /\ p.owner = policy.owner /\ p.fault
      /\ p.cooling = policy.cooling /\ p.saved = policy.saved /\ p.age = policy.age
      /\ p.paused = policy.paused
      /\ p.stopped = policy.stopped /\ p.running = policy.running
  BY DEF Types, PolicyType
<1>3. needed \in BOOLEAN
  OBVIOUS
<1> HIDE DEF p, needed
<1>4. OnlyStops(needed, p)
  BY <1>1, <1>2, <1>3, OnlyStopsEffect
<1> QED
  BY <1>2, <1>4 DEF needed

\* power_policy_step while nobody wants mining.
LEMMA StepIdleEffect ==
    ASSUME Types, NEW h \in Health, StepIdle(h)
    PROVE  \E p \in PolicyType : /\ OnlyStops(~policy.stopped, p)
                                 /\ p.fault = policy.fault /\ p.paused = policy.paused
                                 /\ p.stopped = policy.stopped /\ p.running = policy.running
<1> DEFINE p == [policy EXCEPT !.pool = pools]
           needed == ~policy.stopped
<1>1. PICK ok \in BOOLEAN : StopIf(needed, p, ok)
  BY Zenon DEF StepIdle
<1>2. /\ p \in PolicyType /\ p.owner = policy.owner /\ p.fault = policy.fault
      /\ p.cooling = policy.cooling /\ p.saved = policy.saved /\ p.age = policy.age
      /\ p.paused = policy.paused
      /\ p.stopped = policy.stopped /\ p.running = policy.running
  BY DEF Types, PolicyType
<1>3. needed \in BOOLEAN
  OBVIOUS
<1> HIDE DEF p, needed
<1>4. OnlyStops(needed, p)
  BY <1>1, <1>2, <1>3, OnlyStopsEffect
<1> QED
  BY <1>2, <1>4 DEF needed

\* A start or an apply that came to nothing, and the stop of begin_cooling.
LEMMA UndoEffect ==
    ASSUME Types, Abort \/ CoolStop
    PROVE  \E p \in PolicyType : OnlyStops(TRUE, p) /\ p.paused = policy.paused
<1>1. CASE Abort
  <2> DEFINE p == [policy EXCEPT !.fault = ~Cancelled]
  <2>1. PICK ok \in BOOLEAN : StopIf(TRUE, p, ok)
    BY <1>1, Zenon DEF Abort
  <2>2. (~Cancelled) \in BOOLEAN
    BY DEF Cancelled
  <2>3. /\ p \in PolicyType /\ p.owner = policy.owner /\ p.paused = policy.paused
        /\ p.cooling = policy.cooling /\ p.saved = policy.saved /\ p.age = policy.age
    BY <2>2 DEF Types, PolicyType
  <2> HIDE DEF p
  <2>4. OnlyStops(TRUE, p)
    BY <2>1, <2>3, OnlyStopsEffect
  <2> QED
    BY <2>3, <2>4
<1>2. CASE CoolStop
  <2>1. PICK ok \in BOOLEAN : StopIf(TRUE, policy, ok)
    BY <1>2, Zenon DEF CoolStop
  <2>2. policy \in PolicyType
    BY DEF Types
  <2>3. OnlyStops(TRUE, policy)
    BY <2>1, <2>2, OnlyStopsEffect
  <2> QED
    BY <2>2, <2>3
<1> QED
  BY <1>1, <1>2
-----------------------------------------------------------------------------
(* Types *)

\* The cooldown clock: not set, just set, and run down.
LEMMA ClockRange ==
    /\ Unset \in Unset .. CoolTime /\ 0 \in Unset .. CoolTime
    /\ CoolTime \in Unset .. CoolTime
    /\ \A a \in Unset .. CoolTime : a # Unset => a \in 0 .. CoolTime
  BY PowerTaskAssumption DEF PowerTaskAssumption, Unset

\* Every step of the task keeps the policy record what it is.
LEMMA PolicyTyped ==
    ASSUME Types, Errand, Task
    PROVE  policy' \in PolicyType
<1>1. CASE Begin
  BY <1>1 DEF Begin, Types, PolicyType
<1>2. CASE Receive
  BY <1>2 DEF Receive, Types
<1>3. CASE Pause
  BY <1>3, PauseEffect
<1>4. CASE ResumeAnswered
  BY <1>4 DEF ResumeAnswered, Types, PolicyType
<1>5. CASE ResumeStarts
  BY <1>5 DEF ResumeStarts, Types, PolicyType
<1>6. CASE Acquire
  BY <1>6, AcquireEffect
<1>7. CASE Release
  BY <1>7, ReleaseEffect
<1>8. CASE Complete
  BY <1>8 DEF Complete, Types
<1>9. CASE Withdraw
  BY <1>9, WithdrawEffect
<1>10. CASE Check
  BY <1>10, CheckEffect DEF OnlyStops
<1>11. CASE StepOwned
  BY <1>11 DEF StepOwned, Types, PolicyType
<1>12. ASSUME NEW h \in Health, StepFaulty(h) PROVE policy' \in PolicyType
  BY <1>12, StepFaultyEffect DEF OnlyStops
<1>13. ASSUME NEW h \in Health, StepOverheats(h) PROVE policy' \in PolicyType
  BY <1>13, ClockRange DEF StepOverheats, BeginCooling, Types, PolicyType
<1>14. ASSUME NEW h \in Health, StepIdle(h) PROVE policy' \in PolicyType
  BY <1>14, StepIdleEffect DEF OnlyStops
<1>15. ASSUME NEW h \in Health, StepMines(h) PROVE policy' \in PolicyType
  BY <1>15 DEF StepMines, Types, PolicyType
<1>16. ASSUME NEW h \in Health, NEW t \in Sensors, StepCools(h, t) PROVE policy' \in PolicyType
  <2> DEFINE a == IF policy.stopped /\ t = "hot" THEN 0 ELSE Started
  <2>1. a \in Unset .. CoolTime
    BY ClockRange DEF Types, PolicyType, Started
  <2>2. policy' = [policy EXCEPT !.pool = pools, !.age = a]
    BY <1>16, Zenon DEF StepCools
  <2> HIDE DEF a
  <2> QED
    BY <2>1, <2>2 DEF Types, PolicyType
<1>17. ASSUME NEW h \in Health, NEW t \in Sensors, StepRecovers(h, t) PROVE policy' \in PolicyType
  BY <1>17, ZenonT(60) DEF StepRecovers, Types, PolicyType
<1>18. ASSUME NEW r \in StartResults, StartEnds(r) PROVE policy' \in PolicyType
  BY <1>18 DEF StartEnds, Types
<1>19. CASE StartAccepted
  BY <1>19, ZenonT(60) DEF StartAccepted, Types, PolicyType
<1>20. CASE StartOverheats
  BY <1>20, ClockRange DEF StartOverheats, BeginCooling, Types, PolicyType
<1>21. CASE StartCancelled
  BY <1>21 DEF StartCancelled, Types
<1>22. CASE Apply
  BY <1>22 DEF Apply, Types
<1>23. CASE Abort
  BY <1>23, UndoEffect DEF OnlyStops
<1>24. CASE CoolStop
  BY <1>24, UndoEffect DEF OnlyStops
<1>25. CASE Publish
  BY <1>25 DEF Publish, Types
<1> QED
  BY <1>1, <1>2, <1>3, <1>4, <1>5, <1>6, <1>7, <1>8, <1>9, <1>10, <1>11, <1>12, <1>13, <1>14,
     <1>15, <1>16, <1>17, <1>18, <1>19, <1>20, <1>21, <1>22, <1>23, <1>24, <1>25 DEF Task

\* Every step of the task keeps the task's own place and request what they are.
LEMMA TaskTyped ==
    ASSUME Types, Task
    PROVE  task' \in Tasks
<1> USE DEF Types, Tasks, Points, StartResults
<1>1. CASE Begin
  BY <1>1 DEF Begin
<1>2. CASE Receive
  <2>1. Head(requests) \in Requests
    BY <1>2, TailOfMailbox DEF Receive
  <2> QED
    BY <1>2, <2>1 DEF Receive
<1>3. CASE Pause
  BY <1>3 DEF Pause, Done
<1>4. CASE ResumeAnswered
  BY <1>4 DEF ResumeAnswered, Done
<1>5. CASE ResumeStarts
  BY <1>5 DEF ResumeStarts
<1>6. CASE Acquire
  BY <1>6 DEF Acquire, Done
<1>7. CASE Release
  BY <1>7 DEF Release, Done
<1>8. CASE Complete
  BY <1>8 DEF Complete, InitTask
<1>9. CASE Withdraw
  BY <1>9 DEF Withdraw, InitTask
<1>10. CASE Check
  BY <1>10 DEF Check
<1>11. CASE StepOwned
  BY <1>11 DEF StepOwned, Publishing
<1>12. ASSUME NEW h \in Health, StepFaulty(h) PROVE task' \in Tasks
  BY <1>12 DEF StepFaulty, Publishing
<1>13. ASSUME NEW h \in Health, StepOverheats(h) PROVE task' \in Tasks
  BY <1>13 DEF StepOverheats, BeginCooling
<1>14. ASSUME NEW h \in Health, StepIdle(h) PROVE task' \in Tasks
  BY <1>14 DEF StepIdle, Publishing
<1>15. ASSUME NEW h \in Health, StepMines(h) PROVE task' \in Tasks
  BY <1>15 DEF StepMines
<1>16. ASSUME NEW h \in Health, NEW t \in Sensors, StepCools(h, t) PROVE task' \in Tasks
  BY <1>16 DEF StepCools, Publishing
<1>17. ASSUME NEW h \in Health, NEW t \in Sensors, StepRecovers(h, t) PROVE task' \in Tasks
  BY <1>17, ZenonT(60) DEF StepRecovers, Publishing
<1>18. ASSUME NEW r \in StartResults, StartEnds(r) PROVE task' \in Tasks
  BY <1>18 DEF StartEnds
<1>19. CASE StartAccepted
  BY <1>19 DEF StartAccepted, Return
<1>20. CASE StartOverheats
  BY <1>20 DEF StartOverheats, BeginCooling
<1>21. CASE StartCancelled
  BY <1>21 DEF StartCancelled
<1>22. CASE Apply
  BY <1>22 DEF Apply
<1>23. CASE Abort
  BY <1>23 DEF Abort, Return
<1>24. CASE CoolStop
  BY <1>24 DEF CoolStop, Return
<1>25. CASE Publish
  BY <1>25 DEF Publish, InitTask
<1> QED
  BY <1>1, <1>2, <1>3, <1>4, <1>5, <1>6, <1>7, <1>8, <1>9, <1>10, <1>11, <1>12, <1>13, <1>14,
     <1>15, <1>16, <1>17, <1>18, <1>19, <1>20, <1>21, <1>22, <1>23, <1>24, <1>25 DEF Task

BoardTyped == /\ maintenance \in BOOLEAN /\ fanAllowed \in BOOLEAN /\ recovering \in BOOLEAN
              /\ ioLock \in {"free", "io"} /\ rail \in {"on", "off"}
              /\ ready \in BOOLEAN /\ pools \in BOOLEAN /\ hwFault \in BOOLEAN
              /\ marker \in BOOLEAN

\* Every step of the task keeps the flags, the lock and the supply what they are.
LEMMA BoardStaysTyped ==
    ASSUME Types, Errand, Task
    PROVE  BoardTyped'
<1> USE DEF BoardTyped, Types
<1>1. CASE Begin
  BY <1>1 DEF Begin, taskStays, NoBoardOperation, shared, world
<1>2. CASE Receive
  BY <1>2 DEF Receive, world
<1>3. CASE Pause
  BY <1>3, PauseEffect DEF Pause, taskStays
<1>4. CASE ResumeAnswered
  BY <1>4 DEF ResumeAnswered, taskStays, NoBoardOperation, shared, world
<1>5. CASE ResumeStarts
  BY <1>5 DEF ResumeStarts, taskStays, NoBoardOperation, shared, world
<1>6. CASE Acquire
  BY <1>6, AcquireEffect DEF Acquire, taskStays
<1>7. CASE Release
  BY <1>7, ReleaseEffect DEF Release, taskStays
<1>8. CASE Complete
  BY <1>8 DEF Complete, world
<1>9. CASE Withdraw
  BY <1>9, WithdrawEffect DEF Withdraw
<1>10. CASE Check
  BY <1>10, CheckEffect, ZenonT(60) DEF Check, taskStays, OnlyStops
<1>11. CASE StepOwned
  BY <1>11 DEF StepOwned, taskStays, NoBoardOperation, shared, world
<1>12. ASSUME NEW h \in Health, StepFaulty(h) PROVE BoardTyped'
  BY <1>12, StepFaultyEffect DEF StepFaulty, taskStays, OnlyStops
<1>13. ASSUME NEW h \in Health, StepOverheats(h) PROVE BoardTyped'
  BY <1>13 DEF StepOverheats, BeginCooling, taskStays, NoBoardOperation, shared, world
<1>14. ASSUME NEW h \in Health, StepIdle(h) PROVE BoardTyped'
  BY <1>14, StepIdleEffect DEF StepIdle, taskStays, OnlyStops
<1>15. ASSUME NEW h \in Health, StepMines(h) PROVE BoardTyped'
  BY <1>15 DEF StepMines, taskStays
<1>16. ASSUME NEW h \in Health, NEW t \in Sensors, StepCools(h, t) PROVE BoardTyped'
  BY <1>16 DEF StepCools, taskStays, NoBoardOperation, shared, world
<1>17. ASSUME NEW h \in Health, NEW t \in Sensors, StepRecovers(h, t) PROVE BoardTyped'
  BY <1>17 DEF StepRecovers, taskStays
<1>18. ASSUME NEW r \in StartResults, StartEnds(r) PROVE BoardTyped'
  BY <1>18 DEF StartEnds, taskStays
<1>19. CASE StartAccepted
  BY <1>19 DEF StartAccepted, taskStays
<1>20. CASE StartOverheats
  BY <1>20 DEF StartOverheats, taskStays, BeginCooling
<1>21. CASE StartCancelled
  BY <1>21 DEF StartCancelled, taskStays
<1>22. CASE Apply
  BY <1>22 DEF Apply, taskStays
<1>23. CASE Abort
  BY <1>23, UndoEffect DEF Abort, taskStays, OnlyStops
<1>24. CASE CoolStop
  BY <1>24, UndoEffect DEF CoolStop, taskStays, OnlyStops
<1>25. CASE Publish
  <2>1. fanAllowed' = (policy.running /\ ~policy.fault /\ ~policy.cooling)
        /\ recovering' = policy.cooling /\ hwFault' = (hwFault \/ policy.fault)
    BY <1>25, Zenon DEF Publish
  <2>2. fanAllowed' \in BOOLEAN /\ hwFault' \in BOOLEAN
    BY <2>1, Zenon
  <2>3. recovering' \in BOOLEAN
    BY <2>1 DEF PolicyType
  <2> QED
    BY <1>25, <2>2, <2>3 DEF Publish
<1> QED
  BY <1>1, <1>2, <1>3, <1>4, <1>5, <1>6, <1>7, <1>8, <1>9, <1>10, <1>11, <1>12, <1>13, <1>14,
     <1>15, <1>16, <1>17, <1>18, <1>19, <1>20, <1>21, <1>22, <1>23, <1>24, <1>25 DEF Task

MailTyped == /\ requests \in Seq(Requests) /\ Len(requests) <= QueueLength
             /\ callers \in [Callers -> CallerStates]
             /\ stopEpoch \in Nat /\ accepted \in 0 .. stopEpoch
             /\ pausedAt \in Nat /\ resumedAt \in Nat /\ lost \in BOOLEAN

\* Every step of the task keeps the mailbox, the callers and the epochs what they
\* are.
LEMMA MailStaysTyped ==
    ASSUME Types, Errand, Task
    PROVE  MailTyped'
<1> USE DEF MailTyped, Types
<1>1. CASE Begin
  BY <1>1 DEF Begin, epochs, mailbox, history
<1>2. CASE Receive
  <2>1. Tail(requests) \in Seq(Requests) /\ Len(Tail(requests)) <= QueueLength
    BY <1>2, TailOfMailbox, PowerTaskAssumption DEF Receive, PowerTaskAssumption
  <2>2. accepted' \in 0 .. stopEpoch
    <3>1. CASE Head(requests).kind = "RESUME" /\ Live(Head(requests))
      <4>1. Head(requests).epoch = stopEpoch /\ accepted' = Head(requests).epoch
        BY <1>2, <3>1, Zenon DEF Receive, Live
      <4> QED
        BY <4>1
    <3>2. CASE ~(Head(requests).kind = "RESUME" /\ Live(Head(requests)))
      BY <1>2, <3>2 DEF Receive
    <3> QED
      BY <3>1, <3>2
  <2>3. /\ requests' = Tail(requests) /\ UNCHANGED <<stopEpoch, callers, pausedAt, resumedAt, lost>>
    BY <1>2 DEF Receive, history
  <2> QED
    BY <2>1, <2>2, <2>3
<1>3. CASE Pause
  BY <1>3 DEF Pause, taskStays, epochs, mailbox, history
<1>4. CASE ResumeAnswered
  BY <1>4 DEF ResumeAnswered, taskStays, epochs, mailbox, history
<1>5. CASE ResumeStarts
  BY <1>5 DEF ResumeStarts, taskStays, epochs, mailbox, history
<1>6. CASE Acquire
  BY <1>6 DEF Acquire, taskStays, epochs, mailbox, history
<1>7. CASE Release
  BY <1>7 DEF Release, taskStays, epochs, mailbox, history
<1>8. CASE Complete
  <2>1. task.req.caller \in Callers /\ task.req.epoch \in Nat
    BY <1>8, RequestOfTask DEF Complete
  <2>2. callers' \in [Callers -> CallerStates]
    <3>1. /\ callers[task.req.caller] \in CallerStates /\ task.success \in BOOLEAN
          /\ callers' = [callers EXCEPT ![task.req.caller].pc = "done",
                                       ![task.req.caller].success = task.success]
      BY <1>8, <2>1 DEF Complete, Tasks
    <3>2. [[callers[task.req.caller] EXCEPT !.pc = "done"] EXCEPT !.success = task.success]
            \in CallerStates
      BY <3>1 DEF CallerStates
    <3> QED
      BY <2>1, <3>1, <3>2
  <2>3. pausedAt' \in Nat
    BY <1>8, <2>1 DEF Complete
  <2> QED
    BY <1>8, <2>2, <2>3 DEF Complete, epochs
<1>9. CASE Withdraw
  BY <1>9 DEF Withdraw, epochs, mailbox, history
<1>10. CASE Check
  BY <1>10 DEF Check, taskStays, epochs, mailbox, history
<1>11. CASE StepOwned
  BY <1>11 DEF StepOwned, taskStays, epochs, mailbox, history
<1>12. ASSUME NEW h \in Health, StepFaulty(h) PROVE MailTyped'
  BY <1>12 DEF StepFaulty, taskStays, epochs, mailbox, history
<1>13. ASSUME NEW h \in Health, StepOverheats(h) PROVE MailTyped'
  BY <1>13 DEF StepOverheats, taskStays, epochs, mailbox, history
<1>14. ASSUME NEW h \in Health, StepIdle(h) PROVE MailTyped'
  BY <1>14 DEF StepIdle, taskStays, epochs, mailbox, history
<1>15. ASSUME NEW h \in Health, StepMines(h) PROVE MailTyped'
  BY <1>15 DEF StepMines, taskStays, epochs, mailbox, history
<1>16. ASSUME NEW h \in Health, NEW t \in Sensors, StepCools(h, t) PROVE MailTyped'
  BY <1>16 DEF StepCools, taskStays, epochs, mailbox, history
<1>17. ASSUME NEW h \in Health, NEW t \in Sensors, StepRecovers(h, t) PROVE MailTyped'
  BY <1>17 DEF StepRecovers, taskStays, epochs, mailbox, history
<1>18. ASSUME NEW r \in StartResults, StartEnds(r) PROVE MailTyped'
  BY <1>18 DEF StartEnds, taskStays, epochs, mailbox, history
<1>19. CASE StartAccepted
  BY <1>19 DEF StartAccepted, taskStays, epochs, mailbox, history
<1>20. CASE StartOverheats
  BY <1>20 DEF StartOverheats, taskStays, epochs, mailbox, history
<1>21. CASE StartCancelled
  BY <1>21 DEF StartCancelled, taskStays, epochs, mailbox, history
<1>22. CASE Apply
  BY <1>22 DEF Apply, taskStays, epochs, mailbox, history
<1>23. CASE Abort
  BY <1>23 DEF Abort, taskStays, epochs, mailbox, history
<1>24. CASE CoolStop
  BY <1>24 DEF CoolStop, taskStays, epochs, mailbox, history
<1>25. CASE Publish
  BY <1>25 DEF Publish, epochs, mailbox, history
<1> QED
  BY <1>1, <1>2, <1>3, <1>4, <1>5, <1>6, <1>7, <1>8, <1>9, <1>10, <1>11, <1>12, <1>13, <1>14,
     <1>15, <1>16, <1>17, <1>18, <1>19, <1>20, <1>21, <1>22, <1>23, <1>24, <1>25 DEF Task

\* Every step of a caller keeps the types.
LEMMA CallingTyped ==
    ASSUME Types, Errand, Calling
    PROVE  Types'
<1> USE DEF shared, world, epochs, mailbox, history
<1>1. ASSUME NEW c \in Callers, NEW kind \in Kinds, NEW owner \in PowerOwners \union {"NONE"},
             Call(c, kind, owner)
      PROVE  Types'
  <2>1. stopEpoch' \in Nat /\ stopEpoch <= stopEpoch' /\ resumedAt' \in Nat
    BY <1>1 DEF Call, Types
  <2>2. [pc |-> "send", kind |-> kind, owner |-> owner, epoch |-> stopEpoch',
         success |-> FALSE, holds |-> "NONE"] \in CallerStates
    BY <2>1 DEF CallerStates, Owners
  <2>3. callers' \in [Callers -> CallerStates]
    BY <1>1, <2>2 DEF Call, Types
  <2>4. accepted' \in 0 .. stopEpoch'
    BY <1>1, <2>1 DEF Call, Types
  <2> QED
    BY <1>1, <2>1, <2>3, <2>4 DEF Call, Types
<1>2. ASSUME NEW c \in Callers, CallFails(c) PROVE Types'
  <2>1. callers' \in [Callers -> CallerStates]
    BY <1>2 DEF CallFails, Types, IdleCaller, CallerStates, Owners
  <2>2. lost' \in BOOLEAN
    BY <1>2, Zenon DEF CallFails
  <2> QED
    BY <1>2, <2>1, <2>2 DEF CallFails, Types
<1>3. ASSUME NEW c \in Callers, Enqueue(c) PROVE Types'
  <2> DEFINE r == [caller |-> c, kind |-> callers[c].kind, owner |-> callers[c].owner,
                   epoch |-> callers[c].epoch, cancelled |-> FALSE]
  <2>1. callers[c] \in CallerStates /\ callers[c].kind \in Kinds
    BY <1>3 DEF Enqueue, Types, Errand
  <2>2. r \in Requests
    BY <2>1 DEF CallerStates, Requests
  <2>3. requests' = Append(requests, r) /\ Len(requests) < QueueLength
    BY <1>3, Zenon DEF Enqueue
  <2> HIDE DEF r
  <2>4. requests' \in Seq(Requests) /\ Len(requests') <= QueueLength
    BY <2>2, <2>3, AppendToMailbox, PowerTaskAssumption DEF Types, PowerTaskAssumption
  <2>5. callers' \in [Callers -> CallerStates]
    BY <1>3, <2>1 DEF Enqueue, Types, CallerStates
  <2> QED
    BY <1>3, <2>4, <2>5 DEF Enqueue, Types
<1>4. ASSUME NEW c \in Callers, CallTimesOut(c) PROVE Types'
  <2>1. requests' \in Seq(Requests) /\ Len(requests') <= QueueLength
    BY <1>4, WithdrawnMailbox DEF CallTimesOut, Types
  <2>2. Withdrawn(task.req, c) \in Requests \union {NoRequest}
    BY WithdrawnTask DEF Types, Tasks
  <2>3. task' \in Tasks
    BY <1>4, <2>2 DEF CallTimesOut, Types, Tasks
  <2>4. callers' \in [Callers -> CallerStates]
    BY <1>4 DEF CallTimesOut, Types, IdleCaller, CallerStates, Owners
  <2>5. stopEpoch' \in Nat /\ accepted' \in 0 .. stopEpoch'
    BY <1>4 DEF CallTimesOut, Types
  <2> QED
    BY <1>4, <2>1, <2>3, <2>4, <2>5 DEF CallTimesOut, Types
<1>5. ASSUME NEW c \in Callers, CallReturns(c) PROVE Types'
  <2> DEFINE h == IF callers[c].kind = "ACQUIRE" /\ callers[c].success
                  THEN callers[c].owner ELSE "NONE"
  <2>1. h \in Owners
    BY DEF Types, CallerStates, Owners
  <2>2. callers' = [callers EXCEPT ![c] = [IdleCaller EXCEPT !.holds = h]]
    BY <1>5, Zenon DEF CallReturns
  <2> HIDE DEF h
  <2>3. [IdleCaller EXCEPT !.holds = h] \in CallerStates
    BY <2>1 DEF IdleCaller, CallerStates, Owners
  <2> QED
    BY <1>5, <2>2, <2>3 DEF CallReturns, Types
<1> QED
  BY <1>1, <1>2, <1>3, <1>4, <1>5 DEF Calling

\* Every step of the rest of the system keeps the types.
LEMMA TypesStep ==
    ASSUME Types, Errand, [Next]_vars
    PROVE  Types'
<1>1. CASE Task
  BY <1>1, PolicyTyped, TaskTyped, BoardStaysTyped, MailStaysTyped
     DEF Types, BoardTyped, MailTyped
<1>2. CASE Calling
  BY <1>2, CallingTyped
<1>3. CASE IoBegin \/ IoEnd
  BY <1>3 DEF IoBegin, IoEnd, Types, epochs, mailbox, world, history
<1>4. CASE SettingsCheck \/ SettingsWrite \/ SetReady \/ HardwareFault
  <2>1. marker' \in BOOLEAN
    <3>1. CASE SettingsWrite
      BY <3>1, Zenon DEF SettingsWrite
    <3> QED
      BY <1>4, <3>1 DEF SettingsCheck, SetReady, HardwareFault, Types
  <2> QED
    BY <1>4, <2>1, ZenonT(60) DEF SettingsCheck, SettingsWrite, SetReady, HardwareFault, Types, epochs,
                      mailbox, shared, history
<1>5. CASE PoolsChange
  <2>1. pools' \in BOOLEAN
    BY <1>5, Zenon DEF PoolsChange
  <2> QED
    BY <1>5, <2>1 DEF PoolsChange, Types, epochs, mailbox, shared, history
<1>6. CASE Tick
  <2>1. policy' \in PolicyType
    <3>1. policy.age \in 0 .. CoolTime - 1 /\ policy' = [policy EXCEPT !.age = policy.age + 1]
      BY <1>6, Zenon DEF Tick
    <3>2. policy.age + 1 \in Unset .. CoolTime
      BY <3>1, PowerTaskAssumption DEF Unset, PowerTaskAssumption
    <3> QED
      BY <3>1, <3>2 DEF Types, PolicyType
  <2> QED
    BY <1>6, <2>1 DEF Tick, Types, epochs, mailbox, shared, world, history
<1>7. CASE Reset
  <2>1. policy' \in PolicyType
    BY <1>7, ClockRange DEF Reset, InitPolicy, PolicyType
  <2>2. task' \in Tasks
    BY <1>7 DEF Reset, InitTask, Tasks, Points, StartResults
  <2>3. callers' \in [Callers -> CallerStates]
    BY <1>7 DEF Reset, IdleCaller, CallerStates, Owners
  <2>4. requests' \in Seq(Requests) /\ Len(requests') <= QueueLength
    BY <1>7, EmptySeq, PowerTaskAssumption DEF Reset, PowerTaskAssumption
  <2>5. /\ stopEpoch' = 0 /\ accepted' = 0 /\ pausedAt' = 0 /\ resumedAt' = 0
        /\ ~lost' /\ lost' \in BOOLEAN /\ UNCHANGED <<marker, rail>>
    BY <1>7, Zenon DEF Reset
  <2>6. /\ maintenance' = FALSE /\ fanAllowed' = FALSE /\ recovering' = FALSE
        /\ ioLock' = "free" /\ ready' = FALSE /\ pools' = FALSE /\ hwFault' = FALSE
    BY <1>7, Zenon DEF Reset
  <2>7. /\ stopEpoch' \in Nat /\ accepted' \in 0 .. stopEpoch'
        /\ pausedAt' \in Nat /\ resumedAt' \in Nat
    BY <2>5
  <2>8. marker' \in BOOLEAN /\ rail' \in {"on", "off"}
    BY <2>5 DEF Types
  <2> QED
    BY <2>1, <2>2, <2>3, <2>4, <2>5, <2>6, <2>7, <2>8 DEF Types
<1>8. CASE UNCHANGED vars
  BY <1>8 DEF vars, Types, epochs, mailbox, shared, world, history
<1> QED
  BY <1>1, <1>2, <1>3, <1>4, <1>5, <1>6, <1>7, <1>8 DEF Next
-----------------------------------------------------------------------------
(* Every step keeps the parts of the invariant *)

\* A cooldown clock that has run its time is at its end.
LEMMA StartedRange ==
    ASSUME Types
    PROVE  Started \in 0 .. CoolTime /\ (Started >= CoolTime => policy.age = CoolTime)
  BY PowerTaskAssumption DEF Started, Types, PolicyType, Unset, PowerTaskAssumption

\* Every step of the task keeps what policy, place and supply have to do with each
\* other.
LEMMA BoardTask ==
    ASSUME Types, Errand, Board, Task
    PROVE  Board'
<1>1. CASE Begin
  BY <1>1 DEF Begin, Board, StoppedIsOff, RoundEndsSafe, FanUnderControl, Unsettled, Types,
     PolicyType, Tasks, shared, world
<1>2. CASE Receive
  <2>1. /\ policy' = policy /\ rail' = rail /\ fanAllowed' = fanAllowed
        /\ task'.pc \in {"op", "finish"}
    BY <1>2 DEF Receive, Types, Tasks, world
  <2> QED
    BY <2>1, <1>2 DEF Receive, Board, StoppedIsOff, RoundEndsSafe, FanUnderControl, Unsettled
<1>3. CASE Pause
  <2>1. task.pc = "op"
    BY <1>3 DEF Pause, Operating
  <2> QED
    BY <2>1, <1>3, PauseEffect DEF Board, StoppedIsOff, RoundEndsSafe, FanUnderControl, Unsettled
<1>4. CASE ResumeAnswered
  <2>1. /\ task.pc = "op" /\ rail' = rail /\ fanAllowed' = fanAllowed /\ task'.pc = "finish"
    BY <1>4 DEF ResumeAnswered, Operating, Done, NoBoardOperation, Types, Tasks
  <2>2. /\ policy'.owner = policy.owner /\ policy'.running = policy.running
        /\ policy'.stopped = policy.stopped /\ policy'.fault = policy.fault
        /\ policy'.cooling = policy.cooling
    BY <1>4 DEF ResumeAnswered, Types, PolicyType
  <2> QED
    BY <2>1, <2>2 DEF Board, StoppedIsOff, RoundEndsSafe, FanUnderControl, Unsettled
<1>5. CASE ResumeStarts
  <2>1. /\ task.pc = "op" /\ rail' = rail /\ fanAllowed' = FALSE /\ task'.pc = "starting"
        /\ ~policy.cooling /\ policy.owner = "NONE"
    BY <1>5 DEF ResumeStarts, Operating, Types, Tasks
  <2>2. /\ policy'.owner = policy.owner /\ policy'.running = policy.running
        /\ policy'.stopped = policy.stopped /\ policy'.fault = policy.fault
        /\ policy'.cooling = policy.cooling /\ ~policy'.paused
    BY <1>5 DEF ResumeStarts, Types, PolicyType
  <2> QED
    BY <2>1, <2>2 DEF Board, StoppedIsOff, RoundEndsSafe, FanUnderControl, Unsettled
<1>6. CASE Acquire
  <2>1. task.pc = "op"
    BY <1>6 DEF Acquire, Operating
  <2> QED
    BY <2>1, <1>6, AcquireEffect DEF Board, StoppedIsOff, RoundEndsSafe, FanUnderControl,
       Unsettled
<1>7. CASE Release
  <2>1. task.pc = "op"
    BY <1>7 DEF Release, Operating
  <2> QED
    BY <2>1, <1>7, ReleaseEffect DEF Board, StoppedIsOff, RoundEndsSafe, FanUnderControl,
       Unsettled
<1>8. CASE Complete
  <2>1. /\ policy' = policy /\ rail' = rail /\ fanAllowed' = fanAllowed
        /\ task.pc = "finish" /\ task'.pc = "drain"
    BY <1>8 DEF Complete, InitTask, world
  <2> QED
    BY <2>1 DEF Board, StoppedIsOff, RoundEndsSafe, FanUnderControl, Unsettled
<1>9. CASE Withdraw
  <2>1. task.pc = "finish" /\ task'.pc = "drain"
    BY <1>9 DEF Withdraw, InitTask
  <2> QED
    BY <2>1, <1>9, WithdrawEffect DEF Board, StoppedIsOff, RoundEndsSafe, FanUnderControl,
       Unsettled
<1>10. CASE Check
  <2>1. task.pc = "drain" /\ task'.pc = "step"
    BY <1>10 DEF Check, Types, Tasks
  <2> QED
    BY <2>1, <1>10, CheckEffect DEF OnlyStops, Board, StoppedIsOff, RoundEndsSafe,
       FanUnderControl, Unsettled
<1>11. CASE StepOwned
  <2>1. /\ task.pc = "step" /\ task'.pc = "publish" /\ rail' = rail /\ fanAllowed' = fanAllowed
        /\ policy.owner # "NONE"
    BY <1>11 DEF StepOwned, Publishing, NoBoardOperation, Types, Tasks
  <2>2. /\ policy'.owner = policy.owner /\ policy'.running = policy.running
        /\ policy'.stopped = policy.stopped /\ policy'.fault = policy.fault
        /\ policy'.cooling = policy.cooling /\ policy'.paused = policy.paused
    BY <1>11 DEF StepOwned, Types, PolicyType
  <2> QED
    BY <2>1, <2>2 DEF Board, StoppedIsOff, RoundEndsSafe, FanUnderControl, Unsettled
<1>12. ASSUME NEW h \in Health, StepFaulty(h) PROVE Board'
  <2>1. task.pc = "step" /\ task'.pc = "publish"
    BY <1>12 DEF StepFaulty, Stepping, Publishing, Types, Tasks
  <2> QED
    BY <2>1, <1>12, StepFaultyEffect DEF OnlyStops, Board, StoppedIsOff, RoundEndsSafe,
       FanUnderControl, Unsettled
<1>13. ASSUME NEW h \in Health, StepOverheats(h) PROVE Board'
  <2>1. /\ task.pc = "step" /\ task'.pc = "coolstop" /\ rail' = rail /\ fanAllowed' = fanAllowed
        /\ policy.owner = "NONE"
    BY <1>13 DEF StepOverheats, Stepping, BeginCooling, NoBoardOperation, Types, Tasks
  <2>2. /\ policy'.owner = policy.owner /\ policy'.running = policy.running
        /\ policy'.stopped = policy.stopped /\ policy'.fault = policy.fault
    BY <1>13 DEF StepOverheats, BeginCooling, Types, PolicyType
  <2> QED
    BY <2>1, <2>2 DEF Board, StoppedIsOff, RoundEndsSafe, FanUnderControl, Unsettled
<1>14. ASSUME NEW h \in Health, StepIdle(h) PROVE Board'
  <2>1. task.pc = "step" /\ task'.pc = "publish"
    BY <1>14 DEF StepIdle, Normal, Stepping, Publishing, Types, Tasks
  <2> QED
    BY <2>1, <1>14, StepIdleEffect DEF OnlyStops, Board, StoppedIsOff, RoundEndsSafe,
       FanUnderControl, Unsettled
<1>15. ASSUME NEW h \in Health, StepMines(h) PROVE Board'
  <2>1. /\ task.pc = "step" /\ rail' = rail
        /\ task'.pc = (IF policy.running THEN "apply" ELSE "starting")
        /\ policy.owner = "NONE" /\ ~policy.paused /\ ~policy.cooling
        /\ fanAllowed' => fanAllowed
    BY <1>15 DEF StepMines, Normal, Stepping, Types, Tasks
  <2>2. /\ policy'.owner = policy.owner /\ policy'.running = policy.running
        /\ policy'.stopped = policy.stopped /\ policy'.fault = policy.fault
        /\ policy'.cooling = policy.cooling /\ policy'.paused = policy.paused
    BY <1>15 DEF StepMines, Types, PolicyType
  <2> QED
    BY <2>1, <2>2 DEF Board, StoppedIsOff, RoundEndsSafe, FanUnderControl, Unsettled
<1>16. ASSUME NEW h \in Health, NEW t \in Sensors, StepCools(h, t) PROVE Board'
  <2>1. /\ task.pc = "step" /\ task'.pc = "publish" /\ rail' = rail /\ fanAllowed' = fanAllowed
        /\ policy.owner = "NONE" /\ policy.cooling
    BY <1>16 DEF StepCools, Stepping, Publishing, NoBoardOperation, Types, Tasks
  <2>2. /\ policy'.owner = policy.owner /\ policy'.running = policy.running
        /\ policy'.stopped = policy.stopped /\ policy'.fault = policy.fault
        /\ policy'.cooling = policy.cooling /\ policy'.paused = policy.paused
    BY <1>16 DEF StepCools, Types, PolicyType
  <2> QED
    BY <2>1, <2>2 DEF Board, StoppedIsOff, RoundEndsSafe, FanUnderControl, Unsettled
<1>17. ASSUME NEW h \in Health, NEW t \in Sensors, StepRecovers(h, t) PROVE Board'
  <2>1. /\ task.pc = "step" /\ rail' = rail /\ policy.owner = "NONE" /\ policy.cooling
        /\ ~policy.fault
        /\ policy.stopped /\ ~(Started < CoolTime)
    BY <1>17, Zenon DEF StepRecovers, Stepping, Faulty, Waiting
  <2>2. policy.age = CoolTime
    BY <2>1, StartedRange, PowerTaskAssumption DEF PowerTaskAssumption
  <2>3. /\ policy'.owner = policy.owner /\ policy'.running = policy.running
        /\ policy'.stopped = policy.stopped
        /\ policy'.cooling = policy.cooling /\ policy'.paused = policy.paused
        /\ policy'.age = policy.age
    BY <1>17 DEF StepRecovers, Types, PolicyType
  <2>4. \/ task'.pc = "publish" /\ fanAllowed' = fanAllowed
        \/ /\ task'.pc = "starting" /\ task'.from = "cool" /\ policy'.saved /\ ~policy.paused
           /\ fanAllowed' = FALSE
    BY <1>17 DEF StepRecovers, Publishing, Types, Tasks, PolicyType
  <2>5. rail = "off" /\ ~policy.running /\ ~fanAllowed
    BY <2>1 DEF Board, StoppedIsOff, RoundEndsSafe, FanUnderControl, Unsettled
  <2> QED
    BY <2>1, <2>2, <2>3, <2>4, <2>5 DEF Board, StoppedIsOff, RoundEndsSafe, FanUnderControl,
       Unsettled
<1>18. ASSUME NEW r \in StartResults, StartEnds(r) PROVE Board'
  <2>1. /\ task.pc = "starting" /\ policy' = policy /\ fanAllowed' = fanAllowed
        /\ task'.pc \in {"abort", "started"} /\ task'.from = task.from
    BY <1>18 DEF StartEnds, Types, Tasks
  <2> QED
    BY <2>1 DEF Board, StoppedIsOff, RoundEndsSafe, FanUnderControl, Unsettled
<1>19. CASE StartAccepted
  <2>1. /\ task.pc = "started" /\ rail' = rail /\ fanAllowed' = fanAllowed
        /\ task'.pc \in {"apply", "finish", "publish"}
        /\ task'.pc = "apply" => task.from = "step"
    BY <1>19 DEF StartAccepted, Return, Types, Tasks
  <2>2. /\ policy'.owner = policy.owner /\ policy'.running /\ ~policy'.stopped
        /\ policy'.fault = policy.fault
        /\ policy'.paused = policy.paused
        /\ policy'.cooling => policy.cooling /\ task.from # "cool"
    BY <1>19 DEF StartAccepted, Types, PolicyType
  <2> QED
    BY <2>1, <2>2 DEF Board, StoppedIsOff, RoundEndsSafe, FanUnderControl, Unsettled
<1>20. CASE StartOverheats
  <2>1. /\ task.pc = "started" /\ task'.pc = "coolstop" /\ rail' = rail /\ fanAllowed' = fanAllowed
    BY <1>20 DEF StartOverheats, BeginCooling, Types, Tasks
  <2>2. /\ policy'.owner = policy.owner /\ policy'.running = policy.running
        /\ policy'.stopped = policy.stopped /\ policy'.fault = policy.fault
    BY <1>20 DEF StartOverheats, BeginCooling, Types, PolicyType
  <2> QED
    BY <2>1, <2>2 DEF Board, StoppedIsOff, RoundEndsSafe, FanUnderControl, Unsettled
<1>21. CASE StartCancelled
  <2>1. /\ task.pc = "started" /\ task'.pc = "abort" /\ policy' = policy /\ rail' = rail
        /\ fanAllowed' = fanAllowed
    BY <1>21 DEF StartCancelled, Types, Tasks
  <2> QED
    BY <2>1 DEF Board, StoppedIsOff, RoundEndsSafe, FanUnderControl, Unsettled
<1>22. CASE Apply
  <2>1. /\ task.pc = "apply" /\ task'.pc \in {"abort", "publish"} /\ policy' = policy
        /\ rail' = rail /\ fanAllowed' = fanAllowed
    BY <1>22 DEF Apply, Types, Tasks
  <2> QED
    BY <2>1 DEF Board, StoppedIsOff, RoundEndsSafe, FanUnderControl, Unsettled
<1>23. CASE Abort
  <2>1. task.pc = "abort" /\ task'.pc \in {"finish", "publish"}
    BY <1>23 DEF Abort, Return, Types, Tasks
  <2> QED
    BY <2>1, <1>23, UndoEffect DEF OnlyStops, Board, StoppedIsOff, RoundEndsSafe, FanUnderControl,
       Unsettled
<1>24. CASE CoolStop
  <2>1. task.pc = "coolstop" /\ task'.pc \in {"finish", "publish"}
    BY <1>24 DEF CoolStop, Return, Types, Tasks
  <2> QED
    BY <2>1, <1>24, UndoEffect DEF OnlyStops, Board, StoppedIsOff, RoundEndsSafe, FanUnderControl,
       Unsettled
<1>25. CASE Publish
  <2>1. /\ task.pc = "publish" /\ task'.pc = "begin" /\ policy' = policy /\ rail' = rail
    BY <1>25 DEF Publish, InitTask
  <2>2. fanAllowed' => policy.running /\ ~policy.fault
    BY <1>25, Zenon DEF Publish
  <2> QED
    BY <2>1, <2>2 DEF Board, StoppedIsOff, RoundEndsSafe, FanUnderControl, Unsettled
<1> QED
  BY <1>1, <1>2, <1>3, <1>4, <1>5, <1>6, <1>7, <1>8, <1>9, <1>10, <1>11, <1>12, <1>13, <1>14,
     <1>15, <1>16, <1>17, <1>18, <1>19, <1>20, <1>21, <1>22, <1>23, <1>24, <1>25 DEF Task
-----------------------------------------------------------------------------
(* What the steps leave alone *)

\* The steps of the task other than the handling of the mailbox.
Work ==
    \/ Begin \/ Pause \/ ResumeAnswered \/ ResumeStarts \/ Acquire \/ Release
    \/ Check \/ StepOwned
    \/ \E health \in Health :
         \/ StepFaulty(health) \/ StepOverheats(health) \/ StepIdle(health) \/ StepMines(health)
         \/ \E sensors \in Sensors : StepCools(health, sensors) \/ StepRecovers(health, sensors)
    \/ \E result \in StartResults : StartEnds(result)
    \/ StartAccepted \/ StartOverheats \/ StartCancelled \/ Apply \/ Abort \/ CoolStop
    \/ Publish

\* A step of the task handles the mailbox or works.
LEMMA TaskSplit == Task <=> Receive \/ Complete \/ Withdraw \/ Work
  BY Zenon DEF Task, Work

\* They leave the mailbox, the callers and the epochs alone, keep the request or
\* drop it, and finish a request only after an operation or a start for it.
WorkFrame ==
    /\ requests' = requests /\ callers' = callers /\ stopEpoch' = stopEpoch
    /\ pausedAt' = pausedAt /\ resumedAt' = resumedAt /\ lost' = lost
    /\ task'.pc # "op" /\ task.pc # "finish"
    /\ task.pc = "op" /\ ~Acquire /\ ~Release => task.req.kind \in {"PAUSE", "RESUME"}
    /\ task'.pc # "begin" => task'.req = task.req
    /\ task'.pc = "begin" => task'.req = NoRequest
    /\ task'.pc = "finish" => \/ task.pc = "op"
                              \/ task.pc \in Unsettled /\ task.from = "request"
    /\ task'.pc \in Unsettled \union {"apply"} /\ task'.from = "request" =>
         \/ Operating("RESUME")
         \/ task.pc \in Unsettled \union {"apply"} /\ task.from = "request"

\* No work of the task goes beyond that frame.
LEMMA WorkFrames ==
    ASSUME Types, Work
    PROVE  WorkFrame
<1>1. CASE Begin
  BY <1>1 DEF WorkFrame, Begin, Tasks, Types, Unsettled, epochs, mailbox, history
<1>2. CASE Pause
  BY <1>2 DEF WorkFrame, Pause, Operating, Done, taskStays, Tasks, Types, Unsettled, epochs,
     mailbox, history
<1>3. CASE ResumeAnswered
  BY <1>3 DEF WorkFrame, ResumeAnswered, Operating, Done, taskStays, Tasks, Types, Unsettled,
     epochs, mailbox, history
<1>4. CASE ResumeStarts
  BY <1>4 DEF WorkFrame, ResumeStarts, Operating, taskStays, Tasks, Types, Unsettled, epochs,
     mailbox, history
<1>5. CASE Acquire
  BY <1>5 DEF WorkFrame, Acquire, Operating, Done, taskStays, Tasks, Types, Unsettled, epochs,
     mailbox, history
<1>6. CASE Release
  BY <1>6 DEF WorkFrame, Release, Operating, Done, taskStays, Tasks, Types, Unsettled, epochs,
     mailbox, history
<1>7. CASE Check
  BY <1>7 DEF WorkFrame, Check, taskStays, Tasks, Types, Unsettled, epochs, mailbox, history
<1>8. CASE StepOwned
  BY <1>8 DEF WorkFrame, StepOwned, Publishing, taskStays, Tasks, Types, Unsettled, epochs,
     mailbox, history
<1>9. ASSUME NEW h \in Health, StepFaulty(h) PROVE WorkFrame
  BY <1>9 DEF WorkFrame, StepFaulty, Stepping, Publishing, taskStays, Tasks, Types, Unsettled,
     epochs, mailbox, history
<1>10. ASSUME NEW h \in Health, StepOverheats(h) PROVE WorkFrame
  BY <1>10 DEF WorkFrame, StepOverheats, Stepping, BeginCooling, taskStays, Tasks, Types,
     Unsettled, epochs, mailbox, history
<1>11. ASSUME NEW h \in Health, StepIdle(h) PROVE WorkFrame
  BY <1>11 DEF WorkFrame, StepIdle, Normal, Stepping, Publishing, taskStays, Tasks, Types,
     Unsettled, epochs, mailbox, history
<1>12. ASSUME NEW h \in Health, StepMines(h) PROVE WorkFrame
  BY <1>12 DEF WorkFrame, StepMines, Normal, Stepping, taskStays, Tasks, Types, Unsettled, epochs,
     mailbox, history
<1>13. ASSUME NEW h \in Health, NEW t \in Sensors, StepCools(h, t) PROVE WorkFrame
  BY <1>13 DEF WorkFrame, StepCools, Stepping, Publishing, taskStays, Tasks, Types, Unsettled,
     epochs, mailbox, history
<1>14. ASSUME NEW h \in Health, NEW t \in Sensors, StepRecovers(h, t) PROVE WorkFrame
  BY <1>14 DEF WorkFrame, StepRecovers, Stepping, Publishing, taskStays, Tasks, Types, Unsettled,
     epochs, mailbox, history
<1>15. ASSUME NEW r \in StartResults, StartEnds(r) PROVE WorkFrame
  BY <1>15 DEF WorkFrame, StartEnds, taskStays, Tasks, Types, Unsettled, epochs, mailbox, history
<1>16. CASE StartAccepted
  BY <1>16 DEF WorkFrame, StartAccepted, Return, taskStays, Tasks, Types, Unsettled, epochs,
     mailbox, history
<1>17. CASE StartOverheats
  BY <1>17 DEF WorkFrame, StartOverheats, BeginCooling, taskStays, Tasks, Types, Unsettled,
     epochs, mailbox, history
<1>18. CASE StartCancelled
  BY <1>18 DEF WorkFrame, StartCancelled, taskStays, Tasks, Types, Unsettled, epochs, mailbox,
     history
<1>19. CASE Apply
  BY <1>19 DEF WorkFrame, Apply, taskStays, Tasks, Types, Unsettled, epochs, mailbox, history
<1>20. CASE Abort
  BY <1>20 DEF WorkFrame, Abort, Return, taskStays, Tasks, Types, Unsettled, epochs, mailbox,
     history
<1>21. CASE CoolStop
  BY <1>21 DEF WorkFrame, CoolStop, Return, taskStays, Tasks, Types, Unsettled, epochs, mailbox,
     history
<1>22. CASE Publish
  BY <1>22 DEF WorkFrame, Publish, InitTask, Tasks, Types, Unsettled, epochs, mailbox, history
<1> QED
  BY <1>1, <1>2, <1>3, <1>4, <1>5, <1>6, <1>7, <1>8, <1>9, <1>10, <1>11, <1>12, <1>13, <1>14,
     <1>15, <1>16, <1>17, <1>18, <1>19, <1>20, <1>21, <1>22 DEF Work

\* A caller's steps leave the policy, the board and the place of the task alone;
\* at most the request the task works on is marked.
CallingFrame ==
    /\ policy' = policy /\ maintenance' = maintenance /\ fanAllowed' = fanAllowed
    /\ ioLock' = ioLock /\ rail' = rail /\ pausedAt' = pausedAt
    /\ task'.pc = task.pc /\ task'.from = task.from /\ task'.success = task.success
    /\ task'.req.kind = task.req.kind
    /\ task'.req \in Requests <=> task.req \in Requests
    /\ task.req \in Requests => /\ task'.req.owner = task.req.owner
                                /\ task'.req.epoch = task.req.epoch
                                /\ task'.req.caller = task.req.caller
                                /\ task.req.cancelled => task'.req.cancelled

\* No step of a caller goes beyond that frame.
LEMMA CallingFrames ==
    ASSUME Types, Calling
    PROVE  CallingFrame
<1>1. PICK c \in Callers :
        \/ \E kind \in Kinds, owner \in PowerOwners \union {"NONE"} : Call(c, kind, owner)
        \/ CallFails(c) \/ Enqueue(c) \/ CallTimesOut(c) \/ CallReturns(c)
  BY Zenon DEF Calling
<1>2. CASE CallTimesOut(c)
  <2>1. task.req \in Requests \union {NoRequest}
    BY DEF Types, Tasks
  <2>2. /\ task'.pc = task.pc /\ task'.from = task.from /\ task'.success = task.success
        /\ task'.req = Withdrawn(task.req, c)
    BY <1>2 DEF CallTimesOut, Types, Tasks
  <2>3. task.req \in Requests =>
          /\ Withdrawn(task.req, c).owner = task.req.owner
          /\ Withdrawn(task.req, c).epoch = task.req.epoch
          /\ Withdrawn(task.req, c).caller = task.req.caller
          /\ task.req.cancelled => Withdrawn(task.req, c).cancelled
    BY WithdrawnRequest
  <2>4. /\ Withdrawn(task.req, c).kind = task.req.kind
        /\ Withdrawn(task.req, c) \in Requests <=> task.req \in Requests
    BY <2>1, WithdrawnTask
  <2>5. /\ policy' = policy /\ maintenance' = maintenance /\ fanAllowed' = fanAllowed
        /\ ioLock' = ioLock /\ rail' = rail /\ pausedAt' = pausedAt
    BY <1>2 DEF CallTimesOut, shared, world, history
  <2> QED
    BY <2>2, <2>3, <2>4, <2>5 DEF CallingFrame
<1>3. CASE ~CallTimesOut(c)
  BY <1>1, <1>3 DEF CallingFrame, Call, CallFails, Enqueue, CallReturns, shared, world, history
<1> QED
  BY <1>2, <1>3

\* The steps of the other tasks and a stutter.
Around == \/ IoBegin \/ IoEnd \/ SettingsCheck \/ SettingsWrite
          \/ SetReady \/ PoolsChange \/ HardwareFault \/ UNCHANGED vars

\* They leave the policy, the mailbox and the supply alone, and take the I/O lock
\* only while maintenance does not shut them out.
AroundFrame ==
    /\ policy' = policy /\ task' = task /\ requests' = requests /\ callers' = callers
    /\ stopEpoch' = stopEpoch /\ pausedAt' = pausedAt /\ resumedAt' = resumedAt
    /\ lost' = lost /\ maintenance' = maintenance /\ fanAllowed' = fanAllowed
    /\ rail' = rail
    /\ ioLock' = "io" => ioLock = "io" \/ ~maintenance

\* No step of the other tasks goes beyond that frame.
LEMMA AroundFrames == Around => AroundFrame
  BY DEF Around, AroundFrame, IoBegin, IoEnd, SettingsCheck, SettingsWrite, SetReady, PoolsChange,
         HardwareFault, vars, epochs, mailbox, shared, world, history

\* After a reset everything is as at power up.
Fresh == /\ ~policy.running /\ ~policy.stopped /\ ~policy.paused /\ ~policy.cooling
         /\ policy.owner = "NONE"
         /\ task = InitTask /\ requests = <<>> /\ callers = [c \in Callers |-> IdleCaller]
         /\ stopEpoch = 0 /\ pausedAt = 0 /\ resumedAt = 0
         /\ ~lost /\ ~maintenance /\ ~fanAllowed /\ ioLock = "free"

\* So it is at power up.
LEMMA InitFresh == Init => Fresh
  BY DEF Init, InitPolicy, Fresh

\* So it is after a reset, but for the supply and the marker.
LEMMA ResetFresh == Reset => Fresh'
<1> SUFFICES ASSUME Reset PROVE Fresh'
  OBVIOUS
<1>1. ~policy'.running /\ ~policy'.stopped /\ ~policy'.paused /\ ~policy'.cooling
      /\ policy'.owner = "NONE"
  BY DEF Reset, InitPolicy
<1>2. task' = InitTask /\ requests' = <<>> /\ callers' = [c \in Callers |-> IdleCaller]
  BY DEF Reset
<1>3. /\ stopEpoch' = 0 /\ pausedAt' = 0 /\ resumedAt' = 0
      /\ ~lost' /\ ~maintenance' /\ ~fanAllowed' /\ ioLock' = "free"
  BY Zenon DEF Reset
<1> QED
  BY <1>1, <1>2, <1>3 DEF Fresh

\* The clock of a cooldown goes on outside a start: inside, it has run its time.
LEMMA TickFrame ==
    ASSUME Types, Tick
    PROVE  /\ task' = task /\ requests' = requests /\ callers' = callers
           /\ stopEpoch' = stopEpoch /\ pausedAt' = pausedAt /\ resumedAt' = resumedAt
           /\ lost' = lost /\ maintenance' = maintenance /\ fanAllowed' = fanAllowed
           /\ rail' = rail /\ ioLock' = ioLock
           /\ policy'.owner = policy.owner /\ policy'.running = policy.running
           /\ policy'.stopped = policy.stopped /\ policy'.fault = policy.fault
           /\ policy'.cooling = policy.cooling /\ policy'.paused = policy.paused
           /\ policy'.saved = policy.saved
           /\ policy.age # CoolTime
<1>1. /\ task' = task /\ requests' = requests /\ callers' = callers
      /\ stopEpoch' = stopEpoch /\ pausedAt' = pausedAt /\ resumedAt' = resumedAt
      /\ lost' = lost /\ maintenance' = maintenance /\ fanAllowed' = fanAllowed
      /\ rail' = rail /\ ioLock' = ioLock
  BY DEF Tick, epochs, mailbox, shared, world, history
<1>2. /\ policy'.owner = policy.owner /\ policy'.running = policy.running
      /\ policy'.stopped = policy.stopped /\ policy'.fault = policy.fault
      /\ policy'.cooling = policy.cooling /\ policy'.paused = policy.paused
      /\ policy'.saved = policy.saved
  BY DEF Tick, Types, PolicyType
<1>3. policy.age # CoolTime
  BY PowerTaskAssumption DEF Tick, PowerTaskAssumption
<1> QED
  BY <1>1, <1>2, <1>3

\* Every step is one of the task, of a caller, of another task, of time or a reset.
LEMMA NextSplit == [Next]_vars => Task \/ Calling \/ Around \/ Tick \/ Reset
  BY Zenon DEF Next, Around

-----------------------------------------------------------------------------
(* Board, Errand and Shut are kept *)

\* Every step keeps Board.
LEMMA BoardStep ==
    ASSUME Types, Errand, Board, [Next]_vars
    PROVE  Board'
<1> USE DEF Board, StoppedIsOff, RoundEndsSafe, FanUnderControl, Unsettled
<1>1. CASE Task
  BY <1>1, BoardTask
<1>2. CASE Calling
  BY <1>2, CallingFrames DEF CallingFrame
<1>3. CASE Around
  BY <1>3, AroundFrames DEF AroundFrame
<1>4. CASE Tick
  BY <1>4, TickFrame
<1>5. CASE Reset
  BY <1>5, ResetFresh DEF Fresh, InitTask
<1> QED
  BY <1>1, <1>2, <1>3, <1>4, <1>5, NextSplit

\* Every step keeps Errand.
LEMMA ErrandStep ==
    ASSUME Types, Errand, [Next]_vars
    PROVE  Errand'
<1> USE DEF Unsettled
<1>1. CASE Receive
  <2>1. Head(requests) \in Requests
    BY <1>1, TailOfMailbox DEF Receive, Types
  <2>2. task'.req = Head(requests) /\ task'.pc \in {"op", "finish"} /\ callers' = callers
    BY <1>1 DEF Receive, Types, Tasks
  <2> QED
    BY <2>1, <2>2 DEF Errand
<1>2. CASE Complete
  <2>1. task'.pc = "drain"
    BY <1>2 DEF Complete, InitTask
  <2>2. task.req.caller \in Callers
    BY <1>2, RequestOfTask DEF Types, Complete
  <2>3. \A c \in Callers : callers'[c].pc = "send" => callers'[c].kind = callers[c].kind
                                                      /\ callers[c].pc = "send"
    BY <1>2, <2>2 DEF Complete, Types, CallerStates
  <2> QED
    BY <2>1, <2>3 DEF Errand
<1>3. CASE Withdraw
  BY <1>3 DEF Withdraw, InitTask, Errand, mailbox
<1>4. CASE Work
  <2>1. WorkFrame
    BY <1>4, WorkFrames
  <2>2. task.req.kind = "RESUME" => task.req \in Requests
    BY DEF Types, Tasks, NoRequest
  <2> QED
    BY <2>1, <2>2 DEF WorkFrame, Errand, Operating
<1>5. CASE Calling
  <2>1. PICK c \in Callers :
          \/ \E kind \in Kinds, owner \in PowerOwners \union {"NONE"} : Call(c, kind, owner)
          \/ CallFails(c) \/ Enqueue(c) \/ CallTimesOut(c) \/ CallReturns(c)
    BY <1>5, Zenon DEF Calling
  <2>2. \A d \in Callers : callers'[d].pc = "send" => callers'[d].kind \in Kinds
    BY <2>1 DEF Call, CallFails, Enqueue, CallTimesOut, CallReturns, IdleCaller, Types,
                CallerStates, Errand
  <2> QED
    BY <1>5, <2>2, CallingFrames DEF CallingFrame, Errand
<1>6. CASE Around
  BY <1>6, AroundFrames DEF AroundFrame, Errand
<1>7. CASE Tick
  BY <1>7, TickFrame DEF Errand
<1>8. CASE Reset
  BY <1>8, ResetFresh DEF Fresh, InitTask, IdleCaller, Errand
<1> QED
  BY <1>1, <1>2, <1>3, <1>4, <1>5, <1>6, <1>7, <1>8, NextSplit, TaskSplit

\* Among these steps only acquire and release change the owner; none touches the
\* I/O lock or lets board I/O in again.
OwnerFrame ==
    /\ maintenance' = maintenance /\ ioLock' = ioLock
    /\ policy'.owner = policy.owner \/ Acquire \/ Release

\* No work of the task goes beyond that frame.
LEMMA OwnerFrames ==
    ASSUME Types, Work
    PROVE  OwnerFrame
<1>1. CASE Begin
  BY <1>1 DEF OwnerFrame, Begin, Types, PolicyType, shared, taskStays
<1>2. CASE Pause
  BY <1>2, PauseEffect DEF Pause, OwnerFrame, taskStays, shared, OnlyStops
<1>3. CASE ResumeAnswered
  BY <1>3 DEF OwnerFrame, ResumeAnswered, Types, PolicyType, shared, taskStays
<1>4. CASE ResumeStarts
  BY <1>4 DEF OwnerFrame, ResumeStarts, Types, PolicyType, shared, taskStays
<1>5. CASE Acquire
  BY <1>5 DEF Acquire, OwnerFrame, taskStays
<1>6. CASE Release
  BY <1>6 DEF Release, OwnerFrame, taskStays
<1>7. CASE Check
  BY <1>7, CheckEffect DEF Check, OwnerFrame, taskStays, shared, OnlyStops
<1>8. CASE StepOwned
  BY <1>8 DEF OwnerFrame, StepOwned, Types, PolicyType, shared, taskStays
<1>9. ASSUME NEW h \in Health, StepFaulty(h) PROVE OwnerFrame
  BY <1>9, StepFaultyEffect DEF StepFaulty, OwnerFrame, taskStays, shared, OnlyStops
<1>10. ASSUME NEW h \in Health, StepOverheats(h) PROVE OwnerFrame
  BY <1>10 DEF OwnerFrame, StepOverheats, BeginCooling, Types, PolicyType, shared, taskStays
<1>11. ASSUME NEW h \in Health, StepIdle(h) PROVE OwnerFrame
  BY <1>11, StepIdleEffect DEF StepIdle, OwnerFrame, taskStays, shared, OnlyStops
<1>12. ASSUME NEW h \in Health, StepMines(h) PROVE OwnerFrame
  BY <1>12 DEF OwnerFrame, StepMines, Types, PolicyType, shared, taskStays
<1>13. ASSUME NEW h \in Health, NEW t \in Sensors, StepCools(h, t) PROVE OwnerFrame
  BY <1>13 DEF OwnerFrame, StepCools, Types, PolicyType, shared, taskStays
<1>14. ASSUME NEW h \in Health, NEW t \in Sensors, StepRecovers(h, t) PROVE OwnerFrame
  BY <1>14 DEF OwnerFrame, StepRecovers, Types, PolicyType, shared, taskStays
<1>15. ASSUME NEW r \in StartResults, StartEnds(r) PROVE OwnerFrame
  BY <1>15 DEF OwnerFrame, StartEnds, Types, PolicyType, shared, taskStays
<1>16. CASE StartAccepted
  BY <1>16 DEF OwnerFrame, StartAccepted, Types, PolicyType, shared, taskStays
<1>17. CASE StartOverheats
  BY <1>17 DEF OwnerFrame, StartOverheats, BeginCooling, Types, PolicyType, shared, taskStays
<1>18. CASE StartCancelled
  BY <1>18 DEF OwnerFrame, StartCancelled, Types, PolicyType, shared, taskStays
<1>19. CASE Apply
  BY <1>19 DEF OwnerFrame, Apply, Types, PolicyType, shared, taskStays
<1>20. CASE Abort
  BY <1>20, UndoEffect DEF Abort, OwnerFrame, taskStays, shared, OnlyStops
<1>21. CASE CoolStop
  BY <1>21, UndoEffect DEF CoolStop, OwnerFrame, taskStays, shared, OnlyStops
<1>22. CASE Publish
  BY <1>22 DEF OwnerFrame, Publish, Types, PolicyType, shared, taskStays
<1> QED
  BY <1>1, <1>2, <1>3, <1>4, <1>5, <1>6, <1>7, <1>8, <1>9, <1>10, <1>11, <1>12, <1>13, <1>14,
     <1>15, <1>16, <1>17, <1>18, <1>19, <1>20, <1>21, <1>22 DEF Work

\* Every step keeps Shut: maintenance is announced before it is acquired.
LEMMA ShutStep ==
    ASSUME Types, Errand, Shut, [Next]_vars
    PROVE  Shut'
<1> USE DEF Shut, IoExclusive
<1>1. CASE Receive
  <2>1. policy' = policy /\ ioLock' = ioLock /\ (maintenance => maintenance')
    BY <1>1, Zenon DEF Receive
  <2>2. Operating("ACQUIRE")' => maintenance'
    <3>1. task'.pc = (IF Live(Head(requests)) THEN "op" ELSE "finish")
          /\ task'.req = Head(requests)
      BY <1>1 DEF Receive, Types, Tasks
    <3>2. Live(Head(requests)) /\ Head(requests).kind = "ACQUIRE" => maintenance'
      BY <1>1, Zenon DEF Receive
    <3> QED
      BY <3>1, <3>2 DEF Operating
  <2> QED
    BY <2>1, <2>2
<1>2. CASE Complete
  <2>1. policy' = policy /\ ioLock' = ioLock /\ task'.pc = "drain"
    BY <1>2 DEF Complete, InitTask
  <2>2. policy.owner # "NONE" => maintenance'
    BY <1>2, Zenon DEF Complete
  <2> QED
    BY <2>1, <2>2 DEF Operating
<1>3. CASE Withdraw
  <2>1. ioLock' = ioLock /\ task'.pc = "drain"
    BY <1>3 DEF Withdraw, InitTask
  <2>2. /\ policy'.owner = policy.owner \/ policy'.owner = "NONE"
        /\ maintenance' = (policy'.owner # "NONE")
    BY <1>3, WithdrawEffect
  <2>3. policy'.owner # "NONE" => maintenance'
    BY <2>2, Zenon
  <2> QED
    BY <2>1, <2>2, <2>3 DEF Operating
<1>4. CASE Work
  <2>1. OwnerFrame /\ task'.pc # "op"
    BY <1>4, OwnerFrames, WorkFrames DEF WorkFrame
  <2>2. CASE Acquire
    <3>1. Operating("ACQUIRE")
      BY <2>2 DEF Acquire
    <3> QED
      BY <2>1, <2>2, <3>1, AcquireEffect DEF OwnerFrame, Operating
  <2>3. CASE Release
    BY <2>1, <2>3, ReleaseEffect DEF OwnerFrame, Operating
  <2>4. CASE ~Acquire /\ ~Release
    BY <2>1, <2>4 DEF OwnerFrame, Operating
  <2> QED
    BY <2>2, <2>3, <2>4
<1>5. CASE Calling
  BY <1>5, CallingFrames DEF CallingFrame, Operating
<1>6. CASE Around
  BY <1>6, AroundFrames DEF AroundFrame, Operating
<1>7. CASE Tick
  BY <1>7, TickFrame DEF Operating
<1>8. CASE Reset
  BY <1>8, ResetFresh DEF Fresh, InitTask, Operating
<1> QED
  BY <1>1, <1>2, <1>3, <1>4, <1>5, <1>6, <1>7, <1>8, NextSplit, TaskSplit

\* No request is the absence of one.
LEMMA NoRequestIsNone == NoRequest \notin Requests /\ NoRequest.kind = "NONE"
  BY DEF NoRequest, Requests, Kinds

\* What is in the mailbox is a request.
LEMMA MailboxTyped ==
    ASSUME Types
    PROVE  /\ Len(requests) \in Nat
           /\ \A i \in 1 .. Len(requests) :
                 /\ requests[i] \in Requests /\ requests[i].caller \in Callers
                 /\ requests[i].kind \in Kinds /\ requests[i].epoch \in Nat
                 /\ requests[i].owner \in Owners
<1>1. /\ Len(requests) \in Nat
      /\ \A i \in 1 .. Len(requests) : requests[i] \in Requests
  BY ElementOfSeq, LenProperties DEF Types
<1>2. \A r \in Requests : /\ r.caller \in Callers /\ r.kind \in Kinds /\ r.epoch \in Nat
                          /\ r.owner \in Owners
  BY DEF Requests
<1> QED
  BY <1>1, <1>2

\* What becomes of the mailbox when a caller gives up: its requests are marked,
\* the others stay.
LEMMA TimesOutEffect ==
    ASSUME Types, NEW c \in Callers, CallTimesOut(c)
    PROVE  /\ Len(requests') = Len(requests) /\ Len(requests) \in Nat
           /\ \A i \in 1 .. Len(requests) :
                 /\ requests[i] \in Requests
                 /\ requests'[i].caller = requests[i].caller
                 /\ requests'[i].kind = requests[i].kind
                 /\ requests'[i].owner = requests[i].owner
                 /\ requests'[i].epoch = requests[i].epoch
                 /\ ~requests'[i].cancelled => ~requests[i].cancelled /\ requests[i].caller # c
           /\ task.req \in Requests /\ ~task'.req.cancelled =>
                 ~task.req.cancelled /\ task.req.caller # c
           /\ callers' = [callers EXCEPT ![c] = IdleCaller]
<1>1. /\ requests' = [i \in DOMAIN requests |-> Withdrawn(requests[i], c)]
      /\ callers' = [callers EXCEPT ![c] = IdleCaller]
  BY DEF CallTimesOut
<1>2. /\ Len(requests') = Len(requests)
      /\ \A i \in 1 .. Len(requests) :
            requests[i] \in Requests /\ requests'[i] = Withdrawn(requests[i], c)
  BY <1>1, WithdrawnMailbox DEF Types
<1>3. Len(requests) \in Nat
  BY LenProperties DEF Types
<1>4. ASSUME NEW i \in 1 .. Len(requests)
      PROVE  /\ requests'[i].caller = requests[i].caller
             /\ requests'[i].kind = requests[i].kind
             /\ requests'[i].owner = requests[i].owner
             /\ requests'[i].epoch = requests[i].epoch
             /\ ~requests'[i].cancelled => ~requests[i].cancelled /\ requests[i].caller # c
  BY <1>2, WithdrawnRequest
<1>5. task.req \in Requests /\ ~task'.req.cancelled =>
        ~task.req.cancelled /\ task.req.caller # c
  <2>1. task'.req = Withdrawn(task.req, c)
    BY DEF CallTimesOut, Types, Tasks
  <2> QED
    BY <2>1, WithdrawnRequest
<1> QED
  BY <1>1, <1>2, <1>3, <1>4, <1>5

\* What enters the mailbox.
LEMMA EnqueueEffect ==
    ASSUME Types, Errand, NEW c \in Callers, Enqueue(c)
    PROVE  /\ callers[c].pc = "send" /\ callers[c].kind \in Kinds
           /\ callers' = [callers EXCEPT ![c].pc = "waiting"]
           /\ task' = task /\ Len(requests) \in Nat /\ Len(requests') = Len(requests) + 1
           /\ \A i \in 1 .. Len(requests) : requests'[i] = requests[i] /\ requests[i] \in Requests
           /\ LET r == requests'[Len(requests) + 1]
              IN  /\ r \in Requests /\ r.caller = c /\ r.kind = callers[c].kind
                  /\ r.owner = callers[c].owner /\ r.epoch = callers[c].epoch /\ ~r.cancelled
           /\ \A i \in 1 .. Len(requests') : i \in 1 .. Len(requests) \/ i = Len(requests) + 1
<1> DEFINE r == [caller |-> c, kind |-> callers[c].kind, owner |-> callers[c].owner,
                 epoch |-> callers[c].epoch, cancelled |-> FALSE]
<1>1. callers[c] \in CallerStates /\ callers[c].kind \in Kinds /\ callers[c].pc = "send"
  BY DEF Enqueue, Types, Errand
<1>2. r \in Requests
  BY <1>1 DEF CallerStates, Requests
<1>3. /\ requests' = Append(requests, r) /\ callers' = [callers EXCEPT ![c].pc = "waiting"]
      /\ task' = task
  BY Zenon DEF Enqueue
<1>4. /\ r.caller = c /\ r.kind = callers[c].kind /\ r.owner = callers[c].owner
      /\ r.epoch = callers[c].epoch /\ ~r.cancelled
  OBVIOUS
<1> HIDE DEF r
<1>5. /\ Len(requests) \in Nat /\ Len(requests') = Len(requests) + 1
      /\ \A i \in 1 .. Len(requests) : requests'[i] = requests[i]
      /\ requests'[Len(requests) + 1] = r
      /\ \A i \in 1 .. Len(requests') : i \in 1 .. Len(requests) \/ i = Len(requests) + 1
  BY <1>2, <1>3, AppendToMailbox DEF Types
<1>6. \A i \in 1 .. Len(requests) : requests[i] \in Requests
  BY ElementOfSeq DEF Types
<1> QED
  BY <1>1, <1>2, <1>3, <1>4, <1>5, <1>6

\* What leaves the mailbox.
LEMMA ReceiveEffect ==
    ASSUME Types, Receive
    PROVE  /\ Len(requests) \in Nat /\ 1 \in 1 .. Len(requests)
           /\ Len(requests') = Len(requests) - 1
           /\ \A i \in 1 .. Len(requests') : i + 1 \in 1 .. Len(requests)
                                            /\ requests'[i] = requests[i + 1]
           /\ task'.req = requests[1] /\ requests[1] \in Requests
           /\ task'.success = FALSE
           /\ task'.pc \in {"op", "finish"}
           /\ task'.pc = "op" => Live(requests[1])
           /\ task'.pc = "finish" => ~Live(requests[1])
           /\ task.pc = "drain"
           /\ policy' = policy /\ callers' = callers /\ stopEpoch' = stopEpoch /\ rail' = rail
           /\ pausedAt' = pausedAt /\ resumedAt' = resumedAt /\ lost' = lost
<1>1. requests # <<>> /\ requests' = Tail(requests) /\ task.pc = "drain"
  BY DEF Receive
<1>2. /\ Len(requests) \in Nat /\ 1 \in 1 .. Len(requests)
      /\ Len(requests') = Len(requests) - 1
      /\ \A i \in 1 .. Len(requests') : i + 1 \in 1 .. Len(requests)
                                       /\ requests'[i] = requests[i + 1]
      /\ Head(requests) = requests[1] /\ requests[1] \in Requests
  BY <1>1, TailOfMailbox DEF Types
<1>3. /\ task'.req = Head(requests) /\ task'.success = FALSE
      /\ task'.pc = (IF Live(Head(requests)) THEN "op" ELSE "finish")
  BY DEF Receive, Types, Tasks
<1>4. /\ policy' = policy /\ callers' = callers /\ stopEpoch' = stopEpoch /\ rail' = rail
      /\ pausedAt' = pausedAt /\ resumedAt' = resumedAt /\ lost' = lost
  BY DEF Receive, world, history
<1> QED
  BY <1>1, <1>2, <1>3, <1>4

\* The result reaches the caller.
LEMMA CompleteEffect ==
    ASSUME Types, Errand, Complete
    PROVE  /\ task.req \in Requests /\ task.req.caller \in Callers /\ ~task.req.cancelled
           /\ task.pc = "finish" /\ task'.pc = "drain" /\ task'.req = NoRequest
           /\ task'.success = FALSE
           /\ callers'[task.req.caller].pc = "done"
           /\ callers'[task.req.caller].success = task.success
           /\ callers'[task.req.caller].kind = callers[task.req.caller].kind
           /\ callers'[task.req.caller].owner = callers[task.req.caller].owner
           /\ callers'[task.req.caller].holds = callers[task.req.caller].holds
           /\ \A c \in Callers : c # task.req.caller => callers'[c] = callers[c]
           /\ policy' = policy /\ requests' = requests /\ stopEpoch' = stopEpoch /\ rail' = rail
           /\ resumedAt' = resumedAt /\ lost' = lost
           /\ \/ pausedAt' = pausedAt
              \/ task.req.kind = "PAUSE" /\ task.success /\ pausedAt' = task.req.epoch
<1>1. task.req \in Requests /\ task.req.caller \in Callers
  BY RequestOfTask DEF Types, Complete
<1>2. callers[task.req.caller] \in CallerStates /\ \A c \in Callers : callers[c] \in CallerStates
  BY <1>1 DEF Types
<1>3. callers' = [callers EXCEPT ![task.req.caller].pc = "done",
                                 ![task.req.caller].success = task.success]
  BY Zenon DEF Complete
<1>4. /\ callers'[task.req.caller].pc = "done"
      /\ callers'[task.req.caller].success = task.success
      /\ callers'[task.req.caller].kind = callers[task.req.caller].kind
      /\ callers'[task.req.caller].owner = callers[task.req.caller].owner
      /\ callers'[task.req.caller].holds = callers[task.req.caller].holds
      /\ \A c \in Callers : c # task.req.caller => callers'[c] = callers[c]
  BY <1>1, <1>2, <1>3 DEF Types, CallerStates
<1>5. /\ task.pc = "finish" /\ task'.pc = "drain" /\ task'.req = NoRequest
      /\ ~task.req.cancelled /\ task'.success = FALSE
  BY DEF Complete, InitTask
<1>6. /\ policy' = policy /\ requests' = requests /\ stopEpoch' = stopEpoch /\ rail' = rail
      /\ resumedAt' = resumedAt /\ lost' = lost
      /\ \/ pausedAt' = pausedAt
         \/ task.req.kind = "PAUSE" /\ task.success /\ pausedAt' = task.req.epoch
  BY DEF Complete, world, epochs
<1> QED
  BY <1>1, <1>4, <1>5, <1>6

\* Every step keeps Mail: a request is answered at most once, to whoever waits for it.
LEMMA MailStep ==
    ASSUME Types, Errand, Mail, [Next]_vars
    PROVE  Mail'
<1>1. CASE Receive
  <2>1. \A r \in Requests : Matches(r)' <=> Matches(r)
    BY <1>1, ReceiveEffect DEF Matches
  <2>2. \A i \in 1 .. Len(requests) : requests[i] \in Requests
    BY ElementOfSeq DEF Types
  <2>3. \A i \in 1 .. Len(requests') : ~requests'[i].cancelled => Matches(requests[i])'
    BY <1>1, <2>1, <2>2, ReceiveEffect DEF Mail
  <2>4. task'.req \in Requests /\ ~task'.req.cancelled => Matches(task.req)'
    BY <1>1, <2>1, ReceiveEffect DEF Mail
  <2>5. ASSUME NEW i \in 1 .. Len(requests'), NEW j \in 1 .. Len(requests'),
               requests'[i].caller = requests'[j].caller,
               ~requests'[i].cancelled, ~requests'[j].cancelled
        PROVE  i = j
    BY <1>1, <2>5, ReceiveEffect DEF Mail
  <2>6. ASSUME NEW i \in 1 .. Len(requests'),
               ~task'.req.cancelled, ~requests'[i].cancelled
        PROVE  requests'[i].caller # task'.req.caller
    BY <1>1, <2>6, ReceiveEffect DEF Mail
  <2> QED
    BY <2>3, <2>4, <2>5, <2>6 DEF Mail, Matches
<1>2. CASE Complete
  <2>1. \A i \in 1 .. Len(requests) : requests[i] \in Requests /\ requests[i].caller \in Callers
    BY MailboxTyped
  <2>2. ASSUME NEW i \in 1 .. Len(requests), ~requests[i].cancelled
        PROVE  Matches(requests[i])'
    BY <1>2, <2>1, <2>2, CompleteEffect DEF Mail, Matches
  <2> QED
    BY <1>2, <2>2, CompleteEffect, NoRequestIsNone DEF Mail
<1>3. CASE Withdraw
  BY <1>3, NoRequestIsNone DEF Withdraw, mailbox, InitTask, Mail, Matches
<1>4. CASE Work
  BY <1>4, WorkFrames, NoRequestIsNone DEF WorkFrame, Mail, Matches
<1>5. ASSUME NEW c \in Callers, NEW kind \in Kinds, NEW owner \in PowerOwners \union {"NONE"},
             Call(c, kind, owner)
      PROVE  Mail'
  <2>1. /\ requests' = requests /\ task' = task /\ callers[c].pc = "idle"
        /\ \A d \in Callers : d # c => callers'[d] = callers[d]
    BY <1>5 DEF Call, Types
  <2>2. \A r \in Requests : Matches(r) => Matches(r)'
    BY <2>1 DEF Matches, Requests
  <2>3. \A i \in 1 .. Len(requests) : ~requests[i].cancelled => Matches(requests[i])'
    BY <2>1, <2>2, MailboxTyped DEF Mail
  <2>4. task'.req \in Requests /\ ~task'.req.cancelled => Matches(task.req)'
    BY <2>1, <2>2 DEF Mail
  <2> QED
    BY <2>1, <2>3, <2>4 DEF Mail
<1>6. ASSUME NEW c \in Callers, CallFails(c) \/ CallReturns(c) PROVE Mail'
  <2>1. /\ requests' = requests /\ task' = task /\ callers[c].pc # "waiting"
        /\ \A d \in Callers : d # c => callers'[d] = callers[d]
    BY <1>6 DEF CallFails, CallReturns, Types
  <2>2. \A r \in Requests : Matches(r) => Matches(r)'
    BY <2>1 DEF Matches, Requests
  <2>3. \A i \in 1 .. Len(requests) : ~requests[i].cancelled => Matches(requests[i])'
    BY <2>1, <2>2, MailboxTyped DEF Mail
  <2>4. task'.req \in Requests /\ ~task'.req.cancelled => Matches(task.req)'
    BY <2>1, <2>2 DEF Mail
  <2> QED
    BY <2>1, <2>3, <2>4 DEF Mail
<1>7. ASSUME NEW c \in Callers, Enqueue(c) PROVE Mail'
  <2>1. /\ callers'[c].pc = "waiting" /\ callers'[c].kind = callers[c].kind
        /\ callers'[c].owner = callers[c].owner
        /\ \A d \in Callers : d # c => callers'[d] = callers[d]
    BY <1>7, EnqueueEffect DEF Types, CallerStates
  <2>2. \A r \in Requests : Matches(r) => r.caller # c /\ Matches(r)'
    BY <1>7, <2>1, EnqueueEffect DEF Matches, Requests
  <2> DEFINE n == Len(requests) + 1
  <2>3. /\ requests'[n] \in Requests /\ requests'[n].caller = c /\ task' = task
        /\ requests'[n].kind = callers[c].kind /\ requests'[n].owner = callers[c].owner
    BY <1>7, EnqueueEffect
  <2>4. \A i \in 1 .. Len(requests) : /\ requests'[i] = requests[i] /\ requests[i] \in Requests
                                      /\ ~requests[i].cancelled => Matches(requests[i])
    BY <1>7, EnqueueEffect DEF Mail
  <2>5. \A i \in 1 .. Len(requests') : i \in 1 .. Len(requests) \/ i = n
    BY <1>7, EnqueueEffect
  <2> HIDE DEF n
  <2>6. \A i \in 1 .. Len(requests') : ~requests'[i].cancelled => Matches(requests[i])'
    <3>1. \A i \in 1 .. Len(requests) : ~requests'[i].cancelled => Matches(requests[i])'
      BY <2>2, <2>4 DEF Matches
    <3>2. ASSUME NEW i \in 1 .. Len(requests'), i = n PROVE Matches(requests[i])'
      BY <2>1, <2>3, <3>2 DEF Matches
    <3> QED
      BY <2>5, <3>1, <3>2
  <2>7. task'.req \in Requests /\ ~task'.req.cancelled => Matches(task.req)'
                                                         /\ task'.req.caller # c
    BY <2>2, <2>3 DEF Mail
  <2>8. \A i, j \in 1 .. Len(requests') :
           requests'[i].caller = requests'[j].caller
           /\ ~requests'[i].cancelled /\ ~requests'[j].cancelled => i = j
    BY <2>2, <2>3, <2>4, <2>5 DEF Mail
  <2>9. \A i \in 1 .. Len(requests') :
           task'.req \in Requests /\ ~task'.req.cancelled /\ ~requests'[i].cancelled
           => requests'[i].caller # task'.req.caller
    BY <2>3, <2>4, <2>5, <2>7 DEF Mail
  <2> QED
    BY <2>6, <2>7, <2>8, <2>9 DEF Mail, Matches
<1>8. ASSUME NEW c \in Callers, CallTimesOut(c) PROVE Mail'
  <2>1. CallingFrame
    BY <1>8, CallingFrames DEF Calling
  <2>2. \A d \in Callers : d # c => callers'[d] = callers[d]
    BY <1>8, TimesOutEffect DEF Types
  <2>3. \A i \in 1 .. Len(requests) : requests[i].caller \in Callers
    BY MailboxTyped
  <2>4. \A i \in 1 .. Len(requests') : ~requests'[i].cancelled => Matches(requests[i])'
    BY <1>8, <2>2, <2>3, TimesOutEffect DEF Mail, Matches
  <2>5. task'.req \in Requests /\ ~task'.req.cancelled => Matches(task.req)'
    BY <1>8, <2>1, <2>2, TimesOutEffect DEF Mail, Matches, CallingFrame, Requests
  <2>6. \A i, j \in 1 .. Len(requests') :
           requests'[i].caller = requests'[j].caller
           /\ ~requests'[i].cancelled /\ ~requests'[j].cancelled => i = j
    BY <1>8, TimesOutEffect DEF Mail
  <2>7. \A i \in 1 .. Len(requests') :
           task'.req \in Requests /\ ~task'.req.cancelled /\ ~requests'[i].cancelled
           => requests'[i].caller # task'.req.caller
    BY <1>8, <2>1, TimesOutEffect DEF Mail, CallingFrame
  <2> QED
    BY <2>4, <2>5, <2>6, <2>7 DEF Mail, Matches
<1>9. CASE Around
  BY <1>9, AroundFrames DEF AroundFrame, Mail, Matches
<1>10. CASE Tick
  BY <1>10, TickFrame DEF Mail, Matches
<1>11. CASE Reset
  <2>1. Len(requests') = 0 /\ task'.req = NoRequest
    BY <1>11, ResetFresh DEF Fresh, InitTask
  <2> QED
    BY <2>1, NoRequestIsNone DEF Mail
<1> QED
  BY <1>1, <1>2, <1>3, <1>4, <1>5, <1>6, <1>7, <1>8, <1>9, <1>10, <1>11, NextSplit, TaskSplit
     DEF Calling

-----------------------------------------------------------------------------
(* Rights and Accounted *)

\* What a call does to the callers, the mailbox and the epochs.
LEMMA CallEffect ==
    ASSUME Types, NEW c \in Callers, NEW kind \in Kinds, NEW owner \in PowerOwners \union {"NONE"},
           Call(c, kind, owner)
    PROVE  /\ callers[c].pc = "idle" /\ callers'[c].pc = "send" /\ callers'[c].kind = kind
           /\ callers'[c].owner = owner /\ callers'[c].holds = "NONE"
           /\ callers'[c].epoch = stopEpoch'
           /\ \A d \in Callers : d # c => callers'[d] = callers[d]
           /\ kind \in {"PAUSE", "RESUME"} => callers[c].holds = "NONE"
           /\ kind = "ACQUIRE" => callers[c].holds = "NONE" /\ owner # "NONE"
           /\ kind = "RELEASE" => callers[c].holds = owner /\ owner # "NONE"
           /\ task' = task /\ requests' = requests /\ policy' = policy /\ lost' = lost
           /\ rail' = rail /\ pausedAt' = pausedAt /\ stopEpoch' >= stopEpoch
           /\ kind = "RESUME" => stopEpoch' = stopEpoch /\ resumedAt' = stopEpoch
           /\ kind # "RESUME" => resumedAt' = resumedAt
<1>1. stopEpoch' \in Nat /\ stopEpoch' >= stopEpoch /\ (kind = "RESUME" => stopEpoch' = stopEpoch)
  BY DEF Call, Types
<1>2. callers' = [callers EXCEPT ![c] =
                    [pc |-> "send", kind |-> kind, owner |-> owner, epoch |-> stopEpoch',
                     success |-> FALSE, holds |-> "NONE"]]
  BY DEF Call
<1>3. /\ callers'[c].pc = "send" /\ callers'[c].kind = kind
      /\ callers'[c].owner = owner /\ callers'[c].holds = "NONE"
      /\ callers'[c].epoch = stopEpoch'
      /\ \A d \in Callers : d # c => callers'[d] = callers[d]
  BY <1>2 DEF Types
<1>4. /\ callers[c].pc = "idle"
      /\ kind \in {"PAUSE", "RESUME"} => callers[c].holds = "NONE"
      /\ kind = "ACQUIRE" => callers[c].holds = "NONE" /\ owner # "NONE"
      /\ kind = "RELEASE" => callers[c].holds = owner /\ owner # "NONE"
  BY PowerTaskAssumption DEF Call, PowerTaskAssumption
<1>5. /\ task' = task /\ requests' = requests /\ policy' = policy /\ lost' = lost
      /\ rail' = rail /\ pausedAt' = pausedAt
      /\ kind = "RESUME" => resumedAt' = stopEpoch
      /\ kind # "RESUME" => resumedAt' = resumedAt
  BY DEF Call, world
<1> QED
  BY <1>1, <1>3, <1>4, <1>5

\* A call that fails or returns.
LEMMA EndEffect ==
    ASSUME Types, NEW c \in Callers, CallFails(c) \/ CallReturns(c)
    PROVE  /\ callers'[c].pc = "idle" /\ callers'[c].kind = "NONE"
           /\ \A d \in Callers : d # c => callers'[d] = callers[d]
           /\ task' = task /\ requests' = requests /\ policy' = policy
           /\ rail' = rail /\ pausedAt' = pausedAt /\ stopEpoch' = stopEpoch
           /\ resumedAt' = resumedAt
           /\ CallFails(c) => /\ callers[c].pc = "send" /\ callers'[c].holds = "NONE"
                              /\ lost \/ callers[c].kind = "RELEASE" => lost'
           /\ CallReturns(c) =>
                /\ callers[c].pc = "done" /\ lost' = lost
                /\ callers'[c].holds = IF callers[c].kind = "ACQUIRE" /\ callers[c].success
                                       THEN callers[c].owner ELSE "NONE"
<1>1. CASE CallFails(c)
  <2>1. callers' = [callers EXCEPT ![c] = IdleCaller] /\ callers[c].pc = "send"
    BY <1>1 DEF CallFails
  <2>2. /\ callers'[c].pc = "idle" /\ callers'[c].kind = "NONE" /\ callers'[c].holds = "NONE"
        /\ \A d \in Callers : d # c => callers'[d] = callers[d]
    BY <2>1 DEF Types, IdleCaller
  <2>3. lost \/ callers[c].kind = "RELEASE" => lost'
    BY <1>1, Zenon DEF CallFails
  <2>4. ~CallReturns(c)
    BY <2>1 DEF CallReturns
  <2> QED
    BY <1>1, <2>1, <2>2, <2>3, <2>4 DEF CallFails, epochs, world
<1>2. CASE CallReturns(c)
  <2> DEFINE h == IF callers[c].kind = "ACQUIRE" /\ callers[c].success
                  THEN callers[c].owner ELSE "NONE"
  <2>1. callers' = [callers EXCEPT ![c] = [IdleCaller EXCEPT !.holds = h]]
        /\ callers[c].pc = "done"
    BY <1>2, Zenon DEF CallReturns
  <2> HIDE DEF h
  <2>2. /\ callers'[c].pc = "idle" /\ callers'[c].kind = "NONE" /\ callers'[c].holds = h
        /\ \A d \in Callers : d # c => callers'[d] = callers[d]
    BY <2>1 DEF Types, IdleCaller
  <2>3. ~CallFails(c)
    BY <2>1 DEF CallFails
  <2> QED
    BY <1>2, <2>1, <2>2, <2>3 DEF CallReturns, epochs, world, history, h
<1> QED
  BY <1>1, <1>2

\* A caller that gives up had no right, and gets none.
LEMMA GivesUpFrame ==
    ASSUME Types, NEW c \in Callers, CallTimesOut(c)
    PROVE  /\ callers[c].pc = "waiting" /\ callers'[c].pc = "idle" /\ callers'[c].kind = "NONE"
           /\ callers'[c].holds = "NONE"
           /\ \A d \in Callers : d # c => callers'[d] = callers[d]
           /\ policy' = policy /\ rail' = rail /\ lost' = lost
           /\ pausedAt' = pausedAt /\ resumedAt' = resumedAt /\ stopEpoch' >= stopEpoch
<1>1. callers' = [callers EXCEPT ![c] = IdleCaller] /\ callers[c].pc = "waiting"
  BY DEF CallTimesOut
<1>2. /\ callers'[c].pc = "idle" /\ callers'[c].kind = "NONE" /\ callers'[c].holds = "NONE"
      /\ \A d \in Callers : d # c => callers'[d] = callers[d]
  BY <1>1 DEF Types, IdleCaller
<1>3. /\ policy' = policy /\ rail' = rail /\ lost' = lost
      /\ pausedAt' = pausedAt /\ resumedAt' = resumedAt /\ stopEpoch' >= stopEpoch
  BY DEF CallTimesOut, world, history, Types
<1> QED
  BY <1>1, <1>2, <1>3

\* A right that moves into the mailbox.
LEMMA EnqueueFrame ==
    ASSUME Types, Errand, NEW c \in Callers, Enqueue(c)
    PROVE  /\ callers'[c].pc = "waiting" /\ callers'[c].kind = callers[c].kind
           /\ callers'[c].owner = callers[c].owner /\ callers'[c].holds = callers[c].holds
           /\ \A d \in Callers : d # c => callers'[d] = callers[d]
           /\ policy' = policy /\ rail' = rail /\ lost' = lost
           /\ pausedAt' = pausedAt /\ resumedAt' = resumedAt /\ stopEpoch' = stopEpoch
<1>1. /\ callers'[c].pc = "waiting" /\ callers'[c].kind = callers[c].kind
      /\ callers'[c].owner = callers[c].owner /\ callers'[c].holds = callers[c].holds
      /\ \A d \in Callers : d # c => callers'[d] = callers[d]
  BY EnqueueEffect DEF Types, CallerStates
<1>2. /\ policy' = policy /\ rail' = rail /\ lost' = lost
      /\ pausedAt' = pausedAt /\ resumedAt' = resumedAt /\ stopEpoch' = stopEpoch
  BY DEF Enqueue, world, history, epochs
<1> QED
  BY <1>1, <1>2

\* The work of the task other than acquire and release leaves the rights alone.
LEMMA QuietWork ==
    ASSUME Types, Errand, Work, ~Acquire, ~Release
    PROVE  ~WithTask /\ ~WithTask' /\ policy'.owner = policy.owner
<1>1. WorkFrame /\ OwnerFrame
  BY WorkFrames, OwnerFrames
<1>2. ~WithTask
  BY <1>1 DEF WorkFrame, WithTask, Operating
<1>3. ~WithTask'
  BY <1>1 DEF WorkFrame, WithTask, Operating, Errand
<1> QED
  BY <1>1, <1>2, <1>3 DEF OwnerFrame

\* The parts of Rights, to prove one by one.
CallerRights ==
    \A c \in Callers :
       /\ callers[c].holds # "NONE" => callers[c].pc = "idle"
       /\ callers[c].kind \in {"ACQUIRE", "RELEASE"} => callers[c].owner # "NONE"
       /\ WithCaller(c) => policy.owner = RightOf(c) /\ policy.owner # "NONE" /\ ~WithTask
       /\ \A d \in Callers : WithCaller(c) /\ WithCaller(d) => c = d
MailRights ==
    \A i \in 1 .. Len(requests) :
       /\ requests[i].kind \in {"ACQUIRE", "RELEASE"} => requests[i].owner # "NONE"
       /\ InMailbox(i) => /\ policy.owner = requests[i].owner /\ ~WithTask
                          /\ \A c \in Callers : ~WithCaller(c)
                          /\ \A j \in 1 .. Len(requests) : InMailbox(j) => i = j
TaskRights ==
    /\ task.req.kind \in {"ACQUIRE", "RELEASE"} => task.req.owner # "NONE"
    /\ WithTask => policy.owner = task.req.owner

\* Rights is its three parts.
LEMMA RightsParts == Rights <=> CallerRights /\ MailRights /\ TaskRights
  BY Zenon DEF Rights, CallerRights, MailRights, TaskRights

\* Where nothing moves but rights that end, Rights stay.
LEMMA RightsKept ==
    ASSUME Types, Rights,
           policy'.owner = policy.owner, requests' = requests,
           WithTask' => WithTask,
           task'.req.kind \in {"ACQUIRE", "RELEASE"} =>
              task.req.kind = task'.req.kind /\ task'.req.owner = task.req.owner,
           \A c \in Callers : /\ callers'[c].holds # "NONE" => callers'[c].pc = "idle"
                              /\ callers'[c].kind \in {"ACQUIRE", "RELEASE"} =>
                                     callers'[c].owner # "NONE"
                              /\ WithCaller(c)' => WithCaller(c) /\ RightOf(c)' = RightOf(c)
    PROVE  Rights'
<1>1. CallerRights /\ MailRights /\ TaskRights
  BY RightsParts
<1>2. CallerRights'
  BY <1>1 DEF CallerRights
<1>3. MailRights'
  BY <1>1 DEF MailRights, InMailbox
<1>4. TaskRights'
  <2>1. WithTask' => task'.req.kind \in {"ACQUIRE", "RELEASE"}
    BY DEF WithTask, Operating
  <2> QED
    BY <1>1, <2>1 DEF TaskRights
<1> QED
  BY <1>2, <1>3, <1>4, Zenon DEF Rights, CallerRights, MailRights, TaskRights

\* The steps of the callers move the right to maintenance, they never copy it.
LEMMA RightsCalls ==
    ASSUME Types, Errand, Mail, Rights, Calling
    PROVE  Rights'
<1>1. ASSUME NEW c \in Callers, NEW kind \in Kinds, NEW owner \in PowerOwners \union {"NONE"},
             Call(c, kind, owner)
      PROVE  Rights'
  <2>1. \A d \in Callers : /\ callers'[d].holds # "NONE" => callers'[d].pc = "idle"
                           /\ callers'[d].kind \in {"ACQUIRE", "RELEASE"} =>
                                  callers'[d].owner # "NONE"
                           /\ WithCaller(d)' => WithCaller(d) /\ RightOf(d)' = RightOf(d)
    <3>1. ASSUME NEW d \in Callers, d # c
          PROVE  /\ callers'[d].holds # "NONE" => callers'[d].pc = "idle"
                 /\ callers'[d].kind \in {"ACQUIRE", "RELEASE"} => callers'[d].owner # "NONE"
                 /\ WithCaller(d)' => WithCaller(d) /\ RightOf(d)' = RightOf(d)
      BY <1>1, <3>1, CallEffect DEF Rights, WithCaller, RightOf
    <3>2. /\ callers'[c].holds # "NONE" => callers'[c].pc = "idle"
          /\ callers'[c].kind \in {"ACQUIRE", "RELEASE"} => callers'[c].owner # "NONE"
          /\ WithCaller(c)' => WithCaller(c) /\ RightOf(c)' = RightOf(c)
      BY <1>1, CallEffect DEF WithCaller, RightOf
    <3> QED
      BY <3>1, <3>2
  <2>2. task' = task /\ requests' = requests /\ policy' = policy
    BY <1>1, CallEffect
  <2> QED
    BY <2>1, <2>2, RightsKept DEF WithTask, Operating
<1>2. ASSUME NEW c \in Callers, CallFails(c) \/ CallReturns(c) PROVE Rights'
  <2>1. \A d \in Callers : d # c => callers'[d] = callers[d]
    BY <1>2, EndEffect
  <2>2. /\ callers'[c].holds # "NONE" => callers'[c].pc = "idle"
        /\ callers'[c].kind \in {"ACQUIRE", "RELEASE"} => callers'[c].owner # "NONE"
        /\ WithCaller(c)' => WithCaller(c) /\ RightOf(c)' = RightOf(c)
    BY <1>2, EndEffect DEF WithCaller, RightOf, Rights
  <2>3. \A d \in Callers : /\ callers'[d].holds # "NONE" => callers'[d].pc = "idle"
                           /\ callers'[d].kind \in {"ACQUIRE", "RELEASE"} =>
                                  callers'[d].owner # "NONE"
                           /\ WithCaller(d)' => WithCaller(d) /\ RightOf(d)' = RightOf(d)
    BY <2>1, <2>2 DEF WithCaller, RightOf, Rights
  <2>4. task' = task /\ requests' = requests /\ policy' = policy
    BY <1>2, EndEffect
  <2> QED
    BY <2>3, <2>4, RightsKept DEF WithTask, Operating
<1>3. ASSUME NEW c \in Callers, CallTimesOut(c) PROVE Rights'
  <2>1. CallingFrame
    BY <1>3, CallingFrames DEF Calling
  <2>2. \A d \in Callers : /\ callers'[d].holds # "NONE" => callers'[d].pc = "idle"
                           /\ callers'[d].kind \in {"ACQUIRE", "RELEASE"} =>
                                  callers'[d].owner # "NONE"
                           /\ WithCaller(d)' => WithCaller(d) /\ RightOf(d)' = RightOf(d)
    BY <1>3, GivesUpFrame DEF WithCaller, RightOf, Rights
  <2>3. WithTask' <=> WithTask
    BY <2>1 DEF CallingFrame, WithTask, Operating
  <2>4. task'.req.kind \in {"ACQUIRE", "RELEASE"} =>
              task.req.kind = task'.req.kind /\ task'.req.owner = task.req.owner
    BY <2>1, NoRequestIsNone DEF CallingFrame, Types, Tasks
  <2>5. CallerRights /\ MailRights /\ TaskRights
    BY RightsParts
  <2>6. CallerRights'
    BY <2>1, <2>2, <2>3, <2>5 DEF CallingFrame, CallerRights
  <2>7. \A i \in 1 .. Len(requests) : /\ requests'[i].kind = requests[i].kind
                                      /\ requests'[i].owner = requests[i].owner
    BY <1>3, TimesOutEffect
  <2>8. MailRights'
    BY <1>3, <2>1, <2>2, <2>3, <2>5, <2>7, TimesOutEffect DEF CallingFrame, MailRights, InMailbox
  <2>9. TaskRights'
    BY <2>1, <2>3, <2>4, <2>5 DEF CallingFrame, TaskRights, WithTask, Operating
  <2> QED
    BY <2>6, <2>8, <2>9, Zenon DEF Rights, CallerRights, MailRights, TaskRights
<1>4. ASSUME NEW c \in Callers, Enqueue(c) PROVE Rights'
  <2>1. CallerRights /\ MailRights /\ TaskRights
    BY RightsParts
  <2>2. /\ callers[c].pc = "send" /\ callers[c].holds = "NONE" /\ task' = task
        /\ policy' = policy /\ ~WithCaller(c)'
    BY <1>4, <2>1, EnqueueEffect, EnqueueFrame DEF CallerRights, WithCaller
  <2>3. \A d \in Callers : WithCaller(d)' => WithCaller(d) /\ RightOf(d)' = RightOf(d) /\ d # c
    BY <1>4, <2>2, EnqueueFrame DEF WithCaller, RightOf
  <2>4. WithTask' <=> WithTask
    BY <2>2 DEF WithTask, Operating
  <2>5. CallerRights'
    BY <1>4, <2>1, <2>2, <2>3, <2>4, EnqueueFrame DEF CallerRights
  <2>6. TaskRights'
    BY <2>1, <2>2, <2>4 DEF TaskRights
  <2> DEFINE n == Len(requests) + 1
  <2>7. /\ requests'[n].kind = callers[c].kind /\ requests'[n].owner = callers[c].owner
        /\ \A i \in 1 .. Len(requests) : requests'[i] = requests[i]
        /\ \A i \in 1 .. Len(requests') : i \in 1 .. Len(requests) \/ i = n
        /\ n \notin 1 .. Len(requests)
    BY <1>4, EnqueueEffect
  <2> HIDE DEF n
  <2>8. callers[c].kind = "RELEASE" =>
           /\ WithCaller(c) /\ RightOf(c) = callers[c].owner
           /\ policy.owner = callers[c].owner /\ ~WithTask
           /\ \A d \in Callers : ~WithCaller(d)'
           /\ \A i \in 1 .. Len(requests) : ~InMailbox(i)
    BY <2>1, <2>2, <2>3 DEF CallerRights, MailRights, WithCaller, RightOf
  <2>9. MailRights'
    <3>1. ASSUME NEW i \in 1 .. Len(requests)
          PROVE  /\ requests'[i].kind \in {"ACQUIRE", "RELEASE"} => requests'[i].owner # "NONE"
                 /\ requests'[i].kind = "RELEASE" =>
                       /\ policy'.owner = requests'[i].owner /\ ~WithTask'
                       /\ \A d \in Callers : ~WithCaller(d)'
                       /\ \A j \in 1 .. Len(requests') : requests'[j].kind = "RELEASE" => i = j
      BY <2>1, <2>2, <2>3, <2>4, <2>7, <2>8 DEF MailRights, InMailbox
    <3>2. /\ requests'[n].kind \in {"ACQUIRE", "RELEASE"} => requests'[n].owner # "NONE"
          /\ requests'[n].kind = "RELEASE" =>
                /\ policy'.owner = requests'[n].owner /\ ~WithTask'
                /\ \A d \in Callers : ~WithCaller(d)'
                /\ \A j \in 1 .. Len(requests') : requests'[j].kind = "RELEASE" => n = j
      BY <2>1, <2>2, <2>4, <2>7, <2>8 DEF CallerRights, InMailbox
    <3> QED
      BY <2>7, <3>1, <3>2 DEF MailRights, InMailbox
  <2> QED
    BY <2>5, <2>6, <2>9, Zenon DEF Rights, CallerRights, MailRights, TaskRights
<1> QED
  BY <1>1, <1>2, <1>3, <1>4 DEF Calling

\* Receiving a release and completing an acquire hand the right over; a withdrawn
\* acquire ends it.
LEMMA RightsMailbox ==
    ASSUME Types, Errand, Mail, Rights, Receive \/ Complete \/ Withdraw
    PROVE  Rights'
<1>1. CallerRights /\ MailRights /\ TaskRights
  BY RightsParts
<1>2. CASE Receive
  <2>1. ~WithTask
    BY <1>2, ReceiveEffect DEF WithTask, Operating
  <2>2. WithTask' <=> requests[1].kind = "RELEASE"
    BY <1>2, ReceiveEffect DEF WithTask, Operating, Live
  <2>3. \A c \in Callers : (WithCaller(c)' <=> WithCaller(c)) /\ RightOf(c)' = RightOf(c)
    BY <1>2, ReceiveEffect DEF WithCaller, RightOf
  <2>4. requests[1].kind = "RELEASE" => /\ \A c \in Callers : ~WithCaller(c)
                                        /\ policy.owner = requests[1].owner
                                        /\ \A j \in 2 .. Len(requests) : ~InMailbox(j)
    BY <1>1, <1>2, ReceiveEffect DEF MailRights, InMailbox
  <2>5. CallerRights'
    BY <1>1, <1>2, <2>1, <2>2, <2>3, <2>4, ReceiveEffect DEF CallerRights
  <2>6. MailRights'
    <3>1. ASSUME NEW i \in 1 .. Len(requests')
          PROVE  /\ i + 1 \in 2 .. Len(requests) /\ i + 1 \in 1 .. Len(requests)
                 /\ requests'[i] = requests[i + 1]
      BY <1>2, ReceiveEffect
    <3>2. ASSUME NEW i \in 1 .. Len(requests')
          PROVE  requests'[i].kind \in {"ACQUIRE", "RELEASE"} => requests'[i].owner # "NONE"
      BY <1>1, <3>1 DEF MailRights
    <3>3. ASSUME NEW i \in 1 .. Len(requests'), requests'[i].kind = "RELEASE"
          PROVE  /\ policy.owner = requests'[i].owner
                 /\ \A c \in Callers : ~WithCaller(c)
                 /\ requests[1].kind # "RELEASE"
                 /\ \A j \in 1 .. Len(requests') : requests'[j].kind = "RELEASE" => i = j
      <4>1. InMailbox(i + 1) /\ i + 1 \in 2 .. Len(requests) /\ i + 1 \in 1 .. Len(requests)
        BY <3>1, <3>3 DEF InMailbox
      <4>2. \A j \in 1 .. Len(requests') : requests'[j].kind = "RELEASE" => i = j
        <5>1. ASSUME NEW j \in 1 .. Len(requests'), requests'[j].kind = "RELEASE"
              PROVE  i = j
          <6>1. InMailbox(j + 1) /\ j + 1 \in 1 .. Len(requests)
            BY <3>1, <5>1 DEF InMailbox
          <6>2. i + 1 = j + 1
            BY <1>1, <4>1, <6>1 DEF MailRights
          <6> QED
            BY <6>2
        <5> QED
          BY <5>1
      <4>3. requests[1].kind # "RELEASE"
        BY <2>4, <4>1
      <4> QED
        BY <1>1, <3>1, <4>1, <4>2, <4>3 DEF MailRights
    <3>4. policy' = policy
      BY <1>2, ReceiveEffect
    <3> QED
      BY <2>2, <2>3, <3>2, <3>3, <3>4 DEF MailRights, InMailbox
  <2>7. TaskRights'
    BY <1>1, <1>2, <2>2, <2>4, ReceiveEffect DEF TaskRights, MailRights, WithTask, Operating
  <2> QED
    BY <2>5, <2>6, <2>7, Zenon DEF Rights, CallerRights, MailRights, TaskRights
<1>3. CASE Complete
  <2>0. PICK c \in Callers : c = task.req.caller
    BY <1>3, CompleteEffect
  <2>1. /\ c \in Callers /\ callers[c].pc = "waiting" /\ callers[c].kind = task.req.kind
        /\ callers[c].owner = task.req.owner /\ callers[c].holds = "NONE"
    BY <1>1, <1>3, <2>0, CompleteEffect DEF Mail, Matches, CallerRights
  <2>2. WithTask <=> task.req.kind = "ACQUIRE" /\ task.success
    BY <1>3, CompleteEffect DEF WithTask, Operating
  <2>3. ~WithTask' /\ task'.req.kind = "NONE"
    BY <1>3, CompleteEffect, NoRequestIsNone DEF WithTask, Operating
  <2>4. /\ callers'[c].pc = "done" /\ callers'[c].success = task.success
        /\ callers'[c].kind = task.req.kind /\ callers'[c].owner = task.req.owner
        /\ callers'[c].holds = "NONE"
        /\ \A d \in Callers : d # c => callers'[d] = callers[d]
        /\ policy' = policy /\ requests' = requests
    BY <1>3, <2>0, <2>1, CompleteEffect
  <2>5. /\ WithCaller(c)' <=> WithTask
        /\ WithTask => RightOf(c)' = task.req.owner
    BY <2>2, <2>4 DEF WithCaller, RightOf
  <2>6. \A d \in Callers : d # c => (WithCaller(d)' <=> WithCaller(d)) /\ RightOf(d)' = RightOf(d)
    BY <2>4 DEF WithCaller, RightOf
  <2>7. WithTask => policy.owner = task.req.owner /\ policy.owner # "NONE"
    BY <1>1, <2>2 DEF TaskRights
  <2>8. CallerRights'
    <3>1. ASSUME NEW d \in Callers
          PROVE  /\ callers'[d].holds # "NONE" => callers'[d].pc = "idle"
                 /\ callers'[d].kind \in {"ACQUIRE", "RELEASE"} => callers'[d].owner # "NONE"
      BY <1>1, <2>1, <2>4 DEF CallerRights, TaskRights
    <3>2. ASSUME NEW d \in Callers, WithCaller(d)'
          PROVE  /\ policy'.owner = RightOf(d)' /\ policy'.owner # "NONE" /\ ~WithTask'
                 /\ \A e \in Callers : WithCaller(e)' => d = e
      BY <1>1, <2>1, <2>3, <2>4, <2>5, <2>6, <2>7, <3>2 DEF CallerRights
    <3> QED
      BY <3>1, <3>2 DEF CallerRights
  <2>9. MailRights'
    BY <1>1, <2>1, <2>3, <2>4, <2>5, <2>6 DEF MailRights, InMailbox
  <2>10. TaskRights'
    BY <2>3 DEF TaskRights
  <2> QED
    BY <2>8, <2>9, <2>10, Zenon DEF Rights, CallerRights, MailRights, TaskRights
<1>4. CASE Withdraw
  <2>1. /\ task.pc = "finish" /\ task'.pc = "drain" /\ task'.req = NoRequest
        /\ requests' = requests /\ callers' = callers
    BY <1>4 DEF Withdraw, InitTask, mailbox
  <2>2. ~WithTask' /\ task'.req.kind = "NONE"
    BY <2>1, NoRequestIsNone DEF WithTask, Operating
  <2>3. \A d \in Callers : (WithCaller(d)' <=> WithCaller(d)) /\ RightOf(d)' = RightOf(d)
    BY <2>1 DEF WithCaller, RightOf
  <2>4. ~WithTask => policy'.owner = policy.owner
    BY <1>4, <2>1, WithdrawEffect DEF WithTask
  <2>5. CallerRights'
    BY <1>1, <2>1, <2>2, <2>3, <2>4 DEF CallerRights
  <2>6. MailRights'
    BY <1>1, <2>1, <2>2, <2>3, <2>4 DEF MailRights, InMailbox
  <2>7. TaskRights'
    BY <2>2 DEF TaskRights
  <2> QED
    BY <2>5, <2>6, <2>7, Zenon DEF Rights, CallerRights, MailRights, TaskRights
<1> QED
  BY <1>2, <1>3, <1>4

\* The right begins with an acquire that succeeds and ends with a release.
LEMMA RightsWork ==
    ASSUME Types, Errand, Rights, Work
    PROVE  Rights'
<1>1. CallerRights /\ MailRights /\ TaskRights
  BY RightsParts
<1>2. WorkFrame
  BY WorkFrames
<1>3. /\ requests' = requests /\ callers' = callers
      /\ task'.req.kind \in {"ACQUIRE", "RELEASE"} =>
            task.req.kind = task'.req.kind /\ task'.req.owner = task.req.owner
  BY <1>2, NoRequestIsNone DEF WorkFrame
<1>4. \A d \in Callers : (WithCaller(d)' <=> WithCaller(d)) /\ RightOf(d)' = RightOf(d)
  BY <1>3 DEF WithCaller, RightOf
<1>5. CASE Acquire
  <2>1. task.pc = "op" /\ task.req.kind = "ACQUIRE" /\ ~WithTask
    BY <1>5 DEF Acquire, Operating, WithTask
  <2>2. WithTask' <=> task'.success
    BY <1>5, <2>1, AcquireEffect DEF WithTask, Operating
  <2>3. task'.success => /\ policy.owner = "NONE" /\ policy'.owner = task.req.owner
                         /\ \A d \in Callers : ~WithCaller(d)
                         /\ \A i \in 1 .. Len(requests) : ~InMailbox(i)
    BY <1>1, <1>5, AcquireEffect DEF CallerRights, MailRights, InMailbox
  <2>4. ~task'.success => policy'.owner = policy.owner
    BY <1>5, AcquireEffect
  <2>5. CallerRights'
    BY <1>1, <1>3, <1>4, <2>2, <2>3, <2>4 DEF CallerRights
  <2>6. MailRights'
    BY <1>1, <1>3, <1>4, <2>2, <2>3, <2>4 DEF MailRights, InMailbox
  <2>7. TaskRights'
    BY <1>1, <1>5, <2>2, <2>3, AcquireEffect DEF TaskRights
  <2> QED
    BY <2>5, <2>6, <2>7, Zenon DEF Rights, CallerRights, MailRights, TaskRights
<1>6. CASE Release
  <2>1. WithTask /\ task.req.kind = "RELEASE"
    BY <1>6 DEF Release, WithTask, Operating
  <2>2. ~WithTask'
    BY <1>6, <2>1, ReleaseEffect DEF WithTask, Operating
  <2>3. /\ \A d \in Callers : ~WithCaller(d)
        /\ \A i \in 1 .. Len(requests) : ~InMailbox(i)
    BY <1>1, <2>1 DEF CallerRights, MailRights
  <2>4. CallerRights'
    BY <1>1, <1>3, <1>4, <2>3 DEF CallerRights
  <2>5. MailRights'
    BY <1>1, <1>3, <2>3 DEF MailRights, InMailbox
  <2>6. TaskRights'
    BY <1>1, <1>3, <2>2 DEF TaskRights
  <2> QED
    BY <2>4, <2>5, <2>6, Zenon DEF Rights, CallerRights, MailRights, TaskRights
<1>7. CASE ~Acquire /\ ~Release
  <2>1. ~WithTask /\ ~WithTask' /\ policy'.owner = policy.owner
    BY <1>7, QuietWork
  <2>2. \A c \in Callers : /\ callers'[c].holds # "NONE" => callers'[c].pc = "idle"
                           /\ callers'[c].kind \in {"ACQUIRE", "RELEASE"} =>
                                  callers'[c].owner # "NONE"
                           /\ WithCaller(c)' => WithCaller(c) /\ RightOf(c)' = RightOf(c)
    BY <1>1, <1>3, <1>4 DEF CallerRights
  <2> QED
    BY <1>3, <2>1, <2>2, RightsKept
<1> QED
  BY <1>5, <1>6, <1>7

\* Every step keeps Rights.
LEMMA RightsStep ==
    ASSUME Types, Errand, Mail, Rights, [Next]_vars
    PROVE  Rights'
<1>1. CASE Task
  BY <1>1, RightsMailbox, RightsWork, TaskSplit
<1>2. CASE Calling
  BY <1>2, RightsCalls
<1>3. CASE Around
  BY <1>3, AroundFrames DEF AroundFrame, Rights, WithCaller, RightOf, WithTask, Operating,
     InMailbox
<1>4. CASE Tick
  BY <1>4, TickFrame DEF Rights, WithCaller, RightOf, WithTask, Operating, InMailbox
<1>5. CASE Reset
  <2>1. /\ \A c \in Callers : callers'[c] = IdleCaller
        /\ requests' = <<>> /\ task' = InitTask
    BY <1>5, ResetFresh DEF Fresh
  <2>2. /\ \A c \in Callers : /\ ~WithCaller(c)' /\ callers'[c].holds = "NONE"
                              /\ callers'[c].kind = "NONE"
        /\ Len(requests') = 0 /\ ~WithTask' /\ task'.req.kind = "NONE"
    BY <2>1 DEF IdleCaller, InitTask, NoRequest, WithCaller, WithTask, Operating
  <2> QED
    BY <2>2 DEF Rights
<1> QED
  BY <1>1, <1>2, <1>3, <1>4, <1>5, NextSplit

\* Every step keeps Accounted: ownership goes with its right, or a release was lost.
LEMMA AccountedStep ==
    ASSUME Types, Errand, Mail, Rights, Accounted, [Next]_vars
    PROVE  Accounted'
<1>1. CASE Receive
  <2>1. ~WithTask
    BY <1>1, ReceiveEffect DEF WithTask, Operating
  <2>2. requests[1].kind = "RELEASE" => WithTask'
    BY <1>1, ReceiveEffect DEF WithTask, Operating, Live
  <2>3. \A c \in Callers : WithCaller(c) => WithCaller(c)'
    BY <1>1, ReceiveEffect DEF WithCaller
  <2>4. ASSUME NEW i \in 1 .. Len(requests), InMailbox(i), i # 1
        PROVE  \E j \in 1 .. Len(requests') : requests'[j].kind = "RELEASE"
    <3>1. i - 1 \in 1 .. Len(requests') /\ (i - 1) + 1 = i
      BY <1>1, <2>4, ReceiveEffect
    <3>2. requests'[i - 1] = requests[(i - 1) + 1]
      BY <1>1, <3>1, ReceiveEffect
    <3> QED
      BY <2>4, <3>1, <3>2 DEF InMailbox
  <2>5. policy' = policy /\ lost' = lost
    BY <1>1, ReceiveEffect
  <2> QED
    BY <2>1, <2>2, <2>3, <2>4, <2>5 DEF Accounted, InMailbox
<1>2. CASE Complete
  <2>1. PICK c \in Callers : c = task.req.caller
    BY <1>2, CompleteEffect
  <2>2. callers[c].pc = "waiting" /\ callers[c].kind = task.req.kind /\ callers[c].holds = "NONE"
    BY <1>2, <2>1, CompleteEffect DEF Mail, Matches, Rights
  <2>3. /\ callers'[c].pc = "done" /\ callers'[c].success = task.success
        /\ callers'[c].kind = task.req.kind
        /\ \A d \in Callers : d # c => callers'[d] = callers[d]
        /\ policy' = policy /\ requests' = requests /\ lost' = lost
    BY <1>2, <2>1, <2>2, CompleteEffect
  <2>4. WithTask => WithCaller(c)'
    BY <1>2, <2>3, CompleteEffect DEF WithTask, Operating, WithCaller
  <2>5. \A d \in Callers : WithCaller(d) => WithCaller(d)'
    BY <2>2, <2>3 DEF WithCaller
  <2> QED
    BY <2>3, <2>4, <2>5 DEF Accounted, InMailbox
<1>3. CASE Withdraw
  <2>1. /\ task.pc = "finish" /\ requests' = requests /\ callers' = callers /\ lost' = lost
    BY <1>3 DEF Withdraw, mailbox, history
  <2>2. /\ WithTask => policy'.owner = "NONE"
        /\ policy'.owner # "NONE" => policy.owner # "NONE"
    BY <1>3, <2>1, WithdrawEffect DEF WithTask, Operating
  <2> QED
    BY <2>1, <2>2 DEF Accounted, WithCaller, InMailbox
<1>4. CASE Work
  <2>1. requests' = requests /\ callers' = callers /\ lost' = lost
    BY <1>4, WorkFrames DEF WorkFrame
  <2>2. CASE Acquire
    <3>1. task.req.kind = "ACQUIRE" /\ ~WithTask
      BY <2>2 DEF Acquire, Operating, WithTask
    <3>2. policy'.owner # "NONE" => policy.owner # "NONE" \/ WithTask'
      BY <2>2, <3>1, AcquireEffect DEF WithTask, Operating
    <3> QED
      BY <2>1, <3>1, <3>2 DEF Accounted, WithCaller, InMailbox
  <2>3. CASE Release
    <3>1. WithTask
      BY <2>3 DEF Release, Operating, WithTask
    <3>2. policy'.owner = "NONE"
      BY <2>3, <3>1, ReleaseEffect DEF Rights
    <3> QED
      BY <3>2 DEF Accounted
  <2>4. CASE ~Acquire /\ ~Release
    BY <1>4, <2>1, <2>4, QuietWork DEF Accounted, WithCaller, InMailbox
  <2> QED
    BY <2>2, <2>3, <2>4
<1>5. ASSUME NEW c \in Callers, NEW kind \in Kinds, NEW owner \in PowerOwners \union {"NONE"},
             Call(c, kind, owner)
      PROVE  Accounted'
  <2>1. WithCaller(c) => WithCaller(c)'
    BY <1>5, CallEffect DEF WithCaller, Kinds
  <2>2. \A d \in Callers : WithCaller(d) => WithCaller(d)'
    BY <1>5, <2>1, CallEffect DEF WithCaller
  <2> QED
    BY <1>5, <2>2, CallEffect DEF Accounted, WithTask, Operating, InMailbox
<1>6. ASSUME NEW c \in Callers, CallFails(c) \/ CallReturns(c) PROVE Accounted'
  <2>1. WithCaller(c) => WithCaller(c)' \/ lost'
    BY <1>6, EndEffect DEF WithCaller, Rights
  <2>2. \A d \in Callers : WithCaller(d) => WithCaller(d)' \/ lost'
    BY <1>6, <2>1, EndEffect DEF WithCaller
  <2>3. (lost => lost') /\ policy' = policy /\ task' = task /\ requests' = requests
    BY <1>6, EndEffect
  <2> QED
    BY <2>2, <2>3 DEF Accounted, WithTask, Operating, InMailbox
<1>7. ASSUME NEW c \in Callers, Enqueue(c) PROVE Accounted'
  <2> DEFINE n == Len(requests) + 1
  <2>1. /\ callers[c].pc = "send" /\ task' = task
        /\ n \in 1 .. Len(requests') /\ requests'[n].kind = callers[c].kind
        /\ \A i \in 1 .. Len(requests) : i \in 1 .. Len(requests') /\ requests'[i] = requests[i]
    BY <1>7, EnqueueEffect
  <2> HIDE DEF n
  <2>2. WithCaller(c) => callers[c].kind = "RELEASE"
    BY <2>1 DEF WithCaller, Rights
  <2>3. WithCaller(c) => \E i \in 1 .. Len(requests') : requests'[i].kind = "RELEASE"
    BY <2>1, <2>2
  <2>4. \A d \in Callers : d # c => (WithCaller(d) => WithCaller(d)')
    BY <1>7, EnqueueFrame DEF WithCaller
  <2>5. policy' = policy /\ lost' = lost
    BY <1>7, EnqueueFrame
  <2> QED
    BY <2>1, <2>3, <2>4, <2>5 DEF Accounted, WithTask, Operating, InMailbox
<1>8. ASSUME NEW c \in Callers, CallTimesOut(c) PROVE Accounted'
  <2>1. ~WithCaller(c)
    BY <1>8, GivesUpFrame DEF WithCaller, Rights
  <2>2. \A d \in Callers : WithCaller(d) => WithCaller(d)'
    BY <1>8, <2>1, GivesUpFrame DEF WithCaller
  <2>3. \A i \in 1 .. Len(requests) : i \in 1 .. Len(requests')
                                       /\ requests'[i].kind = requests[i].kind
    BY <1>8, TimesOutEffect
  <2>4. WithTask => WithTask'
    BY <1>8, CallingFrames DEF CallingFrame, Calling, WithTask, Operating
  <2> QED
    BY <1>8, <2>2, <2>3, <2>4, GivesUpFrame DEF Accounted, InMailbox
<1>9. CASE Around
  BY <1>9, AroundFrames DEF AroundFrame, Accounted, WithCaller, WithTask, Operating, InMailbox
<1>10. CASE Tick
  BY <1>10, TickFrame DEF Accounted, WithCaller, WithTask, Operating, InMailbox
<1>11. CASE Reset
  BY <1>11, ResetFresh DEF Fresh, Accounted
<1> QED
  BY <1>1, <1>2, <1>3, <1>4, <1>5, <1>6, <1>7, <1>8, <1>9, <1>10, <1>11, NextSplit, TaskSplit
     DEF Calling

-----------------------------------------------------------------------------
(* Epochs *)

\* Among these steps only the end of a start may put the supply on, only a resume
\* ends a pause, and a pause that succeeds leaves the supply off.
EpochFrame ==
    /\ rail' = "on" => rail = "on" \/ task.pc = "starting"
    /\ ~policy'.paused => ~policy.paused \/ Operating("RESUME")
    /\ task'.pc = "finish" /\ task.req.kind = "PAUSE" /\ task'.success
         => rail' = "off" /\ policy'.paused

\* No work of the task goes beyond that frame.
LEMMA EpochFrames ==
    ASSUME Types, Errand, Work
    PROVE  EpochFrame
<1>1. CASE Begin
  BY <1>1 DEF Begin, EpochFrame, Types, PolicyType, world, Tasks, taskStays
<1>2. CASE Pause
  BY <1>2, PauseEffect DEF Pause, EpochFrame, OnlyStops, Operating, Types, Tasks
<1>3. CASE ResumeAnswered
  BY <1>3 DEF ResumeAnswered, Operating, Done, NoBoardOperation, EpochFrame, Types, PolicyType,
     world, Tasks, taskStays
<1>4. CASE ResumeStarts
  BY <1>4 DEF ResumeStarts, Operating, EpochFrame, Types, PolicyType, world, Tasks, taskStays
<1>5. CASE Acquire
  BY <1>5, AcquireEffect DEF Acquire, EpochFrame, OnlyStops, Operating, Types, Tasks
<1>6. CASE Release
  BY <1>6, ReleaseEffect DEF Release, EpochFrame, OnlyStops, Operating, Types, Tasks
<1>7. CASE Check
  BY <1>7, CheckEffect DEF Check, EpochFrame, OnlyStops, Operating, Types, Tasks
<1>8. CASE StepOwned
  BY <1>8 DEF StepOwned, Publishing, NoBoardOperation, EpochFrame, Types, PolicyType, world,
     Tasks, taskStays
<1>9. ASSUME NEW h \in Health, StepFaulty(h) PROVE EpochFrame
  BY <1>9, StepFaultyEffect DEF StepFaulty, EpochFrame, OnlyStops, Operating, Types, Tasks,
     Publishing
<1>10. ASSUME NEW h \in Health, StepOverheats(h) PROVE EpochFrame
  BY <1>10 DEF StepOverheats, BeginCooling, NoBoardOperation, EpochFrame, Types, PolicyType,
     world, Tasks, taskStays
<1>11. ASSUME NEW h \in Health, StepIdle(h) PROVE EpochFrame
  BY <1>11, StepIdleEffect DEF StepIdle, EpochFrame, OnlyStops, Operating, Types, Tasks,
     Publishing
<1>12. ASSUME NEW h \in Health, StepMines(h) PROVE EpochFrame
  BY <1>12 DEF StepMines, EpochFrame, Types, PolicyType, world, Tasks, taskStays
<1>13. ASSUME NEW h \in Health, NEW t \in Sensors, StepCools(h, t) PROVE EpochFrame
  BY <1>13 DEF StepCools, Publishing, NoBoardOperation, EpochFrame, Types, PolicyType, world,
     Tasks, taskStays
<1>14. ASSUME NEW h \in Health, NEW t \in Sensors, StepRecovers(h, t) PROVE EpochFrame
  BY <1>14, ZenonT(60) DEF StepRecovers, Publishing, EpochFrame, Types, PolicyType, world, Tasks, taskStays
<1>15. ASSUME NEW r \in StartResults, StartEnds(r) PROVE EpochFrame
  BY <1>15 DEF StartEnds, EpochFrame, Types, PolicyType, world, Tasks, taskStays
<1>16. CASE StartAccepted
  <2>1. task.pc = "started" /\ (task'.pc = "finish" => task.from = "request") /\ rail' = rail
    BY <1>16 DEF StartAccepted, Return, Types, Tasks
  <2>2. task'.pc = "finish" => task.req.kind = "RESUME"
    BY <2>1 DEF Errand, Unsettled
  <2>3. policy'.paused = policy.paused
    BY <1>16 DEF StartAccepted, Types, PolicyType
  <2> QED
    BY <2>1, <2>2, <2>3 DEF EpochFrame
<1>17. CASE StartOverheats
  BY <1>17 DEF StartOverheats, BeginCooling, EpochFrame, Types, PolicyType, world, Tasks,
     taskStays
<1>18. CASE StartCancelled
  BY <1>18 DEF StartCancelled, EpochFrame, Types, PolicyType, world, Tasks, taskStays
<1>19. CASE Apply
  BY <1>19 DEF Apply, EpochFrame, Types, PolicyType, world, Tasks, taskStays
<1>20. CASE Abort
  <2>1. task.pc = "abort" /\ (task'.pc = "finish" => task.from = "request")
    BY <1>20 DEF Abort, Return, Types, Tasks
  <2>2. task'.pc = "finish" => task.req.kind = "RESUME"
    BY <2>1 DEF Errand, Unsettled
  <2> QED
    BY <1>20, <2>2, UndoEffect DEF EpochFrame, OnlyStops, Types
<1>21. CASE CoolStop
  <2>1. task.pc = "coolstop" /\ (task'.pc = "finish" => task.from = "request")
    BY <1>21 DEF CoolStop, Return, Types, Tasks
  <2>2. task'.pc = "finish" => task.req.kind = "RESUME"
    BY <2>1 DEF Errand, Unsettled
  <2> QED
    BY <1>21, <2>2, UndoEffect DEF EpochFrame, OnlyStops, Types
<1>22. CASE Publish
  BY <1>22 DEF Publish, InitTask, EpochFrame, Types, PolicyType, world, Tasks, taskStays
<1> QED
  BY <1>1, <1>2, <1>3, <1>4, <1>5, <1>6, <1>7, <1>8, <1>9, <1>10, <1>11, <1>12, <1>13, <1>14,
     <1>15, <1>16, <1>17, <1>18, <1>19, <1>20, <1>21, <1>22 DEF Work

\* Every step keeps Epochs.
LEMMA EpochsStep ==
    ASSUME Types, Errand, Board, Epochs, [Next]_vars
    PROVE  Epochs'
<1> USE DEF PauseHolds
<1>1. CASE Receive
  <2>1. \A i \in 1 .. Len(requests') :
           /\ requests'[i].epoch <= stopEpoch
           /\ requests'[i].kind = "RESUME" => requests'[i].epoch <= resumedAt
    BY <1>1, ReceiveEffect DEF Epochs
  <2>2. /\ task'.req.epoch <= stopEpoch
        /\ task'.req.kind = "RESUME" => task'.req.epoch <= resumedAt
    BY <1>1, ReceiveEffect DEF Epochs
  <2>3. Operating("RESUME")' => task'.req.epoch = stopEpoch
    BY <1>1, ReceiveEffect DEF Operating, Live
  <2>4. ~(task'.pc = "finish" /\ task'.success)
    BY <1>1, ReceiveEffect
  <2>5. pausedAt <= stopEpoch
    BY DEF Epochs
  <2> QED
    BY <1>1, <2>1, <2>2, <2>3, <2>4, <2>5, ReceiveEffect DEF Epochs
<1>2. CASE Complete
  <2>1. \A c \in Callers : callers'[c].pc = "send" => callers'[c] = callers[c]
    BY <1>2, CompleteEffect
  <2>2. /\ rail = "on" => resumedAt >= pausedAt'
        /\ ~policy.paused => resumedAt >= pausedAt'
        /\ pausedAt' <= stopEpoch
    BY <1>2, CompleteEffect DEF Epochs
  <2>3. task'.req \notin Requests /\ task'.pc = "drain"
    BY <1>2, CompleteEffect, NoRequestIsNone
  <2> QED
    BY <1>2, <2>1, <2>2, <2>3, CompleteEffect DEF Epochs, Operating
<1>3. CASE Withdraw
  <2>1. /\ task'.req \notin Requests /\ task'.pc = "drain" /\ requests' = requests
        /\ callers' = callers /\ stopEpoch' = stopEpoch /\ pausedAt' = pausedAt
        /\ resumedAt' = resumedAt
    BY <1>3, NoRequestIsNone DEF Withdraw, InitTask, mailbox, epochs, history
  <2>2. /\ rail' = "on" => rail = "on"
        /\ ~policy'.paused => ~policy.paused
    BY <1>3, WithdrawEffect DEF Types
  <2> QED
    BY <2>1, <2>2 DEF Epochs, Operating
<1>4. CASE Work
  <2>1. WorkFrame /\ EpochFrame
    BY <1>4, WorkFrames, EpochFrames
  <2>2. task'.req \in Requests => task'.req = task.req
    BY <2>1, NoRequestIsNone DEF WorkFrame
  <2>3. task.pc = "starting" => ~policy.paused
    BY DEF Board
  <2>4. Operating("RESUME") => task.req \in Requests /\ resumedAt >= pausedAt
    <3>1. Operating("RESUME") => /\ task.req \in Requests /\ task.req.epoch \in Nat
                                 /\ pausedAt <= task.req.epoch /\ task.req.epoch <= resumedAt
      BY RequestOfTask DEF Operating, Epochs, Types
    <3> QED
      BY <3>1 DEF Types
  <2>5. /\ rail' = "on" => resumedAt' >= pausedAt'
        /\ ~policy'.paused => resumedAt' >= pausedAt'
    BY <2>1, <2>3, <2>4 DEF WorkFrame, EpochFrame, Epochs
  <2>6. task'.pc = "finish" => task'.req = task.req
    BY <2>1 DEF WorkFrame
  <2>7. task'.pc = "finish" /\ task'.req.kind = "PAUSE" /\ task'.success
          => rail' = "off" /\ policy'.paused
    BY <2>1, <2>6 DEF EpochFrame
  <2> QED
    BY <2>1, <2>2, <2>5, <2>7 DEF WorkFrame, Epochs, Operating
<1>5. ASSUME NEW c \in Callers, NEW kind \in Kinds, NEW owner \in PowerOwners \union {"NONE"},
             Call(c, kind, owner)
      PROVE  Epochs'
  <2>1. /\ stopEpoch' >= stopEpoch /\ stopEpoch' \in Nat /\ resumedAt' >= resumedAt
        /\ resumedAt' <= stopEpoch' /\ resumedAt' \in Nat
    BY <1>5, CallEffect, TypesStep DEF Types, Epochs, Next, Calling
  <2>2. \A d \in Callers : callers'[d].pc = "send" =>
           /\ callers'[d].epoch <= stopEpoch'
           /\ callers'[d].kind = "RESUME" => callers'[d].epoch <= resumedAt'
    <3>1. /\ callers'[c].epoch <= stopEpoch'
          /\ callers'[c].kind = "RESUME" => callers'[c].epoch <= resumedAt'
      BY <1>5, <2>1, CallEffect
    <3>2. \A d \in Callers : callers[d].epoch \in Nat
      BY DEF Types, CallerStates
    <3> QED
      BY <1>5, <2>1, <3>1, <3>2, CallEffect, SMTT(40) DEF Epochs, Types
  <2>3. \A i \in 1 .. Len(requests) :
           /\ requests[i].epoch <= stopEpoch'
           /\ requests[i].kind = "RESUME" => requests[i].epoch <= resumedAt'
    BY <2>1, MailboxTyped DEF Epochs, Types
  <2>4. task.req \in Requests => /\ task.req.epoch <= stopEpoch'
                                 /\ task.req.kind = "RESUME" => task.req.epoch <= resumedAt'
    BY <2>1 DEF Epochs, Types, Requests
  <2>5. /\ rail = "on" => resumedAt' >= pausedAt
        /\ ~policy.paused => resumedAt' >= pausedAt
        /\ pausedAt <= stopEpoch'
    BY <2>1 DEF Epochs, Types
  <2> QED
    BY <1>5, <2>1, <2>2, <2>3, <2>4, <2>5, CallEffect DEF Epochs, Operating
<1>6. ASSUME NEW c \in Callers, CallFails(c) \/ CallReturns(c) PROVE Epochs'
  <2>1. \A d \in Callers : callers'[d].pc = "send" => callers'[d] = callers[d]
    BY <1>6, EndEffect
  <2> QED
    BY <1>6, <2>1, EndEffect DEF Epochs, Operating
<1>7. ASSUME NEW c \in Callers, Enqueue(c) PROVE Epochs'
  <2>1. \A d \in Callers : callers'[d].pc = "send" => callers'[d] = callers[d]
    BY <1>7, EnqueueFrame
  <2>2. \A i \in 1 .. Len(requests') :
           /\ requests'[i].epoch <= stopEpoch
           /\ requests'[i].kind = "RESUME" => requests'[i].epoch <= resumedAt
    BY <1>7, EnqueueEffect DEF Epochs
  <2>3. task' = task
    BY <1>7, EnqueueEffect
  <2> QED
    BY <1>7, <2>1, <2>2, <2>3, EnqueueFrame DEF Epochs, Operating
<1>8. ASSUME NEW c \in Callers, CallTimesOut(c) PROVE Epochs'
  <2>1. CallingFrame
    BY <1>8, CallingFrames DEF Calling
  <2>2. stopEpoch' = stopEpoch + 1 /\ resumedAt' = resumedAt /\ pausedAt' = pausedAt
    BY <1>8 DEF CallTimesOut, history
  <2>3. \A d \in Callers : callers'[d].pc = "send" =>
           /\ callers'[d].epoch <= stopEpoch'
           /\ callers'[d].kind = "RESUME" => callers'[d].epoch <= resumedAt'
    <3>1. \A d \in Callers : callers[d].epoch \in Nat
      BY DEF Types, CallerStates
    <3>2. \A d \in Callers : callers'[d].pc = "send" => callers'[d] = callers[d]
      BY <1>8, GivesUpFrame
    <3>3. stopEpoch \in Nat
      BY DEF Types
    <3> QED
      BY <2>2, <3>1, <3>2, <3>3 DEF Epochs
  <2>4. \A i \in 1 .. Len(requests') :
           /\ requests'[i].epoch <= stopEpoch'
           /\ requests'[i].kind = "RESUME" => requests'[i].epoch <= resumedAt'
    BY <1>8, <2>2, TimesOutEffect, MailboxTyped DEF Epochs, Types
  <2>5. task'.req \in Requests => /\ task'.req.epoch <= stopEpoch'
                                  /\ task'.req.kind = "RESUME" => task'.req.epoch <= resumedAt'
    BY <2>1, <2>2 DEF CallingFrame, Epochs, Types, Requests
  <2>6. Operating("RESUME")' => pausedAt' <= task'.req.epoch
    <3>1. Operating("RESUME") => task.req \in Requests
      BY RequestOfTask DEF Operating, Types
    <3> QED
      BY <2>1, <2>2, <3>1 DEF CallingFrame, Epochs, Operating
  <2>7. pausedAt' <= stopEpoch' /\ resumedAt' <= stopEpoch'
    BY <2>2 DEF Epochs, Types
  <2> QED
    BY <2>1, <2>2, <2>3, <2>4, <2>5, <2>6, <2>7 DEF Epochs, CallingFrame
<1>9. CASE Around
  BY <1>9, AroundFrames DEF AroundFrame, Epochs, Operating
<1>10. CASE Tick
  BY <1>10, TickFrame DEF Epochs, Operating
<1>11. CASE Reset
  <2>1. /\ \A c \in Callers : callers'[c].pc = "idle"
        /\ Len(requests') = 0 /\ task'.pc = "begin" /\ task'.req = NoRequest
        /\ stopEpoch' = 0 /\ pausedAt' = 0 /\ resumedAt' = 0
    BY <1>11, ResetFresh DEF Fresh, InitTask, IdleCaller
  <2> QED
    BY <2>1, NoRequestIsNone DEF Epochs, Operating
<1> QED
  BY <1>1, <1>2, <1>3, <1>4, <1>5, <1>6, <1>7, <1>8, <1>9, <1>10, <1>11, NextSplit, TaskSplit
     DEF Calling

-----------------------------------------------------------------------------
(* The inductive invariant and what follows from it *)

\* The invariant holds at power up.
LEMMA InitIInv == Init => IInv
<1> SUFFICES ASSUME Init PROVE IInv
  OBVIOUS
<1>1. Fresh
  BY InitFresh
<1>2. /\ \A c \in Callers : callers[c] = IdleCaller
      /\ Len(requests) = 0 /\ task.pc = "begin" /\ task.req = NoRequest /\ ~task.success
      /\ stopEpoch = 0 /\ pausedAt = 0 /\ resumedAt = 0
      /\ requests = <<>> /\ task = InitTask
  BY <1>1 DEF Fresh, InitTask
<1>3. Types
  <2>1. policy \in PolicyType
    BY ClockRange DEF Init, InitPolicy, PolicyType
  <2>2. task \in Tasks
    BY <1>2 DEF InitTask, Tasks, Points, StartResults
  <2>3. callers \in [Callers -> CallerStates]
    BY DEF Init, IdleCaller, CallerStates, Owners
  <2>4. requests \in Seq(Requests) /\ Len(requests) <= QueueLength
    BY <1>2, EmptySeq, PowerTaskAssumption DEF PowerTaskAssumption
  <2>5. /\ stopEpoch \in Nat /\ accepted \in 0 .. stopEpoch
        /\ pausedAt \in Nat /\ resumedAt \in Nat
    BY DEF Init
  <2>6. marker \in BOOLEAN /\ rail \in {"on", "off"} /\ lost \in BOOLEAN
    BY Zenon DEF Init
  <2>7. /\ maintenance = FALSE /\ fanAllowed = FALSE /\ recovering = FALSE
        /\ ioLock = "free" /\ ready = FALSE /\ pools = FALSE /\ hwFault = FALSE
    BY Zenon DEF Init
  <2> QED
    BY <2>1, <2>2, <2>3, <2>4, <2>5, <2>6, <2>7 DEF Types
<1>4. Board
  BY <1>1, <1>2 DEF Fresh, Board, StoppedIsOff, RoundEndsSafe, FanUnderControl, Unsettled
<1>5. Errand
  BY <1>2 DEF Errand, Unsettled, IdleCaller
<1>6. Shut
  BY <1>1, <1>2 DEF Fresh, Shut, IoExclusive, Operating
<1>7. Mail
  BY <1>2, NoRequestIsNone DEF Mail
<1>8. Rights
  <2>1. /\ \A c \in Callers : ~WithCaller(c) /\ callers[c].holds = "NONE" /\ callers[c].kind = "NONE"
        /\ ~WithTask /\ task.req.kind = "NONE"
    BY <1>2, NoRequestIsNone DEF IdleCaller, WithCaller, WithTask, Operating
  <2> QED
    BY <1>2, <2>1 DEF Rights
<1>9. Accounted
  BY <1>1 DEF Fresh, Accounted
<1>10. Epochs
  BY <1>2, NoRequestIsNone DEF Epochs, PauseHolds, Operating, IdleCaller
<1> QED
  BY <1>3, <1>4, <1>5, <1>6, <1>7, <1>8, <1>9, <1>10 DEF IInv

\* Every step keeps the invariant.
LEMMA IInvStep == IInv /\ [Next]_vars => IInv'
  BY TypesStep, BoardStep, ErrandStep, ShutStep, MailStep, RightsStep, AccountedStep, EpochsStep
     DEF IInv

\* The invariant holds for ever.
LEMMA Invariance == Spec => []IInv
  BY InitIInv, IInvStep, PTL DEF Spec

\* Every variable keeps its type, and the mailbox its bound.
THEOREM TypeCorrect == Spec => []TypeOK
<1>1. IInv => TypeOK
  <2> SUFFICES ASSUME Types PROVE TypeOK
    BY DEF IInv
  <2>1. DOMAIN requests = 1 .. Len(requests)
    BY LenProperties DEF Types
  <2>2. \A i \in DOMAIN requests : requests[i].kind \in Kinds /\ requests[i].caller \in Callers
    BY <2>1, MailboxTyped
  <2>3. \A c \in Callers : callers[c].pc \in {"idle", "send", "waiting", "done"}
    BY DEF Types, CallerStates
  <2> QED
    BY <2>2, <2>3 DEF Types, TypeOK
<1> QED
  BY <1>1, Invariance, PTL

\* An acknowledged pause holds: no resume made before it, no recovery from
\* overheat and no return of the pools puts the supply on again.
THEOREM PauseKept == Spec => []PauseHolds
<1>1. IInv => PauseHolds
  BY DEF IInv, Epochs
<1> QED
  BY <1>1, Invariance, PTL

\* Whoever was told it has maintenance has it, with the supply off, until it
\* gives it back.
THEOREM MaintenanceKept == Spec => []MaintenanceHeld
<1>1. IInv => MaintenanceHeld
  <2> SUFFICES ASSUME IInv, NEW c \in Callers, callers[c].holds # "NONE"
               PROVE  policy.owner = callers[c].holds /\ rail = "off"
    BY DEF IInv, Types, MaintenanceHeld
  <2>1. WithCaller(c) /\ RightOf(c) = callers[c].holds
    BY DEF WithCaller, RightOf
  <2> QED
    BY <2>1 DEF IInv, Rights, Board
<1> QED
  BY <1>1, Invariance, PTL

\* Maintenance nobody can give back any more is the mark of a release that did
\* not even get into the mailbox.
THEOREM MaintenanceAccounted == Spec => []MaintenanceClaimed
<1>1. IInv => MaintenanceClaimed
  <2> SUFFICES ASSUME IInv, policy.owner # "NONE", ~lost
               PROVE  Claims(policy.owner)
    BY DEF MaintenanceClaimed
  <2>1. DOMAIN callers = Callers /\ DOMAIN requests = 1 .. Len(requests)
    BY LenProperties DEF IInv, Types
  <2>2. CASE WithTask
    BY <2>2 DEF IInv, Rights, WithTask, Operating, Claims
  <2>3. ASSUME NEW c \in Callers, WithCaller(c) PROVE Claims(policy.owner)
    <3>1. policy.owner = RightOf(c)
      BY <2>3 DEF IInv, Rights
    <3>2. \/ callers[c].holds = policy.owner
          \/ callers[c].owner = policy.owner /\ callers[c].pc # "idle"
      BY <2>3, <3>1 DEF WithCaller, RightOf
    <3> QED
      BY <2>1, <3>2 DEF Claims
  <2>4. ASSUME NEW i \in 1 .. Len(requests), InMailbox(i) PROVE Claims(policy.owner)
    BY <2>1, <2>4 DEF IInv, Rights, InMailbox, Claims
  <2> QED
    BY <2>2, <2>3, <2>4 DEF IInv, Accounted
<1> QED
  BY <1>1, Invariance, PTL

\* The proof of shutdown by which later stops are skipped is never stale.
THEOREM StoppedMeansOff == Spec => []StoppedIsOff
<1>1. IInv => StoppedIsOff
  BY DEF IInv, Board
<1> QED
  BY <1>1, Invariance, PTL

\* A round of the loop ends with the supply off, a fault latched, or mining that
\* nothing stands against.
THEOREM RoundsEndSafe == Spec => []RoundEndsSafe
<1>1. IInv => RoundEndsSafe
  BY DEF IInv, Board
<1> QED
  BY <1>1, Invariance, PTL

\* Board I/O of other tasks and maintenance exclude each other.
THEOREM IoExcluded == Spec => []IoExclusive
<1>1. IInv => IoExclusive
  BY DEF IInv, Shut
<1> QED
  BY <1>1, Invariance, PTL

\* The fan controller has its freedom only while the board mines without fault.
THEOREM FanControlled == Spec => []FanUnderControl
<1>1. IInv => FanUnderControl
  BY DEF IInv, Board
<1> QED
  BY <1>1, Invariance, PTL

\* A cooldown ends only when its time is over and the reduced target is saved,
\* and not against a pause or maintenance.
THEOREM CooldownServed == Spec => RecoveryNeedsCooldown
<1>1. IInv /\ [Next]_vars => [CooledRestart]_vars
  <2> SUFFICES ASSUME IInv, Next, rail = "off", rail' = "on", policy.cooling
               PROVE  policy.age = CoolTime /\ policy.saved /\ ~policy.paused
    BY DEF CooledRestart
  <2>1. Types /\ Errand /\ Board
    BY DEF IInv
  <2>2. ~Calling /\ ~Around /\ ~Tick
    BY <2>1, CallingFrames, AroundFrames, TickFrame DEF CallingFrame, AroundFrame
  <2>3. ~Reset
    BY DEF Reset
  <2>4. ~Receive /\ ~Complete /\ ~Withdraw
    BY <2>1, ReceiveEffect, CompleteEffect, WithdrawEffect
  <2>5. Work
    BY <2>2, <2>3, <2>4, NextSplit, TaskSplit
  <2>6. task.pc = "starting"
    BY <2>1, <2>5, EpochFrames DEF EpochFrame
  <2> QED
    BY <2>1, <2>6 DEF Board
<1> QED
  BY <1>1, Invariance, PTL DEF Spec, RecoveryNeedsCooldown
=============================================================================
