------------------------- MODULE WorkPipelineProofs -------------------------
(***************************************************************************)
(* Proof, for any number of sessions, generations, pools and queued shares, *)
(* that WorkPipeline implements ShareDelivery.                             *)
(***************************************************************************)
EXTENDS WorkPipeline, SequenceTheorems, TLAPS

\* What holds of one piece of work.
Sound(w) ==
    /\ w.gen <= gen
    /\ w.gen = gen /\ gen > 0 =>
           \/ InSession /\ w.session = session /\ w.era >= era
           \/ pc = "closed" /\ transport = "none"

\* The transport is open exactly between Connected and the end of the session.
Phases == transport = "open" <=> InSession \/ pc \in {"setup", "prepare"}

\* Generation 0, under which nothing is published, is over before there is any
\* work to take, to send or to earn a share.
Counted ==
    /\ InSession \/ pc = "prepare" => gen > 0
    /\ notified # NoSlot \/ current # NoSlot => gen > 0
    /\ cpc \in {"copy", "send", "driver"} => work.gen > 0
    /\ \A w \in owned : w.gen > 0
    /\ \A i \in 1 .. Len(queue) : queue[i].gen > 0

\* A parsed job that awaits admission is of the open session and not retired.
Parsed ==
    pc = "admit" => slots[target].session = session /\ slots[target].era \in {era, era + 1}

\* The inductive invariant.  GenerationNamesSession alone is not inductive: that
\* the counter moves past all work there is needs the bound on generations, that
\* a step happens inside a session needs the phases of the transport, and that a
\* slot may be stamped needs what is known of a parsed job.
IInv ==
    /\ TypeOK /\ Phases /\ Counted /\ Parsed
    /\ \A w \in LiveWork : Sound(w)

USE DEF Slots, NoSlot

-----------------------------------------------------------------------------
\* Removing the head of the share queue keeps the rest (xQueueReceive).
LEMMA TailOfQueue ==
    ASSUME NEW q \in Seq(Works), q # <<>>
    PROVE  /\ Tail(q) \in Seq(Works)
           /\ Len(Tail(q)) = Len(q) - 1
           /\ 1 \in 1 .. Len(q) /\ Head(q) = q[1] /\ Head(q) \in Works
           /\ \A i \in 1 .. Len(Tail(q)) : i + 1 \in 1 .. Len(q) /\ Tail(q)[i] = q[i + 1]
<1>1. Len(q) \in Nat /\ Len(q) > 0
  BY EmptySeq, LenProperties
<1>2. Head(q) = q[1]
  OBVIOUS
<1>3. /\ Tail(q) \in Seq(Works) /\ Head(q) \in Works
      /\ Len(Tail(q)) = Len(q) - 1
      /\ \A i \in 1 .. Len(Tail(q)) : Tail(q)[i] = q[i + 1]
  BY HeadTailProperties
<1> QED
  BY <1>1, <1>2, <1>3

\* Adding a share keeps the others and adds only that one (xQueueSend).
LEMMA AppendToQueue ==
    ASSUME NEW q \in Seq(Works), NEW w \in Works
    PROVE  /\ Append(q, w) \in Seq(Works)
           /\ Len(Append(q, w)) = Len(q) + 1
           /\ \A i \in 1 .. Len(q) + 1 :
                 \/ i \in 1 .. Len(q) /\ Append(q, w)[i] = q[i]
                 \/ i = Len(q) + 1 /\ Append(q, w)[i] = w
<1>1. Len(q) \in Nat
  BY LenProperties
<1>2. /\ Append(q, w) \in Seq(Works)
      /\ Len(Append(q, w)) = Len(q) + 1
      /\ \A i \in 1 .. Len(q) : Append(q, w)[i] = q[i]
      /\ Append(q, w)[Len(q) + 1] = w
  BY AppendProperties
<1> QED
  BY <1>1, <1>2

\* A slot that was reset is work of generation 0 (miner_job_reset).
LEMMA BlankIsWork == Blank \in Works /\ Blank.gen = 0
  BY PipelineAssumption DEF PipelineAssumption, Blank, Works

\* Every step of every task keeps the types.
LEMMA TypeStep ==
    ASSUME TypeOK, [Next]_vars
    PROVE  TypeOK'
<1> USE PipelineAssumption, BlankIsWork DEF PipelineAssumption, TypeOK, clientVars, creatorVars,
        shareVars, inputVars
<1>1. CASE StartRun
  BY <1>1, ZenonT(60) DEF StartRun
<1>2. CASE ConnectFails
  BY <1>2 DEF ConnectFails
<1>3. CASE Connected
  BY <1>3 DEF Connected
<1>4. CASE CleanJobsQueue
  BY <1>4 DEF CleanJobsQueue
<1>5. CASE Prepare
  BY <1>5 DEF Prepare
<1>6. CASE PrepareFails
  BY <1>6 DEF PrepareFails
<1>7. CASE EnterReceive \/ LeaveLoop \/ ReceiveFails \/ ReceiveOther
  BY <1>7, SMTT(40) DEF EnterReceive, LeaveLoop, ReceiveFails, ReceiveOther
<1>8. CASE ReceiveNotify
  BY <1>8 DEF ReceiveNotify
<1>9. ASSUME NEW c \in BOOLEAN, ParseNotify(c) PROVE TypeOK'
  <2> DEFINE job == [gen |-> 0, pool |-> pool, session |-> session,
                     era |-> IF c THEN era + 1 ELSE era]
  <2>1. (IF c THEN era + 1 ELSE era) \in Nat
    OBVIOUS
  <2>2. job \in Works /\ [job EXCEPT !.gen = work.gen] \in Works
    BY <2>1 DEF Works
  <2>3. /\ slots' = [slots EXCEPT ![target] = job]
        /\ work' = work \/ work' = [job EXCEPT !.gen = work.gen]
        /\ pc' = "admit"
        /\ UNCHANGED <<transport, conn, pool, buffer, target, session, era, active, cpc,
                       current, shareVars, inputVars, gen, notified, owned>>
    BY <1>9, Zenon DEF ParseNotify
  <2> HIDE DEF job
  <2> QED
    BY <2>2, <2>3, SMTT(40)
<1>10. CASE RefuseJob \/ NotifyCreator
  BY <1>10, SMTT(40) DEF RefuseJob, NotifyCreator
<1>11. CASE CloseConnection
  BY <1>11 DEF CloseConnection
<1>12. CASE PublishJob
  <2>1. /\ gen' = IF slots[target].era > era THEN gen + 1 ELSE gen
        /\ era' = slots[target].era
    BY <1>12, Zenon DEF PublishJob
  <2>2. slots[target] \in Works
    OBVIOUS
  <2>3. slots[target].era \in Nat
    BY <2>2 DEF Works
  <2>4. gen' \in {gen, gen + 1}
    BY <2>1, Zenon
  <2>5. gen' \in Nat /\ era' \in Nat
    BY <2>1, <2>3, <2>4
  <2>6. [slots[target] EXCEPT !.gen = gen'] \in Works
    BY <2>5 DEF Works
  <2>7. slots' = [slots EXCEPT ![target] = [slots[target] EXCEPT !.gen = gen']]
    BY <1>12 DEF PublishJob, Works
  <2>8. slots' \in [Slots -> Works]
    BY <2>6, <2>7
  <2> QED
    BY <1>12, <2>5, <2>8 DEF PublishJob
<1>13. CASE TakeNotification \/ ActivateWork \/ IntervalOver
  BY <1>13, SMTT(40) DEF TakeNotification, ActivateWork, IntervalOver
<1>14. CASE StartWork \/ BuildWork
  BY <1>14, SMTT(40) DEF StartWork, BuildWork
<1>15. CASE CheckWork \/ DriverRefuses \/ DriverAccepts
  BY <1>15, SMTT(40) DEF CheckWork, DriverRefuses, DriverAccepts
<1>16. ASSUME NEW w \in owned, QueueShare(w) PROVE TypeOK'
  BY <1>16, AppendToQueue DEF QueueShare
<1>17. CASE WriteShare \/ DropShare
  <2>1. queue # <<>> /\ queue' = Tail(queue)
    BY <1>17, Zenon DEF WriteShare, DropShare
  <2>2. /\ queue' \in Seq(Works) /\ Len(queue') <= QueueLength
        /\ Head(queue) \in Works
    BY <2>1, TailOfQueue, LenProperties
  <2>3. CASE WriteShare
    <3>1. /\ UNCHANGED <<clientVars, slots, creatorVars, inputVars, gen, notified, owned>>
          /\ delivered' = Head(queue)
      BY <2>3, Zenon DEF WriteShare
    <3> QED
      BY <2>2, <3>1
  <2>4. CASE DropShare
    BY <2>2, <2>4 DEF DropShare
  <2> QED
    BY <1>17, <2>3, <2>4
<1>18. CASE InputStep
  <2>1. CASE RequestReconnect
    BY <2>1 DEF RequestReconnect, CountInput
  <2>2. CASE PowerOn
    BY <2>2 DEF PowerOn
  <2>3. CASE PowerOff
    <3>1. /\ UNCHANGED <<clientVars, slots, creatorVars, shareVars, reconnect,
                         gen, notified, owned>>
          /\ initialized' \in BOOLEAN /\ inputs' = inputs + 1
      BY <2>3, Zenon DEF PowerOff, CountInput
    <3> QED
      BY <3>1
  <2> QED
    BY <1>18, <2>1, <2>2, <2>3 DEF InputStep
<1>19. CASE UNCHANGED vars
  BY <1>19 DEF vars
<1> QED
  BY <1>1, <1>2, <1>3, <1>4, <1>5, <1>7, <1>8, <1>9, <1>10, <1>12, <1>13, <1>14, <1>15,
     <1>16, <1>17, <1>18, <1>19, <1>6, <1>11 DEF Next, ClientStep, CreatorStep, ShareStep

\* Types of the pipeline, for every value of the constants (TypeOK).
THEOREM TypeCorrect == Spec => []TypeOK
<1>1. Init => TypeOK
  BY PipelineAssumption, BlankIsWork DEF PipelineAssumption, Init, TypeOK
<1>2. TypeOK /\ [Next]_vars => TypeOK'
  BY TypeStep
<1> QED
  BY <1>1, <1>2, PTL DEF Spec

-----------------------------------------------------------------------------
\* What a step that parses or publishes a job makes of a piece of work.
Announced(w) ==
    /\ pc' \in {"admit", "notify"}
    /\ w.gen \in {work.gen, gen'}
    /\ w.session = session' /\ w.era >= era'

\* Work comes into being when a notify is parsed, in its slot and perhaps in the
\* hands of the creator, and when its slot is stamped; all the other steps of
\* the four tasks pass on work that was already there.
LEMMA LiveStep ==
    ASSUME TypeOK, Parsed, Next, NEW w \in LiveWork'
    PROVE  w \in LiveWork \/ w.gen = 0 \/ Announced(w)
<1> USE DEF clientVars, creatorVars, shareVars, inputVars
<1>1. CASE \/ StartRun \/ ConnectFails \/ Connected \/ Prepare \/ PrepareFails
           \/ EnterReceive \/ LeaveLoop \/ ReceiveFails \/ ReceiveNotify \/ ReceiveOther
           \/ RefuseJob \/ NotifyCreator \/ CloseConnection
  <2>1. UNCHANGED <<slots, work, owned, queue>>
    BY <1>1, Zenon DEF StartRun, ConnectFails, Connected, Prepare, PrepareFails, EnterReceive,
       LeaveLoop, ReceiveFails, ReceiveNotify, ReceiveOther, RefuseJob, NotifyCreator,
       CloseConnection
  <2> QED
    BY <2>1 DEF LiveWork
<1>2. CASE CleanJobsQueue
  BY <1>2 DEF CleanJobsQueue, LiveWork
<1>3. ASSUME NEW c \in BOOLEAN, ParseNotify(c)
      PROVE  w \in LiveWork \/ w.gen = 0 \/ Announced(w)
  <2> DEFINE job == [gen |-> 0, pool |-> pool, session |-> session,
                     era |-> IF c THEN era + 1 ELSE era]
  <2>1. /\ slots' = [slots EXCEPT ![target] = job]
        /\ work' = work \/ work' = [job EXCEPT !.gen = work.gen]
        /\ pc' = "admit" /\ UNCHANGED <<session, era, owned, queue>>
    BY <1>3, Zenon DEF ParseNotify
  <2>2. job.gen = 0
    OBVIOUS
  <2>3. /\ [job EXCEPT !.gen = work.gen].gen = work.gen
        /\ [job EXCEPT !.gen = work.gen].session = session
        /\ [job EXCEPT !.gen = work.gen].era >= era
    BY DEF TypeOK
  <2> HIDE DEF job
  <2>4. \A s \in Slots : slots'[s] = slots[s] \/ slots'[s].gen = 0
    BY <2>1, <2>2 DEF TypeOK
  <2>5. work' = work \/ Announced(work')
    BY <2>1, <2>3, Zenon DEF Announced
  <2> QED
    BY <2>1, <2>4, <2>5 DEF LiveWork
<1>4. CASE PublishJob
  <2>1. pc = "admit" /\ pc' = "notify" /\ UNCHANGED <<session, work, owned, queue>>
    BY <1>4 DEF PublishJob
  <2>2. \A s \in Slots : slots'[s] = slots[s] \/ Announced(slots'[s])
    <3>1. ASSUME NEW s \in Slots, s # target PROVE slots'[s] = slots[s]
      BY <1>4, <3>1 DEF PublishJob, TypeOK
    <3>2. /\ slots'[target].gen = gen' /\ slots'[target].session = session
          /\ slots'[target].era = era' /\ era' \in Nat
      BY <1>4, <2>1 DEF PublishJob, TypeOK, Works, Parsed
    <3>3. Announced(slots'[target])
      BY <2>1, <3>2 DEF Announced
    <3> QED
      BY <3>1, <3>3
  <2> QED
    BY <2>1, <2>2 DEF LiveWork
<1>5. CASE TakeNotification \/ ActivateWork \/ IntervalOver \/ DriverRefuses
  BY <1>5 DEF TakeNotification, ActivateWork, IntervalOver, DriverRefuses, LiveWork
<1>6. CASE StartWork
  <2>1. UNCHANGED <<slots, owned, queue>> /\ (work' = work \/ work' = slots[current])
    BY <1>6, Zenon DEF StartWork
  <2>2. current \in Slots
    BY <1>6 DEF StartWork, TypeOK
  <2> QED
    BY <2>1, <2>2 DEF LiveWork
<1>7. CASE BuildWork \/ CheckWork
  <2>1. UNCHANGED <<slots, owned, queue>> /\ (work' = work \/ work' = Blank)
    BY <1>7, Zenon DEF BuildWork, CheckWork
  <2> QED
    BY <2>1, BlankIsWork DEF LiveWork
<1>8. CASE DriverAccepts
  <2>1. UNCHANGED <<slots, queue>> /\ work' = Blank /\ owned' = owned \union {work}
    BY <1>8, Zenon DEF DriverAccepts
  <2> QED
    BY <2>1, BlankIsWork DEF LiveWork
<1>9. ASSUME NEW v \in owned, QueueShare(v) PROVE w \in LiveWork
  <2>1. /\ UNCHANGED <<slots, work, owned>>
        /\ queue' = queue \/ queue' = Append(queue, v)
    BY <1>9, Zenon DEF QueueShare
  <2>2. \A i \in 1 .. Len(queue') : queue'[i] \in LiveWork
    BY <2>1, <1>9, AppendToQueue DEF LiveWork, TypeOK
  <2> QED
    BY <2>1, <2>2 DEF LiveWork
<1>10. CASE WriteShare \/ DropShare
  <2>1. /\ UNCHANGED <<slots, work, owned>>
        /\ queue # <<>> /\ queue' = Tail(queue)
    BY <1>10, Zenon DEF WriteShare, DropShare
  <2>2. \A i \in 1 .. Len(queue') : queue'[i] \in LiveWork
    BY <2>1, TailOfQueue DEF LiveWork, TypeOK
  <2> QED
    BY <2>1, <2>2 DEF LiveWork
<1>11. CASE InputStep
  <2>1. UNCHANGED <<slots, work, owned, queue>>
    BY <1>11, Zenon DEF InputStep, RequestReconnect, PowerOn, PowerOff
  <2> QED
    BY <2>1 DEF LiveWork
<1> QED
  BY <1>1, <1>2, <1>3, <1>4, <1>5, <1>6, <1>7, <1>8, <1>9, <1>10, <1>11
     DEF Next, ClientStep, CreatorStep, ShareStep

\* The generation is only ever counted up.
LEMMA GenerationGrows ==
    ASSUME TypeOK, Next
    PROVE  gen <= gen'
<1>1. UNCHANGED gen \/ gen' = gen + 1
  BY Zenon DEF Next, ClientStep, StartRun, ConnectFails, Connected, CleanJobsQueue, Prepare,
     PrepareFails, EnterReceive, LeaveLoop, ReceiveFails, ReceiveNotify, ReceiveOther,
     ParseNotify, RefuseJob, PublishJob, NotifyCreator, CloseConnection, CreatorStep,
     TakeNotification, ActivateWork, IntervalOver, StartWork, BuildWork, CheckWork,
     DriverRefuses, DriverAccepts, ShareStep, QueueShare, WriteShare, DropShare, InputStep,
     RequestReconnect, PowerOn, PowerOff
<1> QED
  BY <1>1 DEF TypeOK

\* Once the generation moves on, all the work that was sound is of an older one.
LEMMA OlderIsSound ==
    ASSUME NEW w, w.gen \in Nat, gen \in Nat, Sound(w), gen' = gen + 1
    PROVE  Sound(w)'
<1>1. w.gen <= gen
  BY DEF Sound
<1>2. w.gen <= gen' /\ w.gen # gen'
  BY <1>1
<1> QED
  BY <1>2, Zenon DEF Sound

\* Sound work stays sound: a step that leaves a session, or starts one, is taken
\* with no work of the current generation around, or moves the generation on.
LEMMA SoundStep ==
    ASSUME TypeOK, Parsed, Next, NEW w \in Works, Sound(w)
    PROVE  Sound(w)'
<1>1. /\ w.gen \in Nat /\ w.session \in Nat /\ w.era \in Nat
      /\ gen \in Nat /\ session \in Nat /\ era \in Nat
  BY DEF TypeOK, Works
<1>2. CASE StartRun \/ ConnectFails \/ Connected \/ Prepare \/ PrepareFails
  <2>1. /\ pc \in {"idle", "connect", "prepare"} /\ UNCHANGED gen
        /\ pc' \in {"idle", "connect", "setup", "loop"}
    BY <1>2 DEF StartRun, ConnectFails, Connected, Prepare, PrepareFails
  <2>2. ~(w.gen = gen /\ gen > 0)
    BY <2>1 DEF Sound, InSession
  <2> QED
    BY <2>1, <2>2 DEF Sound
<1>3. CASE CleanJobsQueue
  <2>1. gen' = gen + 1
    BY <1>3, Zenon DEF CleanJobsQueue
  <2> QED
    BY <1>1, <2>1, OlderIsSound
<1>4. CASE \/ EnterReceive \/ LeaveLoop \/ ReceiveFails \/ ReceiveNotify \/ ReceiveOther
           \/ (\E c \in BOOLEAN : ParseNotify(c)) \/ RefuseJob \/ NotifyCreator
  <2>1. /\ pc \in {"loop", "recv", "parse", "admit", "notify"}
        /\ pc' \in {"loop", "recv", "parse", "admit", "close"}
        /\ UNCHANGED <<gen, session, era>>
    BY <1>4, Zenon DEF EnterReceive, LeaveLoop, ReceiveFails, ReceiveNotify, ReceiveOther,
       ParseNotify, RefuseJob, NotifyCreator
  <2> QED
    BY <2>1 DEF Sound, InSession
<1>5. CASE PublishJob
  <2>1. pc = "admit" /\ InSession /\ InSession' /\ UNCHANGED session
    BY <1>5 DEF PublishJob, InSession
  <2>2. CASE slots[target].era > era
    <3>1. gen' = gen + 1
      BY <1>5, <2>2, Zenon DEF PublishJob
    <3> QED
      BY <1>1, <3>1, OlderIsSound
  <2>3. CASE ~(slots[target].era > era)
    <3>1. gen' = gen /\ era' = slots[target].era
      BY <1>5, <2>3, Zenon DEF PublishJob
    <3>2. slots[target].era \in {era, era + 1}
      BY <2>1, Zenon DEF Parsed
    <3>3. era' = era
      BY <1>1, <2>3, <3>1, <3>2
    <3>4. pc # "closed"
      BY <2>1
    <3> QED
      BY <2>1, <3>1, <3>3, <3>4, Zenon DEF Sound
  <2> QED
    BY <2>2, <2>3
<1>6. CASE CloseConnection
  BY <1>6 DEF CloseConnection, Sound, InSession
<1>7. CASE CreatorStep \/ ShareStep \/ InputStep
  <2>1. UNCHANGED <<pc, transport, gen, session, era>>
    BY <1>7, Zenon DEF CreatorStep, TakeNotification, ActivateWork, IntervalOver, StartWork,
       BuildWork, CheckWork, DriverRefuses, DriverAccepts, ShareStep, QueueShare, WriteShare, DropShare,
       InputStep, RequestReconnect, PowerOn, PowerOff, clientVars
  <2> QED
    BY <2>1 DEF Sound, InSession
<1> QED
  BY <1>2, <1>3, <1>4, <1>5, <1>6, <1>7 DEF Next, ClientStep

\* The transport follows the phases of the Stratum task.
LEMMA PhasesStep ==
    ASSUME TypeOK, Phases, Next
    PROVE  Phases'
<1> USE DEF Phases, InSession
<1>1. CASE StartRun \/ ConnectFails \/ Connected \/ CleanJobsQueue \/ Prepare
  BY <1>1 DEF StartRun, ConnectFails, Connected, CleanJobsQueue, Prepare
<1>2. CASE PrepareFails \/ CloseConnection
  BY <1>2 DEF PrepareFails, CloseConnection
<1>3. CASE EnterReceive \/ LeaveLoop \/ ReceiveFails \/ ReceiveNotify \/ ReceiveOther
  BY <1>3 DEF EnterReceive, LeaveLoop, ReceiveFails, ReceiveNotify, ReceiveOther
<1>4. CASE (\E c \in BOOLEAN : ParseNotify(c)) \/ RefuseJob \/ NotifyCreator \/ PublishJob
  <2>1. /\ pc \in {"parse", "admit", "notify"} /\ pc' \in {"admit", "loop", "notify"}
        /\ UNCHANGED transport
    BY <1>4, Zenon DEF ParseNotify, RefuseJob, NotifyCreator, PublishJob
  <2> QED
    BY <2>1
<1>5. CASE CreatorStep \/ ShareStep \/ InputStep
  <2>1. UNCHANGED <<pc, transport>>
    BY <1>5, Zenon DEF CreatorStep, TakeNotification, ActivateWork, IntervalOver, StartWork,
       BuildWork, CheckWork, DriverRefuses, DriverAccepts, ShareStep, QueueShare, WriteShare, DropShare,
       InputStep, RequestReconnect, PowerOn, PowerOff, clientVars
  <2> QED
    BY <2>1
<1> QED
  BY <1>1, <1>2, <1>3, <1>4, <1>5 DEF Next, ClientStep

\* Nothing that can earn a share carries generation 0.
LEMMA CountedStep ==
    ASSUME IInv, Next
    PROVE  Counted'
<1> USE DEF IInv, Counted, InSession, clientVars, creatorVars, shareVars, inputVars
<1>1. TypeOK /\ gen \in Nat /\ Len(queue) \in Nat
  BY LenProperties DEF TypeOK
<1>2. CASE \/ StartRun \/ ConnectFails \/ Connected \/ Prepare \/ PrepareFails
           \/ EnterReceive \/ LeaveLoop \/ ReceiveFails \/ ReceiveNotify \/ ReceiveOther
           \/ RefuseJob \/ NotifyCreator \/ CloseConnection
  <2>1. /\ UNCHANGED <<gen, current, cpc, work, owned, queue>>
        /\ InSession' \/ pc' = "prepare" => gen > 0
        /\ notified' # notified => InSession
    BY <1>2 DEF StartRun, ConnectFails, Connected, Prepare, PrepareFails, EnterReceive,
       LeaveLoop, ReceiveFails, ReceiveNotify, ReceiveOther, RefuseJob, NotifyCreator,
       CloseConnection
  <2> QED
    BY <2>1
<1>3. CASE CleanJobsQueue
  BY <1>1, <1>3 DEF CleanJobsQueue
<1>4. CASE PublishJob
  BY <1>1, <1>4 DEF PublishJob
<1>5. ASSUME NEW c \in BOOLEAN, ParseNotify(c) PROVE Counted'
  <2>1. /\ pc = "parse" /\ pc' = "admit"
        /\ UNCHANGED <<gen, current, cpc, notified, owned, queue>>
        /\ work'.gen = work.gen
    BY <1>5 DEF ParseNotify
  <2> QED
    BY <2>1
<1>6. CASE TakeNotification \/ ActivateWork \/ IntervalOver \/ CheckWork \/ DriverRefuses
  BY <1>6 DEF TakeNotification, ActivateWork, IntervalOver, CheckWork, DriverRefuses
<1>7. CASE BuildWork
  BY <1>7 DEF BuildWork
<1>8. CASE StartWork
  <2>1. gen > 0
    BY <1>1, <1>8 DEF StartWork, TypeOK
  <2>2. /\ UNCHANGED <<pc, gen, current, notified, owned, queue>>
        /\ cpc' = "wait" \/ (cpc' = "copy" /\ work'.gen = gen)
    BY <1>8, Zenon DEF StartWork, Current
  <2> QED
    BY <2>1, <2>2
<1>9. CASE DriverAccepts
  <2>1. /\ UNCHANGED <<pc, gen, current, notified, queue>>
        /\ cpc = "driver" /\ cpc' = "wait" /\ owned' = owned \union {work}
    BY <1>9, Zenon DEF DriverAccepts
  <2> QED
    BY <2>1
<1>10. ASSUME NEW v \in owned, QueueShare(v) PROVE Counted'
  <2>1. /\ UNCHANGED <<pc, gen, current, cpc, work, notified, owned>>
        /\ queue' = queue \/ queue' = Append(queue, v)
    BY <1>10, Zenon DEF QueueShare
  <2>2. \A i \in 1 .. Len(queue') : queue'[i].gen > 0
    <3>1. queue \in Seq(Works) /\ v \in Works /\ v.gen > 0
      BY <1>1 DEF TypeOK
    <3>2. CASE queue' = queue
      BY <3>2
    <3>3. CASE queue' = Append(queue, v)
      BY <1>1, <3>1, <3>3, AppendToQueue
    <3> QED
      BY <2>1, <3>2, <3>3
  <2> QED
    BY <2>1, <2>2
<1>11. CASE WriteShare \/ DropShare
  <2>1. /\ UNCHANGED <<pc, gen, current, cpc, work, notified, owned>>
        /\ queue # <<>> /\ queue' = Tail(queue)
    BY <1>11, Zenon DEF WriteShare, DropShare
  <2>2. \A i \in 1 .. Len(queue') : queue'[i].gen > 0
    BY <1>1, <2>1, TailOfQueue DEF TypeOK
  <2> QED
    BY <2>1, <2>2
<1>12. CASE InputStep
  <2>1. UNCHANGED <<pc, gen, current, cpc, work, notified, owned, queue>>
    BY <1>12, Zenon DEF InputStep, RequestReconnect, PowerOn, PowerOff
  <2> QED
    BY <2>1
<1> QED
  BY <1>2, <1>3, <1>4, <1>6, <1>8, <1>9, <1>10, <1>11, <1>12, <1>5, <1>7
     DEF Next, ClientStep, CreatorStep, ShareStep

\* Nobody but the client touches a job between its parsing and its admission.
LEMMA ParsedStep ==
    ASSUME TypeOK, Parsed, Next
    PROVE  Parsed'
<1> USE DEF Parsed
<1>1. ASSUME NEW c \in BOOLEAN, ParseNotify(c) PROVE Parsed'
  <2>1. /\ UNCHANGED <<target, session, era>>
        /\ slots'[target].session = session /\ slots'[target].era \in {era, era + 1}
    BY <1>1 DEF ParseNotify, TypeOK
  <2> QED
    BY <2>1
<1>2. CASE CreatorStep \/ ShareStep \/ InputStep
  <2>1. UNCHANGED <<pc, slots, target, session, era>>
    BY <1>2, Zenon DEF CreatorStep, TakeNotification, ActivateWork, IntervalOver, StartWork,
       BuildWork, CheckWork, DriverRefuses, DriverAccepts, ShareStep, QueueShare, WriteShare,
       DropShare, InputStep, RequestReconnect, PowerOn, PowerOff, clientVars
  <2> QED
    BY <2>1
<1>3. CASE \/ StartRun \/ ConnectFails \/ Connected \/ CleanJobsQueue \/ Prepare \/ PrepareFails
           \/ EnterReceive \/ LeaveLoop \/ ReceiveFails \/ ReceiveNotify \/ ReceiveOther
           \/ RefuseJob \/ PublishJob \/ NotifyCreator \/ CloseConnection
  <2>1. pc' # "admit"
    BY <1>3 DEF StartRun, ConnectFails, Connected, CleanJobsQueue, Prepare, PrepareFails,
       EnterReceive, LeaveLoop, ReceiveFails, ReceiveNotify, ReceiveOther, RefuseJob,
       PublishJob, NotifyCreator, CloseConnection
  <2> QED
    BY <2>1
<1> QED
  BY <1>1, <1>2, <1>3 DEF Next, ClientStep

\* IInv is an invariant of the pipeline.
LEMMA Inductive == Spec => []IInv
<1>1. Init => IInv
  <2> SUFFICES ASSUME Init PROVE IInv
    OBVIOUS
  <2>1. TypeOK
    BY PipelineAssumption, BlankIsWork DEF PipelineAssumption, Init, TypeOK
  <2>2. Phases /\ Counted /\ Parsed
    BY DEF Init, Phases, Counted, Parsed, InSession
  <2>3. ASSUME NEW w \in LiveWork PROVE w.gen = 0
    BY <2>3, BlankIsWork DEF Init, LiveWork
  <2> QED
    BY <2>1, <2>2, <2>3 DEF IInv, Sound, Init
<1>2. IInv /\ [Next]_vars => IInv'
  <2> SUFFICES ASSUME IInv, [Next]_vars PROVE IInv'
    OBVIOUS
  <2>1. TypeOK'
    BY TypeStep DEF IInv
  <2>2. CASE Next
    <3>1. Phases' /\ Counted' /\ Parsed'
      BY <2>2, PhasesStep, CountedStep, ParsedStep DEF IInv
    <3>2. ASSUME NEW w \in LiveWork' PROVE Sound(w)'
      <4>1. w \in Works
        BY <2>1, <3>2 DEF TypeOK, LiveWork
      <4>2. CASE w \in LiveWork
        BY <2>2, <4>1, <4>2, SoundStep DEF IInv
      <4>3. CASE w.gen = 0
        BY <2>1, <4>3 DEF Sound, TypeOK
      <4>4. CASE Announced(w)
        <5>1. work.gen <= gen /\ work.gen \in Nat
          BY DEF IInv, Sound, LiveWork, TypeOK, Works
        <5>2. gen \in Nat /\ gen' \in Nat /\ gen <= gen'
          BY <2>2, <2>1, GenerationGrows DEF IInv, TypeOK
        <5> QED
          BY <4>4, <5>1, <5>2 DEF Sound, Announced, InSession
      <4> QED
        BY <2>2, <3>2, <4>2, <4>3, <4>4, LiveStep DEF IInv
    <3> QED
      BY <2>1, <3>1, <3>2 DEF IInv
  <2>3. CASE UNCHANGED vars
    BY <2>3 DEF IInv, TypeOK, Phases, Counted, Parsed, Sound, LiveWork, InSession, vars, clientVars,
       creatorVars, shareVars, inputVars
  <2> QED
    BY <2>2, <2>3
<1> QED
  BY <1>1, <1>2, PTL DEF Spec

\* Comparing generations is enough: whatever work of the current generation is
\* left in the pipeline belongs to the open session and to its last clean job
\* (GenerationNamesSession; stratum_work.c, stratum_v1_submit_share).
THEOREM GenerationCorrect == Spec => []GenerationNamesSession
<1>1. IInv => GenerationNamesSession
  BY DEF IInv, Sound, GenerationNamesSession
<1> QED
  BY <1>1, Inductive, PTL

-----------------------------------------------------------------------------
\* A share that passes the checks of stratum_v1_submit_share was found for the
\* open session and its last clean job.
LEMMA WrittenShareIsCurrent ==
    ASSUME IInv, WriteShare
    PROVE  /\ transport = "open"
           /\ Head(queue).session = session /\ Head(queue).era >= era
<1>1. queue # <<>> /\ transport # "none" /\ Head(queue).gen = gen
  BY Zenon DEF WriteShare, MayWrite, Current
<1>2. queue \in Seq(Works)
  BY DEF IInv, TypeOK
<1>3. 1 \in 1 .. Len(queue) /\ Head(queue) = queue[1]
  BY <1>1, <1>2, TailOfQueue
<1>4. Head(queue) \in LiveWork /\ Head(queue).gen > 0
  BY <1>3 DEF IInv, Counted, LiveWork
<1>5. Sound(Head(queue)) /\ gen > 0
  BY <1>1, <1>4 DEF IInv
<1>6. InSession /\ Head(queue).session = session /\ Head(queue).era >= era
  BY <1>1, <1>5 DEF Sound
<1> QED
  BY <1>6 DEF IInv, Phases

\* Every step of the pipeline is a step of the promise or leaves it alone.
LEMMA DeliveryStep ==
    ASSUME IInv, [Next]_vars
    PROVE  [Delivery!Next]_(Delivery!vars)
<1> USE DEF Delivery!vars
<1>1. CASE StartRun \/ ConnectFails \/ Prepare \/ CleanJobsQueue
  BY <1>1, Zenon DEF StartRun, ConnectFails, Prepare, CleanJobsQueue, shareVars
<1>2. CASE Connected
  <2>1. transport # "open" /\ transport' = "open"
    BY <1>2 DEF Connected, IInv, Phases, InSession
  <2>2. session' = session + 1 /\ era' = 0 /\ UNCHANGED delivered
    BY <1>2, Zenon DEF Connected, shareVars
  <2> QED
    BY <2>1, <2>2 DEF Delivery!Next, Delivery!Open
<1>3. CASE PrepareFails \/ CloseConnection
  <2>1. transport = "open"
    BY <1>3 DEF PrepareFails, CloseConnection, IInv, Phases, InSession
  <2>2. transport' # "open" /\ era' = 0 /\ delivered' = Blank /\ UNCHANGED session
    BY <1>3 DEF PrepareFails, CloseConnection
  <2>3. delivered'.session = 0 /\ delivered'.era = 0
    BY <2>2 DEF Blank
  <2> QED
    BY <2>1, <2>2, <2>3 DEF Delivery!Next, Delivery!Close, Delivery!Nothing
<1>4. CASE \/ EnterReceive \/ LeaveLoop \/ ReceiveFails \/ ReceiveNotify \/ ReceiveOther
           \/ (\E c \in BOOLEAN : ParseNotify(c)) \/ RefuseJob \/ NotifyCreator
  BY <1>4, Zenon DEF EnterReceive, LeaveLoop, ReceiveFails, ReceiveNotify, ReceiveOther,
     ParseNotify, RefuseJob, NotifyCreator, shareVars
<1>5. CASE PublishJob
  <2>1. /\ pc = "admit" /\ UNCHANGED <<transport, session, delivered>>
        /\ era' = slots[target].era
    BY <1>5, Zenon DEF PublishJob, shareVars
  <2>2. transport = "open"
    BY <2>1 DEF IInv, Phases, InSession
  <2>3. era' = era \/ era' = era + 1
    BY <2>1 DEF IInv, Parsed, TypeOK, Works
  <2> QED
    BY <2>1, <2>2, <2>3 DEF Delivery!Next, Delivery!Retire
<1>6. CASE WriteShare
  <2>1. UNCHANGED <<transport, session, era>> /\ delivered' \in {delivered, Head(queue)}
    BY <1>6, Zenon DEF WriteShare, clientVars
  <2>2. /\ transport = "open"
        /\ Head(queue).session = session /\ Head(queue).era >= era
    BY <1>6, WrittenShareIsCurrent
  <2> QED
    BY <2>1, <2>2 DEF Delivery!Next, Delivery!Deliver
<1>7. CASE CreatorStep \/ (\E v \in owned : QueueShare(v)) \/ DropShare \/ InputStep
  <2>1. UNCHANGED <<transport, session, era, delivered>>
    BY <1>7, Zenon DEF CreatorStep, TakeNotification, ActivateWork, IntervalOver, StartWork,
       BuildWork, CheckWork, DriverRefuses, DriverAccepts, QueueShare, DropShare, InputStep,
       RequestReconnect, PowerOn, PowerOff, clientVars, shareVars
  <2> QED
    BY <2>1
<1>8. CASE UNCHANGED vars
  BY <1>8, Zenon DEF vars, clientVars, shareVars
<1> QED
  BY <1>1, <1>2, <1>3, <1>4, <1>5, <1>6, <1>7, <1>8 DEF Next, ClientStep, ShareStep

\* No share reaches a pool outside the session and the clean job it was found
\* for, for any number of sessions, jobs and shares in flight
\* (ImplementsShareDelivery; stratum_v1_submit_share, SYSTEM_clean_jobs_queue).
THEOREM PipelineImplementsShareDelivery == Spec => ImplementsShareDelivery
<1>1. Init => Delivery!Init
  BY DEF Init, Delivery!Init, Delivery!Nothing, Blank
<1>2. IInv /\ [Next]_vars => [Delivery!Next]_(Delivery!vars)
  BY DeliveryStep
<1> QED
  BY <1>1, <1>2, Inductive, PTL DEF Spec, ImplementsShareDelivery, Delivery!Spec

=============================================================================
