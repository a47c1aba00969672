--------------------------- MODULE SettingsProofs ---------------------------
(***************************************************************************)
(* Theorems of Settings, for any set of builds and any length of the write  *)
(* queue: what restarts, lost writes and failing requests leave of the      *)
(* settings and of the firmware.                                            *)
(*                                                                         *)
(* Flash lags behind the cache by what is queued and by what the holder of  *)
(* nvs_update_mutex is about to queue. Whether a restart at any moment      *)
(* leaves a safe pair of fingerprint and custom interface is a matter of    *)
(* the order in which their writes are still to come, and of the writes     *)
(* that were lost.                                                          *)
(***************************************************************************)
EXTENDS Settings, SequenceTheorems, TLAPS

-----------------------------------------------------------------------------
(* The inductive invariant *)

Up == pc \notin {"boot", "migrating"}
Served == pc \notin {"boot", "migrating", "starting"}
Phase == {"boot", "migrating", "starting", "idle", "ota", "www", "rebooting"}

\* The updates that are ever made to the keys an update of the device cares about.
Clear == <<"custom", Off>>
TurnOn == <<"custom", Build>>
Stamp == <<"fingerprint", Build>>
Unstamp == <<"fingerprint", "none">>
Mark(v) == <<"marker", v>>
Updates == {Clear, TurnOn, Stamp, Unstamp, Mark("set"), Mark("clear")}

\* An update whose cache is written and that waits for room in the queue.
Waiting(u) == <<u[1], u[2], "queue">>
Alone(u) == {<<u>>, <<Waiting(u)>>}
Twice(u, w) == {<<u, w>>, <<Waiting(u), w>>}

MainTodos == {<<>>} \union Alone(Stamp) \union Twice(Clear, Stamp)
HttpTodos == {<<>>} \union Alone(TurnOn) \union Alone(Clear) \union Alone(Mark("clear"))
               \union Twice(Clear, Mark("clear")) \union Alone(Unstamp) \union Twice(Clear, Unstamp)
PowerTodos == {<<>>} \union Alone(Mark("set")) \union Alone(Mark("clear"))
Todos == MainTodos \union HttpTodos \union PowerTodos

Leases == [owner : {Nobody, "ota", "restart"}, kept : BOOLEAN, failed : BOOLEAN, updating : BOOLEAN]
Stored == {Absent, Off, "none", "set", "clear", "legacy", "new"} \union Firmware

Types ==
    /\ cache \in [Keys -> Stored] /\ flash \in [Keys -> Stored]
    /\ {cache["custom"], flash["custom"]} \subseteq {Absent, Off} \union Firmware
    /\ queue \in Seq(Updates)
    /\ todo \in [Tasks -> Todos]
    /\ todo["main"] \in MainTodos /\ todo["http"] \in HttpTodos /\ todo["power"] \in PowerTodos
    /\ lock \in Tasks \union {Nobody}
    /\ lost \subseteq Keys
    /\ slot \in [Partitions -> Firmware \union {Absent, "partial"}]
    /\ boot \in Partitions /\ running \in Partitions
    /\ pc \in Phase
    /\ lease \in Leases

\* What each phase starts from, and the images of the partitions in use.
Phased ==
    /\ ~Up => queue = <<>> /\ lock = Nobody
    /\ ~Served => todo["http"] = <<>> /\ todo["power"] = <<>> /\ lease = NoLease
    /\ pc # "starting" => todo["main"] = <<>>
    /\ pc = "starting" => \A i \in DOMAIN queue : queue[i] # TurnOn
    /\ pc \in {"ota", "www"} => todo["http"] = <<>>
    /\ pc # "rebooting" => boot = running
    /\ slot[boot] \in Firmware /\ slot[running] \in Firmware

\* Only the holder of the mutex has an update in its hands.
Locked == \A t \in Tasks : Queueing(t) => lock = t

\* The last update of a key that is under way has the value of the cache; flash
\* has it if there is none, unless its write was lost.
InHand(k) == \E t \in Tasks : Queueing(t) /\ Head(todo[t])[1] = k
Queued(k) == \E i \in DOMAIN queue : queue[i][1] = k
Newest(i) == \A j \in DOMAIN queue : j > i => queue[j][1] # queue[i][1]
Followed ==
    Up => /\ \A t \in Tasks : Queueing(t) => Head(todo[t])[2] = cache[Head(todo[t])[1]]
          /\ \A i \in DOMAIN queue :
                Newest(i) /\ ~InHand(queue[i][1]) => queue[i][2] = cache[queue[i][1]]
          /\ \A k \in Keys \ lost : ~InHand(k) /\ ~Queued(k) => flash[k] = cache[k]

\* Flash never holds an interface of one build under the fingerprint of another.
FlashAgrees ==
    {"custom", "fingerprint"} \intersect lost = {} /\ flash["fingerprint"] \in Firmware
        => flash["custom"] \notin Firmware \ {flash["fingerprint"]}

\* A fingerprint of another build in flash is replaced before an interface is turned on.
Foreign(v) == v \in Firmware \ {Build}
StampComes ==
    Foreign(flash["fingerprint"]) /\ "fingerprint" \notin lost =>
        /\ pc = "starting" => todo["main"] # <<>> \/ Queued("fingerprint")
        /\ Served => \E i \in DOMAIN queue :
                        /\ queue[i][1] = "fingerprint"
                        /\ \A j \in 1 .. i - 1 : queue[j] # TurnOn

\* An interface of another build in flash is replaced before this build's fingerprint
\* is written.
ClearedFirst ==
    Foreign(flash["custom"]) /\ "custom" \notin lost =>
        /\ \A i \in DOMAIN queue : queue[i] = Stamp => \E j \in 1 .. i - 1 : queue[j][1] = "custom"
        /\ todo["main"] \in Alone(Stamp) => Queued("custom")

\* The cache holds an interface of another build only until the migration clears it, or
\* because a write was lost; the fingerprint is taken away only after the interface.
CacheAgrees ==
    Up /\ Foreign(cache["custom"]) =>
        /\ todo["main"] = <<Clear, Stamp>> \/ {"custom", "fingerprint"} \intersect lost # {}
        /\ todo["http"] \notin Alone(Unstamp)
        /\ \A i \in DOMAIN queue : queue[i] # Unstamp /\ queue[i][1] # "custom"

IInv == /\ Types /\ Phased /\ LeaseReturned /\ Locked /\ Followed
        /\ FlashAgrees /\ StampComes /\ ClearedFirst /\ CacheAgrees

-----------------------------------------------------------------------------
(* The lists of updates *)

\* What the operators on sequences make of lists of one and of two.
LEMMA Singles ==
    ASSUME NEW a
    PROVE  /\ Len(<<a>>) = 1 /\ Head(<<a>>) = a /\ Tail(<<a>>) = <<>> /\ <<a>> # <<>>
           /\ <<a>> \o <<>> = <<a>>
<1>1. <<a>> \in Seq({a})
  OBVIOUS
<1>2. <<a>> \o <<>> = <<a>>
  BY <1>1, ConcatEmptySeq
<1> QED BY <1>2

LEMMA Pairs ==
    ASSUME NEW a, NEW b
    PROVE  /\ Len(<<a, b>>) = 2 /\ Head(<<a, b>>) = a /\ Tail(<<a, b>>) = <<b>>
           /\ <<a, b>> # <<>> /\ <<a>> \o <<b>> = <<a, b>>
<1>1. <<a>> \in Seq({a, b}) /\ <<b>> \in Seq({a, b}) /\ <<a, b>> \in Seq({a, b})
  OBVIOUS
<1>2. /\ <<a>> \o <<b>> \in Seq({a, b}) /\ Len(<<a>> \o <<b>>) = 2
      /\ \A i \in 1 .. 2 : (<<a>> \o <<b>>)[i] = <<a, b>>[i]
  BY <1>1, ConcatProperties, Len(<<a>>) = 1, Len(<<b>>) = 1, <<a>>[1] = a, <<b>>[1] = b,
     <<a, b>>[1] = a, <<a, b>>[2] = b
<1>3. <<a>> \o <<b>> = <<a, b>>
  BY <1>1, <1>2, SeqEqual, Len(<<a, b>>) = 2
<1> QED BY <1>3

\* An update is a pair; once made it carries a third field.
LEMMA Marked ==
    ASSUME NEW u \in Updates
    PROVE  /\ Len(u) = 2 /\ Len(Waiting(u)) = 3 /\ SubSeq(Waiting(u), 1, 2) = u
           /\ Waiting(u)[1] = u[1] /\ Waiting(u)[2] = u[2]
<1>1. u = <<u[1], u[2]>> /\ Len(u) = 2
  BY DEF Updates, Clear, TurnOn, Stamp, Unstamp, Mark
<1>2. \A a, b, c : Len(<<a, b, c>>) = 3
  OBVIOUS
<1>3. SubSeq(<<u[1], u[2], "queue">>, 1, 2) = <<u[1], u[2]>>
  <2> DEFINE w == <<u[1], u[2], "queue">>
             S == {u[1], u[2]}
  <2>1. w[1] = u[1] /\ w[2] = u[2]
    OBVIOUS
  <2> HIDE DEF w
  <2>2. \A i \in 1 .. 2 : w[i] \in S
    BY <2>1
  <2>3. /\ SubSeq(w, 1, 2) \in Seq(S) /\ Len(SubSeq(w, 1, 2)) = 2
        /\ \A i \in 1 .. 2 : SubSeq(w, 1, 2)[i] = w[i]
    BY <2>2, SubSeqProperties
  <2>4. <<u[1], u[2]>> \in Seq(S) /\ Len(<<u[1], u[2]>>) = 2
    OBVIOUS
  <2>5. SubSeq(w, 1, 2) = <<u[1], u[2]>>
    <3>1. \A i \in 1 .. 2 : SubSeq(w, 1, 2)[i] = <<u[1], u[2]>>[i]
      BY <2>1, <2>3
    <3> QED BY <3>1, <2>3, <2>4, SeqEqual
  <2> QED BY <2>5 DEF w
<1> QED BY <1>1, <1>2, <1>3 DEF Waiting

\* What there is to set concerns three keys, with values of theirs.
LEMMA UpdatesTyped ==
    ASSUME NEW u \in Updates, slot[running] \in Firmware
    PROVE  u[1] \in {"custom", "fingerprint", "marker"} /\ u[2] \in Stored /\ u[1] \in Keys
  BY DEF Updates, Clear, TurnOn, Stamp, Unstamp, Mark, Stored, Build, Off, Keys

\* The values an interface and a fingerprint are given.
LEMMA WwwUpdates ==
    ASSUME NEW u \in Updates
    PROVE  /\ u[1] = "custom" => u \in {Clear, TurnOn} /\ u[2] \in {Off, Build}
           /\ u[1] = "fingerprint" => u \in {Stamp, Unstamp} /\ u[2] \in {"none", Build}
           /\ Clear[1] = "custom" /\ Stamp[1] = "fingerprint" /\ Unstamp[1] = "fingerprint"
           /\ Clear[2] = Off /\ Stamp[2] = Build /\ Unstamp[2] = "none"
           /\ TurnOn[1] = "custom" /\ TurnOn[2] = Build
           /\ ~Foreign(Off) /\ ~Foreign(Build) /\ ~Foreign("none") /\ ~Foreign(Absent)
<1>1. ~Foreign(Off) /\ ~Foreign(Build) /\ ~Foreign("none") /\ ~Foreign(Absent)
  BY SettingsAssumption DEF Off, Absent, Foreign
<1>2. u[1] = "custom" => u \in {Clear, TurnOn} /\ u[2] \in {Off, Build}
  BY DEF Updates, Clear, TurnOn, Stamp, Unstamp, Mark
<1>3. u[1] = "fingerprint" => u \in {Stamp, Unstamp} /\ u[2] \in {"none", Build}
  BY DEF Updates, Clear, TurnOn, Stamp, Unstamp, Mark
<1>4. /\ Clear[1] = "custom" /\ Stamp[1] = "fingerprint" /\ Unstamp[1] = "fingerprint"
      /\ Clear[2] = Off /\ Stamp[2] = Build /\ Unstamp[2] = "none"
      /\ TurnOn[1] = "custom" /\ TurnOn[2] = Build
  BY DEF Clear, TurnOn, Stamp, Unstamp
<1> QED BY <1>1, <1>2, <1>3, <1>4

\* A list of updates is empty, or it begins with an update still to be made or with
\* one to be queued, and at most one more follows.
LEMMA TodoShapes ==
    ASSUME Types, NEW t \in Tasks, todo[t] # <<>>
    PROVE  \E u \in Updates :
              \/ todo[t] \in Alone(u)
              \/ \E w \in Updates : todo[t] \in Twice(u, w)
  BY DEF Types, Todos, MainTodos, HttpTodos, PowerTodos, Updates, Alone, Twice, Tasks

\* A list can be read in one way only.
LEMMA Distinct ==
    /\ \A x, y \in Updates : Waiting(x) # y /\ (Waiting(x) = Waiting(y) => x = y)
    /\ \A a, b, c, d : /\ <<a>> = <<b>> => a = b
                       /\ <<a, b>> = <<c, d>> => a = c /\ b = d
                       /\ <<a>> # <<b, c>> /\ <<a>> # <<>> /\ <<a, b>> # <<>>
    /\ {Clear, TurnOn, Stamp, Unstamp, Mark("set"), Mark("clear")} \subseteq Updates
<1>1. ASSUME NEW x \in Updates, NEW y \in Updates
      PROVE  Waiting(x) # y /\ (Waiting(x) = Waiting(y) => x = y)
  <2>1. /\ Len(Waiting(x)) = 3 /\ Len(y) = 2
        /\ SubSeq(Waiting(x), 1, 2) = x /\ SubSeq(Waiting(y), 1, 2) = y
    BY Marked
  <2> QED BY <2>1
<1>2. \A a, b, c, d : /\ <<a>> = <<b>> => a = b
                      /\ <<a, b>> = <<c, d>> => a = c /\ b = d
                      /\ <<a>> # <<b, c>> /\ <<a>> # <<>> /\ <<a, b>> # <<>>
  BY Singles, Pairs
<1>3. {Clear, TurnOn, Stamp, Unstamp, Mark("set"), Mark("clear")} \subseteq Updates
  BY DEF Updates
<1> QED BY <1>1, <1>2, <1>3

\* Each task goes through a list of its own from front to back.
LEMMA Closed ==
    ASSUME NEW u \in Updates, NEW w \in Updates, NEW T \in {MainTodos, HttpTodos, PowerTodos}
    PROVE  /\ <<>> \in T
           /\ <<u>> \in T => <<Waiting(u)>> \in T
           /\ <<u, w>> \in T => <<Waiting(u), w>> \in T /\ <<w>> \in T
           /\ <<Waiting(u), w>> \in T => <<w>> \in T
<1>1. <<>> \in T
  BY DEF MainTodos, HttpTodos, PowerTodos
<1> HIDE DEF Waiting, Clear, TurnOn, Stamp, Unstamp, Mark, Updates
<1>2. <<u>> \in T => <<Waiting(u)>> \in T
  BY Distinct DEF MainTodos, HttpTodos, PowerTodos, Alone, Twice
<1>3. <<u, w>> \in T => <<Waiting(u), w>> \in T /\ <<w>> \in T
  BY Distinct DEF MainTodos, HttpTodos, PowerTodos, Alone, Twice
<1>4. <<Waiting(u), w>> \in T => <<w>> \in T
  BY Distinct DEF MainTodos, HttpTodos, PowerTodos, Alone, Twice
<1> QED BY <1>1, <1>2, <1>3, <1>4

\* nvs_config_set_*, first half: the update at the front of the list is either skipped,
\* because nothing changes, or made in the cache under the mutex.
LEMMA Begun ==
    ASSUME Types, Locked, NEW t \in Tasks, BeginSet(t)
    PROVE  \E u \in Updates :
              /\ lock = Nobody
              /\ \/ /\ Same(u[1], cache[u[1]], u[2])
                    /\ \/ todo[t] = <<u>> /\ todo' = [todo EXCEPT ![t] = <<>>]
                       \/ \E w \in Updates : /\ todo[t] = <<u, w>>
                                             /\ todo' = [todo EXCEPT ![t] = <<w>>]
                    /\ UNCHANGED <<cache, lock>>
                 \/ /\ ~Same(u[1], cache[u[1]], u[2])
                    /\ \/ todo[t] = <<u>> /\ todo' = [todo EXCEPT ![t] = <<Waiting(u)>>]
                       \/ \E w \in Updates : /\ todo[t] = <<u, w>>
                                             /\ todo' = [todo EXCEPT ![t] = <<Waiting(u), w>>]
                    /\ cache' = [cache EXCEPT ![u[1]] = u[2]] /\ lock' = t
<1>1. todo[t] # <<>> /\ Len(Head(todo[t])) = 2 /\ lock = Nobody
  BY DEF BeginSet, MayUpdate
<1>2. PICK u \in Updates : todo[t] \in Alone(u) \/ \E w \in Updates : todo[t] \in Twice(u, w)
  BY <1>1, TodoShapes
<1>3. Len(u) = 2 /\ Len(Waiting(u)) = 3 /\ Waiting(u) = <<u[1], u[2], "queue">>
  BY Marked DEF Waiting
<1> HIDE DEF Waiting
<1>4. todo[t] = <<u>> \/ \E w \in Updates : todo[t] = <<u, w>>
  BY <1>1, <1>2, <1>3, Singles, Pairs DEF Alone, Twice
<1>5. Head(todo[t]) = u
  BY <1>4, Singles, Pairs
<1>6. \/ /\ Same(u[1], cache[u[1]], u[2])
         /\ todo' = [todo EXCEPT ![t] = Tail(todo[t])] /\ UNCHANGED <<cache, lock>>
      \/ /\ ~Same(u[1], cache[u[1]], u[2])
         /\ todo' = [todo EXCEPT ![t] = <<Waiting(u)>> \o Tail(todo[t])]
         /\ cache' = [cache EXCEPT ![u[1]] = u[2]] /\ lock' = t
  BY <1>3, <1>5 DEF BeginSet
<1>7. CASE todo[t] = <<u>>
  <2>1. Tail(todo[t]) = <<>> /\ <<Waiting(u)>> \o Tail(todo[t]) = <<Waiting(u)>>
    BY <1>7, Singles
  <2> QED BY <1>1, <1>6, <1>7, <2>1
<1>8. ASSUME NEW w \in Updates, todo[t] = <<u, w>>
      PROVE  /\ Tail(todo[t]) = <<w>>
             /\ <<Waiting(u)>> \o Tail(todo[t]) = <<Waiting(u), w>>
  BY <1>8, Pairs
<1> QED BY <1>1, <1>4, <1>6, <1>7, <1>8

\* nvs_config_set_*, second half.
LEMMA Handed ==
    ASSUME Types, NEW t \in Tasks, Enqueue(t)
    PROVE  \E u \in Updates :
              /\ \/ todo[t] = <<Waiting(u)>> /\ todo' = [todo EXCEPT ![t] = <<>>]
                 \/ \E w \in Updates : /\ todo[t] = <<Waiting(u), w>>
                                       /\ todo' = [todo EXCEPT ![t] = <<w>>]
              /\ queue' = Append(queue, u) /\ lock' = Nobody
              /\ Queueing(t) /\ Head(todo[t]) = Waiting(u)
<1>1. todo[t] # <<>> /\ Len(Head(todo[t])) = 3 /\ Queueing(t)
  BY DEF Enqueue, Queueing
<1>2. PICK u \in Updates : todo[t] \in Alone(u) \/ \E w \in Updates : todo[t] \in Twice(u, w)
  BY <1>1, TodoShapes
<1>3. Len(u) = 2 /\ Len(Waiting(u)) = 3 /\ SubSeq(Waiting(u), 1, 2) = u
  BY Marked
<1> HIDE DEF Waiting
<1>4. todo[t] = <<Waiting(u)>> \/ \E w \in Updates : todo[t] = <<Waiting(u), w>>
  BY <1>1, <1>2, <1>3, Singles, Pairs, SMTT(40) DEF Alone, Twice
<1>5. Head(todo[t]) = Waiting(u)
  BY <1>4, Singles, Pairs
<1>6. /\ queue' = Append(queue, u) /\ lock' = Nobody
      /\ todo' = [todo EXCEPT ![t] = Tail(todo[t])]
  BY <1>3, <1>5 DEF Enqueue
<1>7. CASE todo[t] = <<Waiting(u)>>
  BY <1>1, <1>5, <1>6, <1>7, Singles
<1>8. ASSUME NEW w \in Updates, todo[t] = <<Waiting(u), w>>
      PROVE  Tail(todo[t]) = <<w>>
  BY <1>8, Pairs
<1> QED BY <1>1, <1>4, <1>5, <1>6, <1>7, <1>8

-----------------------------------------------------------------------------
(* What the steps have in common *)

\* While the same build runs, the lists are the same.
LEMMA SameLists ==
    ASSUME Build' = Build
    PROVE  /\ MainTodos' = MainTodos /\ HttpTodos' = HttpTodos /\ PowerTodos' = PowerTodos
           /\ Todos' = Todos /\ Updates' = Updates /\ TurnOn' = TurnOn /\ Stamp' = Stamp
           /\ \A v : Foreign(v)' = Foreign(v)
<1>1. TurnOn' = TurnOn /\ Stamp' = Stamp /\ Clear' = Clear /\ Unstamp' = Unstamp
  BY DEF TurnOn, Stamp, Clear, Unstamp
<1>2. \A v : Mark(v)' = Mark(v)
  BY DEF Mark
<1>3. \A v : Foreign(v)' = Foreign(v)
  BY DEF Foreign
<1>4. MainTodos' = MainTodos /\ HttpTodos' = HttpTodos /\ PowerTodos' = PowerTodos /\ Updates' = Updates
  BY <1>1, <1>2 DEF MainTodos, HttpTodos, PowerTodos, Updates, Alone, Twice, Waiting
<1> QED BY <1>1, <1>3, <1>4 DEF Todos

\* What is in a task's hands, read off its list.
LEMMA Hands ==
    ASSUME NEW u \in Updates, NEW w \in Updates, NEW s
    PROVE  /\ s \in {<<>>, <<u>>, <<u, w>>} => ~(s # <<>> /\ Len(Head(s)) = 3)
           /\ s \in {<<Waiting(u)>>, <<Waiting(u), w>>} =>
                /\ s # <<>> /\ Len(Head(s)) = 3
                /\ Head(s)[1] = u[1] /\ Head(s)[2] = u[2]
<1>1. Len(u) = 2 /\ Len(Waiting(u)) = 3 /\ Waiting(u)[1] = u[1] /\ Waiting(u)[2] = u[2]
  BY Marked
<1> HIDE DEF Waiting
<1> QED BY <1>1, Singles, Pairs

\* The write at the front of the queue.
LEMMA Shifted ==
    ASSUME NEW S, NEW s \in Seq(S), s # <<>>
    PROVE  /\ Len(s) \in Nat \ {0} /\ DOMAIN s = 1 .. Len(s) /\ DOMAIN Tail(s) = 1 .. Len(s) - 1
           /\ Head(s) = s[1] /\ Tail(s) \in Seq(S)
           /\ \A i \in 1 .. Len(s) - 1 : Tail(s)[i] = s[i + 1]
<1>1. Len(s) \in Nat \ {0} /\ DOMAIN s = 1 .. Len(s)
  BY EmptySeq, LenProperties
<1>2. /\ Tail(s) \in Seq(S) /\ Len(Tail(s)) = Len(s) - 1
      /\ \A i \in 1 .. Len(Tail(s)) : Tail(s)[i] = s[i + 1]
  BY HeadTailProperties
<1>3. DOMAIN Tail(s) = 1 .. Len(s) - 1
  BY <1>2, LenProperties
<1> QED BY <1>1, <1>2, <1>3

\* A write put at the end of the queue.
LEMMA Appended ==
    ASSUME NEW S, NEW s \in Seq(S), NEW e \in S
    PROVE  /\ Append(s, e) \in Seq(S) /\ DOMAIN Append(s, e) = 1 .. Len(s) + 1
           /\ Len(s) \in Nat /\ DOMAIN s = 1 .. Len(s)
           /\ Append(s, e)[Len(s) + 1] = e
           /\ \A i \in 1 .. Len(s) : Append(s, e)[i] = s[i]
<1>1. Len(s) \in Nat /\ DOMAIN s = 1 .. Len(s)
  BY LenProperties
<1> QED BY <1>1, AppendProperties, LenProperties

-----------------------------------------------------------------------------
(* nvs_config_set_* *)

LEMMA BeginSetTyped ==
    ASSUME Types, Phased, Locked, NEW t \in Tasks, BeginSet(t) PROVE Types' /\ Build' = Build
<1>1. Build' = Build /\ UNCHANGED <<flash, queue, lost, slot, boot, running, pc, lease>>
  BY DEF BeginSet, Build
<1>2. PICK u \in Updates :
         /\ \/ todo[t] = <<u>> /\ todo' = [todo EXCEPT ![t] = <<>>]
            \/ todo[t] = <<u>> /\ todo' = [todo EXCEPT ![t] = <<Waiting(u)>>]
            \/ \E w \in Updates : /\ todo[t] = <<u, w>>
                                  /\ \/ todo' = [todo EXCEPT ![t] = <<w>>]
                                     \/ todo' = [todo EXCEPT ![t] = <<Waiting(u), w>>]
         /\ UNCHANGED <<cache, lock>> \/ (cache' = [cache EXCEPT ![u[1]] = u[2]] /\ lock' = t)
  BY Begun
<1>3. cache' \in [Keys -> Stored] /\ lock' \in Tasks \union {Nobody}
  BY <1>2, UpdatesTyped DEF Types, Phased
<1>3a. cache'["custom"] \in {Absent, Off} \union Firmware
  BY <1>2, WwwUpdates, UpdatesTyped DEF Types, Phased, Keys, Build
<1>4. PICK T \in {MainTodos, HttpTodos, PowerTodos} :
         /\ todo[t] \in T
         /\ T = CASE t = "main" -> MainTodos [] t = "http" -> HttpTodos [] t = "power" -> PowerTodos
  BY DEF Types, Tasks
<1>5. todo'[t] \in T /\ \A o \in Tasks \ {t} : todo'[o] = todo[o]
  <2>1. <<>> \in T /\ (<<u>> \in T => <<Waiting(u)>> \in T)
    BY Closed
  <2>2. \A w \in Updates : <<u, w>> \in T => <<Waiting(u), w>> \in T /\ <<w>> \in T
    BY Closed
  <2>3. \E s \in T : todo' = [todo EXCEPT ![t] = s]
    BY <1>2, <1>4, <2>1, <2>2
  <2> QED BY <2>3 DEF Types
<1>6. todo' \in [Tasks -> Todos]
  BY <1>2, <1>5 DEF Types, Todos
<1>7. todo'["main"] \in MainTodos /\ todo'["http"] \in HttpTodos /\ todo'["power"] \in PowerTodos
  BY <1>4, <1>5 DEF Types, Tasks
<1>8. Todos' = Todos /\ MainTodos' = MainTodos /\ HttpTodos' = HttpTodos /\ PowerTodos' = PowerTodos
      /\ Updates' = Updates
  BY <1>1, SameLists
<1> QED BY <1>1, <1>3, <1>6, <1>7, <1>8, <1>3a DEF Types

LEMMA EnqueueTyped ==
    ASSUME Types, NEW t \in Tasks, Enqueue(t) PROVE Types' /\ Build' = Build
<1>1. Build' = Build /\ UNCHANGED <<cache, flash, lost, slot, boot, running, pc, lease>>
  BY DEF Enqueue, Build
<1>2. PICK u \in Updates :
         /\ \/ todo[t] = <<Waiting(u)>> /\ todo' = [todo EXCEPT ![t] = <<>>]
            \/ \E w \in Updates : /\ todo[t] = <<Waiting(u), w>>
                                  /\ todo' = [todo EXCEPT ![t] = <<w>>]
         /\ queue' = Append(queue, u) /\ lock' = Nobody
  BY Handed
<1>3. queue' \in Seq(Updates)
  BY <1>2, AppendProperties DEF Types
<1>4. PICK T \in {MainTodos, HttpTodos, PowerTodos} :
         /\ todo[t] \in T
         /\ T = CASE t = "main" -> MainTodos [] t = "http" -> HttpTodos [] t = "power" -> PowerTodos
  BY DEF Types, Tasks
<1>5. todo'[t] \in T /\ \A o \in Tasks \ {t} : todo'[o] = todo[o]
  BY <1>2, <1>4, Closed DEF Types
<1>6. todo' \in [Tasks -> Todos]
  BY <1>2, <1>5 DEF Types, Todos
<1>7. todo'["main"] \in MainTodos /\ todo'["http"] \in HttpTodos /\ todo'["power"] \in PowerTodos
  BY <1>4, <1>5 DEF Types, Tasks
<1>8. Todos' = Todos /\ MainTodos' = MainTodos /\ HttpTodos' = HttpTodos /\ PowerTodos' = PowerTodos
      /\ Updates' = Updates
  BY <1>1, SameLists
<1> QED BY <1>1, <1>2, <1>3, <1>6, <1>7, <1>8 DEF Types

\* What the first half of a setter does to the task's hands.
LEMMA BeginSetHands ==
    ASSUME Types, Locked, NEW t \in Tasks, BeginSet(t)
    PROVE  /\ \A o \in Tasks : ~Queueing(o)
           /\ \A o \in Tasks \ {t} : todo'[o] = todo[o] /\ ~Queueing(o)'
           /\ \E u \in Updates :
                 \/ /\ Same(u[1], cache[u[1]], u[2]) /\ UNCHANGED <<cache, lock>>
                    /\ ~Queueing(t)'
                    /\ \/ todo[t] = <<u>> /\ todo'[t] = <<>>
                       \/ \E w \in Updates : todo[t] = <<u, w>> /\ todo'[t] = <<w>>
                 \/ /\ cache' = [cache EXCEPT ![u[1]] = u[2]] /\ lock' = t
                    /\ Queueing(t)' /\ Head(todo'[t])[1] = u[1] /\ Head(todo'[t])[2] = u[2]
                    /\ \/ todo[t] = <<u>> /\ todo'[t] = <<Waiting(u)>>
                       \/ \E w \in Updates : todo[t] = <<u, w>> /\ todo'[t] = <<Waiting(u), w>>
<1>1. PICK u \in Updates :
              /\ lock = Nobody
              /\ \/ /\ Same(u[1], cache[u[1]], u[2])
                    /\ \/ todo[t] = <<u>> /\ todo' = [todo EXCEPT ![t] = <<>>]
                       \/ \E w \in Updates : /\ todo[t] = <<u, w>>
                                             /\ todo' = [todo EXCEPT ![t] = <<w>>]
                    /\ UNCHANGED <<cache, lock>>
                 \/ /\ ~Same(u[1], cache[u[1]], u[2])
                    /\ \/ todo[t] = <<u>> /\ todo' = [todo EXCEPT ![t] = <<Waiting(u)>>]
                       \/ \E w \in Updates : /\ todo[t] = <<u, w>>
                                             /\ todo' = [todo EXCEPT ![t] = <<Waiting(u), w>>]
                    /\ cache' = [cache EXCEPT ![u[1]] = u[2]] /\ lock' = t
  BY Begun
<1> HIDE DEF Waiting
<1>2. \A o \in Tasks : ~Queueing(o)
  BY <1>1 DEF Locked, Tasks, Nobody
<1>3. \A o \in Tasks \ {t} : todo'[o] = todo[o]
  BY <1>1 DEF Types
<1>4. \A o \in Tasks \ {t} : ~Queueing(o)'
  BY <1>2, <1>3 DEF Queueing
<1>5. \/ /\ Same(u[1], cache[u[1]], u[2]) /\ UNCHANGED <<cache, lock>>
         /\ \/ todo[t] = <<u>> /\ todo'[t] = <<>>
            \/ \E w \in Updates : todo[t] = <<u, w>> /\ todo'[t] = <<w>>
      \/ /\ cache' = [cache EXCEPT ![u[1]] = u[2]] /\ lock' = t
         /\ \/ todo[t] = <<u>> /\ todo'[t] = <<Waiting(u)>>
            \/ \E w \in Updates : todo[t] = <<u, w>> /\ todo'[t] = <<Waiting(u), w>>
  BY <1>1 DEF Types
<1>6. \A w \in Updates :
         /\ todo'[t] \in {<<>>, <<w>>} => ~Queueing(t)'
         /\ todo'[t] \in {<<Waiting(u)>>, <<Waiting(u), w>>} =>
               Queueing(t)' /\ Head(todo'[t])[1] = u[1] /\ Head(todo'[t])[2] = u[2]
  BY Hands DEF Queueing
<1> QED BY <1>2, <1>3, <1>4, <1>5, <1>6

LEMMA BeginSetFollows ==
    ASSUME Types, Phased, Locked, Followed, NEW t \in Tasks, BeginSet(t)
    PROVE  Locked' /\ Followed'
<1>1. UNCHANGED <<flash, queue, lost, pc>> /\ slot[running] \in Firmware
  BY DEF BeginSet, Phased
<1>2. \A o \in Tasks : ~Queueing(o)
  BY BeginSetHands
<1>3. \A o \in Tasks \ {t} : ~Queueing(o)'
  BY BeginSetHands
<1>4. PICK u \in Updates :
         \/ UNCHANGED <<cache, lock>> /\ ~Queueing(t)'
         \/ /\ cache' = [cache EXCEPT ![u[1]] = u[2]] /\ lock' = t
            /\ Queueing(t)' /\ Head(todo'[t])[1] = u[1] /\ Head(todo'[t])[2] = u[2]
  BY BeginSetHands
<1>5. u[1] \in Keys /\ cache \in [Keys -> Stored]
  BY <1>1, UpdatesTyped DEF Types
<1>6. \A i \in DOMAIN queue : queue[i][1] \in Keys
  <2>1. \A i \in DOMAIN queue : queue[i] \in Updates
    BY ElementOfSeq, LenProperties DEF Types
  <2> QED BY <1>1, <2>1, UpdatesTyped
<1>7. Locked'
  BY <1>3, <1>4 DEF Locked
<1>8. CASE UNCHANGED <<cache, lock>> /\ ~Queueing(t)'
  <2>1. \A o \in Tasks : ~Queueing(o)'
    BY <1>3, <1>8
  <2>2. \A k : ~InHand(k) /\ ~InHand(k)'
    BY <1>2, <2>1 DEF InHand
  <2> QED BY <1>1, <1>7, <1>8, <2>1, <2>2 DEF Followed, Up, Newest, Queued
<1>9. CASE /\ cache' = [cache EXCEPT ![u[1]] = u[2]]
           /\ Queueing(t)' /\ Head(todo'[t])[1] = u[1] /\ Head(todo'[t])[2] = u[2]
  <2>1. InHand(u[1])' /\ \A k : ~InHand(k)
    BY <1>2, <1>9 DEF InHand
  <2>2. \A k \in Keys \ {u[1]} : cache'[k] = cache[k]
    BY <1>5, <1>9
  <2>3. cache'[u[1]] = u[2]
    BY <1>5, <1>9
  <2>4. \A o \in Tasks : Queueing(o)' => Head(todo'[o])[2] = cache'[Head(todo'[o])[1]]
    BY <1>3, <1>9, <2>3
  <2>5. ASSUME Up, NEW i \in DOMAIN queue, Newest(i), NEW k \in Keys, queue[i][1] = k, ~InHand(k)'
        PROVE  queue[i][2] = cache'[k]
    BY <2>1, <2>2, <2>5 DEF Followed
  <2>6. ASSUME Up, NEW k \in Keys \ lost, ~InHand(k)', ~Queued(k) PROVE flash[k] = cache'[k]
    BY <2>1, <2>2, <2>6 DEF Followed
  <2>7. Up' = Up /\ (\A i : Newest(i)' = Newest(i)) /\ (\A k : Queued(k)' = Queued(k))
    BY <1>1 DEF Up, Newest, Queued
  <2>8. ASSUME Up, NEW i \in DOMAIN queue, Newest(i), ~InHand(queue[i][1])'
        PROVE  queue[i][2] = cache'[queue[i][1]]
    <3>1. queue' = queue
      BY <1>1
    <3>2. PICK k \in Keys : queue[i][1] = k
      BY <1>6
    <3>3. ~InHand(k)'
      BY <2>8, <3>1, <3>2 DEF InHand
    <3> QED BY <2>5, <2>8, <3>2, <3>3
  <2> QED BY <1>1, <1>7, <2>4, <2>6, <2>7, <2>8 DEF Followed
<1> QED BY <1>4, <1>8, <1>9

\* The migration of app_main, and the requests that take a fingerprint away.
LEMMA Forms ==
    ASSUME NEW u \in Updates, NEW w \in Updates
    PROVE  /\ <<u>> \in MainTodos \/ <<Waiting(u)>> \in MainTodos => u = Stamp
           /\ <<u, w>> \in MainTodos \/ <<Waiting(u), w>> \in MainTodos => u = Clear /\ w = Stamp
           /\ <<u, w>> \in HttpTodos \/ <<Waiting(u), w>> \in HttpTodos => u = Clear
           /\ \A v \in Updates : <<v>> \in Alone(u) \/ <<Waiting(v)>> \in Alone(u) => v = u
           /\ <<>> \notin Alone(u) /\ <<Waiting(u), w>> \notin Alone(u) /\ <<u, w>> \notin Alone(u)
           /\ \A v \in Updates : <<u, w>> \notin Alone(v) /\ <<Waiting(u), w>> \notin Alone(v)
<1> HIDE DEF Waiting, Clear, TurnOn, Stamp, Unstamp, Mark, Updates
<1>1. <<u>> \in MainTodos \/ <<Waiting(u)>> \in MainTodos => u = Stamp
  BY Distinct DEF MainTodos, Alone, Twice
<1>2. <<u, w>> \in MainTodos \/ <<Waiting(u), w>> \in MainTodos => u = Clear /\ w = Stamp
  BY Distinct DEF MainTodos, Alone, Twice
<1>3. <<u, w>> \in HttpTodos \/ <<Waiting(u), w>> \in HttpTodos => u = Clear
  BY Distinct DEF HttpTodos, Alone, Twice
<1>4. \A v \in Updates : <<v>> \in Alone(u) \/ <<Waiting(v)>> \in Alone(u) => v = u
  BY Distinct DEF Alone
<1>5. \A v \in Updates : <<u, w>> \notin Alone(v) /\ <<Waiting(u), w>> \notin Alone(v)
  BY Distinct DEF Alone
<1>6. <<>> \notin Alone(u)
  BY Distinct DEF Alone
<1> QED BY <1>1, <1>2, <1>3, <1>4, <1>5, <1>6

\* Only app_main sets anything while the device starts, and nobody before that.
LEMMA Busy ==
    ASSUME Types, Phased, NEW t \in Tasks, todo[t] # <<>>
    PROVE  Up /\ (t = "main" <=> pc = "starting") /\ (t = "http" => pc \notin {"ota", "www"})
  BY DEF Types, Phased, Tasks, Up, Served, Phase

LEMMA BeginSetAgrees ==
    ASSUME IInv, NEW t \in Tasks, BeginSet(t)
    PROVE  Phased' /\ LeaseReturned' /\ FlashAgrees' /\ StampComes' /\ ClearedFirst' /\ CacheAgrees'
<1>1. /\ UNCHANGED <<flash, queue, lost, slot, boot, running, pc, lease>> /\ todo[t] # <<>>
      /\ Types /\ Phased /\ Locked /\ Followed
  BY DEF BeginSet, IInv
<1>2. Build' = Build /\ UNCHANGED <<Up, Served>>
  BY <1>1 DEF Build, Up, Served
<1>3. \A k : ~InHand(k) /\ (Queued(k)' = Queued(k))
  BY <1>1, BeginSetHands DEF InHand, Queued
<1>4. \A o \in Tasks \ {t} : todo'[o] = todo[o]
  BY <1>1, BeginSetHands
<1>5. PICK u \in Updates :
                 \/ /\ Same(u[1], cache[u[1]], u[2]) /\ UNCHANGED <<cache, lock>>
                    /\ \/ todo[t] = <<u>> /\ todo'[t] = <<>>
                       \/ \E w \in Updates : todo[t] = <<u, w>> /\ todo'[t] = <<w>>
                 \/ /\ cache' = [cache EXCEPT ![u[1]] = u[2]] /\ lock' = t
                    /\ \/ todo[t] = <<u>> /\ todo'[t] = <<Waiting(u)>>
                       \/ \E w \in Updates : todo[t] = <<u, w>> /\ todo'[t] = <<Waiting(u), w>>
  BY <1>1, BeginSetHands
<1>6. Up /\ (t = "main" <=> pc = "starting") /\ (t = "http" => pc \notin {"ota", "www"})
  BY <1>1, Busy
<1>7. Phased'
  BY <1>1, <1>2, <1>4, <1>6, SameLists DEF Phased, Tasks, Served
<1>8. LeaseReturned' /\ FlashAgrees'
  BY <1>1 DEF IInv, LeaseReturned, FlashAgrees
<1> HIDE DEF Waiting
<1>9. u[1] = "custom" /\ Same(u[1], cache[u[1]], Off) => cache["custom"] = Off
  BY DEF Same
<1>10. ASSUME Foreign(flash["fingerprint"]), "fingerprint" \notin lost, pc = "starting",
              ~Queued("fingerprint"), todo["main"] # <<>>
       PROVE  todo'["main"] # <<>>
  <2>1. SUFFICES ASSUME todo'["main"] = <<>> PROVE FALSE
    OBVIOUS
  <2>2. t = "main"
    BY <1>6, <1>10
  <2>3. Same(u[1], cache[u[1]], u[2]) /\ todo[t] = <<u>>
    BY <1>5, <2>1, <2>2, Distinct
  <2>4. u = Stamp
    BY <1>1, <2>2, <2>3, Forms DEF Types
  <2>5. cache["fingerprint"] = Build
    BY <2>3, <2>4, WwwUpdates DEF Same
  <2>6. flash["fingerprint"] = Build
    BY <1>1, <1>3, <1>6, <1>10, <2>5 DEF Followed, Keys
  <2> QED BY <1>10, <2>6 DEF Foreign
<1>11. StampComes'
  BY <1>1, <1>2, <1>3, <1>10, SameLists DEF IInv, StampComes
<1>12. ASSUME Foreign(flash["custom"]), "custom" \notin lost, ~Queued("custom"),
              todo'["main"] \in Alone(Stamp), todo["main"] \notin Alone(Stamp)
       PROVE  FALSE
  <2>1. t = "main"
    BY <1>4, <1>12 DEF Tasks
  <2>2. PICK w \in Updates : /\ Same(u[1], cache[u[1]], u[2])
                             /\ todo[t] = <<u, w>> /\ todo'[t] = <<w>>
    BY <1>5, <1>12, <2>1, Forms, Distinct DEF Alone
  <2>3. u = Clear
    BY <1>1, <2>1, <2>2, Forms, ZenonT(60) DEF Types
  <2>4. cache["custom"] = Off
    BY <1>9, <2>2, <2>3, WwwUpdates
  <2>5. flash["custom"] = Off
    BY <1>1, <1>3, <1>6, <1>12, <2>4 DEF Followed, Keys
  <2> QED BY <1>12, <2>5, WwwUpdates
<1>13. ClearedFirst'
  BY <1>1, <1>2, <1>3, <1>12, SameLists DEF IInv, ClearedFirst, Alone
<1>14. ASSUME Foreign(cache'["custom"])
       PROVE  /\ cache'["custom"] = cache["custom"]
              /\ u[1] = "custom" => u[2] # Off
  <2>1. cache'["custom"] # u[2] \/ u[1] # "custom"
    BY <1>14, WwwUpdates
  <2>2. cache'["custom"] = cache["custom"]
    BY <1>1, <1>5, <2>1, <1>14 DEF Types, Keys
  <2> QED BY <1>5, <1>9, <1>14, <2>1, <2>2, WwwUpdates, <1>1 DEF Types, Keys
<1>15. CacheAgrees'
  <2> SUFFICES ASSUME Up', Foreign(cache["custom"])'
               PROVE  /\ \/ todo'["main"] = <<Clear, Stamp>>
                         \/ {"custom", "fingerprint"} \intersect lost # {}
                      /\ todo'["http"] \notin Alone(Unstamp)
                      /\ \A i \in DOMAIN queue : queue[i] # Unstamp /\ queue[i][1] # "custom"
    BY <1>1, <1>2, SameLists DEF CacheAgrees, Alone
  <2>1. Foreign(cache'["custom"])
    BY <1>2 DEF Foreign
  <2>2. /\ \/ todo["main"] = <<Clear, Stamp>>
           \/ {"custom", "fingerprint"} \intersect lost # {}
        /\ todo["http"] \notin Alone(Unstamp)
        /\ \A i \in DOMAIN queue : queue[i] # Unstamp /\ queue[i][1] # "custom"
    BY <1>6, <1>14, <2>1 DEF IInv, CacheAgrees
  <2>3. u # Clear
    BY <1>14, <2>1, WwwUpdates
  <2>4. todo["main"] = <<Clear, Stamp>> => t # "main"
    BY <1>5, <2>3, Distinct
  <2>5. ASSUME todo'["http"] \in Alone(Unstamp), t = "http" PROVE FALSE
    <3>1. \A w \in Updates : todo[t] # <<u, w>>
      BY <1>1, <2>3, <2>5, Forms DEF Types
    <3>2. <<>> \notin Alone(Unstamp) /\ (<<Waiting(u)>> \in Alone(Unstamp) => u = Unstamp)
      BY Forms, Distinct
    <3>3. todo[t] = <<u>> /\ todo'[t] = <<Waiting(u)>> /\ u = Unstamp
      BY <1>5, <2>5, <3>1, <3>2
    <3> QED BY <2>2, <2>5, <3>3 DEF Alone
  <2> QED BY <1>4, <2>2, <2>4, <2>5 DEF Tasks
<1> QED BY <1>7, <1>8, <1>11, <1>13, <1>15

\* An update in a task's hands is one of those.
LEMMA HandOwn ==
    ASSUME Types, NEW t \in Tasks, Queueing(t)
    PROVE  \E u \in Updates :
              /\ Head(todo[t])[1] = u[1] /\ Head(todo[t])[2] = u[2]
              /\ todo[t] = <<Waiting(u)>> \/ \E w \in Updates : todo[t] = <<Waiting(u), w>>
<1>1. todo[t] # <<>> /\ Len(Head(todo[t])) = 3
  BY DEF Queueing
<1>2. PICK u \in Updates : todo[t] \in Alone(u) \/ \E w \in Updates : todo[t] \in Twice(u, w)
  BY <1>1, TodoShapes
<1> HIDE DEF Waiting
<1>3. todo[t] = <<Waiting(u)>> \/ \E w \in Updates : todo[t] = <<Waiting(u), w>>
  BY <1>1, <1>2, Hands DEF Alone, Twice
<1> QED BY <1>3, Hands

\* What the second half of a setter does to the task's hands.
LEMMA EnqueueHands ==
    ASSUME Types, Locked, NEW t \in Tasks, Enqueue(t)
    PROVE  /\ lock = t /\ Queueing(t) /\ \A o \in Tasks : ~Queueing(o)'
           /\ \A o \in Tasks \ {t} : todo'[o] = todo[o] /\ ~Queueing(o)
           /\ \E u \in Updates :
                 /\ queue' = Append(queue, u)
                 /\ Head(todo[t])[1] = u[1] /\ Head(todo[t])[2] = u[2]
                 /\ \/ todo[t] = <<Waiting(u)>> /\ todo'[t] = <<>>
                    \/ \E w \in Updates : todo[t] = <<Waiting(u), w>> /\ todo'[t] = <<w>>
<1>1. PICK u \in Updates :
              /\ \/ todo[t] = <<Waiting(u)>> /\ todo' = [todo EXCEPT ![t] = <<>>]
                 \/ \E w \in Updates : /\ todo[t] = <<Waiting(u), w>>
                                       /\ todo' = [todo EXCEPT ![t] = <<w>>]
              /\ queue' = Append(queue, u) /\ lock' = Nobody
              /\ Queueing(t) /\ Head(todo[t]) = Waiting(u)
  BY Handed
<1>2. Waiting(u)[1] = u[1] /\ Waiting(u)[2] = u[2]
  BY Marked
<1> HIDE DEF Waiting
<1>3. lock = t /\ \A o \in Tasks \ {t} : ~Queueing(o)
  BY <1>1 DEF Locked
<1>4. \A o \in Tasks \ {t} : todo'[o] = todo[o]
  BY <1>1 DEF Types
<1>5. \/ todo[t] = <<Waiting(u)>> /\ todo'[t] = <<>>
      \/ \E w \in Updates : todo[t] = <<Waiting(u), w>> /\ todo'[t] = <<w>>
  BY <1>1 DEF Types
<1>6. ~Queueing(t)'
  BY <1>5, Hands DEF Queueing
<1>7. \A o \in Tasks : ~Queueing(o)'
  BY <1>3, <1>4, <1>6 DEF Queueing
<1> QED BY <1>1, <1>2, <1>3, <1>4, <1>5, <1>7

LEMMA EnqueueFollows ==
    ASSUME Types, Locked, Followed, NEW t \in Tasks, Enqueue(t)
    PROVE  Locked' /\ Followed'
<1>1. UNCHANGED <<cache, flash, lost, pc>>
  BY DEF Enqueue
<1>2. lock = t /\ Queueing(t) /\ \A o \in Tasks : ~Queueing(o)'
  BY EnqueueHands
<1>3. \A o \in Tasks \ {t} : ~Queueing(o)
  BY EnqueueHands
<1>4. PICK u \in Updates : /\ queue' = Append(queue, u)
                           /\ Head(todo[t])[1] = u[1] /\ Head(todo[t])[2] = u[2]
  BY EnqueueHands
<1>5. /\ DOMAIN queue' = 1 .. Len(queue) + 1 /\ Len(queue) \in Nat
      /\ DOMAIN queue = 1 .. Len(queue) /\ queue'[Len(queue) + 1] = u
      /\ \A i \in 1 .. Len(queue) : queue'[i] = queue[i]
  BY <1>4, Appended DEF Types
<1>6. Locked'
  BY <1>2 DEF Locked
<1>7. \A k : ~InHand(k)' /\ (InHand(k) <=> k = u[1])
  BY <1>2, <1>3, <1>4 DEF InHand
<1>8. Up => u[2] = cache[u[1]]
  BY <1>2, <1>4 DEF Followed
<1>9. ASSUME Up, NEW i \in DOMAIN queue', Newest(i)'
      PROVE  queue'[i][2] = cache'[queue'[i][1]]
  <2>1. CASE i = Len(queue) + 1
    BY <1>1, <1>5, <1>8, <1>9, <2>1
  <2>2. CASE i \in DOMAIN queue
    <3>1. Newest(i) /\ u[1] # queue[i][1]
      BY <1>5, <1>9, <2>2 DEF Newest
    <3>2. ~InHand(queue[i][1])
      BY <1>7, <3>1
    <3> QED BY <1>1, <1>5, <1>9, <2>2, <3>1, <3>2 DEF Followed
  <2> QED BY <1>5, <2>1, <2>2
<1>10. ASSUME Up, NEW k \in Keys \ lost, ~Queued(k)' PROVE flash[k] = cache[k]
  <2>1. ~Queued(k) /\ k # u[1]
    BY <1>5, <1>10 DEF Queued
  <2> QED BY <1>7, <1>10, <2>1 DEF Followed
<1> QED BY <1>1, <1>2, <1>6, <1>9, <1>10 DEF Followed, Up

\* The migration's own update of the fingerprint, and the one that takes it away.
LEMMA Stampers ==
    ASSUME NEW u \in Updates, NEW w \in Updates, Build \in Firmware
    PROVE  /\ Clear # TurnOn /\ Stamp # TurnOn /\ Clear # Unstamp /\ Stamp # Unstamp
           /\ \A T \in {HttpTodos, PowerTodos} :
                 <<Waiting(u)>> \in T \/ <<Waiting(u), w>> \in T => u # Stamp
           /\ \A T \in {MainTodos, PowerTodos} :
                 <<Waiting(u)>> \in T \/ <<Waiting(u), w>> \in T => u # Unstamp
<1>1. /\ Clear # TurnOn /\ Stamp # TurnOn /\ Clear # Unstamp /\ Stamp # Unstamp
      /\ \A v : Mark(v) # Stamp /\ Mark(v) # Unstamp
      /\ TurnOn # Stamp /\ TurnOn # Unstamp /\ Clear # Stamp
  BY SettingsAssumption DEF Clear, TurnOn, Stamp, Unstamp, Mark, Off
<1> HIDE DEF Waiting, Clear, TurnOn, Stamp, Unstamp, Mark, Updates
<1>2. <<Waiting(u)>> \in HttpTodos \/ <<Waiting(u), w>> \in HttpTodos => u # Stamp
  BY <1>1, Distinct DEF HttpTodos, Alone, Twice
<1>3. <<Waiting(u)>> \in PowerTodos \/ <<Waiting(u), w>> \in PowerTodos => u # Stamp /\ u # Unstamp
  BY <1>1, Distinct DEF PowerTodos, Alone
<1>4. <<Waiting(u)>> \in MainTodos \/ <<Waiting(u), w>> \in MainTodos => u # Unstamp
  BY <1>1, Distinct DEF MainTodos, Alone, Twice
<1> QED BY <1>1, <1>2, <1>3, <1>4

LEMMA EnqueueAgrees ==
    ASSUME IInv, NEW t \in Tasks, Enqueue(t)
    PROVE  Phased' /\ LeaseReturned' /\ FlashAgrees' /\ StampComes' /\ ClearedFirst' /\ CacheAgrees'
<1>1. /\ UNCHANGED <<cache, flash, lost, slot, boot, running, pc, lease>>
      /\ todo[t] # <<>> /\ Types /\ Phased /\ Locked /\ Followed
  BY DEF Enqueue, Queueing, IInv
<1>2. Build' = Build /\ UNCHANGED <<Up, Served>> /\ Build \in Firmware
  BY <1>1 DEF Build, Up, Served, Phased
<1>3. Up /\ (t = "main" <=> pc = "starting") /\ (t = "http" => pc \notin {"ota", "www"})
  BY <1>1, Busy
<1>4. Queueing(t) /\ \A o \in Tasks \ {t} : todo'[o] = todo[o]
  BY <1>1, EnqueueHands
<1>5. PICK u \in Updates :
         /\ queue' = Append(queue, u)
         /\ Head(todo[t])[1] = u[1] /\ Head(todo[t])[2] = u[2]
         /\ \/ todo[t] = <<Waiting(u)>> /\ todo'[t] = <<>>
            \/ \E w \in Updates : todo[t] = <<Waiting(u), w>> /\ todo'[t] = <<w>>
  BY <1>1, EnqueueHands
<1>6. /\ DOMAIN queue' = 1 .. Len(queue) + 1 /\ Len(queue) \in Nat
      /\ DOMAIN queue = 1 .. Len(queue) /\ queue'[Len(queue) + 1] = u
      /\ \A i \in 1 .. Len(queue) : queue'[i] = queue[i]
  BY <1>1, <1>5, Appended DEF Types
<1>7. u[2] = cache[u[1]]
  BY <1>1, <1>3, <1>4, <1>5 DEF Followed
<1>8. Queued(u[1])' /\ \A k : Queued(k) => Queued(k)'
  BY <1>6 DEF Queued
<1> HIDE DEF Waiting
<1>9. t = "main" => \/ u = Stamp /\ todo[t] = <<Waiting(u)>> /\ todo'[t] = <<>>
                    \/ u = Clear /\ todo'[t] = <<Stamp>>
  <2> SUFFICES ASSUME t = "main"
               PROVE  \/ u = Stamp /\ todo[t] = <<Waiting(u)>> /\ todo'[t] = <<>>
                      \/ u = Clear /\ todo'[t] = <<Stamp>>
    OBVIOUS
  <2>1. todo[t] \in MainTodos
    BY <1>1 DEF Types
  <2>2. todo[t] = <<Waiting(u)>> => u = Stamp
    BY <2>1, Forms
  <2>3. \A w \in Updates : todo[t] = <<Waiting(u), w>> => u = Clear /\ w = Stamp
    BY <2>1, Forms
  <2> QED BY <1>5, <2>2, <2>3
<1>10. u = Stamp => t = "main"
  <2>1. t # "main" => \E T \in {HttpTodos, PowerTodos} : todo[t] \in T
    BY <1>1 DEF Types, Tasks
  <2>2. \A T \in {HttpTodos, PowerTodos} :
           /\ <<Waiting(u)>> \in T => u # Stamp
           /\ \A w \in Updates : <<Waiting(u), w>> \in T => u # Stamp
    BY <1>2, Stampers
  <2> QED BY <1>5, <2>1, <2>2
<1>11. u = Unstamp => t = "http"
  <2>1. t # "http" => \E T \in {MainTodos, PowerTodos} : todo[t] \in T
    BY <1>1 DEF Types, Tasks
  <2>2. \A T \in {MainTodos, PowerTodos} :
           /\ <<Waiting(u)>> \in T => u # Unstamp
           /\ \A w \in Updates : <<Waiting(u), w>> \in T => u # Unstamp
    BY <1>2, Stampers
  <2> QED BY <1>5, <2>1, <2>2
<1>12. Phased'
  <2>1. pc = "starting" => u # TurnOn
    BY <1>2, <1>3, <1>9, Stampers
  <2>2. pc = "starting" => \A i \in DOMAIN queue' : queue'[i] # TurnOn
    BY <1>1, <1>6, <2>1 DEF Phased
  <2> QED BY <1>1, <1>2, <1>3, <1>4, <2>2, SameLists DEF Phased, Tasks, Served
<1>13. LeaseReturned' /\ FlashAgrees'
  BY <1>1 DEF IInv, LeaseReturned, FlashAgrees
<1>14. ASSUME Foreign(flash["fingerprint"]), "fingerprint" \notin lost
       PROVE  /\ pc = "starting" => todo'["main"] # <<>> \/ Queued("fingerprint")'
              /\ Served => \E i \in DOMAIN queue' :
                        /\ queue'[i][1] = "fingerprint"
                        /\ \A j \in 1 .. i - 1 : queue'[j] # TurnOn
  <2>1. /\ pc = "starting" => todo["main"] # <<>> \/ Queued("fingerprint")
        /\ Served => \E i \in DOMAIN queue :
                        /\ queue[i][1] = "fingerprint"
                        /\ \A j \in 1 .. i - 1 : queue[j] # TurnOn
    BY <1>14 DEF IInv, StampComes
  <2>2. pc = "starting" => todo'["main"] # <<>> \/ Queued("fingerprint")'
    BY <1>3, <1>8, <1>9, <2>1, WwwUpdates, Distinct
  <2>3. ASSUME Served
        PROVE  \E i \in DOMAIN queue' : /\ queue'[i][1] = "fingerprint"
                                        /\ \A j \in 1 .. i - 1 : queue'[j] # TurnOn
    <3>1. PICK i \in DOMAIN queue : /\ queue[i][1] = "fingerprint"
                                    /\ \A j \in 1 .. i - 1 : queue[j] # TurnOn
      BY <2>1, <2>3
    <3>2. i \in DOMAIN queue' /\ queue'[i] = queue[i]
      BY <1>6
    <3>3. \A j \in 1 .. i - 1 : queue'[j] = queue[j]
      BY <1>6
    <3> QED BY <3>1, <3>2, <3>3
  <2> QED BY <2>2, <2>3
<1>15. StampComes'
  BY <1>1, <1>2, <1>14, SameLists DEF StampComes
<1>16. ASSUME Foreign(flash["custom"]), "custom" \notin lost
       PROVE  /\ \A i \in DOMAIN queue' : queue'[i] = Stamp
                    => \E j \in 1 .. i - 1 : queue'[j][1] = "custom"
              /\ todo'["main"] \in Alone(Stamp) => Queued("custom")'
  <2>1. /\ \A i \in DOMAIN queue : queue[i] = Stamp => \E j \in 1 .. i - 1 : queue[j][1] = "custom"
        /\ todo["main"] \in Alone(Stamp) => Queued("custom")
    BY <1>16 DEF IInv, ClearedFirst
  <2>2. u = Stamp => Queued("custom")
    <3>1. u = Stamp => u # Clear
      BY SettingsAssumption DEF Stamp, Clear
    <3>2. u = Stamp => todo["main"] = <<Waiting(Stamp)>>
      BY <1>9, <1>10, <3>1
    <3> QED BY <2>1, <3>2 DEF Alone
  <2>3. ASSUME NEW i \in DOMAIN queue', queue'[i] = Stamp
        PROVE  \E j \in 1 .. i - 1 : queue'[j][1] = "custom"
    <3>1. CASE i = Len(queue) + 1
      <4>1. PICK j \in DOMAIN queue : queue[j][1] = "custom"
        BY <1>6, <2>2, <2>3, <3>1 DEF Queued
      <4> QED BY <1>6, <3>1, <4>1
    <3>2. CASE i \in DOMAIN queue
      <4>1. PICK j \in 1 .. i - 1 : queue[j][1] = "custom"
        BY <1>6, <2>1, <2>3, <3>2
      <4> QED BY <1>6, <3>2, <4>1
    <3> QED BY <1>6, <3>1, <3>2
  <2>4. todo'["main"] \in Alone(Stamp) => Queued("custom")'
    <3>1. CASE t = "main"
      <4>1. <<>> \notin Alone(Stamp)
        BY Singles DEF Alone
      <4>2. u = Clear => u[1] = "custom"
        BY WwwUpdates
      <4> QED BY <1>8, <1>9, <3>1, <4>1, <4>2
    <3>2. CASE t # "main"
      BY <1>4, <1>8, <2>1, <3>2 DEF Tasks
    <3> QED BY <3>1, <3>2
  <2> QED BY <2>3, <2>4
<1>17. ClearedFirst'
  BY <1>1, <1>2, <1>16, SameLists DEF ClearedFirst, Alone
<1>18. ASSUME Foreign(cache["custom"])
       PROVE  /\ todo'["main"] = <<Clear, Stamp>> \/ {"custom", "fingerprint"} \intersect lost # {}
              /\ todo'["http"] \notin Alone(Unstamp)
              /\ \A i \in DOMAIN queue' : queue'[i] # Unstamp /\ queue'[i][1] # "custom"
  <2>1. /\ todo["main"] = <<Clear, Stamp>> \/ {"custom", "fingerprint"} \intersect lost # {}
        /\ todo["http"] \notin Alone(Unstamp)
        /\ \A i \in DOMAIN queue : queue[i] # Unstamp /\ queue[i][1] # "custom"
    BY <1>3, <1>18 DEF IInv, CacheAgrees
  <2>2. u[1] # "custom" /\ u # Clear
    BY <1>7, <1>18, WwwUpdates
  <2>3. todo["main"] = <<Clear, Stamp>> => t # "main"
    BY <1>5, Distinct
  <2>4. ASSUME t = "http" PROVE todo[t] = <<Waiting(u)>> /\ todo'[t] = <<>>
    BY <1>1, <1>5, <2>2, <2>4, Forms DEF Types
  <2>5. u # Unstamp
    BY <1>11, <2>1, <2>4 DEF Alone
  <2>6. <<>> \notin Alone(Unstamp)
    BY Forms, Distinct
  <2>7. todo'["http"] \notin Alone(Unstamp)
    BY <1>4, <2>1, <2>4, <2>6 DEF Tasks
  <2>8. \A i \in DOMAIN queue' : queue'[i] # Unstamp /\ queue'[i][1] # "custom"
    BY <1>6, <2>1, <2>2, <2>5
  <2> QED BY <1>4, <2>1, <2>3, <2>7, <2>8 DEF Tasks
<1>19. CacheAgrees'
  BY <1>1, <1>2, <1>18, SameLists DEF CacheAgrees, Alone
<1> QED BY <1>12, <1>13, <1>15, <1>17, <1>19

-----------------------------------------------------------------------------
(* nvs_task *)

LEMMA NvsTaskTyped == ASSUME Types, Phased, NvsTask PROVE Types' /\ Build' = Build /\ Up
<1>1. /\ UNCHANGED <<cache, todo, lock, slot, boot, running, pc, lease>>
      /\ Build' = Build /\ queue' = Tail(queue) /\ queue # <<>>
  BY DEF NvsTask, Build
<1>2. Head(queue) \in Updates /\ Tail(queue) \in Seq(Updates)
  BY <1>1, HeadTailProperties DEF Types
<1>3. slot[running] \in Firmware /\ Build \in Firmware
  BY DEF Phased, Build
<1>4. flash' = flash \/ flash' = [flash EXCEPT ![Head(queue)[1]] = Head(queue)[2]]
  BY DEF NvsTask
<1>5. Head(queue)[1] \in Keys /\ Head(queue)[2] \in Stored
  BY <1>2, <1>3, UpdatesTyped
<1>6. lost' \subseteq Keys
  BY <1>5 DEF NvsTask, Types
<1>7. flash' \in [Keys -> Stored] /\ flash'["custom"] \in {Absent, Off} \union Firmware
  BY <1>2, <1>3, <1>4, <1>5, WwwUpdates DEF Types, Keys
<1>8. Todos' = Todos /\ MainTodos' = MainTodos /\ HttpTodos' = HttpTodos /\ PowerTodos' = PowerTodos
      /\ Updates' = Updates
  BY <1>1, SameLists
<1> QED BY <1>1, <1>2, <1>6, <1>7, <1>8 DEF Types, Phased, Up

LEMMA NvsTaskFollows ==
    ASSUME Types, Phased, Locked, Followed, NvsTask PROVE Locked' /\ Followed'
<1>1. UNCHANGED <<cache, todo, lock, pc>> /\ queue' = Tail(queue) /\ queue # <<>> /\ Up
  BY NvsTaskTyped DEF NvsTask
<1>2. Locked' /\ \A k : InHand(k)' = InHand(k)
  BY <1>1 DEF Locked, Queueing, InHand
<1>3. /\ Len(queue) \in Nat \ {0} /\ DOMAIN queue = 1 .. Len(queue)
      /\ DOMAIN queue' = 1 .. Len(queue) - 1 /\ Head(queue) = queue[1]
      /\ \A i \in 1 .. Len(queue) - 1 : queue'[i] = queue[i + 1]
  BY <1>1, Shifted DEF Types
<1>4. ASSUME NEW i \in DOMAIN queue', Newest(i)', ~InHand(queue'[i][1])
      PROVE  queue'[i][2] = cache[queue'[i][1]]
  <2>1. i + 1 \in DOMAIN queue /\ queue'[i] = queue[i + 1]
    BY <1>3
  <2>2. ASSUME NEW j \in DOMAIN queue, j > i + 1 PROVE queue[j][1] # queue[i + 1][1]
    <3>1. j - 1 \in DOMAIN queue' /\ j - 1 > i /\ queue'[j - 1] = queue[j]
      BY <1>3, <2>2
    <3> QED BY <1>4, <2>1, <3>1 DEF Newest
  <2>3. Newest(i + 1)
    BY <2>2 DEF Newest
  <2> QED BY <1>1, <1>4, <2>1, <2>3 DEF Followed
<1>5. ASSUME NEW k \in Keys \ lost', ~InHand(k), ~Queued(k)' PROVE flash'[k] = cache[k]
  <2>1. \A i \in DOMAIN queue : i > 1 => queue[i][1] # k
    <3>1. ASSUME NEW i \in DOMAIN queue, i > 1 PROVE queue[i][1] # k
      <4>1. i - 1 \in DOMAIN queue' /\ queue'[i - 1] = queue[i]
        BY <1>3, <3>1
      <4> QED BY <1>5, <4>1 DEF Queued
    <3> QED BY <3>1
  <2>2. CASE queue[1][1] = k
    <3>1. flash' = [flash EXCEPT ![k] = queue[1][2]]
      BY <1>3, <1>5, <2>2 DEF NvsTask
    <3>2. 1 \in DOMAIN queue /\ Newest(1)
      BY <1>3, <2>1, <2>2 DEF Newest
    <3> QED BY <1>1, <1>5, <2>2, <3>1, <3>2 DEF Followed, Types
  <2>3. CASE queue[1][1] # k
    <3>1. ~Queued(k)
      BY <1>3, <2>1, <2>3 DEF Queued
    <3>2. k \notin lost /\ flash'[k] = flash[k]
      BY <1>3, <1>5, <2>3 DEF NvsTask, Types
    <3> QED BY <1>1, <1>5, <3>1, <3>2 DEF Followed
  <2> QED BY <2>2, <2>3
<1>6. \A t \in Tasks : Queueing(t) => Head(todo[t])[2] = cache[Head(todo[t])[1]]
  BY <1>1 DEF Followed
<1>7. \A t \in Tasks : Queueing(t)' => Head(todo'[t])[2] = cache'[Head(todo'[t])[1]]
  BY <1>1, <1>6 DEF Queueing
<1>8. \A i \in DOMAIN queue' :
         Newest(i)' /\ ~InHand(queue[i][1])' => queue'[i][2] = cache'[queue'[i][1]]
  <2>1. \A i : InHand(queue[i][1])' = InHand(queue'[i][1])
    BY <1>1 DEF InHand, Queueing
  <2> QED BY <1>1, <1>4, <2>1
<1> QED BY <1>1, <1>2, <1>5, <1>7, <1>8 DEF Followed

\* What NvsTask does with the update at the front.
LEMMA Written ==
    ASSUME IInv, NvsTask
    PROVE  \E u \in Updates :
              /\ u = queue[1] /\ u[1] \in Keys
              /\ \/ flash' = [flash EXCEPT ![u[1]] = u[2]] /\ lost' = lost \ {u[1]}
                 \/ lost' = lost \union {u[1]} /\ UNCHANGED flash
<1>1. queue # <<>> /\ queue \in Seq(Updates) /\ slot[running] \in Firmware
  BY DEF NvsTask, IInv, Types, Phased
<1>2. Head(queue) = queue[1] /\ Head(queue) \in Updates
  BY <1>1, HeadTailProperties
<1>3. queue[1][1] \in Keys
  BY <1>1, <1>2, UpdatesTyped
<1> QED BY <1>2, <1>3 DEF NvsTask

LEMMA NvsTaskAgrees ==
    ASSUME IInv, NvsTask
    PROVE  Phased' /\ LeaseReturned' /\ FlashAgrees' /\ StampComes' /\ ClearedFirst' /\ CacheAgrees'
<1>1. /\ UNCHANGED <<cache, todo, lock, slot, boot, running, pc, lease>>
      /\ queue' = Tail(queue) /\ queue # <<>> /\ Up
      /\ Types /\ Phased /\ Locked /\ Followed
  BY NvsTaskTyped DEF NvsTask, IInv
<1>2. Build' = Build /\ UNCHANGED <<Up, Served>> /\ Build \in Firmware
  BY <1>1 DEF Build, Up, Served, Phased
<1>3. /\ Len(queue) \in Nat \ {0} /\ DOMAIN queue = 1 .. Len(queue)
      /\ DOMAIN queue' = 1 .. Len(queue) - 1
      /\ \A i \in 1 .. Len(queue) - 1 : queue'[i] = queue[i + 1]
  BY <1>1, Shifted DEF Types
<1>4. PICK u \in Updates :
              /\ u = queue[1] /\ u[1] \in Keys
              /\ \/ flash' = [flash EXCEPT ![u[1]] = u[2]] /\ lost' = lost \ {u[1]}
                 \/ lost' = lost \union {u[1]} /\ UNCHANGED flash
  BY Written
<1>5. \A k \in Keys : k # u[1] => flash'[k] = flash[k] /\ (k \in lost' <=> k \in lost)
  BY <1>1, <1>4 DEF Types
<1>6. u[1] \notin lost' => flash'[u[1]] = u[2]
  BY <1>1, <1>4 DEF Types
<1>7. \A k : k # u[1] /\ Queued(k) => Queued(k)'
  <2>1. ASSUME NEW k, k # u[1], NEW i \in DOMAIN queue, queue[i][1] = k
        PROVE  Queued(k)'
    <3>1. i # 1
      BY <1>4, <2>1
    <3>2. i - 1 \in DOMAIN queue' /\ queue'[i - 1] = queue[i]
      BY <1>3, <3>1
    <3> QED BY <2>1, <3>2 DEF Queued
  <2> QED BY <2>1 DEF Queued
<1>8. "custom" \in Keys /\ "fingerprint" \in Keys
  BY DEF Keys
<1>9. Phased'
  <2>1. pc = "starting" => \A i \in DOMAIN queue' : queue'[i] # TurnOn
    BY <1>1, <1>3 DEF Phased
  <2> QED BY <1>1, <1>2, <2>1, SameLists DEF Phased, Served, Up
<1>10. LeaseReturned'
  BY <1>1 DEF IInv, LeaseReturned
<1>11. ASSUME {"custom", "fingerprint"} \intersect lost' = {}, flash'["fingerprint"] \in Firmware
       PROVE  flash'["custom"] \notin Firmware \ {flash'["fingerprint"]}
  <2>1. CASE u[1] \notin {"custom", "fingerprint"}
    BY <1>5, <1>8, <1>11, <2>1 DEF IInv, FlashAgrees
  <2>2. CASE u[1] = "custom"
    <3>1. flash'["custom"] = u[2] /\ flash'["fingerprint"] = flash["fingerprint"]
      BY <1>5, <1>6, <1>8, <1>11, <2>2
    <3>2. "fingerprint" \notin lost
      BY <1>5, <1>8, <1>11, <2>2
    <3>3. u = Clear \/ u = TurnOn
      BY <2>2, WwwUpdates
    <3>4. CASE u = Clear
      BY <3>1, <3>4, SettingsAssumption DEF Clear, Off
    <3>5. CASE u = TurnOn
      <4>1. ~Foreign(flash["fingerprint"])
        <5>1. SUFFICES ASSUME Foreign(flash["fingerprint"]) PROVE FALSE
          OBVIOUS
        <5>2. queue[1] = TurnOn /\ 1 \in DOMAIN queue
          BY <1>3, <1>4, <3>5
        <5>3. pc # "starting"
          BY <1>1, <5>2 DEF Phased
        <5>4. Served
          BY <1>1, <5>3 DEF Up, Served
        <5>5. PICK i \in DOMAIN queue : /\ queue[i][1] = "fingerprint"
                                        /\ \A j \in 1 .. i - 1 : queue[j] # TurnOn
          BY <3>2, <5>1, <5>4 DEF IInv, StampComes
        <5>6. i > 1
          BY <1>3, <1>4, <2>2, <5>5
        <5> QED BY <1>3, <5>2, <5>5, <5>6
      <4>2. u[2] = Build
        BY <3>5, WwwUpdates
      <4> QED BY <1>11, <3>1, <4>1, <4>2 DEF Foreign
    <3> QED BY <3>3, <3>4, <3>5
  <2>3. CASE u[1] = "fingerprint"
    <3>1. flash'["fingerprint"] = u[2] /\ flash'["custom"] = flash["custom"]
      BY <1>5, <1>6, <1>8, <1>11, <2>3
    <3>2. "custom" \notin lost
      BY <1>5, <1>8, <1>11, <2>3
    <3>3. u = Stamp \/ u = Unstamp
      BY <2>3, WwwUpdates
    <3>4. u # Unstamp
      BY <1>11, <3>1, SettingsAssumption DEF Unstamp
    <3>5. queue[1] = Stamp /\ 1 \in DOMAIN queue /\ 1 .. 1 - 1 = {}
      BY <1>3, <1>4, <3>3, <3>4
    <3>6. ~Foreign(flash["custom"])
      BY <3>2, <3>5 DEF IInv, ClearedFirst
    <3>7. u[2] = Build
      BY <3>3, <3>4, WwwUpdates
    <3> QED BY <3>1, <3>6, <3>7 DEF Foreign
  <2> QED BY <2>1, <2>2, <2>3
<1>12. FlashAgrees'
  BY <1>11 DEF FlashAgrees
<1>13. ASSUME Foreign(flash'["fingerprint"]), "fingerprint" \notin lost'
       PROVE  /\ pc = "starting" => todo["main"] # <<>> \/ Queued("fingerprint")'
              /\ Served => \E i \in DOMAIN queue' :
                        /\ queue'[i][1] = "fingerprint"
                        /\ \A j \in 1 .. i - 1 : queue'[j] # TurnOn
  <2>1. u[1] # "fingerprint"
    BY <1>6, <1>13, WwwUpdates
  <2>2. /\ pc = "starting" => todo["main"] # <<>> \/ Queued("fingerprint")
        /\ Served => \E i \in DOMAIN queue :
                        /\ queue[i][1] = "fingerprint"
                        /\ \A j \in 1 .. i - 1 : queue[j] # TurnOn
    BY <1>5, <1>8, <1>13, <2>1 DEF IInv, StampComes
  <2>3. ASSUME Served
        PROVE  \E i \in DOMAIN queue' : /\ queue'[i][1] = "fingerprint"
                                        /\ \A j \in 1 .. i - 1 : queue'[j] # TurnOn
    <3>1. PICK i \in DOMAIN queue : /\ queue[i][1] = "fingerprint"
                                    /\ \A j \in 1 .. i - 1 : queue[j] # TurnOn
      BY <2>2, <2>3
    <3>2. i - 1 \in DOMAIN queue' /\ queue'[i - 1] = queue[i]
      BY <1>3, <1>4, <2>1, <3>1
    <3>3. ASSUME NEW j \in 1 .. (i - 1) - 1 PROVE queue'[j] # TurnOn
      <4>1. j + 1 \in 1 .. i - 1 /\ queue'[j] = queue[j + 1]
        BY <1>3, <3>1, <3>2
      <4> QED BY <3>1, <4>1
    <3> QED BY <3>1, <3>2, <3>3
  <2> QED BY <1>7, <2>1, <2>2, <2>3
<1>14. StampComes'
  BY <1>1, <1>2, <1>13, SameLists DEF StampComes
<1>15. ASSUME Foreign(flash'["custom"]), "custom" \notin lost'
       PROVE  /\ \A i \in DOMAIN queue' : queue'[i] = Stamp
                    => \E j \in 1 .. i - 1 : queue'[j][1] = "custom"
              /\ todo["main"] \in Alone(Stamp) => Queued("custom")'
  <2>1. u[1] # "custom"
    BY <1>6, <1>15, WwwUpdates
  <2>2. /\ \A i \in DOMAIN queue : queue[i] = Stamp => \E j \in 1 .. i - 1 : queue[j][1] = "custom"
        /\ todo["main"] \in Alone(Stamp) => Queued("custom")
    BY <1>5, <1>8, <1>15, <2>1 DEF IInv, ClearedFirst
  <2>3. ASSUME NEW i \in DOMAIN queue', queue'[i] = Stamp
        PROVE  \E j \in 1 .. i - 1 : queue'[j][1] = "custom"
    <3>1. i + 1 \in DOMAIN queue /\ queue[i + 1] = Stamp
      BY <1>3, <2>3
    <3>2. PICK j \in 1 .. (i + 1) - 1 : queue[j][1] = "custom"
      BY <2>2, <3>1
    <3>3. j # 1
      BY <1>4, <2>1, <3>2
    <3>4. j - 1 \in 1 .. i - 1 /\ queue'[j - 1] = queue[j]
      BY <1>3, <2>3, <3>2, <3>3
    <3> QED BY <3>2, <3>4
  <2> QED BY <1>7, <2>1, <2>2, <2>3
<1>16. ClearedFirst'
  BY <1>1, <1>2, <1>15, SameLists DEF ClearedFirst, Alone
<1>17. ASSUME Foreign(cache["custom"])
       PROVE  /\ todo["main"] = <<Clear, Stamp>> \/ {"custom", "fingerprint"} \intersect lost' # {}
              /\ todo["http"] \notin Alone(Unstamp)
              /\ \A i \in DOMAIN queue' : queue'[i] # Unstamp /\ queue'[i][1] # "custom"
  <2>1. /\ todo["main"] = <<Clear, Stamp>> \/ {"custom", "fingerprint"} \intersect lost # {}
        /\ todo["http"] \notin Alone(Unstamp)
        /\ \A i \in DOMAIN queue : queue[i] # Unstamp /\ queue[i][1] # "custom"
    BY <1>1, <1>17 DEF IInv, CacheAgrees
  <2>2. u # Unstamp /\ u[1] # "custom"
    BY <1>3, <1>4, <2>1
  <2>3. \A i \in DOMAIN queue' : queue'[i] # Unstamp /\ queue'[i][1] # "custom"
    BY <1>3, <2>1
  <2>4. CASE u[1] # "fingerprint" \/ "custom" \in lost \/ todo["main"] = <<Clear, Stamp>>
    <3>1. {"custom", "fingerprint"} \intersect lost # {} /\ u[1] # "fingerprint"
               => {"custom", "fingerprint"} \intersect lost' # {}
      BY <1>4, <2>2
    <3>2. "custom" \in lost => "custom" \in lost'
      BY <1>4, <2>2
    <3> QED BY <2>1, <2>3, <2>4, <3>1, <3>2
  <2>5. CASE u[1] = "fingerprint" /\ "custom" \notin lost /\ todo["main"] # <<Clear, Stamp>>
    <3>1. queue[1] = Stamp /\ 1 \in DOMAIN queue /\ 1 .. 1 - 1 = {}
      BY <1>3, <1>4, <2>2, <2>5, WwwUpdates
    <3>2. ~Foreign(flash["custom"])
      BY <2>5, <3>1 DEF IInv, ClearedFirst
    <3>3. ~Queued("custom")
      BY <2>1 DEF Queued
    <3>4. InHand("custom")
      BY <1>1, <1>8, <1>17, <2>5, <3>2, <3>3 DEF Followed
    <3>5. PICK t \in Tasks : Queueing(t) /\ Head(todo[t])[1] = "custom"
      BY <3>4 DEF InHand
    <3>6. Head(todo[t])[2] = cache["custom"]
      BY <1>1, <3>5 DEF Followed
    <3>7. PICK w \in Updates : Head(todo[t])[1] = w[1] /\ Head(todo[t])[2] = w[2]
      BY <1>1, <3>5, HandOwn
    <3> QED BY <1>17, <3>5, <3>6, <3>7, WwwUpdates
  <2> QED BY <2>4, <2>5
<1>18. CacheAgrees'
  BY <1>1, <1>2, <1>17, SameLists DEF CacheAgrees, Alone
<1> QED BY <1>9, <1>10, <1>12, <1>14, <1>16, <1>18

-----------------------------------------------------------------------------
(* Requests, and the marker of the power task *)

\* Whatever a task is given to set while the services run is only set later.
LEMMA Given ==
    ASSUME IInv, Build' = Build, Served, Served', UNCHANGED <<cache, flash, queue, lock, lost>>,
           NEW t \in {"http", "power"}, NEW s, todo[t] = <<>>, todo' = [todo EXCEPT ![t] = s],
           t = "http" => s \in HttpTodos, t = "power" => s \in PowerTodos,
           s = <<>> \/ Len(Head(s)) # 3, s \notin Alone(Unstamp)
    PROVE  /\ Locked' /\ Followed' /\ FlashAgrees' /\ StampComes' /\ ClearedFirst' /\ CacheAgrees'
           /\ slot' \in [Partitions -> Firmware \union {Absent, "partial"}]
              /\ boot' \in Partitions /\ running' \in Partitions /\ pc' \in Phase /\ lease' \in Leases
                => Types'
           /\ todo'["main"] = todo["main"]
<1>1. /\ Types /\ Phased /\ Locked /\ Followed /\ t \in Tasks
      /\ UNCHANGED <<Up, Served>> /\ Up /\ pc # "starting" /\ pc' # "starting"
  BY DEF IInv, Up, Served, Tasks
<1>2. /\ todo'[t] = s /\ \A o \in Tasks \ {t} : todo'[o] = todo[o]
      /\ "main" \in Tasks /\ "http" \in Tasks /\ "power" \in Tasks
  BY <1>1 DEF Types, Tasks
<1>3. todo'["main"] = todo["main"] /\ todo["main"] = <<>>
  BY <1>1, <1>2 DEF Phased
<1>4. \A o \in Tasks : Queueing(o)' = Queueing(o)
  <2>2. ~Queueing(t)
    BY DEF Queueing
  <2>3. ~Queueing(t)'
    BY <1>2 DEF Queueing
  <2> QED BY <1>2, <2>2, <2>3 DEF Queueing
<1>5. \A o \in Tasks : Queueing(o) => todo'[o] = todo[o]
  BY <1>2 DEF Queueing
<1>6. Locked'
  BY <1>1, <1>4 DEF Locked
<1>7. \A k : InHand(k)' = InHand(k)
  BY <1>4, <1>5 DEF InHand
<1>8. Followed'
  <2>1. \A o \in Tasks : Queueing(o)' => Head(todo'[o])[2] = cache'[Head(todo'[o])[1]]
    BY <1>1, <1>4, <1>5 DEF Followed
  <2>2. \A i \in DOMAIN queue' :
           Newest(i)' /\ ~InHand(queue[i][1])' => queue'[i][2] = cache'[queue'[i][1]]
    <3>1. \A i : InHand(queue[i][1])' = InHand(queue[i][1]) /\ Newest(i)' = Newest(i)
      BY <1>4, <1>5 DEF InHand, Newest
    <3> QED BY <1>1, <3>1 DEF Followed
  <2>3. \A k \in Keys \ lost' : ~InHand(k)' /\ ~Queued(k)' => flash'[k] = cache'[k]
    <3>1. \A k : Queued(k)' = Queued(k)
      BY DEF Queued
    <3> QED BY <1>1, <1>7, <3>1 DEF Followed
  <2> QED BY <2>1, <2>2, <2>3 DEF Followed
<1>9. FlashAgrees'
  BY DEF IInv, FlashAgrees
<1>10. StampComes'
  BY <1>1, <1>3, SameLists DEF IInv, StampComes
<1>11. ClearedFirst'
  <2>1. Queued("custom")' = Queued("custom")
    BY DEF Queued
  <2> QED BY <1>3, <2>1, SameLists DEF IInv, ClearedFirst, Alone
<1>12. CacheAgrees'
  <2>1. todo["http"] \notin Alone(Unstamp) => todo'["http"] \notin Alone(Unstamp)
    BY <1>2
  <2>2. Alone(Unstamp)' = Alone(Unstamp) /\ (<<Clear, Stamp>>)' = <<Clear, Stamp>>
    BY SameLists DEF Alone, Unstamp, Waiting, Clear
  <2>3. Foreign(cache["custom"])' = Foreign(cache["custom"])
    BY DEF Foreign
  <2>4. Foreign(cache["custom"]) =>
          /\ todo["main"] = <<Clear, Stamp>> \/ {"custom", "fingerprint"} \intersect lost # {}
          /\ todo["http"] \notin Alone(Unstamp)
          /\ \A i \in DOMAIN queue : queue[i] # Unstamp /\ queue[i][1] # "custom"
    BY <1>1 DEF IInv, CacheAgrees
  <2>5. Unstamp' = Unstamp
    BY DEF Unstamp
  <2> QED BY <1>1, <1>3, <2>1, <2>2, <2>3, <2>4, <2>5 DEF CacheAgrees
<1>13. todo' \in [Tasks -> Todos] /\ todo'["main"] \in MainTodos
       /\ todo'["http"] \in HttpTodos /\ todo'["power"] \in PowerTodos
  BY <1>1, <1>2 DEF Types, Todos
<1>14. ASSUME slot' \in [Partitions -> Firmware \union {Absent, "partial"}],
              boot' \in Partitions, running' \in Partitions, pc' \in Phase, lease' \in Leases
       PROVE  Types'
  BY <1>1, <1>13, <1>14, SameLists DEF Types
<1> QED BY <1>3, <1>6, <1>8, <1>9, <1>10, <1>11, <1>12, <1>14

\* The lists a request or the power task starts with.
LEMMA FreshLists ==
    /\ {<<>>, <<TurnOn>>, <<Clear>>, <<Clear, Mark("clear")>>, <<Clear, Unstamp>>} \subseteq HttpTodos
    /\ \A v \in {"set", "clear"} : <<Mark(v)>> \in PowerTodos
    /\ \A s \in {<<>>, <<TurnOn>>, <<Clear>>, <<Clear, Mark("clear")>>, <<Clear, Unstamp>>,
                 <<Mark("set")>>, <<Mark("clear")>>} :
          (s = <<>> \/ Len(Head(s)) # 3) /\ (Build \in Firmware => s \notin Alone(Unstamp))
<1>1. /\ {<<>>, <<TurnOn>>, <<Clear>>, <<Clear, Mark("clear")>>, <<Clear, Unstamp>>} \subseteq HttpTodos
      /\ \A v \in {"set", "clear"} : <<Mark(v)>> \in PowerTodos
  BY DEF HttpTodos, PowerTodos, Alone, Twice
<1>2. \A u \in Updates : Len(u) # 3
  BY Marked
<1>3. /\ TurnOn # Unstamp /\ Clear # Unstamp /\ Mark("set") # Unstamp /\ Mark("clear") # Unstamp
  BY DEF TurnOn, Clear, Unstamp, Mark
<1> HIDE DEF Waiting, Clear, TurnOn, Stamp, Unstamp, Mark, Updates
<1>4. \A u \in Updates : Len(Head(<<u>>)) # 3 /\ (u # Unstamp => <<u>> \notin Alone(Unstamp))
  BY <1>2, Singles, Forms, Distinct
<1>5. \A u, w \in Updates : Len(Head(<<u, w>>)) # 3 /\ <<u, w>> \notin Alone(Unstamp)
  <2> SUFFICES ASSUME NEW u \in Updates, NEW w \in Updates
               PROVE  Len(Head(<<u, w>>)) # 3 /\ <<u, w>> \notin Alone(Unstamp)
    OBVIOUS
  <2>1. <<u, w>> \notin Alone(Unstamp)
    BY Forms, Distinct
  <2>2. Head(<<u, w>>) = u
    BY Pairs
  <2> QED BY <1>2, <2>1, <2>2
<1>6. <<>> \notin Alone(Unstamp)
  BY Singles DEF Alone
<1> QED BY <1>1, <1>3, <1>4, <1>5, <1>6, Distinct

LEMMA StoreMarkerKeeps ==
    ASSUME IInv, NEW v \in {"set", "clear"}, StoreMarker(v) PROVE IInv'
<1>1. /\ UNCHANGED <<cache, flash, queue, lock, lost, slot, boot, running, pc, lease>>
      /\ todo["power"] = <<>> /\ todo' = [todo EXCEPT !["power"] = <<Mark(v)>>]
      /\ Types /\ Phased
  BY DEF StoreMarker, Mark, IInv
<1>2. Served /\ Served' /\ Build' = Build /\ Up /\ Up'
  BY <1>1 DEF StoreMarker, Served, Build, Up
<1>3. <<Mark(v)>> \in PowerTodos /\ Len(Head(<<Mark(v)>>)) # 3 /\ <<Mark(v)>> \notin Alone(Unstamp)
  <2>1. Build \in Firmware /\ v \in {"set", "clear"}
    BY <1>1 DEF Build, Phased
  <2> QED BY <2>1, FreshLists
<1>4. /\ Locked' /\ Followed' /\ FlashAgrees' /\ StampComes' /\ ClearedFirst' /\ CacheAgrees'
      /\ Types' /\ todo'["main"] = todo["main"]
  BY <1>1, <1>2, <1>3, Given DEF Types
<1>5. todo'["http"] = todo["http"]
  BY <1>1 DEF Types, Tasks
<1>6. Phased'
  BY <1>1, <1>2, <1>4, <1>5 DEF Phased, Served
<1>7. LeaseReturned'
  BY <1>1 DEF IInv, LeaseReturned
<1> QED BY <1>4, <1>6, <1>7 DEF IInv

\* A request that is accepted, refused, or has failed.
LEMMA RequestKeeps ==
    ASSUME IInv, Served, Served', UNCHANGED <<cache, flash, queue, lock, lost, running>>,
           slot'[running] = slot[running], todo["http"] = <<>>,
           NEW s \in {<<>>, <<TurnOn>>, <<Clear>>, <<Clear, Mark("clear")>>, <<Clear, Unstamp>>},
           todo' = [todo EXCEPT !["http"] = s],
           slot' \in [Partitions -> Firmware \union {Absent, "partial"}],
           boot' \in Partitions, pc' \in Phase, lease' \in Leases,
           pc' \in {"ota", "www"} => s = <<>>,
           pc' # "rebooting" => boot' = running, slot'[boot'] \in Firmware, LeaseReturned'
    PROVE  IInv'
<1>1. Types /\ Phased /\ Build' = Build /\ Build \in Firmware /\ running' \in Partitions
  BY DEF IInv, Build, Phased, Types
<1>2. s \in HttpTodos /\ (s = <<>> \/ Len(Head(s)) # 3) /\ s \notin Alone(Unstamp)
  BY <1>1, FreshLists
<1>3. /\ Locked' /\ Followed' /\ FlashAgrees' /\ StampComes' /\ ClearedFirst' /\ CacheAgrees'
      /\ Types' /\ todo'["main"] = todo["main"]
  BY <1>1, <1>2, Given
<1>4. todo'["http"] = s
  BY <1>1 DEF Types, Tasks
<1>5. Phased'
  BY <1>1, <1>3, <1>4 DEF Phased, Served, Up, Build
<1> QED BY <1>3, <1>5 DEF IInv

LEMMA PatchKeeps == ASSUME IInv, Patch PROVE IInv'
<1>1. PICK body \in AcceptedBodies : todo' = [todo EXCEPT !["http"] = body]
  BY DEF Patch
<1>2. body \in {<<>>, <<TurnOn>>, <<Clear>>, <<Clear, Mark("clear")>>, <<Clear, Unstamp>>}
  BY DEF AcceptedBodies, TurnOn, Clear, Mark
<1>3. /\ UNCHANGED <<cache, flash, queue, lock, lost, slot, boot, running, pc, lease>>
      /\ pc = "idle" /\ todo["http"] = <<>> /\ Types /\ Phased /\ LeaseReturned
  BY DEF Patch, IInv
<1>4. Served /\ Served' /\ LeaseReturned'
  BY <1>3 DEF Served, LeaseReturned
<1>5. pc' \in Phase /\ pc' # "ota" /\ pc' # "www" /\ boot' = running /\ slot'[boot'] \in Firmware
  BY <1>3 DEF Phase, Phased
<1> QED BY <1>1, <1>2, <1>3, <1>4, <1>5, RequestKeeps DEF Types

\* A request that changes no setting.
LEMMA NothingGiven ==
    ASSUME Types, todo["http"] = <<>>, UNCHANGED todo
    PROVE  todo' = [todo EXCEPT !["http"] = <<>>]
  BY DEF Types, Tasks

\* The partition that is written is not the one that runs.
LEMMA OtherPartition ==
    ASSUME Types
    PROVE  UpdatePartition \in Partitions /\ UpdatePartition # running
  BY SettingsAssumption DEF UpdatePartition, Types

LEMMA BeginOtaKeeps == ASSUME IInv, BeginOta PROVE IInv'
<1>1. /\ UNCHANGED <<cache, flash, queue, todo, lock, lost, boot, running>>
      /\ slot' = [slot EXCEPT ![UpdatePartition] = "partial"]
      /\ pc = "idle" /\ pc' = "ota" /\ todo["http"] = <<>> /\ Types /\ Phased
  BY DEF BeginOta, OtaGuardBegin, IInv
<1>2. boot = running /\ slot[running] \in Firmware
  BY <1>1 DEF Phased
<1>3. /\ slot' \in [Partitions -> Firmware \union {Absent, "partial"}]
      /\ slot'[running] = slot[running]
  BY <1>1, OtherPartition DEF Types
<1>4. Served /\ Served' /\ LeaseReturned' /\ pc' \in Phase /\ lease' \in Leases
  <2>1. lease' = [NoLease EXCEPT !.owner = "ota", !.updating = TRUE]
    BY DEF BeginOta, OtaGuardBegin
  <2> QED BY <1>1, <2>1 DEF Served, LeaseReturned, Phase, Leases, NoLease
<1>5. todo' = [todo EXCEPT !["http"] = <<>>]
  BY <1>1, NothingGiven
<1> QED BY <1>1, <1>2, <1>3, <1>4, <1>5, RequestKeeps DEF Types

\* The error path gives the lease back, or says that it could not.
LEMMA Released ==
    ASSUME Types, ErrorAfterRelease
    PROVE  pc' = "idle" /\ LeaseReturned' /\ lease' \in Leases
<1>1. /\ pc' = "idle"
      /\ lease' = NoLease \/ lease' = [lease EXCEPT !.failed = TRUE, !.updating = FALSE]
  BY DEF ErrorAfterRelease
<1>2. lease \in Leases
  BY DEF Types
<1>3. CASE lease' = NoLease
  BY <1>1, <1>3 DEF Leases, NoLease, LeaseReturned
<1>4. CASE lease' = [lease EXCEPT !.failed = TRUE, !.updating = FALSE]
  <2>1. lease'.failed = TRUE /\ lease'.updating = FALSE
    BY <1>2, <1>4 DEF Leases
  <2>2. lease' \in Leases
    BY <1>2, <1>4 DEF Leases
  <2> QED BY <1>1, <2>1, <2>2 DEF LeaseReturned
<1> QED BY <1>1, <1>3, <1>4

LEMMA FailsKeeps == ASSUME IInv, OtaFails \/ WwwFails PROVE IInv'
<1>1. /\ UNCHANGED <<cache, flash, queue, todo, lock, lost, slot, boot, running>>
      /\ pc \in {"ota", "www"} /\ Types /\ Phased /\ ErrorAfterRelease
  BY DEF OtaFails, WwwFails, IInv
<1>2. pc' = "idle" /\ LeaseReturned' /\ lease' \in Leases
  BY <1>1, Released
<1>3. todo["http"] = <<>> /\ boot = running /\ slot[running] \in Firmware
  BY <1>1 DEF Phased
<1>4. Served /\ Served' /\ pc' \in Phase
  BY <1>1, <1>2 DEF Served, Phase
<1>5. todo' = [todo EXCEPT !["http"] = <<>>]
  BY <1>1, <1>3, NothingGiven
<1> QED BY <1>1, <1>2, <1>3, <1>4, <1>5, RequestKeeps DEF Types

LEMMA OtaCompletesKeeps == ASSUME IInv, NEW f \in Firmware, OtaCompletes(f) PROVE IInv'
<1>1. /\ UNCHANGED <<cache, flash, queue, lock, lost, running>>
      /\ slot' = [slot EXCEPT ![UpdatePartition] = f] /\ boot' = UpdatePartition
      /\ pc = "ota" /\ pc' = "rebooting" /\ Types /\ Phased
      /\ todo' = [todo EXCEPT !["http"] = <<Clear, Unstamp>>]
  BY DEF OtaCompletes, IInv, Reset, Clear, Unstamp
<1>2. todo["http"] = <<>>
  BY <1>1 DEF Phased
<1>3. /\ slot' \in [Partitions -> Firmware \union {Absent, "partial"}]
      /\ slot'[running] = slot[running] /\ slot'[boot'] \in Firmware /\ boot' \in Partitions
  BY <1>1, OtherPartition DEF Types
<1>4. lease' \in Leases
  BY <1>1 DEF OtaCompletes, OtaGuardRetain, Types, Leases
<1>5. Served /\ Served' /\ LeaseReturned' /\ pc' \in Phase
  BY <1>1 DEF Served, LeaseReturned, Phase
<1> QED BY <1>1, <1>2, <1>3, <1>4, <1>5, RequestKeeps

LEMMA BeginWwwKeeps == ASSUME IInv, BeginWww PROVE IInv'
<1>1. /\ UNCHANGED <<cache, flash, queue, todo, lock, lost, slot, boot, running>>
      /\ lease' = [NoLease EXCEPT !.owner = "ota", !.updating = TRUE]
      /\ pc = "idle" /\ pc' = "www" /\ todo["http"] = <<>> /\ Types /\ Phased
  BY DEF BeginWww, OtaGuardBegin, IInv
<1>2. boot = running /\ slot[running] \in Firmware
  BY <1>1 DEF Phased
<1>3. Served /\ Served' /\ LeaseReturned' /\ pc' \in Phase /\ lease' \in Leases
  BY <1>1 DEF Served, LeaseReturned, Phase, Leases, NoLease
<1>4. todo' = [todo EXCEPT !["http"] = <<>>]
  BY <1>1, NothingGiven
<1> QED BY <1>1, <1>2, <1>3, <1>4, RequestKeeps DEF Types

LEMMA WwwCompletesKeeps == ASSUME IInv, WwwCompletes PROVE IInv'
<1>1. /\ UNCHANGED <<cache, flash, queue, lock, lost, slot, boot, running>>
      /\ pc = "www" /\ pc' = "rebooting" /\ Types /\ Phased
      /\ todo' = [todo EXCEPT !["http"] = <<TurnOn>>]
  BY DEF WwwCompletes, IInv, TurnOn
<1>2. todo["http"] = <<>> /\ slot[boot] \in Firmware
  BY <1>1 DEF Phased
<1>3. lease' \in Leases
  BY <1>1 DEF WwwCompletes, OtaGuardRetain, Types, Leases
<1>4. Served /\ Served' /\ LeaseReturned' /\ pc' \in Phase
  BY <1>1 DEF Served, LeaseReturned, Phase
<1> QED BY <1>1, <1>2, <1>3, <1>4, RequestKeeps DEF Types

LEMMA PostBootKeeps == ASSUME IInv, NEW s \in Partitions, PostBoot(s) PROVE IInv'
<1>1. /\ UNCHANGED <<cache, flash, queue, lock, lost, slot, running>>
      /\ pc = "idle" /\ todo["http"] = <<>> /\ Types /\ Phased
  BY DEF PostBoot, IInv
<1>2. Served /\ boot = running /\ slot[boot] \in Firmware
  BY <1>1 DEF Served, Phased
<1>3. CASE slot[s] \in Firmware
  <2>1. /\ boot' = s /\ pc' = "rebooting"
        /\ todo' = [todo EXCEPT !["http"] = <<Clear, Unstamp>>]
        /\ lease' = [NoLease EXCEPT !.owner = "restart", !.kept = TRUE]
    BY <1>3 DEF PostBoot, Reset, Clear, Unstamp
  <2>2. Served' /\ LeaseReturned' /\ pc' \in Phase /\ lease' \in Leases
    BY <2>1 DEF Served, LeaseReturned, Phase, Leases, NoLease
  <2> QED BY <1>1, <1>2, <1>3, <2>1, <2>2, RequestKeeps DEF Types
<1>4. CASE slot[s] \notin Firmware
  <2>1. UNCHANGED <<boot, todo>> /\ ErrorAfterRelease
    BY <1>4 DEF PostBoot
  <2>2. pc' = "idle" /\ LeaseReturned' /\ lease' \in Leases
    BY <1>1, <2>1, Released
  <2>3. Served' /\ pc' \in Phase
    BY <2>2 DEF Served, Phase
  <2>4. todo' = [todo EXCEPT !["http"] = <<>>]
    BY <1>1, <2>1, NothingGiven
  <2> QED BY <1>1, <1>2, <2>1, <2>2, <2>3, <2>4, RequestKeeps DEF Types
<1> QED BY <1>3, <1>4

LEMMA PostRestartKeeps == ASSUME IInv, PostRestart PROVE IInv'
<1>1. /\ UNCHANGED <<cache, flash, queue, todo, lock, lost, slot, boot, running>>
      /\ lease' = [NoLease EXCEPT !.owner = "restart", !.kept = TRUE]
      /\ pc = "idle" /\ pc' = "rebooting" /\ todo["http"] = <<>> /\ Types /\ Phased
  BY DEF PostRestart, IInv
<1>2. slot[boot] \in Firmware
  BY <1>1 DEF Phased
<1>3. Served /\ Served' /\ LeaseReturned' /\ pc' \in Phase /\ lease' \in Leases
  BY <1>1 DEF Served, LeaseReturned, Phase, Leases, NoLease
<1>4. todo' = [todo EXCEPT !["http"] = <<>>]
  BY <1>1, NothingGiven
<1> QED BY <1>1, <1>2, <1>3, <1>4, RequestKeeps DEF Types

-----------------------------------------------------------------------------
(* Booting *)

\* Before the settings are read nothing is under way, and flash is all there is.
LEMMA Down ==
    ASSUME IInv, pc' \in {"boot", "migrating"}, queue' = <<>>, lock' = Nobody, lease' = NoLease,
           todo' = [t \in Tasks |-> <<>>], lost' = lost, slot' = slot, boot' = boot,
           running' = boot, cache' \in [Keys -> Stored], cache'["custom"] \in {Absent, Off} \union Firmware,
           flash' \in [Keys -> Stored], flash'["custom"] = flash["custom"],
           flash'["fingerprint"] = flash["fingerprint"]
    PROVE  IInv'
<1>1. Types /\ Phased
  BY DEF IInv
<1>2. <<>> \in MainTodos' /\ <<>> \in HttpTodos' /\ <<>> \in PowerTodos' /\ queue' \in Seq(Updates')
  BY DEF MainTodos, HttpTodos, PowerTodos
<1>3. todo'["main"] = <<>> /\ todo'["http"] = <<>> /\ todo'["power"] = <<>>
  BY DEF Tasks
<1>4. Types'
  <2>1. lease' \in Leases' /\ pc' \in Phase' /\ lock' \in (Tasks \union {Nobody})'
    BY DEF Leases, NoLease, Phase
  <2>2. todo' \in [Tasks -> Todos']
    BY <1>2 DEF Todos
  <2> QED BY <1>1, <1>2, <1>3, <2>1, <2>2 DEF Types
<1>5. Phased'
  BY <1>1, <1>3 DEF Phased, Up, Served
<1>6. LeaseReturned' /\ Locked'
  BY <1>3 DEF LeaseReturned, Locked, Queueing, Tasks
<1>7. ~Up' /\ ~Served' /\ pc' # "starting"
  BY DEF Up, Served
<1>8. Followed' /\ CacheAgrees' /\ StampComes'
  BY <1>7 DEF Followed, CacheAgrees, StampComes
<1>9. FlashAgrees'
  BY DEF IInv, FlashAgrees
<1>10. ClearedFirst'
  <2>1. DOMAIN queue' = {}
    BY EmptySeq
  <2>2. <<>> \notin Alone(Stamp)'
    BY Singles DEF Alone
  <2> QED BY <1>3, <2>1, <2>2 DEF ClearedFirst
<1> QED BY <1>4, <1>5, <1>6, <1>8, <1>9, <1>10 DEF IInv

LEMMA MigrateKeeps == ASSUME IInv, MigrateLegacyPools PROVE IInv'
<1>1. /\ pc \in {"boot", "migrating"} /\ pc' \in {"boot", "migrating"}
      /\ UNCHANGED <<cache, queue, todo, lock, lost, slot, boot, running, lease>>
      /\ \E k \in {"pool1", "pool2"} : flash' = [flash EXCEPT ![k] = "legacy"]
  BY DEF MigrateLegacyPools
<1>2. Types /\ Phased /\ ~Up /\ ~Served /\ pc # "starting" /\ pc # "rebooting"
  BY <1>1 DEF IInv, Up, Served
<1>3. /\ queue' = <<>> /\ lock' = Nobody /\ lease' = NoLease /\ boot = running
      /\ todo["main"] = <<>> /\ todo["http"] = <<>> /\ todo["power"] = <<>>
  BY <1>1, <1>2 DEF Phased
<1>4. todo' = [t \in Tasks |-> <<>>]
  BY <1>1, <1>2, <1>3 DEF Types, Tasks
<1>5. /\ flash' \in [Keys -> Stored] /\ flash'["custom"] = flash["custom"]
      /\ flash'["fingerprint"] = flash["fingerprint"]
  BY <1>1, <1>2 DEF Types, Keys, Stored
<1> QED BY <1>1, <1>2, <1>3, <1>4, <1>5, Down DEF Types

LEMMA RestartKeeps == ASSUME IInv, Restart PROVE IInv'
<1>1. /\ pc' = "boot" /\ running' = boot /\ cache' = [k \in Keys |-> Absent] /\ queue' = <<>>
      /\ todo' = [t \in Tasks |-> <<>>] /\ lock' = Nobody /\ lease' = NoLease
      /\ UNCHANGED <<flash, lost, slot, boot>> /\ Types
  BY DEF Restart, IInv
<1>2. cache' \in [Keys -> Stored] /\ cache'["custom"] \in {Absent, Off} \union Firmware
  BY <1>1 DEF Stored, Keys
<1> QED BY <1>1, <1>2, Down DEF Types

\* SYSTEM_check_firmware_migration gives app_main nothing to do, the fingerprint, or the
\* fingerprint after the interface is turned off.
LEMMA Migration ==
    ASSUME NEW values
    PROVE  LET s == CheckFirmwareMigration(values, Build)
           IN \/ values["fingerprint"] = Build /\ s = <<>>
              \/ values["fingerprint"] # Build /\ values["custom"] \notin Firmware /\ s = <<Stamp>>
              \/ values["fingerprint"] # Build /\ values["custom"] \in Firmware /\ s = <<Clear, Stamp>>
<1>1. <<>> \o <<Stamp>> = <<Stamp>>
  BY ConcatEmptySeq, <<Stamp>> \in Seq({Stamp})
<1>2. <<Clear>> \o <<Stamp>> = <<Clear, Stamp>>
  BY Pairs
<1> QED BY <1>1, <1>2 DEF CheckFirmwareMigration, Stamp, Clear

LEMMA NvsConfigInitKeeps == ASSUME IInv, NvsConfigInit PROVE IInv'
<1>1. /\ pc = "boot" /\ pc' = "starting" /\ cache' = flash
      /\ todo' = [todo EXCEPT !["main"] = CheckFirmwareMigration(flash, Build)]
      /\ UNCHANGED <<flash, queue, lock, lost, slot, boot, running, lease>>
      /\ Types /\ Phased /\ Build' = Build
  BY DEF NvsConfigInit, IInv, Build
<1>2. /\ queue = <<>> /\ lock = Nobody /\ lease = NoLease /\ DOMAIN queue = {}
      /\ todo["http"] = <<>> /\ todo["power"] = <<>> /\ boot = running /\ Build \in Firmware
  BY <1>1, EmptySeq DEF Phased, Up, Served, Build
<1>3. PICK s : /\ s = CheckFirmwareMigration(flash, Build)
               /\ \/ flash["fingerprint"] = Build /\ s = <<>>
                  \/ flash["fingerprint"] # Build /\ flash["custom"] \notin Firmware /\ s = <<Stamp>>
                  \/ flash["fingerprint"] # Build /\ flash["custom"] \in Firmware /\ s = <<Clear, Stamp>>
  BY Migration
<1>4. /\ todo'["main"] = s /\ todo'["http"] = <<>> /\ todo'["power"] = <<>>
      /\ \A t \in Tasks : todo'[t] \in {s, <<>>}
  BY <1>1, <1>2, <1>3 DEF Types, Tasks
<1>5. s \in MainTodos /\ (s = <<>> \/ Len(Head(s)) # 3)
  <2>1. {<<>>, <<Stamp>>, <<Clear, Stamp>>} \subseteq MainTodos
    BY DEF MainTodos, Alone, Twice
  <2>2. Len(Stamp) # 3 /\ Len(Clear) # 3
    BY Marked, Distinct
  <2>3. Head(<<Stamp>>) = Stamp /\ Head(<<Clear, Stamp>>) = Clear
    BY Singles, Pairs
  <2> QED BY <1>3, <2>1, <2>2, <2>3
<1>6. Types'
  <2>1. todo' \in [Tasks -> Todos]
    BY <1>1, <1>3, <1>5 DEF Types, Todos
  <2>2. todo'["http"] \in HttpTodos /\ todo'["power"] \in PowerTodos
    BY <1>4 DEF HttpTodos, PowerTodos
  <2>3. pc' \in Phase
    BY <1>1 DEF Phase
  <2> QED BY <1>1, <1>4, <1>5, <2>1, <2>2, <2>3, SameLists DEF Types
<1>7. Phased'
  BY <1>1, <1>2, <1>4 DEF Phased, Up, Served
<1>8. \A t \in Tasks : ~Queueing(t)'
  BY <1>4, <1>5 DEF Queueing
<1>9. LeaseReturned' /\ Locked'
  BY <1>1, <1>8 DEF LeaseReturned, Locked
<1>10. Followed'
  BY <1>1, <1>2, <1>8 DEF Followed
<1>11. FlashAgrees'
  BY <1>1 DEF IInv, FlashAgrees
<1>12. StampComes'
  <2>1. Foreign(flash["fingerprint"]) => todo'["main"] # <<>>
    BY <1>3, <1>4, Singles, Pairs DEF Foreign
  <2>2. ~Served'
    BY <1>1 DEF Served
  <2>3. Foreign(flash["fingerprint"])' = Foreign(flash["fingerprint"])
    BY <1>1 DEF Foreign
  <2> QED BY <2>1, <2>2, <2>3 DEF StampComes
<1>13. ClearedFirst'
  <2>1. Foreign(flash["custom"]) => s \notin Alone(Stamp)
    <3>1. <<>> \notin Alone(Stamp) /\ <<Clear, Stamp>> \notin Alone(Stamp)
      BY Forms, Distinct, Singles DEF Alone
    <3> QED BY <1>3, <3>1 DEF Foreign
  <2>2. Foreign(flash["custom"])' = Foreign(flash["custom"]) /\ Alone(Stamp)' = Alone(Stamp)
    BY <1>1 DEF Foreign, Alone, Waiting, Stamp
  <2>3. DOMAIN queue' = {}
    BY <1>1, <1>2
  <2> QED BY <1>4, <2>1, <2>2, <2>3 DEF ClearedFirst
<1>14. CacheAgrees'
  <2>1. ASSUME Foreign(flash["custom"])
        PROVE  s = <<Clear, Stamp>> \/ {"custom", "fingerprint"} \intersect lost # {}
    BY <1>2, <1>3, <2>1 DEF IInv, FlashAgrees, Foreign
  <2>2. <<>> \notin Alone(Unstamp)'
    BY Singles DEF Alone
  <2>3. (<<Clear, Stamp>>)' = <<Clear, Stamp>> /\ Foreign(cache["custom"])' = Foreign(flash["custom"])
    BY <1>1 DEF Clear, Stamp, Foreign
  <2>4. DOMAIN queue' = {}
    BY <1>1, <1>2
  <2> QED BY <1>1, <1>4, <2>1, <2>2, <2>3, <2>4 DEF CacheAgrees
<1> QED BY <1>6, <1>7, <1>9, <1>10, <1>11, <1>12, <1>13, <1>14 DEF IInv

LEMMA AppMainKeeps == ASSUME IInv, AppMain PROVE IInv'
<1>1. /\ pc = "starting" /\ pc' = "idle" /\ todo["main"] = <<>>
      /\ UNCHANGED <<cache, flash, queue, todo, lock, lost, slot, boot, running, lease>>
      /\ Types /\ Phased /\ Build' = Build
  BY DEF AppMain, IInv, Build
<1>2. Up /\ Up' /\ ~Served
  BY <1>1 DEF Up, Served
<1>3. lease = NoLease
  BY <1>1, <1>2 DEF Phased
<1>4. Types'
  <2>1. pc' \in Phase
    BY <1>1 DEF Phase
  <2> QED BY <1>1, <2>1, SameLists DEF Types
<1>5. Phased'
  BY <1>1, <1>2 DEF Phased
<1>6. LeaseReturned'
  BY <1>1, <1>3 DEF LeaseReturned, NoLease
<1>7. Locked' /\ FlashAgrees'
  BY <1>1 DEF IInv, Locked, Queueing, FlashAgrees
<1>8. Followed'
  <2>1. \A t \in Tasks : Queueing(t)' = Queueing(t)
    BY <1>1 DEF Queueing
  <2>2. \A k : InHand(k)' = InHand(k) /\ Queued(k)' = Queued(k)
    BY <1>1 DEF InHand, Queueing, Queued
  <2>3. \A i : Newest(i)' = Newest(i) /\ InHand(queue[i][1])' = InHand(queue[i][1])
    BY <1>1 DEF Newest, InHand, Queueing
  <2> QED BY <1>1, <1>2, <2>1, <2>2, <2>3 DEF IInv, Followed
<1>9. StampComes'
  <2>1. ASSUME Foreign(flash["fingerprint"]), "fingerprint" \notin lost
        PROVE  \E i \in DOMAIN queue : /\ queue[i][1] = "fingerprint"
                                       /\ \A j \in 1 .. i - 1 : queue[j] # TurnOn
    <3>1. Queued("fingerprint")
      BY <1>1, <2>1 DEF IInv, StampComes
    <3>2. PICK i \in DOMAIN queue : queue[i][1] = "fingerprint"
      BY <3>1 DEF Queued
    <3>3. 1 .. i - 1 \subseteq DOMAIN queue
      BY <1>1, LenProperties DEF Types
    <3>4. \A j \in 1 .. i - 1 : queue[j] # TurnOn
      BY <1>1, <3>3 DEF Phased
    <3> QED BY <3>2, <3>4
  <2> QED BY <1>1, <2>1, SameLists DEF StampComes
<1>10. ClearedFirst'
  <2>1. Foreign(flash["custom"])' = Foreign(flash["custom"]) /\ Alone(Stamp)' = Alone(Stamp)
    BY <1>1 DEF Foreign, Alone, Waiting, Stamp
  <2>2. Queued("custom")' = Queued("custom")
    BY <1>1 DEF Queued
  <2> QED BY <1>1, <2>1, <2>2, SameLists DEF IInv, ClearedFirst
<1>11. CacheAgrees'
  <2>1. Foreign(cache["custom"])' = Foreign(cache["custom"])
    BY <1>1 DEF Foreign
  <2>2. Alone(Unstamp)' = Alone(Unstamp) /\ (<<Clear, Stamp>>)' = <<Clear, Stamp>> /\ Unstamp' = Unstamp
    BY <1>1 DEF Alone, Waiting, Unstamp, Clear, Stamp
  <2> QED BY <1>1, <1>2, <2>1, <2>2 DEF IInv, CacheAgrees
<1> QED BY <1>4, <1>5, <1>6, <1>7, <1>8, <1>9, <1>10, <1>11 DEF IInv

LEMMA InitHolds == Init => IInv
<1> SUFFICES ASSUME Init PROVE IInv
  OBVIOUS
<1>1. /\ todo = [t \in Tasks |-> <<>>] /\ queue = <<>> /\ lock = Nobody /\ lost = {} /\ pc = "boot"
      /\ boot = FirstPartition /\ running = FirstPartition /\ lease = NoLease
      /\ cache = [k \in Keys |-> Absent]
      /\ flash["custom"] = Absent /\ flash["fingerprint"] = Absent
      /\ slot = [s \in Partitions |-> IF s = FirstPartition THEN Shipped ELSE Absent]
  BY DEF Init, Keys
<1>2. flash \in [Keys -> Stored]
  BY DEF Init, Keys, Stored
<1>3. todo["main"] = <<>> /\ todo["http"] = <<>> /\ todo["power"] = <<>>
  BY <1>1 DEF Tasks
<1>4. <<>> \in MainTodos /\ <<>> \in HttpTodos /\ <<>> \in PowerTodos /\ queue \in Seq(Updates)
  BY <1>1 DEF MainTodos, HttpTodos, PowerTodos
<1>5. Types
  <2>1. lease \in Leases /\ pc \in Phase /\ lock \in Tasks \union {Nobody}
    BY <1>1 DEF Leases, NoLease, Phase
  <2>2. cache \in [Keys -> Stored] /\ cache["custom"] = Absent
    BY <1>1 DEF Stored, Keys
  <2>3. slot \in [Partitions -> Firmware \union {Absent, "partial"}] /\ boot \in Partitions
    BY <1>1, SettingsAssumption
  <2>4. todo \in [Tasks -> Todos]
    BY <1>1, <1>4 DEF Todos
  <2> QED BY <1>1, <1>2, <1>3, <1>4, <2>1, <2>2, <2>3, <2>4 DEF Types
<1>6. Phased
  BY <1>1, <1>3, SettingsAssumption DEF Phased, Up, Served
<1>7. LeaseReturned /\ Locked
  BY <1>1, <1>3 DEF LeaseReturned, Locked, Queueing, Tasks
<1>8. Followed /\ CacheAgrees /\ StampComes /\ FlashAgrees
  BY <1>1, SettingsAssumption
  DEF Followed, CacheAgrees, StampComes, FlashAgrees, Up, Served, Absent
<1>9. ClearedFirst
  BY <1>1, WwwUpdates, Distinct DEF ClearedFirst
<1> QED BY <1>5, <1>6, <1>7, <1>8, <1>9 DEF IInv

-----------------------------------------------------------------------------
(* The theorems *)

LEMMA SettersKeep ==
    ASSUME IInv, NEW t \in Tasks, BeginSet(t) \/ Enqueue(t)
    PROVE  IInv'
<1>1. CASE BeginSet(t)
  <2>1. Types' /\ Locked' /\ Followed'
    BY <1>1, BeginSetTyped, BeginSetFollows DEF IInv
  <2> QED BY <1>1, <2>1, BeginSetAgrees DEF IInv
<1>2. CASE Enqueue(t)
  <2>1. Types' /\ Locked' /\ Followed'
    BY <1>2, EnqueueTyped, EnqueueFollows DEF IInv
  <2> QED BY <1>2, <2>1, EnqueueAgrees DEF IInv
<1> QED BY <1>1, <1>2

LEMMA NvsTaskKeeps == ASSUME IInv, NvsTask PROVE IInv'
<1>1. Types' /\ Locked' /\ Followed'
  BY NvsTaskTyped, NvsTaskFollows DEF IInv
<1> QED BY <1>1, NvsTaskAgrees DEF IInv

LEMMA StutterKeeps == ASSUME IInv, UNCHANGED vars PROVE IInv'
<1>1. Types' /\ Phased' /\ LeaseReturned'
  <2>1. Build' = Build
    BY DEF vars, Build
  <2> QED BY <2>1, SameLists DEF vars, IInv, Types, Phased, LeaseReturned, Up, Served
<1>2. Locked' /\ Followed' /\ FlashAgrees'
  BY DEF vars, IInv, Locked, Followed, FlashAgrees, Up, Queueing, InHand, Queued, Newest
<1>3. StampComes' /\ ClearedFirst' /\ CacheAgrees'
  BY DEF vars, IInv, StampComes, ClearedFirst, CacheAgrees, Up, Served, Queued, Alone, Waiting,
         Clear, Stamp, Unstamp, TurnOn, Foreign, Build
<1> QED BY <1>1, <1>2, <1>3 DEF IInv

LEMMA StepKeeps == IInv /\ [Next]_vars => IInv'
<1> SUFFICES ASSUME IInv, [Next]_vars PROVE IInv'
  OBVIOUS
<1>1. CASE MigrateLegacyPools
  BY <1>1, MigrateKeeps
<1>2. CASE NvsConfigInit
  BY <1>2, NvsConfigInitKeeps
<1>3. CASE AppMain
  BY <1>3, AppMainKeeps
<1>4. CASE NvsTask
  BY <1>4, NvsTaskKeeps
<1>5. CASE \E t \in Tasks : BeginSet(t) \/ Enqueue(t)
  BY <1>5, SettersKeep
<1>6. CASE \E v \in {"set", "clear"} : StoreMarker(v)
  BY <1>6, StoreMarkerKeeps
<1>7. CASE Patch
  BY <1>7, PatchKeeps
<1>8. CASE BeginOta
  BY <1>8, BeginOtaKeeps
<1>9. CASE OtaFails \/ WwwFails
  BY <1>9, FailsKeeps
<1>10. CASE \E f \in Firmware : OtaCompletes(f)
  BY <1>10, OtaCompletesKeeps
<1>11. CASE BeginWww
  BY <1>11, BeginWwwKeeps
<1>12. CASE WwwCompletes
  BY <1>12, WwwCompletesKeeps
<1>13. CASE \E s \in Partitions : PostBoot(s)
  BY <1>13, PostBootKeeps
<1>14. CASE PostRestart
  BY <1>14, PostRestartKeeps
<1>15. CASE Restart
  BY <1>15, RestartKeeps
<1>16. CASE UNCHANGED vars
  BY <1>16, StutterKeeps
<1> QED BY <1>1, <1>2, <1>3, <1>4, <1>5, <1>6, <1>7, <1>8, <1>9, <1>10, <1>11, <1>12, <1>13,
           <1>14, <1>15, <1>16 DEF Next

\* IInv is inductive: it holds in every state the device can reach, for any builds, any
\* length of the queue and any lost writes.
THEOREM Invariant == Spec => []IInv
<1> QED BY InitHolds, StepKeeps, PTL DEF Spec

\* A drained queue has left nothing behind: with several tasks setting the same keys, flash
\* still ends with what the cache says, except for the keys whose write failed
\* (nvs_config_set_*, nvs_task).
LEMMA FlashCatchesUp == IInv => FlashFollowsCache
<1> SUFFICES ASSUME IInv, pc \notin {"boot", "migrating"}, queue = <<>>,
                    \A t \in Tasks : ~Queueing(t), NEW k \in Keys \ lost
             PROVE  flash[k] = cache[k]
  BY DEF FlashFollowsCache
<1>1. ~InHand(k)
  BY DEF InHand
<1>2. ~Queued(k)
  BY EmptySeq DEF Queued
<1> QED BY <1>1, <1>2 DEF IInv, Followed, Up

\* Once the services run the cache holds no interface of another build
\* (SYSTEM_check_firmware_migration).
LEMMA CacheMatches == IInv => MatchingWebUi
<1> SUFFICES ASSUME IInv, Served, {"custom", "fingerprint"} \intersect lost = {}
             PROVE  cache["custom"] \in {Off, Absent, Build}
  BY DEF MatchingWebUi, Served
<1>1. Up /\ todo["main"] = <<>> /\ cache["custom"] \in {Absent, Off} \union Firmware
  BY DEF IInv, Types, Phased, Up, Served
<1>2. <<>> # <<Clear, Stamp>>
  BY Pairs
<1>3. ~Foreign(cache["custom"])
  BY <1>1, <1>2 DEF IInv, CacheAgrees
<1> QED BY <1>1, <1>3 DEF Foreign

\* Whatever restart, failed write or failed request comes when: flash ends with the cache,
\* a custom interface is only served under the build it was turned on under, the partition
\* to boot holds a complete image, and a request that ended gave its lease back
\* (nvs_config.c, POST_OTA_update, POST_WWW_update, POST_system_boot, bzm_ota_guard.c).
THEOREM SettingsAreSafe == Spec => []SettingsSurvive
<1>1. IInv => SettingsSurvive
  <2>1. IInv => BootableImage /\ LeaseReturned
    BY DEF IInv, Phased, BootableImage
  <2> QED BY <2>1, FlashCatchesUp, CacheMatches DEF SettingsSurvive
<1> QED BY <1>1, Invariant, PTL
=============================================================================
