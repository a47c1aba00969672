-------------------------- MODULE BzmDriverProofs --------------------------
(***************************************************************************)
(* Proofs, for any number of engines, length of the sequence space, size of *)
(* the job store, the result ring and the duplicate cache, that the Bonanza *)
(* driver attributes every result to the work that produced it, counts no   *)
(* genuine result as corruption, can find the job of every engine that      *)
(* works for the current pool job, reports a replacement complete only when *)
(* it is, and credits a share of the current generation once.               *)
(***************************************************************************)
EXTENDS BzmDriver, SequenceTheorems, TLAPS

-----------------------------------------------------------------------------
(* The inductive invariant, in parts *)

Stores == [entries : [Slots -> Entries], nextSlot : Slots, nextGeneration : Nat]

Reactors == [current : [Engines -> Assignments], previous : [Engines -> Assignments],
             nextSequence : [Engines -> 0 .. SequenceSpace],
             retired : [Engines -> SUBSET Sequences], nextEngine : Engines, epoch : Nat,
             flushPending : BOOLEAN, flushComplete : BOOLEAN, quarantined : BOOLEAN]

Budgets == [fast : 0 .. EngineCount, fresh : SUBSET Engines, disturbed : BOOLEAN,
            report : {"none", "full", "interrupted"}]

Chips == [Engines -> [new : Works, old : Works]]

Creators == [pc : {"wait", "check", "send"}, gen : 0 .. MaxPool, clean : BOOLEAN,
             n : 0 .. Variants - 1]

\* What every variable may hold: TypeOK with the fields it leaves out; no
\* replacement is reported complete that did not cover the engines.
Types ==
    /\ store \in Stores /\ reactor \in Reactors /\ dispatch \in Budgets /\ chip \in Chips
    /\ running \in BOOLEAN /\ rejections \in 0 .. 1
    /\ transit \in Seq(Results) /\ Len(transit) <= MaxTransit
    /\ pending \in Seq(Results) /\ Len(pending) <= PendingCapacity
    /\ dedup \in Seq(Jobs) /\ credited \in Seq(Jobs)
    /\ poolGen \in 0 .. MaxPool /\ published \in 0 .. MaxPool
    /\ cleaner \in {"idle", "clear", "store"} /\ creator \in Creators

\* The assignments of an engine flush while, and only while, a flush is pending;
\* none is of an epoch to come.
Settled(r, a) == a.active => /\ r.flushPending => a.flushing
                             /\ ~r.flushPending => ~a.flushing
                             /\ a.epoch <= r.epoch
Flushes(r) ==
    /\ r.flushComplete => r.flushPending
    /\ \A e \in Engines : Settled(r, r.current[e]) /\ Settled(r, r.previous[e])

\* The reactor knows the work w of engine e (or a result of that work): its
\* sequence was issued to the engine, is not forgotten, and stands for no other
\* work.
Known(r, e, w) ==
    /\ w.seq < r.nextSequence[e]
    /\ r.current[e].active /\ r.current[e].seq = w.seq => r.current[e].handle = w.handle
    /\ r.previous[e].active /\ r.previous[e].seq = w.seq => r.previous[e].handle = w.handle
    /\ w.seq \in r.retired[e] \union SequenceOf(r.current[e]) \union SequenceOf(r.previous[e])

\* Unless a flush is pending, the reactor hands out sequences in order, and knows
\* what the chips run and every result under way, but for those from before a
\* flush, and these are quarantined.
Trusted(r, c, results) ==
    ~r.flushPending =>
        /\ \A e \in Engines : r.current[e].active => r.current[e].seq < r.nextSequence[e]
        /\ \A e \in Engines : /\ c[e].new.active => Known(r, e, c[e].new)
                              /\ c[e].old.active => Known(r, e, c[e].old)
        /\ \A res \in results : /\ res.overdue => r.quarantined
                                /\ ~res.overdue => Known(r, res.engine, res)

\* A handle was issued by the store once, and stands for one current assignment
\* or for previous ones.
Issued(r, st) ==
    /\ \A e \in Engines :
          /\ r.current[e].active => r.current[e].handle.generation < st.nextGeneration
          /\ r.previous[e].active => r.previous[e].handle.generation < st.nextGeneration
    /\ \A e, f \in Engines :
          /\ r.current[e].active /\ r.current[f].active
               /\ r.current[e].handle = r.current[f].handle => e = f
          /\ r.current[e].active /\ r.previous[f].active
               => r.current[e].handle # r.previous[f].handle

\* How many steps of a cursor over 0 .. n - 1 that stands at from it takes to
\* reach x.
Ahead(x, from, n) == IF x >= from THEN x - from ELSE x - from + n

\* An engine holds work that may still earn shares.
Live(r, c, gen, e) ==
    LET a == r.current[e]
    IN  a.active /\ ~a.flushing /\ a.epoch = r.epoch
          /\ c[e].new.active /\ c[e].new.job.gen = gen

\* The rotation returns to an engine before the cursor of the store returns to
\* the slot of its job.
Rotates(r, st, c, gen) ==
    \A e \in Engines : Live(r, c, gen, e) =>
        /\ Contains(st, r.current[e].handle)
        /\ Ahead(e, r.nextEngine, EngineCount)
             <= Ahead(r.current[e].handle.slot, st.nextSlot, Capacity)

\* An undisturbed replacement still reaches every engine it has not given new
\* work.
Covers(r, d) ==
    d.fast # 0 /\ ~d.disturbed =>
        \A e \in Engines : e \in d.fresh \/ Ahead(e, r.nextEngine, EngineCount) < d.fast

\* No job is newer than the creator's, the creator's no newer than the one
\* published; while the queue is cleaned everything published is out of date, and
\* while a clean flag has not been sent nothing in the store is current.
Dated(st, c, made, gen, clean) ==
    /\ \A e \in Engines : /\ c[e].new.active => c[e].new.job.gen <= made
                          /\ c[e].old.active => c[e].old.job.gen <= made
    /\ \A s \in Slots : st.entries[s].valid =>
          st.entries[s].job.gen <= made /\ (clean => st.entries[s].job.gen < gen)
Generations ==
    /\ creator.gen <= published /\ published <= poolGen
    /\ cleaner # "idle" => published < poolGen
    /\ creator.pc # "wait" => creator.gen >= 1
    /\ Dated(store, chip, creator.gen, poolGen, creator.clean)
    /\ \A i \in 1 .. Len(credited) :
          credited[i].gen <= creator.gen /\ (creator.clean => credited[i].gen < poolGen)

\* The duplicate cache ends as the list of credited shares does; what it has
\* forgotten of that list is out of date.
Window(known, given, gen) ==
    /\ Len(known) <= Len(given) /\ Len(given) <= DedupCapacity
    /\ \A i \in 1 .. Len(known) : known[i] = given[Len(given) - Len(known) + i]
    /\ \A i \in 1 .. Len(given) - Len(known) : given[i].gen < gen

IInv ==
    /\ Types /\ Flushes(reactor) /\ Trusted(reactor, chip, ResultsInFlight)
    /\ Issued(reactor, store) /\ Rotates(reactor, store, chip, poolGen)
    /\ Covers(reactor, dispatch) /\ Generations /\ Window(dedup, credited, poolGen)

-----------------------------------------------------------------------------
(* Lemmas about the sequences of the driver *)

Elements(s) == {s[i] : i \in 1 .. Len(s)}

\* The results under way are those in the ring and those on the wire.
LEMMA InFlight ==
    ASSUME NEW S, NEW p \in Seq(S), NEW t \in Seq(S)
    PROVE  {p[i] : i \in DOMAIN p} \union {t[i] : i \in DOMAIN t} = Elements(p) \union Elements(t)
<1>1. DOMAIN p = 1 .. Len(p) /\ DOMAIN t = 1 .. Len(t)
  BY LenProperties
<1> QED
  BY <1>1, Zenon DEF Elements

\* A sequence over S holds elements of S.
LEMMA ElementsTyped ==
    ASSUME NEW S, NEW s \in Seq(S)
    PROVE  Elements(s) \subseteq S /\ Len(s) \in Nat /\ DOMAIN s = 1 .. Len(s)
  BY ElementOfSeq, LenProperties DEF Elements

\* Nothing is in an empty ring.
LEMMA NoElements == ASSUME NEW S PROVE <<>> \in Seq(S) /\ Len(<<>>) = 0 /\ Elements(<<>>) = {}
  BY EmptySeq DEF Elements

\* What is left behind the head was there before.
LEMMA ElementsOfTail ==
    ASSUME NEW S, NEW s \in Seq(S), s # <<>>
    PROVE  /\ Tail(s) \in Seq(S) /\ Elements(Tail(s)) \subseteq Elements(s)
           /\ Len(s) \in Nat /\ Len(s) >= 1 /\ Len(Tail(s)) = Len(s) - 1
           /\ Head(s) \in Elements(s) /\ Head(s) \in S
           /\ \A i \in 1 .. Len(s) - 1 : Tail(s)[i] = s[i + 1]
<1>1. Len(s) \in Nat /\ Len(s) >= 1
  BY EmptySeq, LenProperties
<1>2. Head(s) = s[1]
  OBVIOUS
<1>3. /\ Tail(s) \in Seq(S) /\ Head(s) \in S /\ Len(Tail(s)) = Len(s) - 1
      /\ \A i \in 1 .. Len(Tail(s)) : Tail(s)[i] = s[i + 1]
  BY HeadTailProperties
<1>4. Elements(Tail(s)) \subseteq Elements(s)
  BY <1>1, <1>3 DEF Elements
<1> QED
  BY <1>1, <1>2, <1>3, <1>4 DEF Elements

\* Appending adds one element.
LEMMA ElementsOfAppend ==
    ASSUME NEW S, NEW s \in Seq(S), NEW x \in S
    PROVE  /\ Append(s, x) \in Seq(S) /\ Elements(Append(s, x)) \subseteq Elements(s) \union {x}
           /\ Len(s) \in Nat /\ Len(Append(s, x)) = Len(s) + 1
           /\ \A i \in 1 .. Len(s) : Append(s, x)[i] = s[i]
           /\ Append(s, x)[Len(s) + 1] = x
<1>1. /\ Append(s, x) \in Seq(S) /\ Len(Append(s, x)) = Len(s) + 1
      /\ \A i \in 1 .. Len(s) : Append(s, x)[i] = s[i]
      /\ Append(s, x)[Len(s) + 1] = x
  BY AppendProperties
<1>2. Len(s) \in Nat
  BY LenProperties
<1>3. Elements(Append(s, x)) \subseteq Elements(s) \union {x}
  BY <1>1, <1>2 DEF Elements
<1> QED
  BY <1>1, <1>2, <1>3

\* A stretch of a sequence holds what the sequence holds there.
LEMMA ElementsOfSubSeq ==
    ASSUME NEW S, NEW s \in Seq(S), NEW m \in 1 .. Len(s) + 1, NEW n \in 0 .. Len(s), m <= n + 1
    PROVE  /\ SubSeq(s, m, n) \in Seq(S) /\ Elements(SubSeq(s, m, n)) \subseteq Elements(s)
           /\ Len(SubSeq(s, m, n)) = n - m + 1
           /\ \A x \in Elements(SubSeq(s, m, n)) : \E i \in m .. n : x = s[i]
<1>1. Len(s) \in Nat /\ \A i \in 1 .. Len(s) : s[i] \in S
  BY LenProperties, ElementOfSeq
<1>2. m \in Int /\ n \in Int /\ \A i \in m .. n : i \in 1 .. Len(s) /\ s[i] \in S
  BY <1>1
<1>3. /\ SubSeq(s, m, n) \in Seq(S)
      /\ Len(SubSeq(s, m, n)) = IF m <= n THEN n - m + 1 ELSE 0
      /\ \A i \in 1 .. n - m + 1 : SubSeq(s, m, n)[i] = s[m + i - 1]
  BY <1>2, SubSeqProperties
<1>4. Len(SubSeq(s, m, n)) = n - m + 1
  BY <1>2, <1>3
<1>5. \A x \in Elements(SubSeq(s, m, n)) : \E i \in m .. n : x = s[i]
  <2>1. SUFFICES ASSUME NEW j \in 1 .. n - m + 1
                 PROVE  \E i \in m .. n : SubSeq(s, m, n)[j] = s[i]
    BY <1>4 DEF Elements
  <2>2. m + j - 1 \in m .. n /\ SubSeq(s, m, n)[j] = s[m + j - 1]
    BY <1>2, <1>3
  <2> QED
    BY <2>2
<1>6. Elements(SubSeq(s, m, n)) \subseteq Elements(s)
  BY <1>2, <1>5 DEF Elements
<1> QED
  BY <1>3, <1>4, <1>5, <1>6

\* A concatenation holds what its parts hold.
LEMMA ElementsOfConcat ==
    ASSUME NEW S, NEW s \in Seq(S), NEW t \in Seq(S)
    PROVE  /\ s \o t \in Seq(S) /\ Elements(s \o t) \subseteq Elements(s) \union Elements(t)
           /\ Len(s \o t) \in Nat
<1>1. Len(s) \in Nat /\ Len(t) \in Nat
  BY LenProperties
<1>2. /\ s \o t \in Seq(S) /\ Len(s \o t) = Len(s) + Len(t)
      /\ \A i \in 1 .. Len(s) + Len(t) : (s \o t)[i] = IF i <= Len(s) THEN s[i] ELSE t[i - Len(s)]
  BY ConcatProperties
<1>3. \A i \in 1 .. Len(s) + Len(t) :
        (i \in 1 .. Len(s) /\ (s \o t)[i] = s[i])
          \/ (i - Len(s) \in 1 .. Len(t) /\ (s \o t)[i] = t[i - Len(s)])
  BY <1>1, <1>2
<1>4. Elements(s \o t) \subseteq Elements(s) \union Elements(t)
  BY <1>1, <1>2, <1>3 DEF Elements
<1> QED
  BY <1>1, <1>2, <1>4

\* queue_result_locked keeps the ring within its size and adds one result.
LEMMA EnqueueKeeps ==
    ASSUME NEW S, NEW ring \in Seq(S), NEW res \in S, Len(ring) <= PendingCapacity
    PROVE  /\ Enqueue(ring, res) \in Seq(S) /\ Len(Enqueue(ring, res)) <= PendingCapacity
           /\ Elements(Enqueue(ring, res)) \subseteq Elements(ring) \union {res}
<1>1. Len(ring) \in Nat /\ PendingCapacity \in Nat \ {0} /\ Len(<<>>) = 0
  BY LenProperties, BzmDriverAssumption, EmptySeq
<1>2. CASE Len(ring) = PendingCapacity
  <2>1. ring # <<>>
    BY <1>1, <1>2
  <2>2. /\ Tail(ring) \in Seq(S) /\ Elements(Tail(ring)) \subseteq Elements(ring)
        /\ Len(Tail(ring)) = Len(ring) - 1
    BY <2>1, ElementsOfTail
  <2>3. Enqueue(ring, res) = Append(Tail(ring), res)
    BY <1>2 DEF Enqueue
  <2> DEFINE rest == Tail(ring)
  <2> HIDE DEF rest
  <2>4. /\ Append(rest, res) \in Seq(S) /\ Len(Append(rest, res)) = Len(rest) + 1
        /\ Elements(Append(rest, res)) \subseteq Elements(rest) \union {res}
    <3>1. rest \in Seq(S)
      BY <2>2 DEF rest
    <3> QED
      BY <3>1, ElementsOfAppend
  <2> QED
    BY <1>1, <1>2, <2>2, <2>3, <2>4 DEF rest
<1>3. CASE Len(ring) # PendingCapacity
  BY <1>1, <1>3, ElementsOfAppend DEF Enqueue
<1> QED
  BY <1>2, <1>3

\* So does a whole poll.
LEMMA EnqueueAllKeeps ==
    ASSUME NEW S, NEW ring \in Seq(S), NEW results \in Seq(S)
    PROVE  /\ EnqueueAll(ring, results) \in Seq(S)
           /\ Len(EnqueueAll(ring, results)) <= PendingCapacity
           /\ Elements(EnqueueAll(ring, results)) \subseteq Elements(ring) \union Elements(results)
<1> DEFINE all == ring \o results
           extra == Len(all) - PendingCapacity
<1>1. /\ all \in Seq(S) /\ Elements(all) \subseteq Elements(ring) \union Elements(results)
      /\ Len(all) \in Nat
  BY ElementsOfConcat
<1>2. PendingCapacity \in Nat \ {0}
  BY BzmDriverAssumption
<1>3. EnqueueAll(ring, results) = IF extra > 0 THEN SubSeq(all, extra + 1, Len(all)) ELSE all
  BY DEF EnqueueAll
<1> HIDE DEF all
<1>4. CASE extra > 0
  <2>1. extra + 1 \in 1 .. Len(all) + 1 /\ Len(all) \in 0 .. Len(all) /\ extra + 1 <= Len(all) + 1
        /\ Len(all) - (extra + 1) + 1 = PendingCapacity
    BY <1>1, <1>2, <1>4
  <2> HIDE DEF extra
  <2>2. /\ SubSeq(all, extra + 1, Len(all)) \in Seq(S)
        /\ Elements(SubSeq(all, extra + 1, Len(all))) \subseteq Elements(all)
        /\ Len(SubSeq(all, extra + 1, Len(all))) = Len(all) - (extra + 1) + 1
    BY <1>1, <2>1, ElementsOfSubSeq
  <2> QED
  BY <1>1, <1>2, <1>3, <1>4, <2>1, <2>2
<1>5. CASE ~(extra > 0)
  BY <1>1, <1>2, <1>3, <1>5
<1> QED
  BY <1>4, <1>5

\* A flush makes every result on the wire overdue and loses none.
LEMMA OverdueKeeps ==
    ASSUME NEW t \in Seq(Results)
    PROVE  /\ Overdue(t) \in Seq(Results) /\ Len(Overdue(t)) = Len(t)
           /\ \A x \in Elements(Overdue(t)) : x \in Results /\ x.overdue
<1>1. Len(t) \in Nat /\ DOMAIN t = 1 .. Len(t) /\ \A i \in 1 .. Len(t) : t[i] \in Results
  BY LenProperties, ElementOfSeq
<1>2. \A i \in 1 .. Len(t) : Overdue(t)[i] \in Results /\ Overdue(t)[i].overdue
  BY <1>1 DEF Overdue, Results
<1>3. Overdue(t) \in [1 .. Len(t) -> Results]
  BY <1>1, <1>2 DEF Overdue
<1>4. Overdue(t) \in Seq(Results)
  BY <1>1, <1>3, SeqDef
<1>5. Len(Overdue(t)) = Len(t)
  BY <1>1, <1>3, <1>4, LenProperties
<1> QED
  BY <1>2, <1>4, <1>5 DEF Elements

-----------------------------------------------------------------------------
(* Lemmas about cursors and about the job store *)

\* A cursor that moves on by one gets one step nearer to everything but to where
\* it stood, which it then has to go all the way round to reach.
LEMMA CursorMoves ==
    ASSUME NEW n \in Nat \ {0}, NEW from \in 0 .. n - 1
    PROVE  /\ (from + 1) % n \in 0 .. n - 1
           /\ Ahead(from, from, n) = 0 /\ Ahead(from, (from + 1) % n, n) = n - 1
           /\ \A x \in 0 .. n - 1 :
                 /\ Ahead(x, from, n) \in 0 .. n - 1
                 /\ Ahead(x, from, n) = 0 => x = from
                 /\ x # from => Ahead(x, (from + 1) % n, n) = Ahead(x, from, n) - 1
<1>1. CASE from + 1 = n
  <2>1. (from + 1) % n = 0
    BY <1>1
  <2> QED
    BY <1>1, <2>1 DEF Ahead
<1>2. CASE from + 1 < n
  <2>1. (from + 1) % n = from + 1
    BY <1>2
  <2> QED
    BY <1>2, <2>1 DEF Ahead
<1> QED
  BY <1>1, <1>2

\* asic_job_store_store_generated: the job can be found under the handle that
\* was next; every other slot keeps its entry.
LEMMA Stored ==
    ASSUME NEW st \in Stores, NEW job \in Jobs
    PROVE  /\ StoreGenerated(st, job) \in Stores
           /\ NextHandle(st) \in Handles
           /\ NextHandle(st).generation = st.nextGeneration /\ NextHandle(st).slot = st.nextSlot
           /\ Contains(StoreGenerated(st, job), NextHandle(st))
           /\ StoreGenerated(st, job).nextGeneration = st.nextGeneration + 1
           /\ StoreGenerated(st, job).nextSlot = (st.nextSlot + 1) % Capacity
           /\ StoreGenerated(st, job).entries[st.nextSlot].job = job
           /\ \A s \in Slots : s # st.nextSlot =>
                 StoreGenerated(st, job).entries[s] = st.entries[s]
<1>1. (st.nextSlot + 1) % Capacity \in Slots
  BY CursorMoves, CapacityAssumption DEF Slots, Stores
<1>2. NextHandle(st) \in Handles
  BY DEF NextHandle, Handle, Handles, Stores
<1>3. [valid |-> TRUE, handle |-> NextHandle(st), job |-> job] \in Entries
  BY <1>2 DEF Entries
<1> QED
  BY <1>1, <1>2, <1>3 DEF StoreGenerated, Stores, Contains, NextHandle, Handle, Handles

\* asic_job_store_release: at most the slot of the handle is cleared, and only
\* if it still carries it.
LEMMA Released ==
    ASSUME NEW st \in Stores, NEW h \in Handles
    PROVE  /\ Release(st, h) \in Stores
           /\ Release(st, h).nextGeneration = st.nextGeneration
           /\ Release(st, h).nextSlot = st.nextSlot
           /\ \A s \in Slots : \/ Release(st, h).entries[s] = st.entries[s]
                               \/ /\ Release(st, h).entries[s] = NoEntry
                                  /\ st.entries[s].handle = h
<1>1. NoEntry \in Entries /\ h.slot \in Slots
  BY DEF Entries, Handles
<1>2. CASE Contains(st, h)
  <2>1. Release(st, h) = [st EXCEPT !.entries[h.slot] = NoEntry]
    BY <1>2 DEF Release
  <2> QED
    BY <1>1, <1>2, <2>1 DEF Stores, Contains
<1>3. CASE ~Contains(st, h)
  BY <1>3 DEF Release
<1> QED
  BY <1>2, <1>3

\* asic_job_store_invalidate_all: nothing can be found any more, the generation
\* moves on.
LEMMA Emptied ==
    ASSUME NEW st \in Stores
    PROVE  /\ InvalidateAll(st) \in Stores
           /\ InvalidateAll(st).nextGeneration = st.nextGeneration + 1
           /\ \A s \in Slots : ~InvalidateAll(st).entries[s].valid
<1>1. 0 \in Slots
  BY CapacityAssumption DEF Slots
<1> QED
  BY <1>1 DEF InvalidateAll, Stores, Entries, NoEntry

-----------------------------------------------------------------------------
(* Lemmas about the reactor *)

\* Nothing is assigned and nothing is pending.
Blank(r) == /\ ~r.flushPending /\ ~r.flushComplete
            /\ \A e \in Engines : ~r.current[e].active /\ ~r.previous[e].active

\* The sequence of an assignment is one of the engine's.
LEMMA AssignmentTyped ==
    ASSUME NEW a \in Assignments
    PROVE  /\ a.active => a.seq \in Sequences /\ a.epoch \in Nat /\ a.handle \in Handles
           /\ SequenceOf(a) \subseteq Sequences
<1>1. CASE a = NoWork
  BY <1>1 DEF SequenceOf, NoWork
<1>2. CASE a # NoWork
  BY <1>2 DEF SequenceOf, Assignments
<1> QED
  BY <1>1, <1>2

\* bzm_reactor_init.
LEMMA Initial ==
    /\ InitReactor \in Reactors /\ Blank(InitReactor)
    /\ InitReactor.nextEngine = 0 /\ ~InitReactor.quarantined
    /\ \A e \in Engines : InitReactor.nextSequence[e] = 0
<1>1. 0 \in Engines /\ 0 \in 0 .. SequenceSpace /\ NoWork \in Assignments
  BY ReactorAssumption DEF Engines, Assignments
<1> QED
  BY <1>1 DEF InitReactor, Reactors, Blank, NoWork

\* bzm_reactor_invalidate_work: assignments stay what they are, in a past epoch,
\* and no sequence is forgotten.
LEMMA Invalidated ==
    ASSUME NEW r \in Reactors
    PROVE  LET q == InvalidateWork(r)
           IN  /\ q \in Reactors
               /\ q.current = r.current /\ q.previous = r.previous
               /\ q.nextSequence = r.nextSequence /\ q.nextEngine = r.nextEngine
               /\ q.flushPending = r.flushPending /\ q.flushComplete = r.flushComplete
               /\ q.quarantined = r.quarantined /\ q.epoch = r.epoch + 1
               /\ \A e \in Engines : r.retired[e] \subseteq q.retired[e]
<1>1. \A e \in Engines :
        r.retired[e] \union SequenceOf(r.current[e]) \union SequenceOf(r.previous[e])
            \in SUBSET Sequences
  BY AssignmentTyped DEF Reactors
<1> DEFINE forgotten == [e \in Engines |->
                           r.retired[e] \union SequenceOf(r.current[e]) \union SequenceOf(r.previous[e])]
<1>2. /\ forgotten \in [Engines -> SUBSET Sequences]
      /\ \A e \in Engines : r.retired[e] \subseteq forgotten[e]
  BY <1>1
<1>3. InvalidateWork(r) = [r EXCEPT !.epoch = @ + 1, !.retired = forgotten]
  BY DEF InvalidateWork
<1> HIDE DEF forgotten
<1>4. InvalidateWork(r) \in Reactors
  <2> DEFINE q == InvalidateWork(r)
  <2>1. q = [current |-> r.current, previous |-> r.previous, nextSequence |-> r.nextSequence,
             retired |-> forgotten, nextEngine |-> r.nextEngine, epoch |-> r.epoch + 1,
             flushPending |-> r.flushPending, flushComplete |-> r.flushComplete,
             quarantined |-> r.quarantined]
    BY <1>3 DEF Reactors
  <2> QED
    BY <1>2, <2>1 DEF Reactors
<1> QED
  BY <1>2, <1>3, <1>4 DEF Reactors

\* An assignment that is flushed is otherwise the same.
LEMMA FlushedAssignment ==
    ASSUME NEW a \in Assignments
    PROVE  /\ Flushing(a) \in Assignments
           /\ ~a.active => Flushing(a) = a
           /\ a.active => /\ Flushing(a).active
                          /\ Flushing(a).flushing /\ Flushing(a).seq = a.seq
                          /\ Flushing(a).epoch = a.epoch /\ Flushing(a).handle = a.handle
<1>1. CASE a = NoWork
  BY <1>1 DEF Flushing, NoWork
<1>2. CASE a # NoWork
  <2>1. a \in [active : {TRUE}, flushing : BOOLEAN, seq : Sequences, epoch : Nat, handle : Handles]
    BY <1>2 DEF Assignments
  <2>2. Flushing(a) = [a EXCEPT !.flushing = TRUE]
    BY <2>1 DEF Flushing
  <2>3. Flushing(a) \in [active : {TRUE}, flushing : BOOLEAN, seq : Sequences, epoch : Nat, handle : Handles]
    BY <2>1, <2>2
  <2> QED
    BY <2>1, <2>2, <2>3 DEF Assignments
<1> QED
  BY <1>1, <1>2

\* bzm_reactor_begin_flush: a flush is pending, whether it succeeded or not, and
\* every assignment is flushed in a new epoch unless it was already.
LEMMA Begun ==
    ASSUME NEW r \in Reactors, Flushes(r), NEW done \in BOOLEAN
    PROVE  LET q == BeginFlush(r, done)
           IN  /\ q \in Reactors /\ q.flushPending
               /\ done => q.flushComplete
               /\ ~r.flushPending /\ ~done => ~q.flushComplete
               /\ Flushes(q)
               /\ \A e \in Engines :
                     /\ q.current[e].active <=> r.current[e].active
                     /\ q.current[e].active => q.current[e].handle = r.current[e].handle
                     /\ q.previous[e].active <=> r.previous[e].active
                     /\ q.previous[e].active => q.previous[e].handle = r.previous[e].handle
<1> DEFINE q == BeginFlush(r, done)
<1>1. CASE r.flushPending
  <2>1. q = [r EXCEPT !.flushComplete = r.flushComplete \/ done]
    BY <1>1 DEF BeginFlush
  <2>2. r.flushComplete \/ done \in BOOLEAN
    BY DEF Reactors
  <2>3. /\ q \in Reactors /\ q.flushPending /\ (q.flushComplete <=> r.flushComplete \/ done)
        /\ q.current = r.current /\ q.previous = r.previous /\ q.epoch = r.epoch
    BY <1>1, <2>1, <2>2 DEF Reactors
  <2>4. Flushes(q)
    BY <1>1, <2>3, Zenon DEF Flushes, Settled
  <2> QED
    BY <1>1, <2>3, <2>4
<1>2. CASE ~r.flushPending
  <2>1. q = [r EXCEPT !.flushPending = TRUE, !.flushComplete = done, !.epoch = @ + 1,
                      !.current = [e \in Engines |-> Flushing(@[e])],
                      !.previous = [e \in Engines |-> Flushing(@[e])]]
    BY <1>2 DEF BeginFlush
  <2>2. \A e \in Engines : r.current[e] \in Assignments /\ r.previous[e] \in Assignments
    BY DEF Reactors
  <2>3. /\ [e \in Engines |-> Flushing(r.current[e])] \in [Engines -> Assignments]
        /\ [e \in Engines |-> Flushing(r.previous[e])] \in [Engines -> Assignments]
    BY <2>2, FlushedAssignment
  <2> DEFINE cur == [e \in Engines |-> Flushing(r.current[e])]
             pre == [e \in Engines |-> Flushing(r.previous[e])]
  <2>4. q = [current |-> cur, previous |-> pre, nextSequence |-> r.nextSequence,
             retired |-> r.retired, nextEngine |-> r.nextEngine, epoch |-> r.epoch + 1,
             flushPending |-> TRUE, flushComplete |-> done, quarantined |-> r.quarantined]
    BY <2>1 DEF Reactors
  <2>5. \A e \in Engines : cur[e] = Flushing(r.current[e]) /\ pre[e] = Flushing(r.previous[e])
    OBVIOUS
  <2>6. \A e \in Engines :
          /\ Settled(r, r.current[e]) /\ Settled(r, r.previous[e])
          /\ r.current[e].active <=> cur[e].active
          /\ r.previous[e].active <=> pre[e].active
          /\ cur[e].active => /\ cur[e].flushing /\ cur[e].epoch = r.current[e].epoch
                              /\ cur[e].handle = r.current[e].handle
          /\ pre[e].active => /\ pre[e].flushing /\ pre[e].epoch = r.previous[e].epoch
                              /\ pre[e].handle = r.previous[e].handle
    BY <2>2, <2>5, FlushedAssignment, Zenon DEF Flushes
  <2> HIDE DEF cur, pre, q
  <2>7. q \in Reactors /\ q.flushPending /\ (q.flushComplete <=> done) /\ q.epoch = r.epoch + 1
        /\ q.current = cur /\ q.previous = pre
    BY <2>3, <2>4 DEF Reactors, cur, pre
  <2>8. \A e \in Engines : /\ r.current[e].active => r.current[e].epoch \in Nat
                           /\ r.previous[e].active => r.previous[e].epoch \in Nat
    BY <2>2, AssignmentTyped
  <2>9. r.epoch \in Nat
    BY DEF Reactors
  <2>10. \A e \in Engines : Settled(q, cur[e]) /\ Settled(q, pre[e])
    <3> TAKE e \in Engines
    <3>2. cur[e].active => cur[e].flushing /\ cur[e].epoch = r.current[e].epoch
                             /\ r.current[e].active
      BY <2>6, Zenon
    <3>3. pre[e].active => pre[e].flushing /\ pre[e].epoch = r.previous[e].epoch
                             /\ r.previous[e].active
      BY <2>6, Zenon
    <3>4. /\ r.current[e].active => r.current[e].epoch <= r.epoch
          /\ r.previous[e].active => r.previous[e].epoch <= r.epoch
      BY <2>6, Zenon DEF Settled
    <3>5. q.flushPending /\ q.epoch = r.epoch + 1
      BY <2>7, Zenon
    <3>6. /\ r.current[e].active => r.current[e].epoch <= q.epoch
          /\ r.previous[e].active => r.previous[e].epoch <= q.epoch
      BY <2>8, <2>9, <3>4, <3>5
    <3>7. cur[e].active => cur[e].epoch <= q.epoch
      BY <3>2, <3>6
    <3>8. pre[e].active => pre[e].epoch <= q.epoch
      BY <3>3, <3>6
    <3> QED
      BY <3>2, <3>3, <3>5, <3>7, <3>8, Zenon DEF Settled
  <2>11. Flushes(q)
    BY <2>7, <2>10, <1>2 DEF Flushes
  <2> QED
    BY <1>2, <2>6, <2>7, <2>11 DEF q
<1> QED
  BY <1>1, <1>2 DEF Reactors

\* bzm_reactor_finish_flush after a flush that succeeded: a blank reactor that
\* quarantines results.
LEMMA Finished ==
    ASSUME NEW r \in Reactors, r.flushPending, r.flushComplete
    PROVE  LET q == FinishFlush(r)
           IN  /\ q \in Reactors /\ Blank(q) /\ q.quarantined /\ q.nextEngine = 0
               /\ \A e \in Engines : q.nextSequence[e] = 0
<1>1. FinishFlush(r) = [InitReactor EXCEPT !.epoch = r.epoch, !.quarantined = TRUE]
  BY DEF FinishFlush
<1> QED
  BY <1>1, Initial DEF Reactors, Blank

\* bzm_reactor_assign, field by field.
LEMMA Reassigned ==
    ASSUME NEW r \in Reactors, NEW h \in Handles, ~r.flushPending,
           r.nextSequence[r.nextEngine] < SequenceSpace
    PROVE  LET q == Assigned(r, h)
               e == r.nextEngine
           IN  /\ q \in Reactors /\ e \in Engines /\ ~q.flushPending
               /\ q.flushComplete = r.flushComplete /\ q.epoch = r.epoch
               /\ q.nextEngine = (e + 1) % EngineCount
               /\ q.quarantined <=> r.quarantined /\ (e + 1) % EngineCount # 0
               /\ q.current[e] = Assignment(r.nextSequence[e], r.epoch, h)
               /\ q.previous[e] = r.current[e]
               /\ q.nextSequence[e] = r.nextSequence[e] + 1
               /\ q.retired[e] = r.retired[e] \union SequenceOf(r.previous[e])
               /\ \A f \in Engines \ {e} :
                     /\ q.current[f] = r.current[f] /\ q.previous[f] = r.previous[f]
                     /\ q.nextSequence[f] = r.nextSequence[f] /\ q.retired[f] = r.retired[f]
<1> DEFINE e == r.nextEngine
           next == (e + 1) % EngineCount
<1>1. e \in Engines /\ r.nextSequence[e] \in Sequences /\ r.nextSequence[e] + 1 \in 0 .. SequenceSpace
  BY ReactorAssumption DEF Reactors, Engines, Sequences
<1>2. next \in Engines
  BY <1>1, CursorMoves, ReactorAssumption DEF Engines
<1>3. Assignment(r.nextSequence[e], r.epoch, h) \in Assignments
  BY <1>1 DEF Assignment, Assignments, Reactors
<1>4. r.retired[e] \union SequenceOf(r.previous[e]) \in SUBSET Sequences
  BY <1>1, AssignmentTyped DEF Reactors
<1>5. (r.quarantined /\ next # 0) \in BOOLEAN
  OBVIOUS
<1>6. Assigned(r, h) = [r EXCEPT
            !.retired[e]      = @ \union SequenceOf(r.previous[e]),
            !.previous[e]     = r.current[e],
            !.current[e]      = Assignment(r.nextSequence[e], r.epoch, h),
            !.nextEngine      = next,
            !.quarantined     = @ /\ next # 0,
            !.nextSequence[e] = @ + 1]
  BY DEF Assigned
<1> HIDE DEF next, e
<1>7. Assigned(r, h) \in Reactors
  <2>1. Assigned(r, h) =
          [current |-> [r.current EXCEPT ![e] = Assignment(r.nextSequence[e], r.epoch, h)],
           previous |-> [r.previous EXCEPT ![e] = r.current[e]],
           nextSequence |-> [r.nextSequence EXCEPT ![e] = @ + 1],
           retired |-> [r.retired EXCEPT ![e] = @ \union SequenceOf(r.previous[e])],
           nextEngine |-> next, epoch |-> r.epoch, flushPending |-> r.flushPending,
           flushComplete |-> r.flushComplete, quarantined |-> (r.quarantined /\ next # 0)]
    BY <1>6 DEF Reactors
  <2>2. /\ [r.current EXCEPT ![e] = Assignment(r.nextSequence[e], r.epoch, h)] \in [Engines -> Assignments]
        /\ [r.previous EXCEPT ![e] = r.current[e]] \in [Engines -> Assignments]
        /\ [r.nextSequence EXCEPT ![e] = @ + 1] \in [Engines -> 0 .. SequenceSpace]
        /\ [r.retired EXCEPT ![e] = @ \union SequenceOf(r.previous[e])] \in [Engines -> SUBSET Sequences]
    BY <1>1, <1>3, <1>4 DEF Reactors
  <2> QED
    BY <1>2, <1>5, <2>1, <2>2 DEF Reactors
<1>8. LET q == Assigned(r, h)
      IN  /\ q.flushPending = r.flushPending /\ q.flushComplete = r.flushComplete
          /\ q.epoch = r.epoch /\ q.nextEngine = next
          /\ q.quarantined <=> r.quarantined /\ next # 0
  BY <1>6 DEF Reactors
<1>9. LET q == Assigned(r, h)
      IN  /\ q.current[e] = Assignment(r.nextSequence[e], r.epoch, h)
          /\ q.previous[e] = r.current[e]
          /\ q.nextSequence[e] = r.nextSequence[e] + 1
          /\ q.retired[e] = r.retired[e] \union SequenceOf(r.previous[e])
          /\ \A f \in Engines \ {e} :
                /\ q.current[f] = r.current[f] /\ q.previous[f] = r.previous[f]
                /\ q.nextSequence[f] = r.nextSequence[f] /\ q.retired[f] = r.retired[f]
  BY <1>1, <1>6 DEF Reactors
<1> QED
  BY <1>1, <1>7, <1>8, <1>9 DEF e, next

-----------------------------------------------------------------------------
(* Lemmas about the chips and about the parts of the invariant *)

\* Chips that run nothing.
Silent(c) == \A e \in Engines : ~c[e].new.active /\ ~c[e].old.active

\* bzm_transport_program_flush: an engine that was reached runs nothing, one that
\* was not keeps what it had.
LEMMA FlushedChips ==
    ASSUME NEW c \in Chips, NEW n \in 0 .. EngineCount
    PROVE  /\ Flushed(c, n) \in Chips
           /\ n = EngineCount => Silent(Flushed(c, n))
           /\ \A e \in Engines : Flushed(c, n)[e] = c[e]
                 \/ (~Flushed(c, n)[e].new.active /\ ~Flushed(c, n)[e].old.active)
<1>1. Idle \in Works /\ ~Idle.active
  BY DEF Works, Idle
<1>2. [new |-> Idle, old |-> Idle] \in [new : Works, old : Works]
  BY <1>1
<1>3. \A e \in Engines : c[e] \in [new : Works, old : Works]
  BY DEF Chips
<1>4. Flushed(c, n) \in Chips
  BY <1>2, <1>3 DEF Flushed, Chips
<1>5. \A e \in Engines : Flushed(c, n)[e] = IF e < n THEN [new |-> Idle, old |-> Idle] ELSE c[e]
  BY DEF Flushed
<1>6. n = EngineCount => \A e \in Engines : e < n
  BY ReactorAssumption DEF Engines
<1> QED
  BY <1>1, <1>4, <1>5, <1>6 DEF Silent

\* bzm_serial_write_work: the engine runs the new work and may still report on
\* what it ran before.
LEMMA LoadedChips ==
    ASSUME NEW c \in Chips, NEW e \in Engines, NEW w \in Works
    PROVE  /\ Load(c, e, w) \in Chips
           /\ Load(c, e, w)[e].new = w /\ Load(c, e, w)[e].old = c[e].new
           /\ \A f \in Engines \ {e} : Load(c, e, w)[f] = c[f]
<1>1. c[e].new \in Works
  BY DEF Chips
<1>2. [new |-> w, old |-> c[e].new] \in [new : Works, old : Works]
  BY <1>1
<1> QED
  BY <1>2 DEF Load, Chips

\* Everything the reactor knew it still knows after a clean job or a clock step.
LEMMA TrustedAfterInvalidation ==
    ASSUME NEW r \in Reactors, NEW c, NEW results \in SUBSET Results, NEW fewer \in SUBSET results,
           Trusted(r, c, results)
    PROVE  Trusted(InvalidateWork(r), c, fewer)
<1> DEFINE q == InvalidateWork(r)
<1>1. /\ q.current = r.current /\ q.previous = r.previous /\ q.nextSequence = r.nextSequence
      /\ q.flushPending = r.flushPending /\ q.quarantined = r.quarantined
      /\ \A e \in Engines : r.retired[e] \subseteq q.retired[e]
  BY Invalidated, Zenon
<1> HIDE DEF q
<1>2. \A e \in Engines : \A w : Known(r, e, w) => Known(q, e, w)
  BY <1>1 DEF Known
<1>3. \A res \in fewer : res.engine \in Engines /\ res \in results
  BY DEF Results
<1>4. Trusted(q, c, fewer)
  BY <1>1, <1>2, <1>3, Zenon DEF Trusted
<1> QED
  BY <1>4 DEF q

\* Fewer results and chips that run less do not shake it.
LEMMA TrustedWithLess ==
    ASSUME NEW r, NEW c, NEW d, NEW results, NEW fewer \in SUBSET results,
           Trusted(r, c, results),
           \A e \in Engines : d[e] = c[e] \/ (~d[e].new.active /\ ~d[e].old.active)
    PROVE  Trusted(r, d, fewer)
<1> SUFFICES ASSUME ~r.flushPending
             PROVE  /\ \A e \in Engines : r.current[e].active => r.current[e].seq < r.nextSequence[e]
                    /\ \A e \in Engines : /\ d[e].new.active => Known(r, e, d[e].new)
                                          /\ d[e].old.active => Known(r, e, d[e].old)
                    /\ \A res \in fewer : /\ res.overdue => r.quarantined
                                          /\ ~res.overdue => Known(r, res.engine, res)
  BY Zenon DEF Trusted
<1>1. /\ \A e \in Engines : r.current[e].active => r.current[e].seq < r.nextSequence[e]
      /\ \A e \in Engines : /\ c[e].new.active => Known(r, e, c[e].new)
                            /\ c[e].old.active => Known(r, e, c[e].old)
      /\ \A res \in results : /\ res.overdue => r.quarantined
                              /\ ~res.overdue => Known(r, res.engine, res)
  BY Zenon DEF Trusted
<1>2. \A e \in Engines : /\ d[e].new.active => Known(r, e, d[e].new)
                         /\ d[e].old.active => Known(r, e, d[e].old)
  BY <1>1, Zenon
<1>3. \A res \in fewer : res \in results
  OBVIOUS
<1> QED
  BY <1>1, <1>2, <1>3, Zenon

\* A pending flush is trusted with nothing.
LEMMA TrustedWhilePending == ASSUME NEW r, NEW c, NEW results, r.flushPending
                             PROVE  Trusted(r, c, results)
  BY Zenon DEF Trusted

\* An assignment of a past epoch or one that is flushed is of no further use, so
\* nothing has to be found in the store.
LEMMA NothingLive ==
    ASSUME NEW r \in Reactors, Flushes(r), NEW st, NEW c, NEW gen
    PROVE  /\ Rotates(InvalidateWork(r), st, c, gen)
           /\ r.flushPending => Rotates(r, st, c, gen)
<1> DEFINE q == InvalidateWork(r)
<1>1. q.current = r.current /\ q.epoch = r.epoch + 1
  BY Invalidated, Zenon
<1>2. \A e \in Engines : ~Live(q, c, gen, e)
  <2> SUFFICES ASSUME NEW e \in Engines, Live(q, c, gen, e) PROVE FALSE
    OBVIOUS
  <2>1. r.current[e].active /\ r.current[e].epoch = r.epoch + 1
    BY <1>1, Zenon DEF Live
  <2>2. r.current[e].epoch <= r.epoch
    BY <2>1, Zenon DEF Flushes, Settled
  <2>3. r.epoch \in Nat
    BY DEF Reactors
  <2> QED
    BY <2>1, <2>2, <2>3
<1>3. r.flushPending => \A e \in Engines : ~Live(r, c, gen, e)
  BY Zenon DEF Live, Flushes, Settled
<1> QED
  BY <1>2, <1>3, Zenon DEF Rotates

\* bzm_reactor_invalidate_work keeps assignments and cursor.
LEMMA FlushesAfterInvalidation ==
    ASSUME NEW r \in Reactors, Flushes(r)
    PROVE  Flushes(InvalidateWork(r))
<1> DEFINE q == InvalidateWork(r)
<1>1. /\ q.current = r.current /\ q.previous = r.previous /\ q.epoch = r.epoch + 1
      /\ q.flushPending = r.flushPending /\ q.flushComplete = r.flushComplete
  BY Invalidated, Zenon
<1>2. r.epoch \in Nat /\ \A e \in Engines : /\ r.current[e].active => r.current[e].epoch \in Nat
                                            /\ r.previous[e].active => r.previous[e].epoch \in Nat
  BY AssignmentTyped DEF Reactors
<1> HIDE DEF q
<1>3. ASSUME NEW a, Settled(r, a), a.active => a.epoch \in Nat
      PROVE  Settled(q, a)
  <2>1. a.active => a.epoch <= r.epoch
    BY <1>3, Zenon DEF Settled
  <2>2. a.active => a.epoch <= q.epoch
  BY <1>1, <1>2, <1>3, <2>1
  <2> QED
    BY <1>1, <1>3, <2>2, Zenon DEF Settled
<1>4. Flushes(q)
  BY <1>1, <1>2, <1>3, Zenon DEF Flushes
<1> QED
  BY <1>4 DEF q

\* Handles stay unique when assignments disappear and the store moves on.
LEMMA IssuedKept ==
    ASSUME NEW r, NEW q, NEW st \in Stores, NEW other \in Stores, Issued(r, st),
           other.nextGeneration >= st.nextGeneration,
           \A e \in Engines :
              /\ r.current[e] \in Assignments /\ r.previous[e] \in Assignments
              /\ q.current[e].active => r.current[e].active /\ q.current[e].handle = r.current[e].handle
              /\ q.previous[e].active => r.previous[e].active /\ q.previous[e].handle = r.previous[e].handle
    PROVE  Issued(q, other)
<1>1. \A e \in Engines : /\ r.current[e].active => r.current[e].handle.generation \in Nat
                         /\ r.previous[e].active => r.previous[e].handle.generation \in Nat
  BY AssignmentTyped DEF Handles
<1>2. st.nextGeneration \in Nat /\ other.nextGeneration \in Nat
  BY DEF Stores
<1>3. ASSUME NEW e \in Engines
      PROVE  /\ q.current[e].active => q.current[e].handle.generation < other.nextGeneration
             /\ q.previous[e].active => q.previous[e].handle.generation < other.nextGeneration
  <2>1. /\ r.current[e].active => r.current[e].handle.generation < st.nextGeneration
        /\ r.previous[e].active => r.previous[e].handle.generation < st.nextGeneration
    BY Zenon DEF Issued
  <2>2. /\ r.current[e].active => r.current[e].handle.generation < other.nextGeneration
        /\ r.previous[e].active => r.previous[e].handle.generation < other.nextGeneration
    BY <1>1, <1>2, <2>1
  <2> QED
    BY <2>2, Zenon
<1>4. \A e, f \in Engines :
        /\ q.current[e].active /\ q.current[f].active
             /\ q.current[e].handle = q.current[f].handle => e = f
        /\ q.current[e].active /\ q.previous[f].active
             => q.current[e].handle # q.previous[f].handle
  BY ZenonT(60) DEF Issued
<1> QED
  BY <1>3, <1>4, Zenon DEF Issued

\* A reactor that has assigned nothing is right about everything, with chips
\* that run nothing and results that are quarantined or not there.
LEMMA BlankParts ==
    ASSUME NEW r \in Reactors, Blank(r), NEW st, NEW c, NEW results, NEW gen,
           Silent(c), \A res \in results : res.overdue /\ r.quarantined
    PROVE  /\ Flushes(r) /\ Trusted(r, c, results) /\ Issued(r, st) /\ Rotates(r, st, c, gen)
<1>1. Flushes(r)
  BY Zenon DEF Blank, Flushes, Settled
<1>2. Trusted(r, c, results)
  BY Zenon DEF Silent, Trusted, Blank
<1>3. Issued(r, st)
  BY Zenon DEF Blank, Issued
<1>4. Rotates(r, st, c, gen)
  BY Zenon DEF Blank, Rotates, Live
<1> QED
  BY <1>1, <1>2, <1>3, <1>4

\* start_fast_dispatch_locked and the two places that call it only when idle, and
\* an interruption.
LEMMA BudgetStarted ==
    ASSUME NEW d \in Budgets, NEW r \in Reactors
    PROVE  /\ StartFast(d) \in Budgets /\ Covers(r, StartFast(d))
           /\ StartFastIfIdle(d) \in Budgets
           /\ Covers(r, d) => Covers(r, StartFastIfIdle(d))
           /\ Disturb(d) \in Budgets /\ Covers(r, Disturb(d))
<1>1. EngineCount \in Nat \ {0} /\ r.nextEngine \in 0 .. EngineCount - 1
  BY ReactorAssumption DEF Reactors, Engines
<1>2. /\ StartFast(d) \in Budgets /\ StartFast(d).fast = EngineCount
  <2>1. EngineCount \in 0 .. EngineCount
    BY <1>1
  <2>2. StartFast(d) \in Budgets
    BY <2>1 DEF StartFast, Budgets
  <2> QED
    BY <2>2 DEF StartFast, Budgets
<1>3. \A e \in Engines : Ahead(e, r.nextEngine, EngineCount) < EngineCount
  <2> SUFFICES ASSUME NEW e \in Engines PROVE Ahead(e, r.nextEngine, EngineCount) < EngineCount
    OBVIOUS
  <2>1. Ahead(e, r.nextEngine, EngineCount) \in 0 .. EngineCount - 1
    BY <1>1, CursorMoves DEF Engines
  <2> QED
    BY <1>1, <2>1
<1>4. Covers(r, StartFast(d))
  BY <1>2, <1>3, Zenon DEF Covers
<1>5. Disturb(d) \in Budgets /\ Disturb(d).disturbed
  BY DEF Disturb, Budgets
<1> QED
  BY <1>2, <1>4, <1>5, Zenon DEF StartFastIfIdle, Covers

\* The rotation does not notice that work is invalidated.
LEMMA CoversAfterInvalidation ==
    ASSUME NEW r \in Reactors, NEW d, Covers(r, d)
    PROVE  Covers(InvalidateWork(r), d)
  BY Invalidated, Zenon DEF Covers

\* What is emptied or flushed holds no job of the wrong date.
LEMMA DatedWithLess ==
    ASSUME NEW st \in Stores, NEW c, NEW d, NEW made, NEW gen, NEW clean,
           Dated(st, c, made, gen, clean),
           \A e \in Engines : d[e] = c[e] \/ (~d[e].new.active /\ ~d[e].old.active)
    PROVE  /\ Dated(st, d, made, gen, clean)
           /\ \A flag : Dated(InvalidateAll(st), d, made, gen, flag)
<1>1. \A e \in Engines : /\ d[e].new.active => d[e].new.job.gen <= made
                         /\ d[e].old.active => d[e].old.job.gen <= made
  BY Zenon DEF Dated
<1>2. \A s \in Slots : ~InvalidateAll(st).entries[s].valid
  BY Emptied, Zenon
<1> QED
  BY <1>1, <1>2, Zenon DEF Dated

-----------------------------------------------------------------------------
(* An assignment that succeeds, part by part *)

\* The work of an assignment is well formed.
LEMMA WorkTyped ==
    ASSUME NEW w \in Works
    PROVE  w.active => w.seq \in Sequences /\ w.handle \in Handles /\ w.job \in Jobs
<1>1. CASE w = Idle
  BY <1>1 DEF Idle
<1>2. CASE w # Idle
  BY <1>2 DEF Works
<1> QED
  BY <1>1, <1>2

\* No assignment is flushed or of an epoch to come.
LEMMA FlushesAfterAssignment ==
    ASSUME NEW r \in Reactors, NEW h \in Handles, ~r.flushPending, Flushes(r),
           r.nextSequence[r.nextEngine] < SequenceSpace
    PROVE  Flushes(Assigned(r, h))
<1> DEFINE q == Assigned(r, h)
           e == r.nextEngine
<1>0. ~q.flushPending /\ q.flushComplete = r.flushComplete /\ q.epoch = r.epoch
  BY Reassigned
<1>1. /\ e \in Engines
      /\ q.current[e] = Assignment(r.nextSequence[e], r.epoch, h)
      /\ q.previous[e] = r.current[e]
      /\ \A f \in Engines \ {e} :
            /\ q.current[f] = r.current[f] /\ q.previous[f] = r.previous[f]
            /\ q.nextSequence[f] = r.nextSequence[f] /\ q.retired[f] = r.retired[f]
  BY Reassigned, Zenon
<1> HIDE DEF q, e
<1>2. ASSUME NEW a, Settled(r, a) PROVE Settled(q, a)
  BY <1>0, <1>1, <1>2, Zenon DEF Settled
<1>3. Settled(q, q.current[e])
  <2>1. r.epoch <= r.epoch
    BY DEF Reactors
  <2> QED
    BY <1>0, <1>1, <2>1 DEF Settled, Assignment
<1>4. \A f \in Engines : Settled(r, r.current[f]) /\ Settled(r, r.previous[f])
  BY Zenon DEF Flushes
<1>5. ~q.flushComplete
  BY <1>0, Zenon DEF Flushes
<1>6. \A f \in Engines : Settled(q, q.current[f]) /\ Settled(q, q.previous[f])
  <2> SUFFICES ASSUME NEW f \in Engines PROVE Settled(q, q.current[f]) /\ Settled(q, q.previous[f])
    OBVIOUS
  <2>1. CASE f = e
  BY <1>1, <1>2, <1>3, <1>4, <2>1, Zenon
  <2>2. CASE f # e
    <3>1. q.current[f] = r.current[f] /\ q.previous[f] = r.previous[f]
      BY <1>1, <2>2
    <3> QED
      BY <1>2, <1>4, <3>1, Zenon
  <2> QED
    BY <2>1, <2>2
<1> QED
  BY <1>5, <1>6, Zenon DEF Flushes, q

\* The reactor still knows what it knew: the sequence it hands out is not one of
\* those, and what falls out of the previous slot is retired.
LEMMA KnownAfterAssignment ==
    ASSUME NEW r \in Reactors, NEW h \in Handles, ~r.flushPending,
           r.nextSequence[r.nextEngine] < SequenceSpace,
           NEW f \in Engines, NEW w, w.seq \in Sequences, Known(r, f, w)
    PROVE  Known(Assigned(r, h), f, w)
<1> DEFINE q == Assigned(r, h)
           e == r.nextEngine
<1>1. /\ e \in Engines
      /\ q.current[e] = Assignment(r.nextSequence[e], r.epoch, h)
      /\ q.previous[e] = r.current[e]
      /\ q.nextSequence[e] = r.nextSequence[e] + 1
      /\ q.retired[e] = r.retired[e] \union SequenceOf(r.previous[e])
      /\ \A g \in Engines \ {e} :
            /\ q.current[g] = r.current[g] /\ q.previous[g] = r.previous[g]
            /\ q.nextSequence[g] = r.nextSequence[g] /\ q.retired[g] = r.retired[g]
  BY Reassigned, Zenon
<1> HIDE DEF q, e
<1>2. CASE f # e
  BY <1>1, <1>2 DEF Known, q
<1>3. CASE f = e
  <2>1. w.seq < r.nextSequence[e] /\ r.nextSequence[e] \in Nat /\ w.seq \in Nat
    BY <1>1, <1>3 DEF Known, Reactors, Sequences
  <2>2. w.seq < q.nextSequence[e]
    BY <1>1, <2>1
  <2>3. q.current[e].seq # w.seq
    BY <1>1, <2>1 DEF Assignment
  <2>4. q.previous[e].active /\ q.previous[e].seq = w.seq => q.previous[e].handle = w.handle
    BY <1>1, <1>3, Zenon DEF Known
  <2>5. w.seq \in q.retired[e] \union SequenceOf(q.previous[e])
    <3>1. w.seq \in r.retired[e] \union SequenceOf(r.current[e]) \union SequenceOf(r.previous[e])
      BY <1>3, Zenon DEF Known
    <3> QED
      BY <1>1, <3>1
  <2> QED
    BY <1>3, <2>2, <2>3, <2>4, <2>5 DEF Known, q
<1> QED
  BY <1>2, <1>3

\* The engine that is given work is known to run it.
LEMMA TrustedAfterAssignment ==
    ASSUME NEW r \in Reactors, NEW h \in Handles, ~r.flushPending,
           r.nextSequence[r.nextEngine] < SequenceSpace, NEW job \in Jobs,
           NEW c \in Chips, NEW results \in SUBSET Results, Trusted(r, c, results),
           NEW fewer \in SUBSET results, \A res \in fewer : res.overdue => Assigned(r, h).quarantined
    PROVE  Trusted(Assigned(r, h),
                   Load(c, r.nextEngine, LoadedWork(r.nextSequence[r.nextEngine], h, job)), fewer)
<1> DEFINE q == Assigned(r, h)
           e == r.nextEngine
           w == LoadedWork(r.nextSequence[e], h, job)
           d == Load(c, e, w)
<1>1. /\ e \in Engines
      /\ q.current[e] = Assignment(r.nextSequence[e], r.epoch, h)
      /\ q.previous[e] = r.current[e]
      /\ q.nextSequence[e] = r.nextSequence[e] + 1
  BY Reassigned, Zenon
<1>2. r.nextSequence[e] \in Nat /\ r.nextSequence[e] \in Sequences
  BY <1>1, ReactorAssumption DEF Reactors, Sequences
<1>3. w \in Works /\ w.seq = r.nextSequence[e] /\ w.handle = h
  BY <1>2 DEF LoadedWork, Works
<1>4. d[e].new = w /\ d[e].old = c[e].new /\ \A f \in Engines \ {e} : d[f] = c[f]
  <2>1. e \in Engines /\ w \in Works
    BY <1>1, <1>3
  <2> HIDE DEF w, e, q
  <2>2. /\ Load(c, e, w)[e].new = w /\ Load(c, e, w)[e].old = c[e].new
        /\ \A f \in Engines \ {e} : Load(c, e, w)[f] = c[f]
    BY <2>1, LoadedChips
  <2> QED BY <2>2
<1>5. ASSUME NEW f \in Engines, NEW x, x.seq \in Sequences, Known(r, f, x)
      PROVE  Known(q, f, x)
  BY <1>5, KnownAfterAssignment, Zenon
<1>6. Known(q, e, w)
  <2> HIDE DEF q, w
  <2>1. w.seq < q.nextSequence[e]
    BY <1>1, <1>2, <1>3
  <2>2. q.current[e].active /\ q.current[e].seq = w.seq /\ q.current[e].handle = w.handle
    BY <1>1, <1>3 DEF Assignment
  <2>3. w.seq \in SequenceOf(q.current[e])
    BY <2>2 DEF SequenceOf
  <2>4. q.previous[e].active => q.previous[e].seq # w.seq
    <3>1. r.current[e].active => r.current[e].seq < r.nextSequence[e]
      BY <1>1, Zenon DEF Trusted
    <3> QED
      BY <1>1, <1>2, <1>3, <3>1
  <2> QED
    BY <2>1, <2>2, <2>3, <2>4, Zenon DEF Known
<1>7. \A f \in Engines : q.current[f].active => q.current[f].seq < q.nextSequence[f]
  <2> SUFFICES ASSUME NEW f \in Engines, q.current[f].active
               PROVE  q.current[f].seq < q.nextSequence[f]
    OBVIOUS
  <2>1. CASE f = e
    BY <1>1, <1>2, <2>1 DEF Assignment
  <2>2. CASE f # e
    <3>1. q.current[f] = r.current[f] /\ q.nextSequence[f] = r.nextSequence[f]
      BY <2>2, Reassigned
    <3>2. r.current[f].active => r.current[f].seq < r.nextSequence[f]
      BY Zenon DEF Trusted
    <3> QED
      BY <3>1, <3>2
  <2> QED
    BY <2>1, <2>2
<1>8. ASSUME NEW f \in Engines
      PROVE  /\ d[f].new.active => Known(q, f, d[f].new)
             /\ d[f].old.active => Known(q, f, d[f].old)
  <2>1. /\ c[f].new.active => c[f].new.seq \in Sequences /\ Known(r, f, c[f].new)
        /\ c[f].old.active => c[f].old.seq \in Sequences /\ Known(r, f, c[f].old)
    <3>1. c[f].new \in Works /\ c[f].old \in Works
      BY DEF Chips
    <3> QED
      BY <3>1, WorkTyped, Zenon DEF Trusted
  <2>2. /\ c[f].new.active => Known(q, f, c[f].new)
        /\ c[f].old.active => Known(q, f, c[f].old)
    BY <1>5, <2>1, Zenon
  <2> HIDE DEF q, w, d
  <2>3. CASE f = e
    BY <1>4, <1>6, <2>2, <2>3, Zenon
  <2>4. CASE f # e
    <3>1. d[f] = c[f]
      BY <1>4, <2>4
    <3> QED
      BY <2>2, <3>1, Zenon
  <2> QED
    BY <2>3, <2>4
<1>9. ASSUME NEW res \in fewer
      PROVE  /\ res.overdue => q.quarantined
             /\ ~res.overdue => Known(q, res.engine, res)
  <2>1. res \in results /\ res.engine \in Engines /\ res.seq \in Sequences
    BY DEF Results
  <2>2. ~res.overdue => Known(r, res.engine, res)
    BY <2>1, Zenon DEF Trusted
  <2> QED
    BY <1>5, <2>1, <2>2, Zenon
<1> QED
  BY <1>7, <1>8, <1>9, Zenon DEF Trusted

\* The store after an assignment: the new job can be found, and so can every job
\* that could be found before, unless its slot is the one under the cursor or its
\* handle the one that falls out of the previous slot.
LEMMA StoreAfterAssignment ==
    ASSUME NEW r \in Reactors, NEW st \in Stores, NEW job \in Jobs, Issued(r, st)
    PROVE  LET s2 == AssignedStore(r, StoreGenerated(st, job))
               old == r.previous[r.nextEngine]
           IN  /\ s2 \in Stores
               /\ s2.nextGeneration = st.nextGeneration + 1
               /\ s2.nextSlot = (st.nextSlot + 1) % Capacity
               /\ Contains(s2, NextHandle(st))
               /\ \A h \in Handles : /\ Contains(st, h) /\ h.slot # st.nextSlot
                                     /\ old.active => old.handle # h
                                     => Contains(s2, h)
               /\ \A s \in Slots : s2.entries[s].valid =>
                     s2.entries[s].job = job
                       \/ (st.entries[s].valid /\ s2.entries[s].job = st.entries[s].job)
<1> DEFINE s1 == StoreGenerated(st, job)
           old == r.previous[r.nextEngine]
           s2 == AssignedStore(r, s1)
           h0 == NextHandle(st)
<1>1. /\ s1 \in Stores /\ h0 \in Handles /\ h0.generation = st.nextGeneration /\ h0.slot = st.nextSlot
      /\ Contains(s1, h0) /\ s1.nextGeneration = st.nextGeneration + 1
      /\ s1.nextSlot = (st.nextSlot + 1) % Capacity /\ s1.entries[st.nextSlot].job = job
      /\ \A s \in Slots : s # st.nextSlot => s1.entries[s] = st.entries[s]
  BY Stored, Zenon
<1>2. old \in Assignments /\ r.nextEngine \in Engines
  BY DEF Reactors
<1>3. old.active => old.handle \in Handles /\ old.handle # h0
  <2>1. old.active => old.handle.generation < st.nextGeneration /\ old.handle \in Handles
    BY <1>2, AssignmentTyped DEF Issued
  <2>2. st.nextGeneration \in Nat
    BY DEF Stores
  <2> QED
    BY <1>1, <2>1, <2>2
<1>4. /\ s2 \in Stores /\ s2.nextGeneration = s1.nextGeneration /\ s2.nextSlot = s1.nextSlot
      /\ \A s \in Slots : \/ s2.entries[s] = s1.entries[s]
                          \/ /\ s2.entries[s] = NoEntry
                             /\ old.active /\ s1.entries[s].handle = old.handle
  <2>1. CASE old.active
    <3>1. s2 = Release(s1, old.handle)
      BY <2>1, Zenon DEF AssignedStore
    <3>2. old.handle \in Handles
      BY <1>3, <2>1, Zenon
    <3> HIDE DEF s2, s1, old
    <3>3. s1 \in Stores
      BY <1>1, Zenon
    <3>4. /\ s2 \in Stores /\ s2.nextGeneration = s1.nextGeneration /\ s2.nextSlot = s1.nextSlot
          /\ \A s \in Slots : \/ s2.entries[s] = s1.entries[s]
                              \/ /\ s2.entries[s] = NoEntry
                                 /\ s1.entries[s].handle = old.handle
      BY <3>1, <3>2, <3>3, Released
    <3> QED
      BY <2>1, <3>4, Zenon
  <2>2. CASE ~old.active
    <3>1. s2 = s1
      BY <2>2, Zenon DEF AssignedStore
    <3> QED
      BY <1>1, <3>1, Zenon
  <2> QED
    BY <2>1, <2>2
<1> HIDE DEF s1, s2, old, h0
<1>5. ASSUME NEW h \in Handles, Contains(s1, h), old.active => old.handle # h
      PROVE  Contains(s2, h)
  <2>1. h.slot \in Slots /\ s1.entries[h.slot].valid /\ s1.entries[h.slot].handle = h
    BY <1>5 DEF Contains, Handles
  <2> QED
    BY <1>4, <1>5, <2>1, Zenon DEF Contains
<1>6. Contains(s2, h0)
  BY <1>1, <1>3, <1>5, Zenon
<1>7. ASSUME NEW h \in Handles, Contains(st, h), h.slot # st.nextSlot, old.active => old.handle # h
      PROVE  Contains(s2, h)
  <2>1. h.slot \in Slots
    BY DEF Handles
  <2>2. Contains(s1, h)
    BY <1>1, <1>7, <2>1, Zenon DEF Contains
  <2> QED
    BY <1>5, <1>7, <2>2, Zenon
<1>8. ASSUME NEW s \in Slots, s2.entries[s].valid
      PROVE  s2.entries[s].job = job \/ (st.entries[s].valid /\ s2.entries[s].job = st.entries[s].job)
  <2>1. ~NoEntry.valid
    BY DEF NoEntry
  <2>2. s2.entries[s] = s1.entries[s]
    BY <1>4, <1>8, <2>1, Zenon
  <2>3. CASE s = st.nextSlot
    BY <1>1, <2>2, <2>3, Zenon
  <2>4. CASE s # st.nextSlot
    BY <1>1, <1>8, <2>2, <2>4, Zenon
  <2> QED
    BY <2>3, <2>4
<1>9. /\ s2.nextGeneration = st.nextGeneration + 1 /\ s2.nextSlot = (st.nextSlot + 1) % Capacity
  BY <1>1, <1>4, Zenon
<1> QED
  BY <1>4, <1>6, <1>7, <1>8, <1>9, Zenon DEF s1, s2, old, h0

\* The handle of an assignment is a new one.
LEMMA IssuedAfterAssignment ==
    ASSUME NEW r \in Reactors, NEW st \in Stores, ~r.flushPending, Issued(r, st),
           r.nextSequence[r.nextEngine] < SequenceSpace,
           NEW other, other.nextGeneration = st.nextGeneration + 1
    PROVE  Issued(Assigned(r, NextHandle(st)), other)
<1> DEFINE h == NextHandle(st)
           q == Assigned(r, h)
           e == r.nextEngine
<1>1. h \in Handles /\ h.generation = st.nextGeneration /\ st.nextGeneration \in Nat
  BY DEF NextHandle, Handle, Handles, Stores
<1> HIDE DEF h
<1>2. /\ e \in Engines
      /\ q.current[e] = Assignment(r.nextSequence[e], r.epoch, h)
      /\ q.previous[e] = r.current[e]
      /\ \A f \in Engines \ {e} :
            /\ q.current[f] = r.current[f] /\ q.previous[f] = r.previous[f]
            /\ q.nextSequence[f] = r.nextSequence[f] /\ q.retired[f] = r.retired[f]
  BY <1>1, Reassigned, Zenon
<1>3. q.current[e].active /\ q.current[e].handle = h
  BY <1>2 DEF Assignment
<1> HIDE DEF q, e
<1>4. \A f \in Engines : /\ r.current[f].active => r.current[f].handle.generation < st.nextGeneration
                         /\ r.previous[f].active => r.previous[f].handle.generation < st.nextGeneration
  BY Zenon DEF Issued
<1>5. \A f \in Engines : /\ r.current[f].active => r.current[f].handle.generation \in Nat
                         /\ r.previous[f].active => r.previous[f].handle.generation \in Nat
  BY AssignmentTyped DEF Reactors, Handles
<1>6. \A f \in Engines :
         /\ r.current[f].active => /\ r.current[f].handle.generation < st.nextGeneration + 1
                                   /\ r.current[f].handle # h
         /\ r.previous[f].active => /\ r.previous[f].handle.generation < st.nextGeneration + 1
                                    /\ r.previous[f].handle # h
  BY <1>1, <1>4, <1>5
<1>7. h.generation < st.nextGeneration + 1
  BY <1>1
<1>8. \A f \in Engines : f = e \/ f \in Engines \ {e}
  OBVIOUS
<1>9. ASSUME NEW f \in Engines
      PROVE  /\ q.current[f].active => q.current[f].handle.generation < st.nextGeneration + 1
             /\ q.previous[f].active => q.previous[f].handle.generation < st.nextGeneration + 1
  BY <1>2, <1>3, <1>6, <1>7, <1>8, Zenon
<1>10. ASSUME NEW f \in Engines, NEW g \in Engines, q.current[f].active
       PROVE  /\ q.current[g].active /\ q.current[f].handle = q.current[g].handle => f = g
              /\ q.previous[g].active => q.current[f].handle # q.previous[g].handle
  <2>1. /\ \A x, y \in Engines :
             /\ r.current[x].active /\ r.current[y].active
                  /\ r.current[x].handle = r.current[y].handle => x = y
             /\ r.current[x].active /\ r.previous[y].active
                  => r.current[x].handle # r.previous[y].handle
    BY Zenon DEF Issued
  <2>2. CASE f = e
    <3>1. q.current[f].handle = h
      BY <1>3, <2>2, Zenon
    <3>2. q.current[g].active => g = e \/ q.current[g].handle # h
      BY <1>2, <1>6, <1>8, Zenon
    <3>3. q.previous[g].active => q.previous[g].handle # h
      BY <1>2, <1>6, <1>8, ZenonT(60)
    <3> QED
      BY <2>2, <3>1, <3>2, <3>3, Zenon
  <2>3. CASE f # e
    <3>1. q.current[f] = r.current[f] /\ r.current[f].active /\ r.current[f].handle # h
      BY <1>2, <1>6, <1>8, <1>10, <2>3, Zenon
    <3>2. CASE g = e
      BY <1>2, <1>3, <2>1, <2>3, <3>1, <3>2, ZenonT(60)
    <3>3. CASE g # e
      <4>1. q.current[g] = r.current[g] /\ q.previous[g] = r.previous[g]
        BY <1>2, <1>8, <3>3, Zenon
      <4> QED
        BY <2>1, <3>1, <4>1, Zenon
    <3> QED
      BY <3>2, <3>3
  <2> QED
    BY <2>2, <2>3
<1>11. Issued(q, other)
  BY <1>9, <1>10, ZenonT(60) DEF Issued
<1> QED
  BY <1>11 DEF q, h

\* The rotation and the ring of the store advance together, so no job that is
\* still of use is overwritten before its engine gets a new one.
LEMMA RotatesAfterAssignment ==
    ASSUME NEW r \in Reactors, NEW st \in Stores, NEW c \in Chips, NEW job \in Jobs, NEW gen,
           ~r.flushPending, Issued(r, st), Rotates(r, st, c, gen),
           r.nextSequence[r.nextEngine] < SequenceSpace,
           NEW w \in Works
    PROVE  Rotates(Assigned(r, NextHandle(st)), AssignedStore(r, StoreGenerated(st, job)),
                   Load(c, r.nextEngine, w), gen)
<1> DEFINE h == NextHandle(st)
           q == Assigned(r, h)
           e == r.nextEngine
           s2 == AssignedStore(r, StoreGenerated(st, job))
           d == Load(c, e, w)
<1>1. h \in Handles /\ h.slot = st.nextSlot /\ st.nextSlot \in 0 .. Capacity - 1
      /\ e \in 0 .. EngineCount - 1
  BY DEF NextHandle, Handle, Handles, Stores, Slots, Reactors, Engines
<1>2. /\ s2.nextSlot = (st.nextSlot + 1) % Capacity
      /\ Contains(s2, h)
      /\ \A x \in Handles : /\ Contains(st, x) /\ x.slot # st.nextSlot
                            /\ r.previous[e].active => r.previous[e].handle # x
                            => Contains(s2, x)
  BY StoreAfterAssignment, ZenonT(60)
<1>3. h \in Handles
  BY <1>1
<1> HIDE DEF h, s2
<1>4. /\ e \in Engines /\ q.nextEngine = (e + 1) % EngineCount
      /\ q.current[e] = Assignment(r.nextSequence[e], r.epoch, h)
      /\ \A f \in Engines \ {e} :
            /\ q.current[f] = r.current[f] /\ q.previous[f] = r.previous[f]
            /\ q.nextSequence[f] = r.nextSequence[f] /\ q.retired[f] = r.retired[f]
  BY <1>3, Reassigned, Zenon
<1>5. q.epoch = r.epoch
  BY <1>3, Reassigned
<1>6. \A f \in Engines \ {e} : d[f] = c[f]
  BY <1>4, LoadedChips, ZenonT(60)
<1> HIDE DEF q, d
<1>7. EngineCount \in Nat \ {0} /\ Capacity \in Nat \ {0} /\ EngineCount <= Capacity
  BY ReactorAssumption, CapacityAssumption
<1>8. ASSUME NEW f \in Engines, Live(q, d, gen, f)
      PROVE  /\ Contains(s2, q.current[f].handle)
             /\ Ahead(f, q.nextEngine, EngineCount)
                  <= Ahead(q.current[f].handle.slot, s2.nextSlot, Capacity)
  <2>1. CASE f = e
    <3>1. q.current[f].handle = h
      BY <1>4, <2>1 DEF Assignment
    <3>2. /\ Ahead(e, (e + 1) % EngineCount, EngineCount) = EngineCount - 1
          /\ Ahead(st.nextSlot, (st.nextSlot + 1) % Capacity, Capacity) = Capacity - 1
      <4> HIDE DEF e
      <4> QED
        BY <1>1, <1>7, CursorMoves
    <3>3. EngineCount - 1 <= Capacity - 1
      BY <1>7
    <3> QED
      BY <1>1, <1>2, <1>4, <2>1, <3>1, <3>2, <3>3
  <2>2. CASE f # e
    <3> DEFINE a == r.current[f]
               s == a.handle.slot
    <3>1. f \in Engines \ {e}
      BY <2>2
    <3>2. q.current[f] = a /\ d[f] = c[f]
      BY <1>4, <1>6, <3>1, Zenon
    <3>3. Live(r, c, gen, f)
      BY <1>5, <1>8, <3>2, Zenon DEF Live
    <3>4. /\ Contains(st, a.handle)
          /\ Ahead(f, e, EngineCount) <= Ahead(s, st.nextSlot, Capacity)
      BY <3>3, Zenon DEF Rotates
    <3>5. a.active /\ a \in Assignments
      BY <3>3 DEF Live, Reactors
    <3>6. a.handle \in Handles /\ s \in 0 .. Capacity - 1 /\ f \in 0 .. EngineCount - 1
      BY <3>5, AssignmentTyped DEF Handles, Slots, Engines
    <3> HIDE DEF s, e
    <3>7. /\ Ahead(f, e, EngineCount) \in 0 .. EngineCount - 1
          /\ Ahead(f, e, EngineCount) # 0
          /\ Ahead(f, (e + 1) % EngineCount, EngineCount) = Ahead(f, e, EngineCount) - 1
      BY <1>1, <1>7, <2>2, <3>6, CursorMoves
    <3>8. /\ Ahead(s, st.nextSlot, Capacity) \in 0 .. Capacity - 1
          /\ s # st.nextSlot
               => Ahead(s, (st.nextSlot + 1) % Capacity, Capacity) = Ahead(s, st.nextSlot, Capacity) - 1
          /\ Ahead(st.nextSlot, st.nextSlot, Capacity) = 0
      BY <1>1, <1>7, <3>6, CursorMoves
    <3>9. s # st.nextSlot
      BY <3>4, <3>7, <3>8
    <3>10. Ahead(f, (e + 1) % EngineCount, EngineCount)
             <= Ahead(s, (st.nextSlot + 1) % Capacity, Capacity)
      BY <3>4, <3>7, <3>8, <3>9
    <3>11. r.previous[e].active => r.previous[e].handle # a.handle
      BY <1>4, <3>5, Zenon DEF Issued
    <3>12. Contains(s2, a.handle)
      BY <1>2, <3>4, <3>6, <3>9, <3>11, Zenon DEF s
    <3> QED
      BY <1>2, <1>4, <3>2, <3>10, <3>12, Zenon DEF s
  <2> QED
    BY <2>1, <2>2
<1>9. Rotates(q, s2, d, gen)
  BY <1>8, Zenon DEF Rotates
<1> QED
  BY <1>9 DEF q, s2, d, h

\* BZM_send_work counts the engine; a replacement that is reported complete was
\* disturbed or reached them all.
LEMMA CountedAssignment ==
    ASSUME NEW d \in Budgets, NEW r \in Reactors, NEW q, Covers(r, d),
           q.nextEngine = (r.nextEngine + 1) % EngineCount
    PROVE  CountAssigned(d, r.nextEngine) \in Budgets /\ Covers(q, CountAssigned(d, r.nextEngine))
<1> DEFINE e == r.nextEngine
           k == CountAssigned(d, e)
           fresh == d.fresh \union {e}
<1>1. EngineCount \in Nat \ {0} /\ e \in 0 .. EngineCount - 1 /\ e \in Engines
  BY ReactorAssumption DEF Reactors, Engines
<1>2. /\ d.fast \in 0 .. EngineCount /\ d.fresh \in SUBSET Engines
      /\ d.report \in {"none", "full", "interrupted"} /\ d.disturbed \in BOOLEAN
  BY DEF Budgets
<1> HIDE DEF e
<1>3. d.fast = 1 /\ ~d.disturbed => fresh = Engines
  <2> SUFFICES ASSUME d.fast = 1, ~d.disturbed, NEW f \in Engines PROVE f \in fresh
    BY <1>1, <1>2
  <2>1. d.fast # 0
    OBVIOUS
  <2>2. f \in d.fresh \/ Ahead(f, e, EngineCount) < d.fast
    BY <2>1, Zenon DEF Covers, e
  <2>3. Ahead(f, e, EngineCount) \in 0 .. EngineCount - 1
        /\ (Ahead(f, e, EngineCount) = 0 => f = e)
    BY <1>1, CursorMoves DEF Engines
  <2> QED
    BY <2>2, <2>3
<1> DEFINE fast == IF d.fast # 0 THEN d.fast - 1 ELSE 0
           report == CASE d.fast # 1 -> d.report
                       [] d.fast = 1 /\ fresh = Engines -> "full"
                       [] OTHER -> IF d.disturbed THEN "interrupted" ELSE "partial"
<1>4. fast \in 0 .. EngineCount /\ fresh \in SUBSET Engines
  BY <1>1, <1>2
<1>5. report \in {"none", "full", "interrupted"}
  <2>1. CASE d.fast # 1
    BY <1>2, <2>1
  <2>2. CASE d.fast = 1 /\ fresh = Engines
    BY <2>2
  <2>3. CASE d.fast = 1 /\ fresh # Engines
    <3>1. d.disturbed
      BY <1>3, <2>3
    <3> QED
      BY <2>3, <3>1
  <2> QED
    BY <2>1, <2>2, <2>3
<1>6. k = [d EXCEPT !.fresh = fresh, !.report = report, !.fast = fast]
  BY DEF CountAssigned
<1> HIDE DEF fast, report, fresh, k
<1>7. k \in Budgets
  BY <1>4, <1>5, <1>6 DEF Budgets
<1>8. k.fast = fast /\ k.fresh = fresh /\ (k.disturbed <=> d.disturbed)
  BY <1>6 DEF Budgets
<1>9. ASSUME k.fast # 0, ~k.disturbed, NEW f \in Engines
      PROVE  f \in k.fresh \/ Ahead(f, q.nextEngine, EngineCount) < k.fast
  <2>1. d.fast # 0 /\ ~d.disturbed /\ k.fast = d.fast - 1
    BY <1>8, <1>9 DEF fast
  <2>2. f \in d.fresh \/ Ahead(f, e, EngineCount) < d.fast
    BY <2>1, Zenon DEF Covers, e
  <2>3. CASE f \in k.fresh
    BY <2>3
  <2>4. CASE f \notin k.fresh
    <3>1. f \notin d.fresh /\ f # e
      BY <1>8, <2>4 DEF fresh
    <3>2. f \in 0 .. EngineCount - 1
      BY DEF Engines
    <3>3. /\ Ahead(f, e, EngineCount) \in 0 .. EngineCount - 1
          /\ Ahead(f, (e + 1) % EngineCount, EngineCount) = Ahead(f, e, EngineCount) - 1
      BY <1>1, <3>1, <3>2, CursorMoves
    <3>4. q.nextEngine = (e + 1) % EngineCount
      BY DEF e
    <3> QED
      BY <1>2, <2>1, <2>2, <3>1, <3>3, <3>4
  <2> QED
    BY <2>3, <2>4
<1>10. Covers(q, k)
  BY <1>9, Zenon DEF Covers
<1> QED
  BY <1>7, <1>10 DEF k, e

\* The job that is sent is the creator's; if it is current the clean flag has
\* been sent with it.
LEMMA DatedAfterAssignment ==
    ASSUME NEW r \in Reactors, NEW st \in Stores, NEW c \in Chips, NEW job \in Jobs, Issued(r, st),
           NEW made \in Nat, NEW gen \in Nat, NEW clean \in BOOLEAN, NEW flag \in BOOLEAN,
           Dated(st, c, made, gen, clean), job.gen <= made, flag => clean /\ job.gen < gen,
           NEW w \in Works, w.active, w.job = job
    PROVE  Dated(AssignedStore(r, StoreGenerated(st, job)), Load(c, r.nextEngine, w), made, gen, flag)
<1> DEFINE e == r.nextEngine
           d == Load(c, e, w)
           s2 == AssignedStore(r, StoreGenerated(st, job))
<1>1. e \in Engines
  BY DEF Reactors
<1>2. d[e].new = w /\ d[e].old = c[e].new /\ \A f \in Engines \ {e} : d[f] = c[f]
  <2> HIDE DEF e
  <2>1. w \in Works
    OBVIOUS
  <2> QED
    BY <1>1, <2>1, LoadedChips
<1>3. \A s \in Slots : s2.entries[s].valid =>
        s2.entries[s].job = job \/ (st.entries[s].valid /\ s2.entries[s].job = st.entries[s].job)
  BY StoreAfterAssignment, Zenon
<1> HIDE DEF d, s2, e
<1>4. \A f \in Engines : f = e \/ f \in Engines \ {e}
  OBVIOUS
<1>5. \A f \in Engines : /\ d[f].new.active => d[f].new.job.gen <= made
                         /\ d[f].old.active => d[f].old.job.gen <= made
  BY <1>1, <1>2, <1>4, Zenon DEF Dated
<1>6. \A s \in Slots : s2.entries[s].valid =>
        s2.entries[s].job.gen <= made /\ (flag => s2.entries[s].job.gen < gen)
  BY <1>3, Zenon DEF Dated
<1>7. Dated(s2, d, made, gen, flag)
  BY <1>5, <1>6, Zenon DEF Dated
<1> QED
  BY <1>7 DEF d, s2, e

-----------------------------------------------------------------------------
(* What BZM_send_work assigns from *)

\* The cache may be emptied once everything credited is out of date.
LEMMA WindowEmptied ==
    ASSUME NEW known \in Seq(Jobs), NEW given \in Seq(Jobs), NEW gen, Window(known, given, gen),
           \A i \in 1 .. Len(given) : given[i].gen < gen
    PROVE  <<>> \in Seq(Jobs) /\ Window(<<>>, given, gen)
<1>1. Len(given) \in Nat /\ Len(given) <= DedupCapacity
  BY LenProperties DEF Window
<1>2. <<>> \in Seq(Jobs) /\ Len(<<>>) = 0
  BY EmptySeq
<1>3. \A i \in 1 .. Len(given) - 0 : given[i].gen < gen
  BY <1>1
<1>4. \A i \in 1 .. 0 : <<>>[i] = given[Len(given) - 0 + i]
  OBVIOUS
<1>5. 0 <= Len(given)
  BY <1>1
<1>6. Window(<<>>, given, gen)
  BY <1>1, <1>2, <1>3, <1>4, <1>5, Zenon DEF Window
<1> QED
  BY <1>2, <1>6

\* The results under way are results.
LEMMA FlightTyped ==
    ASSUME Types
    PROVE  /\ ResultsInFlight = Elements(pending) \union Elements(transit)
           /\ ResultsInFlight \in SUBSET Results
<1>1. pending \in Seq(Results) /\ transit \in Seq(Results)
  BY Zenon DEF Types
<1>2. ResultsInFlight = Elements(pending) \union Elements(transit)
  BY <1>1, InFlight, Zenon DEF ResultsInFlight
<1>3. Elements(pending) \subseteq Results /\ Elements(transit) \subseteq Results
  BY <1>1, ElementsTyped
<1> QED
  BY <1>2, <1>3

\* What holds of reactor, store, chips and budget before an assignment and after.
Consistent(r, st, c, d, results) ==
    /\ r \in Reactors /\ st \in Stores /\ c \in Chips /\ d \in Budgets
    /\ Flushes(r) /\ Trusted(r, c, results) /\ Issued(r, st)
    /\ Rotates(r, st, c, poolGen) /\ Covers(r, d)

\* A clean job or a clock step: what came before is retired.
LEMMA InvalidatedParts ==
    ASSUME IInv, NEW results \in SUBSET ResultsInFlight
    PROVE  LET r == InvalidateWork(reactor)
               st == InvalidateAll(store)
           IN  /\ Consistent(r, st, chip, StartFastIfIdle(dispatch), results)
               /\ Consistent(r, st, chip, StartFast(dispatch), results)
               /\ \A flag : Dated(st, chip, creator.gen, poolGen, flag)
<1> DEFINE r == InvalidateWork(reactor)
           st == InvalidateAll(store)
<1>1. /\ Types /\ Flushes(reactor) /\ Trusted(reactor, chip, ResultsInFlight)
      /\ Issued(reactor, store) /\ Covers(reactor, dispatch) /\ Generations
  BY Zenon DEF IInv
<1>2. store \in Stores /\ reactor \in Reactors /\ dispatch \in Budgets /\ chip \in Chips
  BY <1>1, Zenon DEF Types
<1>3. r \in Reactors /\ r.current = reactor.current /\ r.previous = reactor.previous
  BY <1>2, Invalidated, Zenon
<1>4. st \in Stores /\ st.nextGeneration >= store.nextGeneration
  BY <1>2, Emptied DEF Stores
<1>5. Flushes(r)
  BY <1>1, <1>2, FlushesAfterInvalidation, Zenon
<1>6. Trusted(r, chip, results)
  <2>1. ResultsInFlight \in SUBSET Results
    BY <1>1, FlightTyped
  <2> QED
    BY <1>1, <1>2, <2>1, TrustedAfterInvalidation, Zenon
<1>7. Issued(r, st)
  <2>1. \A e \in Engines : reactor.current[e] \in Assignments /\ reactor.previous[e] \in Assignments
    BY <1>2 DEF Reactors
  <2> HIDE DEF r, st
  <2> QED
  BY <1>1, <1>2, <1>3, <1>4, <2>1, IssuedKept, Zenon
<1>8. Rotates(r, st, chip, poolGen)
  BY <1>1, <1>2, NothingLive, Zenon
<1>9. /\ StartFastIfIdle(dispatch) \in Budgets /\ Covers(r, StartFastIfIdle(dispatch))
      /\ StartFast(dispatch) \in Budgets /\ Covers(r, StartFast(dispatch))
  <2>1. /\ StartFastIfIdle(dispatch) \in Budgets /\ Covers(reactor, StartFastIfIdle(dispatch))
        /\ StartFast(dispatch) \in Budgets /\ Covers(reactor, StartFast(dispatch))
    BY <1>1, <1>2, BudgetStarted, Zenon
  <2> QED
    BY <1>2, <2>1, CoversAfterInvalidation, Zenon
<1>10. \A flag : Dated(st, chip, creator.gen, poolGen, flag)
  <2>1. \A e \in Engines : chip[e] = chip[e] \/ (~chip[e].new.active /\ ~chip[e].old.active)
    OBVIOUS
  <2>2. Dated(store, chip, creator.gen, poolGen, creator.clean)
    BY <1>1, Zenon DEF Generations
  <2> QED
    BY <1>2, <2>1, <2>2, DatedWithLess, Zenon
<1> HIDE DEF r, st
<1>11. /\ Consistent(r, st, chip, StartFastIfIdle(dispatch), results)
       /\ Consistent(r, st, chip, StartFast(dispatch), results)
  BY <1>2, <1>3, <1>4, <1>5, <1>6, <1>7, <1>8, <1>9, Zenon DEF Consistent
<1> QED
  BY <1>10, <1>11, Zenon DEF r, st

\* The clean part: what came before is retired, and the cache emptied.
LEMMA CleanedParts ==
    ASSUME IInv
    PROVE  /\ Consistent(CleanedReactor, CleanedStore, chip, CleanedDispatch, ResultsInFlight)
           /\ CleanedDedup \in Seq(Jobs) /\ Window(CleanedDedup, credited, poolGen)
           /\ Dated(CleanedStore, chip, creator.gen, poolGen, creator.clean)
<1>1. /\ Types /\ Flushes(reactor) /\ Trusted(reactor, chip, ResultsInFlight)
      /\ Issued(reactor, store) /\ Rotates(reactor, store, chip, poolGen)
      /\ Covers(reactor, dispatch) /\ Generations /\ Window(dedup, credited, poolGen)
  BY Zenon DEF IInv
<1>2. /\ store \in Stores /\ reactor \in Reactors /\ dispatch \in Budgets /\ chip \in Chips
      /\ dedup \in Seq(Jobs) /\ credited \in Seq(Jobs)
  BY <1>1, Zenon DEF Types
<1>3. Dated(store, chip, creator.gen, poolGen, creator.clean)
  BY <1>1, Zenon DEF Generations
<1>4. CASE ~creator.clean
  <2>1. /\ CleanedReactor = reactor /\ CleanedStore = store /\ CleanedDispatch = dispatch
        /\ CleanedDedup = dedup
    BY <1>4, Zenon DEF CleanedReactor, CleanedStore, CleanedDispatch, CleanedDedup
  <2> QED
  BY <1>1, <1>2, <1>3, <2>1, Zenon DEF Consistent
<1>5. CASE creator.clean
  <2> DEFINE r == InvalidateWork(reactor)
             st == InvalidateAll(store)
             d == StartFastIfIdle(dispatch)
  <2>1. /\ CleanedReactor = r /\ CleanedStore = st /\ CleanedDispatch = d /\ CleanedDedup = <<>>
    BY <1>5, Zenon DEF CleanedReactor, CleanedStore, CleanedDispatch, CleanedDedup
  <2>2. ResultsInFlight \in SUBSET ResultsInFlight
    OBVIOUS
  <2>3. /\ Consistent(r, st, chip, d, ResultsInFlight)
        /\ Dated(st, chip, creator.gen, poolGen, creator.clean)
    BY <2>2, InvalidatedParts, Zenon
  <2>4. \A i \in 1 .. Len(credited) : credited[i].gen < poolGen
    BY <1>1, <1>5, Zenon DEF Generations
  <2>5. <<>> \in Seq(Jobs) /\ Window(<<>>, credited, poolGen)
    BY <1>1, <1>2, <2>4, WindowEmptied, Zenon
  <2> HIDE DEF r, st, d
  <2> QED
    BY <2>1, <2>3, <2>5, Zenon
<1> QED
  BY <1>4, <1>5

\* The results a send starts from.
BarrierFlight == Elements(BarrierPending) \union Elements(BarrierTransit)

\* The barrier: no flush is pending, there is a sequence left for the next engine,
\* and what was under way when the chips were flushed is quarantined.
LEMMA BarrierParts ==
    ASSUME IInv
    PROVE  /\ Consistent(BarrierReactor, BarrierStore, BarrierChip, BarrierDispatch, BarrierFlight)
           /\ ~BarrierReactor.flushPending
           /\ BarrierReactor.nextSequence[BarrierReactor.nextEngine] < SequenceSpace
           /\ BarrierPending \in Seq(Results) /\ Len(BarrierPending) <= PendingCapacity
           /\ BarrierTransit \in Seq(Results) /\ Len(BarrierTransit) = Len(transit)
           /\ Dated(BarrierStore, BarrierChip, creator.gen, poolGen, creator.clean)
<1>1. /\ Consistent(CleanedReactor, CleanedStore, chip, CleanedDispatch, ResultsInFlight)
      /\ Dated(CleanedStore, chip, creator.gen, poolGen, creator.clean)
  BY CleanedParts, Zenon
<1>2. /\ CleanedReactor \in Reactors /\ CleanedStore \in Stores /\ chip \in Chips
      /\ CleanedDispatch \in Budgets /\ Flushes(CleanedReactor)
  BY <1>1, Zenon DEF Consistent
<1>3. Types
  BY Zenon DEF IInv
<1>4. /\ pending \in Seq(Results) /\ Len(pending) <= PendingCapacity /\ transit \in Seq(Results)
  BY <1>3, Zenon DEF Types
<1>5. CASE ~BarrierNeeded
  <2>1. /\ BarrierReactor = CleanedReactor /\ BarrierStore = CleanedStore
        /\ BarrierDispatch = CleanedDispatch /\ BarrierChip = chip
        /\ BarrierPending = pending /\ BarrierTransit = transit
    BY <1>5, Zenon DEF BarrierReactor, BarrierStore, BarrierDispatch, BarrierChip,
                       BarrierPending, BarrierTransit
  <2>2. BarrierFlight = ResultsInFlight
    BY <1>3, <2>1, FlightTyped, Zenon DEF BarrierFlight
  <2>3. /\ ~CleanedReactor.flushPending
        /\ CleanedReactor.nextSequence[CleanedReactor.nextEngine] < SequenceSpace
    <3>1. CleanedReactor.nextSequence[CleanedReactor.nextEngine] \in 0 .. SequenceSpace
      BY <1>2 DEF Reactors
    <3>2. /\ ~CleanedReactor.flushPending
          /\ ~(CleanedReactor.nextSequence[CleanedReactor.nextEngine] >= SequenceSpace)
      BY <1>5, Zenon DEF BarrierNeeded, FlushRequired
    <3> QED
      BY <3>1, <3>2, ReactorAssumption
  <2> QED
    BY <1>1, <1>4, <2>1, <2>2, <2>3, Zenon
<1>6. CASE BarrierNeeded
  <2> DEFINE b == BeginFlush(CleanedReactor, TRUE)
             r == FinishFlush(b)
             c == Flushed(chip, EngineCount)
             t == Overdue(transit)
  <2>1. /\ BarrierReactor = r /\ BarrierChip = c /\ BarrierDispatch = StartFast(CleanedDispatch)
        /\ BarrierPending = <<>> /\ BarrierTransit = t
        /\ (BarrierStore = InvalidateAll(CleanedStore) \/ BarrierStore = CleanedStore)
    BY <1>6, Zenon DEF BarrierReactor, BarrierStore, BarrierDispatch, BarrierChip,
                       BarrierPending, BarrierTransit
  <2>2. b \in Reactors /\ b.flushPending /\ b.flushComplete
    BY <1>2, Begun
  <2>3. /\ r \in Reactors /\ Blank(r) /\ r.quarantined /\ r.nextEngine = 0
        /\ \A e \in Engines : r.nextSequence[e] = 0
    <3> HIDE DEF b
    <3> QED
      BY <2>2, Finished, Zenon
  <2>4. c \in Chips /\ Silent(c)
        /\ \A e \in Engines : c[e] = chip[e] \/ (~c[e].new.active /\ ~c[e].old.active)
    <3>1. EngineCount \in 0 .. EngineCount
      BY ReactorAssumption
    <3> QED
      BY <1>2, <3>1, FlushedChips
  <2>5. t \in Seq(Results) /\ Len(t) = Len(transit) /\ \A x \in Elements(t) : x \in Results /\ x.overdue
    BY <1>4, OverdueKeeps, Zenon
  <2>6. <<>> \in Seq(Results) /\ Len(<<>>) <= PendingCapacity /\ Elements(<<>>) = {}
    BY NoElements, BzmDriverAssumption
  <2>7. BarrierStore \in Stores
    BY <1>2, <2>1, Emptied, Zenon
  <2>8. Dated(BarrierStore, c, creator.gen, poolGen, creator.clean)
    <3> HIDE DEF c
    <3> QED
      BY <1>1, <1>2, <2>1, <2>4, DatedWithLess, ZenonT(60)
  <2>9. StartFast(CleanedDispatch) \in Budgets /\ Covers(r, StartFast(CleanedDispatch))
    <3> HIDE DEF r
    <3> QED
      BY <1>2, <2>3, BudgetStarted, Zenon
  <2>10. BarrierFlight = Elements(t)
    BY <2>1, <2>6 DEF BarrierFlight
  <2> HIDE DEF r, c, t
  <2>11. \A res \in BarrierFlight : res.overdue /\ r.quarantined
    BY <2>3, <2>5, <2>10, Zenon
  <2>12. /\ Flushes(r) /\ Trusted(r, c, BarrierFlight) /\ Issued(r, BarrierStore)
         /\ Rotates(r, BarrierStore, c, poolGen)
    BY <2>3, <2>4, <2>11, BlankParts, Zenon
  <2>13. r.nextSequence[r.nextEngine] < SequenceSpace
    <3>1. r.nextEngine \in Engines
      BY <2>3 DEF Reactors
    <3>2. r.nextSequence[r.nextEngine] = 0
      BY <2>3, <3>1, Zenon
    <3> QED
      BY <3>2, ReactorAssumption
  <2>14. ~r.flushPending
    BY <2>3, Zenon DEF Blank
  <2> QED
    BY <2>1, <2>3, <2>4, <2>5, <2>6, <2>7, <2>8, <2>9, <2>12, <2>13, <2>14, Zenon DEF Consistent
<1> QED
  BY <1>5, <1>6

-----------------------------------------------------------------------------
(* The steps *)

\* The parts of the invariant after a step that leaves the pool alone.
LEMMA Assembled ==
    ASSUME Types', Consistent(reactor', store', chip', dispatch', ResultsInFlight'),
           poolGen' = poolGen, Generations', Window(dedup', credited', poolGen')
    PROVE  IInv'
  BY Zenon DEF IInv, Consistent

\* The same parts before it.
LEMMA Taken ==
    ASSUME IInv
    PROVE  /\ Types /\ Consistent(reactor, store, chip, dispatch, ResultsInFlight)
           /\ Generations /\ Window(dedup, credited, poolGen)
           /\ Dated(store, chip, creator.gen, poolGen, creator.clean)
  BY Zenon DEF IInv, Consistent, Types, Generations

\* The dates of jobs are numbers.
LEMMA DatesTyped ==
    ASSUME Types
    PROVE  /\ creator \in Creators /\ creator.gen \in Nat /\ poolGen \in Nat /\ published \in Nat
           /\ \A e \in Engines : /\ chip[e].new.active => chip[e].new.job.gen \in Nat
                                 /\ chip[e].old.active => chip[e].old.job.gen \in Nat
           /\ \A s \in Slots : store.entries[s].valid => store.entries[s].job.gen \in Nat
           /\ Len(credited) \in Nat
           /\ \A i \in 1 .. Len(credited) : credited[i] \in Jobs /\ credited[i].gen \in Nat
<1>1. /\ store \in Stores /\ chip \in Chips /\ credited \in Seq(Jobs) /\ creator \in Creators
      /\ poolGen \in 0 .. MaxPool /\ published \in 0 .. MaxPool
  BY Zenon DEF Types
<1>2. \A j \in Jobs : j.gen \in Nat
  BY BzmDriverAssumption DEF Jobs
<1>3. \A e \in Engines : chip[e].new \in Works /\ chip[e].old \in Works
  BY <1>1 DEF Chips
<1>4. ASSUME NEW x \in Entries, x.valid PROVE x.job \in Jobs
  <2>1. x # NoEntry
    BY <1>4 DEF NoEntry
  <2> QED
    BY <2>1 DEF Entries
<1>5. \A s \in Slots : store.entries[s] \in Entries
  BY <1>1 DEF Stores
<1>6. \A i \in 1 .. Len(credited) : credited[i] \in Jobs
  BY <1>1, ElementOfSeq
<1>7. Len(credited) \in Nat
  BY <1>1, LenProperties
<1>8. creator.gen \in Nat /\ poolGen \in Nat /\ published \in Nat
  BY <1>1, BzmDriverAssumption DEF Creators
<1>9. \A e \in Engines : /\ chip[e].new.active => chip[e].new.job.gen \in Nat
                         /\ chip[e].old.active => chip[e].old.job.gen \in Nat
  BY <1>2, <1>3, WorkTyped, Zenon
<1>10. \A s \in Slots : store.entries[s].valid => store.entries[s].job.gen \in Nat
  BY <1>2, <1>4, <1>5, Zenon
<1> QED
  BY <1>1, <1>2, <1>6, <1>7, <1>8, <1>9, <1>10, Zenon

\* A new pool generation puts every job there is out of date.
LEMMA LaterParts ==
    ASSUME IInv, NEW later \in Nat, poolGen < later
    PROVE  /\ \A st : Rotates(reactor, st, chip, later)
           /\ Window(dedup, credited, later)
           /\ Dated(store, chip, creator.gen, later, creator.clean)
           /\ \A i \in 1 .. Len(credited) : credited[i].gen <= creator.gen /\ credited[i].gen < later
<1>1. /\ Types /\ Generations /\ Window(dedup, credited, poolGen)
      /\ Dated(store, chip, creator.gen, poolGen, creator.clean)
  BY Taken, Zenon
<1>2. creator.gen <= poolGen
  BY <1>1, DatesTyped DEF Generations
<1>3. \A e \in Engines : ~Live(reactor, chip, later, e)
  <2> SUFFICES ASSUME NEW e \in Engines, chip[e].new.active PROVE chip[e].new.job.gen # later
    BY Zenon DEF Live
  <2>1. chip[e].new.job.gen <= creator.gen /\ chip[e].new.job.gen \in Nat
    BY <1>1, DatesTyped, Zenon DEF Dated
  <2> QED
    BY <1>1, <1>2, <2>1, DatesTyped
<1>4. \A st : Rotates(reactor, st, chip, later)
  BY <1>3, Zenon DEF Rotates
<1>5. ASSUME NEW i \in 1 .. Len(credited)
      PROVE  credited[i].gen <= creator.gen /\ credited[i].gen < later
  <2>1. credited[i].gen <= creator.gen
    BY <1>1, <1>5, Zenon DEF Generations
  <2> QED
    BY <1>1, <1>2, <2>1, DatesTyped
<1>6. Window(dedup, credited, later)
  <2>1. dedup \in Seq(Jobs) /\ credited \in Seq(Jobs)
    BY <1>1, Zenon DEF Types
  <2>2. Len(dedup) \in Nat /\ Len(credited) \in Nat
    BY <2>1, LenProperties
  <2>3. \A i \in 1 .. Len(credited) - Len(dedup) : i \in 1 .. Len(credited)
    BY <2>2
  <2> QED
    BY <1>1, <1>5, <2>3, Zenon DEF Window
<1>7. ASSUME NEW s \in Slots, store.entries[s].valid
      PROVE  store.entries[s].job.gen <= creator.gen /\ store.entries[s].job.gen < later
  <2>1. store.entries[s].job.gen <= creator.gen /\ store.entries[s].job.gen \in Nat
    BY <1>1, <1>7, DatesTyped, Zenon DEF Dated
  <2> QED
    BY <1>1, <1>2, <2>1, DatesTyped
<1>8. Dated(store, chip, creator.gen, later, creator.clean)
  BY <1>1, <1>7, Zenon DEF Dated
<1> QED
  BY <1>4, <1>5, <1>6, <1>8

\* While the queue is being cleaned no engine holds work that may still earn.
LEMMA CleaningParts ==
    ASSUME IInv, cleaner # "idle"
    PROVE  \A st : Rotates(reactor, st, chip, poolGen)
<1>1. /\ Types /\ Generations /\ Dated(store, chip, creator.gen, poolGen, creator.clean)
  BY Taken, Zenon
<1>2. creator.gen < poolGen
  BY <1>1, DatesTyped DEF Generations
<1>3. \A e \in Engines : ~Live(reactor, chip, poolGen, e)
  <2> SUFFICES ASSUME NEW e \in Engines, chip[e].new.active PROVE chip[e].new.job.gen # poolGen
    BY Zenon DEF Live
  <2>1. chip[e].new.job.gen <= creator.gen /\ chip[e].new.job.gen \in Nat
    BY <1>1, DatesTyped, Zenon DEF Dated
  <2> QED
    BY <1>1, <1>2, <2>1, DatesTyped
<1> QED
  BY <1>3, Zenon DEF Rotates

\* SYSTEM_clean_jobs_queue: the last job of the list is out of date as well.
LEMMA CleaningWindow ==
    ASSUME IInv, cleaner # "idle"
    PROVE  <<>> \in Seq(Jobs) /\ Window(<<>>, credited, poolGen)
<1>1. /\ Types /\ Generations /\ Window(dedup, credited, poolGen)
  BY Taken, Zenon
<1>2. creator.gen < poolGen
  BY <1>1, DatesTyped DEF Generations
<1>3. ASSUME NEW i \in 1 .. Len(credited) PROVE credited[i].gen < poolGen
  <2>1. credited[i].gen <= creator.gen
    BY <1>1, <1>3, Zenon DEF Generations
  <2> QED
    BY <1>1, <1>2, <2>1, DatesTyped
<1>4. dedup \in Seq(Jobs) /\ credited \in Seq(Jobs)
  BY <1>1, Zenon DEF Types
<1> QED
  BY <1>1, <1>3, <1>4, WindowEmptied, Zenon

\* stratum_publish_job.
LEMMA PublishKeeps == ASSUME IInv, Publish PROVE IInv'
<1>1. /\ cleaner = "idle" /\ poolGen < MaxPool /\ poolGen' = poolGen + 1 /\ published' = poolGen + 1
      /\ store' = store /\ reactor' = reactor /\ running' = running /\ dispatch' = dispatch
      /\ dedup' = dedup /\ rejections' = rejections /\ chip' = chip /\ transit' = transit
      /\ pending' = pending /\ cleaner' = cleaner /\ creator' = creator /\ credited' = credited
  BY DEF Publish, driverVars, wireVars
<1>2. /\ Types /\ Consistent(reactor, store, chip, dispatch, ResultsInFlight) /\ Generations
  BY Taken, Zenon
<1>3. poolGen \in Nat /\ poolGen' \in Nat /\ poolGen < poolGen'
  BY <1>1, <1>2, DatesTyped
<1>4. /\ Rotates(reactor, store, chip, poolGen') /\ Window(dedup, credited, poolGen')
      /\ Dated(store, chip, creator.gen, poolGen', creator.clean)
      /\ \A i \in 1 .. Len(credited) : credited[i].gen <= creator.gen /\ credited[i].gen < poolGen'
  <2>1. \A later \in Nat : poolGen < later =>
          /\ Rotates(reactor, store, chip, later) /\ Window(dedup, credited, later)
          /\ Dated(store, chip, creator.gen, later, creator.clean)
          /\ \A i \in 1 .. Len(credited) : credited[i].gen <= creator.gen /\ credited[i].gen < later
    BY LaterParts, Zenon
  <2> QED
    BY <1>3, <2>1, Zenon
<1>5. poolGen' \in 0 .. MaxPool /\ published' \in 0 .. MaxPool
  BY <1>1, <1>3, BzmDriverAssumption
<1>6. Types'
  BY <1>1, <1>2, <1>5 DEF Types
<1>7. Generations'
  <2>1. creator'.gen <= published' /\ published' <= poolGen'
  BY <1>1, <1>2, <1>3, DatesTyped DEF Generations
  <2> QED
    BY <1>1, <1>2, <1>4, <2>1, Zenon DEF Generations
<1>8. ResultsInFlight' = ResultsInFlight
  BY <1>1, Zenon DEF ResultsInFlight
<1> QED
  BY <1>1, <1>2, <1>4, <1>6, <1>7, <1>8, Zenon DEF IInv, Consistent

\* stratum_invalidate_work.
LEMMA InvalidatePoolKeeps == ASSUME IInv, InvalidatePool PROVE IInv'
<1>1. /\ cleaner = "idle" /\ poolGen \in 1 .. MaxPool - 1 /\ poolGen' = poolGen + 1
      /\ published' = published /\ cleaner' = "clear"
      /\ store' = store /\ reactor' = reactor /\ running' = running /\ dispatch' = dispatch
      /\ dedup' = dedup /\ rejections' = rejections /\ chip' = chip /\ transit' = transit
      /\ pending' = pending /\ creator' = creator /\ credited' = credited
  BY DEF InvalidatePool, driverVars, wireVars
<1>2. /\ Types /\ Consistent(reactor, store, chip, dispatch, ResultsInFlight) /\ Generations
  BY Taken, Zenon
<1>3. poolGen \in Nat /\ poolGen' \in Nat /\ poolGen < poolGen'
  BY <1>1, <1>2, DatesTyped
<1>4. /\ Rotates(reactor, store, chip, poolGen') /\ Window(dedup, credited, poolGen')
      /\ Dated(store, chip, creator.gen, poolGen', creator.clean)
      /\ \A i \in 1 .. Len(credited) : credited[i].gen <= creator.gen /\ credited[i].gen < poolGen'
  <2>1. \A later \in Nat : poolGen < later =>
          /\ Rotates(reactor, store, chip, later) /\ Window(dedup, credited, later)
          /\ Dated(store, chip, creator.gen, later, creator.clean)
          /\ \A i \in 1 .. Len(credited) : credited[i].gen <= creator.gen /\ credited[i].gen < later
    BY LaterParts, Zenon
  <2> QED
    BY <1>3, <2>1, Zenon
<1>5. poolGen' \in 0 .. MaxPool
  BY <1>1, <1>3, BzmDriverAssumption
<1>6. Types'
  BY <1>1, <1>2, <1>5 DEF Types
<1>7. Generations'
  <2>1. creator'.gen <= published' /\ published' < poolGen' /\ published' <= poolGen'
  BY <1>1, <1>2, <1>3, DatesTyped DEF Generations
  <2> QED
    BY <1>1, <1>2, <1>4, <2>1, Zenon DEF Generations
<1>8. ResultsInFlight' = ResultsInFlight
  BY <1>1, Zenon DEF ResultsInFlight
<1> QED
  BY <1>1, <1>2, <1>4, <1>6, <1>7, <1>8, Zenon DEF IInv, Consistent

\* BZM_clear_work.
LEMMA ClearWorkKeeps == ASSUME IInv, ClearWork PROVE IInv'
<1>1. /\ cleaner = "clear" /\ cleaner' = "store" /\ dedup' = <<>> /\ running' = running
      /\ rejections' = rejections /\ chip' = chip /\ transit' = transit /\ pending' = pending
      /\ poolGen' = poolGen /\ published' = published /\ creator' = creator /\ credited' = credited
  BY DEF ClearWork, wireVars
<1>2. \/ /\ reactor' = InvalidateWork(reactor) /\ store' = InvalidateAll(store)
         /\ dispatch' = StartFastIfIdle(dispatch)
      \/ reactor' = reactor /\ store' = store /\ dispatch' = dispatch
  BY Zenon DEF ClearWork
<1>3. /\ Types /\ Consistent(reactor, store, chip, dispatch, ResultsInFlight) /\ Generations
      /\ Dated(store, chip, creator.gen, poolGen, creator.clean)
  BY Taken, Zenon
<1>4. ResultsInFlight' = ResultsInFlight /\ ResultsInFlight \in SUBSET ResultsInFlight
  BY <1>1, Zenon DEF ResultsInFlight
<1>5. /\ Consistent(reactor', store', chip', dispatch', ResultsInFlight')
      /\ Dated(store', chip', creator'.gen, poolGen', creator'.clean)
  <2>1. CASE reactor' = reactor /\ store' = store /\ dispatch' = dispatch
    BY <1>1, <1>3, <1>4, <2>1, Zenon
  <2>2. CASE /\ reactor' = InvalidateWork(reactor) /\ store' = InvalidateAll(store)
             /\ dispatch' = StartFastIfIdle(dispatch)
    <3>1. /\ Consistent(InvalidateWork(reactor), InvalidateAll(store), chip,
                        StartFastIfIdle(dispatch), ResultsInFlight)
          /\ Dated(InvalidateAll(store), chip, creator.gen, poolGen, creator.clean)
      BY <1>4, InvalidatedParts, Zenon
    <3> QED
      BY <1>1, <1>4, <2>2, <3>1, Zenon
  <2> QED
    BY <1>2, <2>1, <2>2
<1>6. <<>> \in Seq(Jobs) /\ Window(<<>>, credited, poolGen)
  BY <1>1, CleaningWindow
<1>7. /\ reactor' \in Reactors /\ store' \in Stores /\ dispatch' \in Budgets
  BY <1>5, Zenon DEF Consistent
<1>8. Types'
  BY <1>1, <1>3, <1>6, <1>7 DEF Types
<1>9. published < poolGen
  BY <1>1, <1>3 DEF Generations
<1>10. Generations'
  BY <1>1, <1>3, <1>5, <1>9, Zenon DEF Generations
<1> QED
  BY <1>1, <1>5, <1>6, <1>8, <1>10, Assembled, Zenon

\* asic_job_store_invalidate_all from the Stratum task.
LEMMA ClearStoreKeeps == ASSUME IInv, ClearStore PROVE IInv'
<1>1. /\ cleaner = "store" /\ cleaner' = "idle" /\ store' = InvalidateAll(store)
      /\ reactor' = reactor /\ running' = running /\ dispatch' = dispatch
      /\ dedup' = dedup /\ rejections' = rejections /\ chip' = chip /\ transit' = transit
      /\ pending' = pending /\ creator' = creator /\ credited' = credited
      /\ poolGen' = poolGen /\ published' = published
  BY DEF ClearStore, wireVars
<1>2. /\ Types /\ Consistent(reactor, store, chip, dispatch, ResultsInFlight) /\ Generations
      /\ Window(dedup, credited, poolGen)
      /\ Dated(store, chip, creator.gen, poolGen, creator.clean)
  BY Taken, Zenon
<1>3. store \in Stores /\ reactor \in Reactors /\ chip \in Chips
  BY <1>2, Zenon DEF Types
<1>4. store' \in Stores /\ store'.nextGeneration >= store.nextGeneration
  BY <1>1, <1>3, Emptied DEF Stores
<1>5. Rotates(reactor, store', chip, poolGen)
  <2>1. \A st : Rotates(reactor, st, chip, poolGen)
    BY <1>1, CleaningParts
  <2> QED
    BY <2>1, Zenon
<1>6. Issued(reactor, store')
  <2>1. \A e \in Engines : reactor.current[e] \in Assignments /\ reactor.previous[e] \in Assignments
    BY <1>3 DEF Reactors
  <2>2. Issued(reactor, store)
    BY <1>2, Zenon DEF Consistent
  <2> QED
    BY <1>3, <1>4, <2>1, <2>2, IssuedKept, Zenon
<1>7. Dated(store', chip, creator.gen, poolGen, creator.clean)
  <2>1. \A e \in Engines : chip[e] = chip[e] \/ (~chip[e].new.active /\ ~chip[e].old.active)
    OBVIOUS
  <2> QED
  BY <1>1, <1>2, <1>3, <2>1, DatedWithLess, Zenon
<1>8. ResultsInFlight' = ResultsInFlight
  BY <1>1, Zenon DEF ResultsInFlight
<1>9. Types'
  BY <1>1, <1>2, <1>4 DEF Types
<1>10. Generations'
  BY <1>1, <1>2, <1>7, Zenon DEF Generations
<1>11. Consistent(reactor', store', chip', dispatch', ResultsInFlight')
  BY <1>1, <1>2, <1>4, <1>5, <1>6, <1>8, Zenon DEF Consistent
<1> QED
  BY <1>1, <1>2, <1>9, <1>10, <1>11, Assembled, Zenon

\* A step of the creator that touches neither driver nor wire nor pool.
LEMMA CreatorKeeps ==
    ASSUME IInv, UNCHANGED <<driverVars, wireVars, poolVars, credited>>,
           creator' \in Creators, creator'.gen <= published,
           creator'.pc # "wait" => creator'.gen >= 1,
           Dated(store, chip, creator'.gen, poolGen, creator'.clean),
           \A i \in 1 .. Len(credited) :
              credited[i].gen <= creator'.gen /\ (creator'.clean => credited[i].gen < poolGen)
    PROVE  IInv'
<1>1. /\ store' = store /\ reactor' = reactor /\ running' = running /\ dispatch' = dispatch
      /\ dedup' = dedup /\ rejections' = rejections /\ chip' = chip /\ transit' = transit
      /\ pending' = pending /\ cleaner' = cleaner /\ credited' = credited
      /\ poolGen' = poolGen /\ published' = published
  BY DEF driverVars, wireVars, poolVars
<1>2. /\ Types /\ Consistent(reactor, store, chip, dispatch, ResultsInFlight) /\ Generations
      /\ Window(dedup, credited, poolGen)
  BY Taken, Zenon
<1>3. ResultsInFlight' = ResultsInFlight
  BY <1>1, Zenon DEF ResultsInFlight
<1>4. Types'
  BY <1>1, <1>2 DEF Types
<1>5. Generations'
  BY <1>1, <1>2, Zenon DEF Generations
<1> QED
  BY <1>1, <1>2, <1>3, <1>4, <1>5, Assembled, Zenon

\* create_jobs_task takes the notification.
LEMMA TakeJobKeeps == ASSUME IInv, TakeJob PROVE IInv'
<1> DEFINE taken == IF published = creator.gen THEN creator
                    ELSE [creator EXCEPT !.gen = published, !.clean = TRUE, !.n = 0]
<1>1. /\ published # 0 /\ UNCHANGED <<driverVars, wireVars, poolVars, credited>>
      /\ creator' = [taken EXCEPT !.pc = IF taken.gen = poolGen /\ running THEN "send" ELSE "wait"]
  BY Zenon DEF TakeJob
<1>2. /\ Types /\ Generations /\ Dated(store, chip, creator.gen, poolGen, creator.clean)
  BY Taken, Zenon
<1>3. /\ creator \in Creators /\ published \in 0 .. MaxPool /\ poolGen \in Nat /\ published \in Nat
      /\ creator.gen \in Nat
  BY <1>2, DatesTyped, Zenon DEF Types
<1>4. 0 \in 0 .. Variants - 1
  BY BzmDriverAssumption
<1>5. taken \in Creators /\ taken.gen = published
  <2>1. CASE published = creator.gen
    BY <1>3, <2>1
  <2>2. CASE published # creator.gen
    <3>1. taken = [pc |-> creator.pc, gen |-> published, clean |-> TRUE, n |-> 0]
      BY <1>3, <2>2 DEF Creators
    <3> QED
      BY <1>3, <1>4, <3>1 DEF Creators
  <2> QED
    BY <2>1, <2>2
<1>6. published # creator.gen => creator.gen < published
  BY <1>2, <1>3 DEF Generations
<1>7. published <= poolGen
  BY <1>2 DEF Generations
<1>8. published = creator.gen => taken = creator
  BY Zenon
<1> HIDE DEF taken
<1>9. creator' \in Creators /\ creator'.gen = published
  BY <1>1, <1>5 DEF Creators
<1>10. published = creator.gen => (creator'.clean <=> creator.clean)
  BY <1>1, <1>5, <1>8 DEF Creators
<1>11. creator'.gen <= published /\ creator'.gen >= 1
  BY <1>1, <1>3, <1>9
<1>12. CASE published = creator.gen
  <2>1. Dated(store, chip, creator'.gen, poolGen, creator'.clean)
    BY <1>2, <1>9, <1>10, <1>12, Zenon DEF Dated
  <2>2. \A i \in 1 .. Len(credited) :
           credited[i].gen <= creator'.gen /\ (creator'.clean => credited[i].gen < poolGen)
    BY <1>2, <1>9, <1>10, <1>12, Zenon DEF Generations
  <2> QED
    BY <1>1, <1>9, <1>11, <2>1, <2>2, CreatorKeeps, Zenon
<1>13. CASE published # creator.gen
  <2>1. \A x \in Nat : x <= creator.gen => x <= published /\ x < poolGen
    BY <1>3, <1>6, <1>7, <1>13
  <2>2. Dated(store, chip, creator'.gen, poolGen, creator'.clean)
    BY <1>2, <1>9, <2>1, DatesTyped, Zenon DEF Dated
  <2>3. \A i \in 1 .. Len(credited) :
           credited[i].gen <= creator'.gen /\ (creator'.clean => credited[i].gen < poolGen)
    BY <1>2, <1>9, <2>1, DatesTyped, Zenon DEF Generations
  <2> QED
    BY <1>1, <1>9, <1>11, <2>2, <2>3, CreatorKeeps, Zenon
<1> QED
  BY <1>12, <1>13

\* A change of the place or of the clean flag.
LEMMA CreatorMovesKeeps ==
    ASSUME IInv, UNCHANGED <<driverVars, wireVars, poolVars, credited>>,
           creator' \in Creators, creator'.gen = creator.gen,
           creator'.clean => creator.clean, creator'.pc # "wait" => creator.gen >= 1
    PROVE  IInv'
<1>1. /\ Generations /\ Dated(store, chip, creator.gen, poolGen, creator.clean)
  BY Taken, Zenon
<1>2. creator'.gen <= published /\ (creator'.pc # "wait" => creator'.gen >= 1)
  BY <1>1, Zenon DEF Generations
<1>3. Dated(store, chip, creator'.gen, poolGen, creator'.clean)
  BY <1>1, Zenon DEF Dated
<1>4. \A i \in 1 .. Len(credited) :
         credited[i].gen <= creator'.gen /\ (creator'.clean => credited[i].gen < poolGen)
  BY <1>1, Zenon DEF Generations
<1> QED
  BY <1>2, <1>3, <1>4, CreatorKeeps, Zenon

\* A non-clean notify, the check before an attempt, and a refusal.
LEMMA OtherCreatorStepsKeep ==
    ASSUME IInv, TakeSuccessor \/ CheckGeneration \/ SendRefused PROVE IInv'
<1>1. Types /\ Generations
  BY Taken, Zenon
<1>2. creator \in Creators
  BY <1>1, DatesTyped, Zenon
<1>3. creator.pc # "wait" => creator.gen >= 1
  BY <1>1, Zenon DEF Generations
<1>4. CASE TakeSuccessor
  <2>1. /\ creator.pc = "wait" /\ creator' = [creator EXCEPT !.clean = FALSE]
        /\ UNCHANGED <<driverVars, wireVars, poolVars, credited>>
    BY <1>4, Zenon DEF TakeSuccessor
  <2>2. creator' \in Creators /\ creator'.gen = creator.gen /\ ~creator'.clean /\ creator'.pc = "wait"
    BY <1>2, <2>1 DEF Creators
  <2> QED
    BY <2>1, <2>2, CreatorMovesKeeps, Zenon
<1>5. CASE CheckGeneration
  <2>1. /\ creator.pc = "check"
        /\ creator' = [creator EXCEPT !.pc = IF creator.gen = poolGen THEN "send" ELSE "wait"]
        /\ UNCHANGED <<driverVars, wireVars, poolVars, credited>>
    BY <1>5, Zenon DEF CheckGeneration
  <2>2. creator' \in Creators /\ creator'.gen = creator.gen /\ (creator'.clean => creator.clean)
    BY <1>2, <2>1 DEF Creators
  <2>3. creator.gen >= 1
    BY <1>3, <2>1
  <2> QED
    BY <2>1, <2>2, <2>3, CreatorMovesKeeps, Zenon
<1>6. CASE SendRefused
  <2>1. /\ creator.pc = "send" /\ creator' = [creator EXCEPT !.pc = "check"]
        /\ UNCHANGED <<driverVars, wireVars, poolVars, credited>>
    BY <1>6, Zenon DEF SendRefused
  <2>2. creator' \in Creators /\ creator'.gen = creator.gen /\ (creator'.clean => creator.clean)
    BY <1>2, <2>1 DEF Creators
  <2>3. creator.gen >= 1
    BY <1>3, <2>1
  <2> QED
    BY <2>1, <2>2, <2>3, CreatorMovesKeeps, Zenon
<1> QED
  BY <1>4, <1>5, <1>6

\* The results under way after a step.
LEMMA FlightNext ==
    ASSUME pending' \in Seq(Results), transit' \in Seq(Results)
    PROVE  ResultsInFlight' = Elements(pending') \union Elements(transit')
<1>1. \A p, t \in Seq(Results) :
        {p[i] : i \in DOMAIN p} \union {t[i] : i \in DOMAIN t} = Elements(p) \union Elements(t)
  BY InFlight
<1>2. ResultsInFlight' = {pending'[i] : i \in DOMAIN pending'} \union {transit'[i] : i \in DOMAIN transit'}
  BY DEF ResultsInFlight
<1> QED
  BY <1>1, <1>2, Zenon

\* A step that touches neither the pool nor what the driver dates jobs by.
LEMMA FramePool ==
    ASSUME IInv, creator' = creator, poolGen' = poolGen, published' = published,
           cleaner' = cleaner, credited' = credited,
           Dated(store', chip', creator.gen, poolGen, creator.clean)
    PROVE  Generations'
  BY Zenon DEF IInv, Generations

\* An engine reports a solution.
LEMMA EmitKeeps == ASSUME IInv, Emit PROVE IInv'
<1>1. /\ Len(transit) < MaxTransit
      /\ UNCHANGED <<driverVars, chip, pending, poolVars, creator, credited>>
      /\ \E e \in Engines : \E w \in {chip[e].new, chip[e].old} :
            w.active /\ transit' = Append(transit, Result(e, w))
  BY Zenon DEF Emit
<1>2. PICK e \in Engines : \E w \in {chip[e].new, chip[e].old} :
            w.active /\ transit' = Append(transit, Result(e, w))
  BY <1>1, Zenon
<1>3. PICK w \in {chip[e].new, chip[e].old} : w.active /\ transit' = Append(transit, Result(e, w))
  BY <1>2, Zenon
<1>4. /\ store' = store /\ reactor' = reactor /\ running' = running /\ dispatch' = dispatch
      /\ dedup' = dedup /\ rejections' = rejections /\ chip' = chip
      /\ pending' = pending /\ cleaner' = cleaner /\ credited' = credited
      /\ poolGen' = poolGen /\ published' = published /\ creator' = creator
  BY <1>1 DEF driverVars, poolVars
<1>5. /\ Types /\ Consistent(reactor, store, chip, dispatch, ResultsInFlight)
      /\ Dated(store, chip, creator.gen, poolGen, creator.clean) /\ Window(dedup, credited, poolGen)
  BY Taken, Zenon
<1>6. chip \in Chips /\ pending \in Seq(Results) /\ transit \in Seq(Results) /\ MaxTransit \in Nat
  BY <1>5, BzmDriverAssumption, Zenon DEF Types
<1>7. w \in Works
  BY <1>6 DEF Chips
<1>8. w.seq \in Sequences /\ w.handle \in Handles /\ w.job \in Jobs
  BY <1>3, <1>7, WorkTyped, Zenon
<1> DEFINE res == Result(e, w)
<1>9. res \in Results /\ res.engine = e /\ res.seq = w.seq /\ res.handle = w.handle /\ ~res.overdue
  BY <1>8 DEF Result, Results
<1> HIDE DEF res
<1>10. /\ transit' \in Seq(Results) /\ Elements(transit') \subseteq Elements(transit) \union {res}
       /\ Len(transit) \in Nat /\ Len(transit') = Len(transit) + 1
  BY <1>3, <1>6, <1>9, ElementsOfAppend DEF res
<1>11. Types'
  BY <1>1, <1>4, <1>5, <1>6, <1>10 DEF Types
<1>12. ResultsInFlight' \subseteq ResultsInFlight \union {res}
  <2>1. ResultsInFlight' = Elements(pending') \union Elements(transit')
    BY <1>4, <1>6, <1>10, FlightNext, Zenon
  <2>2. ResultsInFlight = Elements(pending) \union Elements(transit)
    BY <1>5, FlightTyped, Zenon
  <2> QED
    BY <1>4, <1>10, <2>1, <2>2
<1>13. Trusted(reactor, chip, ResultsInFlight')
  <2>1. Trusted(reactor, chip, ResultsInFlight)
    BY <1>5, Zenon DEF Consistent
  <2>2. ~reactor.flushPending => Known(reactor, e, w)
    BY <1>3, <2>1, Zenon DEF Trusted
  <2>3. ~reactor.flushPending => Known(reactor, res.engine, res)
    BY <1>9, <2>2 DEF Known
  <2>4. \A x \in ResultsInFlight' : x \in ResultsInFlight \/ x = res
    BY <1>12
  <2> QED
    BY <1>9, <2>1, <2>3, <2>4, Zenon DEF Trusted
<1>14. Consistent(reactor', store', chip', dispatch', ResultsInFlight')
  BY <1>4, <1>5, <1>13, Zenon DEF Consistent
<1>15. Generations'
  BY <1>4, <1>5, FramePool, Zenon
<1> QED
  BY <1>4, <1>5, <1>11, <1>14, <1>15, Assembled, Zenon

\* bzm_serial_poll outside a dispatch.
LEMMA PollKeeps == ASSUME IInv, Poll PROVE IInv'
<1>1. /\ transit # <<>> /\ pending' = Enqueue(pending, Head(transit)) /\ transit' = Tail(transit)
      /\ store' = store /\ reactor' = reactor /\ running' = running /\ dispatch' = dispatch
      /\ dedup' = dedup /\ rejections' = rejections /\ chip' = chip
      /\ cleaner' = cleaner /\ credited' = credited
      /\ poolGen' = poolGen /\ published' = published /\ creator' = creator
  BY DEF Poll, driverVars, poolVars
<1>2. /\ Types /\ Consistent(reactor, store, chip, dispatch, ResultsInFlight)
      /\ Dated(store, chip, creator.gen, poolGen, creator.clean) /\ Window(dedup, credited, poolGen)
  BY Taken, Zenon
<1>3. /\ chip \in Chips /\ pending \in Seq(Results) /\ transit \in Seq(Results)
      /\ Len(pending) <= PendingCapacity
  BY <1>2, Zenon DEF Types
<1>4. /\ Tail(transit) \in Seq(Results) /\ Elements(Tail(transit)) \subseteq Elements(transit)
      /\ Len(transit) \in Nat /\ Len(Tail(transit)) = Len(transit) - 1
      /\ Head(transit) \in Elements(transit) /\ Head(transit) \in Results
  BY <1>1, <1>3, ElementsOfTail
<1> DEFINE res == Head(transit)
           ring == Enqueue(pending, res)
<1>5. /\ ring \in Seq(Results) /\ Len(ring) <= PendingCapacity
      /\ Elements(ring) \subseteq Elements(pending) \union {res}
  <2> HIDE DEF res
  <2>1. res \in Results
    BY <1>4 DEF res
  <2> QED
    BY <1>3, <2>1, EnqueueKeeps, Zenon
<1>6. pending' = ring
  BY <1>1
<1> HIDE DEF ring
<1>7. Types'
  <2>1. Len(transit') <= MaxTransit
    BY <1>1, <1>2, <1>4, BzmDriverAssumption DEF Types
  <2> QED
    BY <1>1, <1>2, <1>4, <1>5, <1>6, <2>1, Zenon DEF Types
<1>8. ResultsInFlight' \subseteq ResultsInFlight
  <2>1. ResultsInFlight' = Elements(pending') \union Elements(transit')
    BY <1>1, <1>4, <1>5, <1>6, FlightNext, Zenon
  <2>2. ResultsInFlight = Elements(pending) \union Elements(transit)
    BY <1>2, FlightTyped, Zenon
  <2> QED
    BY <1>1, <1>4, <1>5, <1>6, <2>1, <2>2
<1>9. Trusted(reactor, chip, ResultsInFlight')
  <2>1. Trusted(reactor, chip, ResultsInFlight)
    BY <1>2, Zenon DEF Consistent
  <2>2. \A e \in Engines : chip[e] = chip[e] \/ (~chip[e].new.active /\ ~chip[e].old.active)
    OBVIOUS
  <2>3. ResultsInFlight' \in SUBSET ResultsInFlight
    BY <1>8
  <2> QED
    BY <2>1, <2>2, <2>3, TrustedWithLess, Zenon
<1>10. Consistent(reactor', store', chip', dispatch', ResultsInFlight')
  BY <1>1, <1>2, <1>9, Zenon DEF Consistent
<1>11. Generations'
  BY <1>1, <1>2, FramePool, Zenon
<1> QED
  BY <1>1, <1>2, <1>7, <1>10, <1>11, Assembled, Zenon

\* What is remembered in both lists keeps the shorter one the end of the longer.
LEMMA WindowRemembers ==
    ASSUME NEW known \in Seq(Jobs), NEW given \in Seq(Jobs), NEW gen, Window(known, given, gen),
           NEW share \in Jobs
    PROVE  /\ Remember(known, share) \in Seq(Jobs) /\ Remember(given, share) \in Seq(Jobs)
           /\ Window(Remember(known, share), Remember(given, share), gen)
           /\ Len(Remember(given, share)) \in Nat
           /\ Remember(given, share)[Len(Remember(given, share))] = share
           /\ \A i \in 1 .. Len(Remember(given, share)) :
                 Remember(given, share)[i] = share
                   \/ \E j \in 1 .. Len(given) : Remember(given, share)[i] = given[j]
<1>1. DedupCapacity \in Nat \ {0} /\ Len(known) \in Nat /\ Len(given) \in Nat
  BY BzmDriverAssumption, LenProperties
<1>2. /\ Len(known) <= Len(given) /\ Len(given) <= DedupCapacity
      /\ \A i \in 1 .. Len(known) : known[i] = given[Len(given) - Len(known) + i]
      /\ \A i \in 1 .. Len(given) - Len(known) : given[i].gen < gen
  BY Zenon DEF Window
\* A list without its first element if it is full.
<1> DEFINE Rest(s) == IF Len(s) = DedupCapacity THEN Tail(s) ELSE s
           Gone(s) == IF Len(s) = DedupCapacity THEN 1 ELSE 0
<1>3. ASSUME NEW s \in Seq(Jobs)
      PROVE  /\ Remember(s, share) \in Seq(Jobs)
             /\ Len(Remember(s, share)) = Len(s) - Gone(s) + 1
             /\ \A i \in 1 .. Len(s) - Gone(s) : Remember(s, share)[i] = s[i + Gone(s)]
             /\ Remember(s, share)[Len(s) - Gone(s) + 1] = share
  <2>1. Len(s) \in Nat /\ (Len(s) = DedupCapacity => s # <<>>)
    BY <1>1, EmptySeq, LenProperties
  <2>2. /\ Rest(s) \in Seq(Jobs) /\ Len(Rest(s)) = Len(s) - Gone(s)
        /\ \A i \in 1 .. Len(s) - Gone(s) : Rest(s)[i] = s[i + Gone(s)]
    <3>1. CASE Len(s) = DedupCapacity
      <4>1. /\ Tail(s) \in Seq(Jobs) /\ Len(Tail(s)) = Len(s) - 1
            /\ \A i \in 1 .. Len(s) - 1 : Tail(s)[i] = s[i + 1]
        BY <2>1, <3>1, ElementsOfTail
      <4> QED
        BY <3>1, <4>1
    <3>2. CASE Len(s) # DedupCapacity
      BY <2>1, <3>2
    <3> QED
      BY <3>1, <3>2
  <2>3. Remember(s, share) = Append(Rest(s), share)
    BY DEF Remember
  <2> HIDE DEF Rest
  <2>4. /\ Append(Rest(s), share) \in Seq(Jobs)
        /\ Len(Append(Rest(s), share)) = Len(Rest(s)) + 1
        /\ \A i \in 1 .. Len(Rest(s)) : Append(Rest(s), share)[i] = Rest(s)[i]
        /\ Append(Rest(s), share)[Len(Rest(s)) + 1] = share
    BY <2>2, AppendProperties
  <2> QED
    BY <2>2, <2>3, <2>4
<1> HIDE DEF Rest
<1> DEFINE k == Remember(known, share)
           g == Remember(given, share)
<1>4. /\ k \in Seq(Jobs) /\ Len(k) = Len(known) - Gone(known) + 1
      /\ \A i \in 1 .. Len(known) - Gone(known) : k[i] = known[i + Gone(known)]
      /\ k[Len(known) - Gone(known) + 1] = share
  BY <1>3
<1>5. /\ g \in Seq(Jobs) /\ Len(g) = Len(given) - Gone(given) + 1
      /\ \A i \in 1 .. Len(given) - Gone(given) : g[i] = given[i + Gone(given)]
      /\ g[Len(given) - Gone(given) + 1] = share
  BY <1>3
<1> HIDE DEF k, g
<1>6. Gone(known) = 1 => Gone(given) = 1 /\ Len(known) = Len(given)
  BY <1>1, <1>2
<1>7. Gone(known) \in {0, 1} /\ Gone(given) \in {0, 1}
      /\ (Gone(given) = 1 <=> Len(given) = DedupCapacity)
      /\ (Gone(known) = 1 <=> Len(known) = DedupCapacity)
  OBVIOUS
<1> HIDE DEF Gone
<1>8. Len(k) <= Len(g) /\ Len(g) <= DedupCapacity /\ Len(g) \in Nat /\ Len(k) \in Nat
  BY <1>1, <1>2, <1>4, <1>5, <1>6, <1>7
<1>9. ASSUME NEW i \in 1 .. Len(k) PROVE k[i] = g[Len(g) - Len(k) + i]
  <2>1. CASE i = Len(k)
    BY <1>1, <1>4, <1>5, <1>7, <1>8, <2>1
  <2>2. CASE i < Len(k)
    <3>1. i \in 1 .. Len(known) - Gone(known) /\ k[i] = known[i + Gone(known)]
      BY <1>1, <1>4, <1>7, <2>2
    <3>2. i + Gone(known) \in 1 .. Len(known)
      BY <1>1, <1>7, <3>1
    <3>3. known[i + Gone(known)] = given[Len(given) - Len(known) + (i + Gone(known))]
      BY <1>2, <3>2, Zenon
    <3>4. Len(g) - Len(k) + i \in 1 .. Len(given) - Gone(given)
      BY <1>1, <1>2, <1>4, <1>5, <1>6, <1>7, <1>8, <3>1, SMTT(40)
    <3>5. g[Len(g) - Len(k) + i] = given[Len(g) - Len(k) + i + Gone(given)]
      BY <1>5, <3>4, Zenon
    <3>6. Len(g) - Len(k) + i + Gone(given) = Len(given) - Len(known) + (i + Gone(known))
      <4>1. Len(k) = Len(known) - Gone(known) + 1 /\ Len(g) = Len(given) - Gone(given) + 1
        BY <1>4, <1>5, Zenon
      <4>2. Gone(known) \in Nat /\ Gone(given) \in Nat /\ i \in Nat
        BY <1>7, <1>8
      <4>3. (Len(given) - Gone(given) + 1) - (Len(known) - Gone(known) + 1) + i + Gone(given)
              = Len(given) - Len(known) + (i + Gone(known))
        BY <1>1, <4>2
      <4> QED
        BY <4>1, <4>3, Zenon
    <3> QED
      BY <3>1, <3>3, <3>5, <3>6, Zenon
  <2> QED
    BY <1>8, <2>1, <2>2
<1>10. ASSUME NEW i \in 1 .. Len(g) - Len(k) PROVE g[i].gen < gen
  <2>1. i \in 1 .. Len(given) - Gone(given)
    BY <1>1, <1>4, <1>5, <1>6, <1>7, <1>8
  <2>2. i + Gone(given) \in 1 .. Len(given) - Len(known)
    BY <1>1, <1>2, <1>4, <1>5, <1>6, <1>7, <1>8, SMTT(40)
  <2> QED
    BY <1>2, <1>5, <2>1, <2>2, Zenon
<1>11. Window(k, g, gen)
  BY <1>8, <1>9, <1>10, Zenon DEF Window
<1>12. g[Len(g)] = share
  BY <1>5, Zenon
<1>13. ASSUME NEW i \in 1 .. Len(g) PROVE g[i] = share \/ \E j \in 1 .. Len(given) : g[i] = given[j]
  <2>1. CASE i = Len(g)
    BY <1>12, <2>1, Zenon
  <2>2. CASE i # Len(g)
    <3>1. i \in 1 .. Len(given) - Gone(given) /\ i + Gone(given) \in 1 .. Len(given)
      BY <1>1, <1>5, <1>7, <1>8, <2>2
    <3> QED
      BY <1>5, <3>1, Zenon
  <2> QED
    BY <2>1, <2>2
<1> QED
  BY <1>4, <1>5, <1>8, <1>11, <1>12, <1>13, Zenon DEF k, g

\* A result that maps is found to solve a job of the store, no newer than the
\* creator's.
LEMMA ShareDated ==
    ASSUME IInv, NEW res \in Results, Mapped(res)
    PROVE  /\ HandleOf(res) \in Handles /\ Contains(store, HandleOf(res))
           /\ Snapshot(store, HandleOf(res)) \in Jobs
           /\ Snapshot(store, HandleOf(res)).gen <= creator.gen
           /\ creator.clean => Snapshot(store, HandleOf(res)).gen < poolGen
<1>1. /\ Types /\ Dated(store, chip, creator.gen, poolGen, creator.clean)
  BY Taken, Zenon
<1>2. store \in Stores /\ reactor \in Reactors
  BY <1>1, Zenon DEF Types
<1> DEFINE a == FindAssignment(reactor, res.engine, res.seq)
<1>3. res.engine \in Engines
  BY DEF Results
<1>4. reactor.current[res.engine] \in Assignments /\ reactor.previous[res.engine] \in Assignments
      /\ NoWork \in Assignments
  BY <1>2, <1>3 DEF Reactors, Assignments
<1>5. a \in Assignments
  BY <1>4 DEF FindAssignment
<1>6. a.active /\ Contains(store, a.handle)
  BY Zenon DEF Mapped, Maps
<1>7. HandleOf(res) = a.handle
  BY Zenon DEF HandleOf
<1> HIDE DEF a
<1>8. a.handle \in Handles
  BY <1>5, <1>6, AssignmentTyped, Zenon
<1>9. a.handle.slot \in Slots
  BY <1>8 DEF Handles
<1>10. store.entries[a.handle.slot].valid
  BY <1>6, Zenon DEF Contains
<1>11. store.entries[a.handle.slot].job \in Jobs
  <2>1. store.entries[a.handle.slot] \in Entries
    BY <1>2, <1>9 DEF Stores
  <2>2. store.entries[a.handle.slot] # NoEntry
    BY <1>10 DEF NoEntry
  <2> QED
    BY <2>1, <2>2 DEF Entries
<1>12. Snapshot(store, a.handle) = store.entries[a.handle.slot].job
  BY Zenon DEF Snapshot
<1>13. /\ store.entries[a.handle.slot].job.gen <= creator.gen
       /\ creator.clean => store.entries[a.handle.slot].job.gen < poolGen
  BY <1>1, <1>9, <1>10, Zenon DEF Dated
<1> QED
  BY <1>6, <1>7, <1>8, <1>11, <1>12, <1>13, Zenon

\* BZM_process_work on the oldest result of the ring.
LEMMA ProcessWorkKeeps == ASSUME IInv, ProcessWork PROVE IInv'
<1> DEFINE res == Head(pending)
           share == Snapshot(store, HandleOf(res))
<1>1. /\ pending # <<>> /\ pending' = Tail(pending) /\ transit' = transit
      /\ store' = store /\ reactor' = reactor /\ running' = running /\ dispatch' = dispatch
      /\ chip' = chip /\ cleaner' = cleaner
      /\ poolGen' = poolGen /\ published' = published /\ creator' = creator
      /\ \/ /\ Mapped(res) /\ dedup' = Remember(dedup, share)
            /\ credited' = Remember(credited, share) /\ rejections' = rejections
         \/ /\ dedup' = dedup /\ credited' = credited
            /\ rejections' = IF Rejected(res) THEN 1 ELSE rejections
  BY DEF ProcessWork, poolVars
<1>2. /\ Types /\ Consistent(reactor, store, chip, dispatch, ResultsInFlight) /\ Generations
      /\ Dated(store, chip, creator.gen, poolGen, creator.clean) /\ Window(dedup, credited, poolGen)
  BY Taken, Zenon
<1>3. /\ pending \in Seq(Results) /\ transit \in Seq(Results) /\ Len(pending) <= PendingCapacity
      /\ dedup \in Seq(Jobs) /\ credited \in Seq(Jobs) /\ rejections \in 0 .. 1
  BY <1>2, Zenon DEF Types
<1>4. /\ Tail(pending) \in Seq(Results) /\ Elements(Tail(pending)) \subseteq Elements(pending)
      /\ Len(pending) \in Nat /\ Len(Tail(pending)) = Len(pending) - 1 /\ res \in Results
  BY <1>1, <1>3, ElementsOfTail
<1> HIDE DEF res
<1>5. Mapped(res) => /\ share \in Jobs /\ share.gen <= creator.gen
                     /\ creator.clean => share.gen < poolGen
  BY <1>4, ShareDated, Zenon
<1> HIDE DEF share
<1>6. Mapped(res) =>
        /\ Remember(dedup, share) \in Seq(Jobs) /\ Remember(credited, share) \in Seq(Jobs)
        /\ Window(Remember(dedup, share), Remember(credited, share), poolGen)
        /\ \A i \in 1 .. Len(Remember(credited, share)) :
              Remember(credited, share)[i] = share
                \/ \E j \in 1 .. Len(credited) : Remember(credited, share)[i] = credited[j]
  BY <1>2, <1>3, <1>5, WindowRemembers, ZenonT(60)
<1>7. /\ dedup' \in Seq(Jobs) /\ credited' \in Seq(Jobs) /\ Window(dedup', credited', poolGen)
  BY <1>1, <1>2, <1>3, <1>6, Zenon
<1>8. ASSUME NEW i \in 1 .. Len(credited')
      PROVE  credited'[i].gen <= creator.gen /\ (creator.clean => credited'[i].gen < poolGen)
  <2>1. \A j \in 1 .. Len(credited) :
          credited[j].gen <= creator.gen /\ (creator.clean => credited[j].gen < poolGen)
    BY <1>2, Zenon DEF Generations
  <2>2. CASE credited' = credited
    BY <1>8, <2>1, <2>2, Zenon
  <2>3. CASE Mapped(res) /\ credited' = Remember(credited, share)
    <3>1. i \in 1 .. Len(Remember(credited, share))
      BY <2>3
    <3>2. credited'[i] = share \/ \E j \in 1 .. Len(credited) : credited'[i] = credited[j]
      BY <1>6, <2>3, <3>1, Zenon
    <3> QED
      BY <1>5, <2>1, <2>3, <3>2, Zenon
  <2> QED
    BY <1>1, <2>2, <2>3, Zenon
<1>9. Types'
  <2>1. Len(pending') <= PendingCapacity /\ pending' \in Seq(Results)
    BY <1>1, <1>3, <1>4, BzmDriverAssumption
  <2>2. rejections' \in 0 .. 1
    BY <1>1, <1>3
  <2> QED
    BY <1>1, <1>2, <1>7, <2>1, <2>2, Zenon DEF Types
<1>10. ResultsInFlight' \subseteq ResultsInFlight
  <2>1. ResultsInFlight' = Elements(pending') \union Elements(transit')
    BY <1>1, <1>3, <1>4, FlightNext, Zenon
  <2>2. ResultsInFlight = Elements(pending) \union Elements(transit)
    BY <1>2, FlightTyped, Zenon
  <2> QED
    BY <1>1, <1>4, <2>1, <2>2
<1>11. Consistent(reactor', store', chip', dispatch', ResultsInFlight')
  <2>1. Trusted(reactor, chip, ResultsInFlight)
    BY <1>2, Zenon DEF Consistent
  <2>2. \A e \in Engines : chip[e] = chip[e] \/ (~chip[e].new.active /\ ~chip[e].old.active)
    OBVIOUS
  <2>3. ResultsInFlight' \in SUBSET ResultsInFlight
    BY <1>10
  <2>4. Trusted(reactor, chip, ResultsInFlight')
    BY <2>1, <2>2, <2>3, TrustedWithLess, Zenon
  <2> QED
    BY <1>1, <1>2, <2>4, Zenon DEF Consistent
<1>12. Generations'
  BY <1>1, <1>2, <1>8, Zenon DEF Generations
<1>13. Window(dedup', credited', poolGen')
  BY <1>1, <1>7, Zenon
<1> QED
  BY <1>1, <1>9, <1>11, <1>12, <1>13, Assembled, Zenon

\* BZM_staged_frequency_domains_step_live after a good step.
LEMMA FrequencyStepKeeps == ASSUME IInv, FrequencyStep PROVE IInv'
<1> DEFINE r == InvalidateWork(reactor)
           st == InvalidateAll(store)
           d == StartFast(dispatch)
<1>1. /\ reactor' = r /\ store' = st /\ pending' = <<>> /\ dispatch' = d
      /\ running' = running /\ dedup' = dedup /\ rejections' = rejections /\ chip' = chip
      /\ transit' = transit /\ cleaner' = cleaner /\ credited' = credited
      /\ poolGen' = poolGen /\ published' = published /\ creator' = creator
  BY DEF FrequencyStep, poolVars
<1>2. /\ Types /\ Generations /\ Window(dedup, credited, poolGen)
  BY Taken, Zenon
<1>3. <<>> \in Seq(Results) /\ Len(<<>>) <= PendingCapacity /\ Elements(<<>>) = {}
  BY NoElements, BzmDriverAssumption
<1>4. ResultsInFlight' \in SUBSET ResultsInFlight
  <2>1. pending' \in Seq(Results) /\ transit' \in Seq(Results)
  BY <1>1, <1>2, <1>3, Zenon DEF Types
  <2>2. ResultsInFlight' = Elements(<<>>) \union Elements(transit)
    BY <1>1, <2>1, FlightNext, Zenon
  <2>3. ResultsInFlight = Elements(pending) \union Elements(transit)
    BY <1>2, FlightTyped, Zenon
  <2> QED
    BY <1>3, <2>2, <2>3
<1>5. /\ Consistent(r, st, chip, d, ResultsInFlight')
      /\ Dated(st, chip, creator.gen, poolGen, creator.clean)
  BY <1>4, InvalidatedParts, Zenon
<1> HIDE DEF r, st, d
<1>6. Types'
  BY <1>1, <1>2, <1>3, <1>5, Zenon DEF Types, Consistent
<1>7. Generations'
  BY <1>1, <1>2, <1>5, Zenon DEF Generations
<1> QED
  BY <1>1, <1>2, <1>5, <1>6, <1>7, Assembled, Zenon

\* staged_fail_closed_locked.
LEMMA StopMiningKeeps == ASSUME IInv, StopMining PROVE IInv'
<1>1. /\ running' = FALSE /\ chip' \in {chip, Flushed(chip, EngineCount)}
      /\ store' = store /\ reactor' = reactor /\ dispatch' = dispatch /\ dedup' = dedup
      /\ rejections' = rejections /\ transit' = transit /\ pending' = pending
      /\ cleaner' = cleaner /\ credited' = credited
      /\ poolGen' = poolGen /\ published' = published /\ creator' = creator
  BY DEF StopMining, poolVars
<1>2. /\ Types /\ Consistent(reactor, store, chip, dispatch, ResultsInFlight) /\ Generations
      /\ Dated(store, chip, creator.gen, poolGen, creator.clean) /\ Window(dedup, credited, poolGen)
  BY Taken, Zenon
<1>3. store \in Stores /\ chip \in Chips /\ EngineCount \in 0 .. EngineCount
  BY <1>2, ReactorAssumption DEF Types
<1> DEFINE c == Flushed(chip, EngineCount)
<1>4. /\ c \in Chips
      /\ \A e \in Engines : c[e] = chip[e] \/ (~c[e].new.active /\ ~c[e].old.active)
  BY <1>3, FlushedChips
<1>5. chip' = chip \/ chip' = c
  BY <1>1
<1> HIDE DEF c
<1>6. /\ chip' \in Chips
      /\ \A e \in Engines : chip'[e] = chip[e] \/ (~chip'[e].new.active /\ ~chip'[e].old.active)
  BY <1>3, <1>4, <1>5, Zenon
<1>7. Types'
  <2>1. running' \in BOOLEAN
    BY <1>1
  <2> QED
    BY <1>1, <1>2, <1>6, <2>1, Zenon DEF Types
<1>8. ResultsInFlight' = ResultsInFlight /\ ResultsInFlight \in SUBSET ResultsInFlight
  BY <1>1, Zenon DEF ResultsInFlight
<1>9. Trusted(reactor, chip', ResultsInFlight)
  <2>1. Trusted(reactor, chip, ResultsInFlight)
    BY <1>2, Zenon DEF Consistent
  <2> QED
    BY <1>6, <1>8, <2>1, TrustedWithLess, Zenon
<1>10. Rotates(reactor, store, chip', poolGen)
  <2>1. Rotates(reactor, store, chip, poolGen)
    BY <1>2, Zenon DEF Consistent
  <2>2. \A e \in Engines : Live(reactor, chip', poolGen, e) => Live(reactor, chip, poolGen, e)
    <3> SUFFICES ASSUME NEW e \in Engines, Live(reactor, chip', poolGen, e)
                 PROVE  Live(reactor, chip, poolGen, e)
      OBVIOUS
    <3>1. chip'[e].new.active
      BY Zenon DEF Live
    <3>2. chip'[e] = chip[e]
      BY <1>6, <3>1, Zenon
    <3> QED
      BY <3>2, Zenon DEF Live
  <2> QED
    BY <2>1, <2>2, Zenon DEF Rotates
<1>11. Consistent(reactor', store', chip', dispatch', ResultsInFlight')
  BY <1>1, <1>2, <1>6, <1>8, <1>9, <1>10, Zenon DEF Consistent
<1>12. Dated(store, chip', creator.gen, poolGen, creator.clean)
  BY <1>2, <1>3, <1>6, DatedWithLess, Zenon
<1>13. Generations'
  BY <1>1, <1>2, <1>12, Zenon DEF Generations
<1> QED
  BY <1>1, <1>2, <1>7, <1>11, <1>13, Assembled, Zenon

\* A bring-up that succeeds.
LEMMA StartMiningKeeps == ASSUME IInv, StartMining PROVE IInv'
<1> DEFINE c == Flushed(chip, EngineCount)
           d == Disturb(dispatch)
<1>1. /\ running' = TRUE /\ reactor' = InitReactor /\ chip' = c /\ transit' = <<>> /\ pending' = <<>>
      /\ dispatch' = d /\ store' = store /\ dedup' = dedup /\ rejections' = rejections
      /\ cleaner' = cleaner /\ credited' = credited
      /\ poolGen' = poolGen /\ published' = published /\ creator' = creator
  BY DEF StartMining, poolVars
<1>2. /\ Types /\ Generations /\ Window(dedup, credited, poolGen)
      /\ Dated(store, chip, creator.gen, poolGen, creator.clean)
  BY Taken, Zenon
<1>3. /\ store \in Stores /\ chip \in Chips /\ dispatch \in Budgets
      /\ EngineCount \in 0 .. EngineCount
  BY <1>2, ReactorAssumption DEF Types
<1>4. /\ c \in Chips /\ Silent(c)
      /\ \A e \in Engines : c[e] = chip[e] \/ (~c[e].new.active /\ ~c[e].old.active)
  BY <1>3, FlushedChips
<1>5. InitReactor \in Reactors /\ Blank(InitReactor)
  BY Initial
<1>6. d \in Budgets /\ Covers(InitReactor, d)
  BY <1>3, <1>5, BudgetStarted, Zenon
<1>7. /\ <<>> \in Seq(Results) /\ Len(<<>>) <= PendingCapacity /\ Len(<<>>) <= MaxTransit
      /\ Elements(<<>>) = {}
  BY NoElements, BzmDriverAssumption
<1> HIDE DEF c, d
<1>8. Types'
  <2>1. running' \in BOOLEAN
    BY <1>1
  <2> QED
    BY <1>1, <1>2, <1>4, <1>5, <1>6, <1>7, <2>1, Zenon DEF Types
<1>9. \A res \in ResultsInFlight' : FALSE
  <2>1. ResultsInFlight' = Elements(<<>>) \union Elements(<<>>)
    BY <1>1, <1>7, FlightNext, Zenon
  <2> QED
    BY <1>7, <2>1
<1>10. /\ Flushes(InitReactor) /\ Trusted(InitReactor, c, ResultsInFlight')
       /\ Issued(InitReactor, store) /\ Rotates(InitReactor, store, c, poolGen)
  BY <1>4, <1>5, <1>9, BlankParts, Zenon
<1>11. Consistent(reactor', store', chip', dispatch', ResultsInFlight')
  BY <1>1, <1>3, <1>4, <1>5, <1>6, <1>10, Zenon DEF Consistent
<1>12. Dated(store, c, creator.gen, poolGen, creator.clean)
  BY <1>2, <1>3, <1>4, DatedWithLess, Zenon
<1>13. Generations'
  BY <1>1, <1>2, <1>12, Zenon DEF Generations
<1> QED
  BY <1>1, <1>2, <1>8, <1>11, <1>13, Assembled, Zenon

\* What a send hands to an engine: a job of the creator's generation under the
\* next handle of the store and the next sequence of the engine.
LEMMA TargetTyped ==
    ASSUME IInv, creator.pc = "send"
    PROVE  /\ Job \in Jobs /\ Job.gen = creator.gen
           /\ BarrierReactor.nextEngine \in Engines /\ NextHandle(BarrierStore) \in Handles
           /\ TargetWork \in Works /\ TargetWork.active /\ TargetWork.job = Job
<1>1. Types /\ Generations
  BY Taken, Zenon
<1>2. /\ BarrierReactor \in Reactors /\ BarrierStore \in Stores
      /\ BarrierReactor.nextSequence[BarrierReactor.nextEngine] < SequenceSpace
  BY BarrierParts, Zenon DEF Consistent
<1>3. creator \in Creators /\ creator.gen >= 1
  BY <1>1, Zenon DEF Types, Generations
<1>4. Job \in Jobs /\ Job.gen = creator.gen
  BY <1>3, BzmDriverAssumption DEF Job, Jobs, Creators
<1>5. BarrierReactor.nextEngine \in Engines
  BY <1>2 DEF Reactors
<1>6. BarrierReactor.nextSequence[BarrierReactor.nextEngine] \in Sequences
  <2>1. BarrierReactor.nextSequence[BarrierReactor.nextEngine] \in 0 .. SequenceSpace
    BY <1>2, <1>5 DEF Reactors
  <2> QED
    BY <1>2, <2>1, ReactorAssumption DEF Sequences
<1>7. NextHandle(BarrierStore) \in Handles
  BY <1>2, <1>4, Stored, Zenon
<1>8. TargetWork \in Works /\ TargetWork.active /\ TargetWork.job = Job
  <2> DEFINE seq == BarrierReactor.nextSequence[BarrierReactor.nextEngine]
             h == NextHandle(BarrierStore)
             job == Job
  <2>1. seq \in Sequences /\ h \in Handles /\ job \in Jobs
    BY <1>4, <1>6, <1>7, Zenon
  <2>2. TargetWork = LoadedWork(seq, h, job)
    BY Zenon DEF TargetWork
  <2> HIDE DEF seq, h, job
  <2>3. LoadedWork(seq, h, job) \in Works /\ LoadedWork(seq, h, job).active
        /\ LoadedWork(seq, h, job).job = job
    BY <2>1 DEF LoadedWork, Works
  <2> QED
    BY <2>2, <2>3, Zenon DEF job
<1> QED
  BY <1>4, <1>5, <1>7, <1>8, Zenon

\* The frame of a send that fails: the results under way are overdue and the
\* creator will check the generation before it tries again.
LEMMA FailedSend ==
    ASSUME IInv, creator.pc = "send", UNCHANGED <<running, rejections, poolVars, credited>>,
           dedup' = CleanedDedup, pending' = <<>>, transit' = Overdue(transit),
           creator' = [creator EXCEPT !.pc = "check"],
           Consistent(reactor', store', chip', dispatch', Elements(Overdue(transit))),
           Dated(store', chip', creator.gen, poolGen, creator.clean)
    PROVE  IInv'
<1>1. /\ running' = running /\ rejections' = rejections /\ poolGen' = poolGen
      /\ published' = published /\ cleaner' = cleaner /\ credited' = credited
  BY DEF poolVars
<1>2. Types /\ Generations
  BY Taken, Zenon
<1>3. /\ transit \in Seq(Results) /\ Len(transit) <= MaxTransit /\ creator \in Creators
  BY <1>2, Zenon DEF Types
<1>4. CleanedDedup \in Seq(Jobs) /\ Window(CleanedDedup, credited, poolGen)
  BY CleanedParts, Zenon
<1>5. /\ creator' \in Creators /\ creator'.gen = creator.gen /\ creator'.pc = "check"
      /\ creator'.clean = creator.clean
  BY <1>3 DEF Creators
<1>6. /\ Overdue(transit) \in Seq(Results) /\ Len(Overdue(transit)) = Len(transit)
  BY <1>3, OverdueKeeps, Zenon
<1>7. <<>> \in Seq(Results) /\ Len(<<>>) <= PendingCapacity /\ Elements(<<>>) = {}
  BY NoElements, BzmDriverAssumption
<1>8. Types'
  <2>1. Len(transit') <= MaxTransit
    BY <1>3, <1>6
  <2> QED
    BY <1>1, <1>2, <1>4, <1>5, <1>6, <1>7, <2>1, Zenon DEF Types, Consistent
<1>9. ResultsInFlight' = Elements(Overdue(transit))
  <2>1. ResultsInFlight' = Elements(pending') \union Elements(transit')
    BY <1>6, <1>7, FlightNext, Zenon
  <2> QED
    BY <1>7, <2>1
<1>10. Generations'
  <2>1. creator.gen >= 1
    BY <1>2, Zenon DEF Generations
  <2>2. Dated(store', chip', creator'.gen, poolGen', creator'.clean)
    BY <1>1, <1>5, Zenon
  <2>3. /\ creator.gen <= published /\ published <= poolGen
        /\ cleaner # "idle" => published < poolGen
        /\ \A i \in 1 .. Len(credited) :
              credited[i].gen <= creator.gen /\ (creator.clean => credited[i].gen < poolGen)
    BY <1>2, Zenon DEF Generations
  <2> QED
    BY <1>1, <1>5, <2>1, <2>2, <2>3, Zenon DEF Generations
<1> QED
  BY <1>1, <1>4, <1>8, <1>9, <1>10, Assembled, Zenon

\* A flush that fails leaves nothing that could be trusted or live.
LEMMA FlushPendingParts ==
    ASSUME NEW r \in Reactors, Flushes(r), NEW st \in Stores, NEW other \in Stores, Issued(r, st),
           other.nextGeneration >= st.nextGeneration, NEW c \in Chips, NEW d \in Budgets, NEW results
    PROVE  Consistent(BeginFlush(r, FALSE), other, c, Disturb(d), results)
<1> DEFINE q == BeginFlush(r, FALSE)
<1>1. /\ q \in Reactors /\ q.flushPending /\ Flushes(q)
      /\ \A e \in Engines :
            /\ q.current[e].active <=> r.current[e].active
            /\ q.current[e].active => q.current[e].handle = r.current[e].handle
            /\ q.previous[e].active <=> r.previous[e].active
            /\ q.previous[e].active => q.previous[e].handle = r.previous[e].handle
  BY Begun
<1> HIDE DEF q
<1>2. Issued(q, other)
  <2>1. \A e \in Engines : r.current[e] \in Assignments /\ r.previous[e] \in Assignments
    BY DEF Reactors
  <2>2. \A e \in Engines :
          /\ r.current[e] \in Assignments /\ r.previous[e] \in Assignments
          /\ q.current[e].active => r.current[e].active /\ q.current[e].handle = r.current[e].handle
          /\ q.previous[e].active => r.previous[e].active /\ q.previous[e].handle = r.previous[e].handle
    BY <1>1, <2>1
  <2> QED
    BY <2>2, IssuedKept
<1>3. Trusted(q, c, results)
  BY <1>1, TrustedWhilePending, Zenon
<1>4. Rotates(q, other, c, poolGen)
  BY <1>1, NothingLive, Zenon
<1>5. Disturb(d) \in Budgets /\ Covers(q, Disturb(d))
  BY <1>1, BudgetStarted, Zenon
<1> QED
  BY <1>1, <1>2, <1>3, <1>4, <1>5, Zenon DEF Consistent, q

\* The flush of the barrier fails.
LEMMA SendBarrierFailsKeeps == ASSUME IInv, SendBarrierFails PROVE IInv'
<1>1. /\ creator.pc = "send" /\ BarrierNeeded
      /\ reactor' = BeginFlush(CleanedReactor, FALSE) /\ store' = BarrierStore
      /\ dispatch' = Disturb(CleanedDispatch)
      /\ dedup' = CleanedDedup /\ pending' = <<>> /\ transit' = Overdue(transit)
      /\ creator' = [creator EXCEPT !.pc = "check"]
      /\ UNCHANGED <<running, rejections, poolVars, credited>>
  BY Zenon DEF SendBarrierFails, Sendable
<1>2. PICK n \in 0 .. EngineCount - 1 : chip' = Flushed(chip, n)
  BY Zenon DEF SendBarrierFails
<1>3. /\ Consistent(CleanedReactor, CleanedStore, chip, CleanedDispatch, ResultsInFlight)
      /\ Dated(CleanedStore, chip, creator.gen, poolGen, creator.clean)
  BY CleanedParts, Zenon
<1>4. /\ CleanedReactor \in Reactors /\ CleanedStore \in Stores /\ chip \in Chips
      /\ CleanedDispatch \in Budgets /\ Flushes(CleanedReactor) /\ Issued(CleanedReactor, CleanedStore)
  BY <1>3, Zenon DEF Consistent
<1>5. BarrierStore = InvalidateAll(CleanedStore) \/ BarrierStore = CleanedStore
  BY Zenon DEF BarrierStore
<1>6. BarrierStore \in Stores /\ BarrierStore.nextGeneration >= CleanedStore.nextGeneration
  BY <1>4, <1>5, Emptied DEF Stores
<1>7. /\ chip' \in Chips
      /\ \A e \in Engines : chip'[e] = chip[e] \/ (~chip'[e].new.active /\ ~chip'[e].old.active)
  <2>1. n \in 0 .. EngineCount
    BY ReactorAssumption
  <2> QED
    BY <1>2, <1>4, <2>1, FlushedChips
<1>8. Consistent(reactor', store', chip', dispatch', Elements(Overdue(transit)))
  BY <1>1, <1>4, <1>6, <1>7, FlushPendingParts, Zenon
<1>9. Dated(store', chip', creator.gen, poolGen, creator.clean)
  <2>1. /\ Dated(CleanedStore, chip', creator.gen, poolGen, creator.clean)
        /\ \A flag : Dated(InvalidateAll(CleanedStore), chip', creator.gen, poolGen, flag)
    BY <1>3, <1>4, <1>7, DatedWithLess, Zenon
  <2> QED
    BY <1>1, <1>5, <2>1, Zenon
<1> QED
  BY <1>1, <1>8, <1>9, FailedSend, Zenon

\* The write is refused, or the checkpoint fails.
LEMMA SendFailsKeeps == ASSUME IInv, SendFails PROVE IInv'
<1> DEFINE r == BarrierReactor
           h == NextHandle(BarrierStore)
           used == Release(StoreGenerated(BarrierStore, Job), h)
           st == InvalidateAll(used)
           L == Load(BarrierChip, r.nextEngine, TargetWork)
           made == creator.gen
<1>1. /\ creator.pc = "send" /\ store' = st /\ dispatch' = Disturb(BarrierDispatch)
      /\ dedup' = CleanedDedup /\ pending' = <<>> /\ transit' = Overdue(transit)
      /\ creator' = [creator EXCEPT !.pc = "check"]
      /\ UNCHANGED <<running, rejections, poolVars, credited>>
  BY Zenon DEF SendFails, Sendable
<1>2. PICK loaded \in BOOLEAN, n \in 0 .. EngineCount :
        /\ chip' = Flushed(IF loaded THEN L ELSE BarrierChip, n)
        /\ reactor' = FinishFlush(BeginFlush(r, n = EngineCount))
  BY Zenon DEF SendFails
<1>3. /\ Consistent(r, BarrierStore, BarrierChip, BarrierDispatch, BarrierFlight)
      /\ ~r.flushPending
      /\ Dated(BarrierStore, BarrierChip, made, poolGen, creator.clean)
  BY BarrierParts, Zenon
<1>4. /\ r \in Reactors /\ BarrierStore \in Stores /\ BarrierChip \in Chips
      /\ BarrierDispatch \in Budgets /\ Flushes(r) /\ Issued(r, BarrierStore)
  BY <1>3, Zenon DEF Consistent
<1>5. /\ Job \in Jobs /\ Job.gen = made /\ r.nextEngine \in Engines /\ h \in Handles
      /\ TargetWork \in Works /\ TargetWork.active /\ TargetWork.job = Job
  BY <1>1, TargetTyped, Zenon
<1>6. Types /\ Generations
  BY Taken, Zenon
\* The store: the job is in and out again, and everything is invalidated.
<1>7. /\ st \in Stores /\ st.nextGeneration >= BarrierStore.nextGeneration
      /\ \A s \in Slots : ~st.entries[s].valid
  <2>1. /\ StoreGenerated(BarrierStore, Job) \in Stores
        /\ StoreGenerated(BarrierStore, Job).nextGeneration = BarrierStore.nextGeneration + 1
    BY <1>4, <1>5, Stored, Zenon
  <2>2. used \in Stores /\ used.nextGeneration = StoreGenerated(BarrierStore, Job).nextGeneration
    BY <1>5, <2>1, Released, Zenon
  <2> HIDE DEF used
  <2>3. /\ st \in Stores /\ st.nextGeneration = used.nextGeneration + 1
        /\ \A s \in Slots : ~st.entries[s].valid
    BY <2>2, Emptied, Zenon
  <2>4. BarrierStore.nextGeneration \in Nat
    BY <1>4 DEF Stores
  <2> QED
    BY <2>1, <2>2, <2>3, <2>4
\* The chips: at most the new work, which is the creator's.
<1> DEFINE base == IF loaded THEN L ELSE BarrierChip
<1>8. /\ base \in Chips
      /\ \A e \in Engines : /\ base[e].new.active => base[e].new.job.gen <= made
                            /\ base[e].old.active => base[e].old.job.gen <= made
  <2>1. /\ L \in Chips /\ L[r.nextEngine].new = TargetWork
        /\ L[r.nextEngine].old = BarrierChip[r.nextEngine].new
        /\ \A f \in Engines \ {r.nextEngine} : L[f] = BarrierChip[f]
    <3> DEFINE e == r.nextEngine
    <3>1. e \in Engines /\ L = Load(BarrierChip, e, TargetWork)
      BY <1>5, Zenon
    <3> HIDE DEF e, L
    <3>2. /\ Load(BarrierChip, e, TargetWork) \in Chips
          /\ Load(BarrierChip, e, TargetWork)[e].new = TargetWork
          /\ Load(BarrierChip, e, TargetWork)[e].old = BarrierChip[e].new
          /\ \A f \in Engines \ {e} : Load(BarrierChip, e, TargetWork)[f] = BarrierChip[f]
      BY <1>4, <1>5, <3>1, LoadedChips
    <3> QED
      BY <3>1, <3>2 DEF e
  <2> HIDE DEF L
  <2>2. made <= made
    BY <1>6, DatesTyped
  <2>3. \A e \in Engines : /\ BarrierChip[e].new.active => BarrierChip[e].new.job.gen <= made
                           /\ BarrierChip[e].old.active => BarrierChip[e].old.job.gen <= made
    BY <1>3, Zenon DEF Dated
  <2>4. ASSUME NEW e \in Engines
        PROVE  /\ L[e].new.active => L[e].new.job.gen <= made
               /\ L[e].old.active => L[e].old.job.gen <= made
    <3>1. CASE e = r.nextEngine
      BY <1>5, <2>1, <2>2, <2>3, <3>1, Zenon
    <3>2. CASE e # r.nextEngine
      BY <2>1, <2>3, <3>2
    <3> QED
      BY <3>1, <3>2
  <2>5. base = L \/ base = BarrierChip
    OBVIOUS
  <2> HIDE DEF base, made
  <2> QED
    BY <1>4, <2>1, <2>3, <2>4, <2>5, Zenon
<1>9. chip' = Flushed(base, n)
  BY <1>2, Zenon
<1> HIDE DEF base
<1>10. /\ chip' \in Chips /\ (n = EngineCount => Silent(chip'))
       /\ \A e \in Engines : chip'[e] = base[e] \/ (~chip'[e].new.active /\ ~chip'[e].old.active)
  BY <1>2, <1>8, <1>9, FlushedChips
<1>11. Dated(store', chip', made, poolGen, creator.clean)
  <2> HIDE DEF st, made
  <2>1. ASSUME NEW e \in Engines
        PROVE  /\ chip'[e].new.active => chip'[e].new.job.gen <= made
               /\ chip'[e].old.active => chip'[e].old.job.gen <= made
    BY <1>8, <1>10, Zenon
  <2> QED
    BY <1>1, <1>7, <2>1, Zenon DEF Dated
<1>12. Consistent(reactor', store', chip', dispatch', Elements(Overdue(transit)))
  <2> DEFINE d == BarrierDispatch
             results == Elements(Overdue(transit))
  <2> HIDE DEF st, d, results
  <2>1. CASE n = EngineCount
    <3> DEFINE b == BeginFlush(r, TRUE)
               q == FinishFlush(b)
    <3>1. b \in Reactors /\ b.flushPending /\ b.flushComplete
      <4> HIDE DEF r
      <4> QED
        BY <1>4, Begun
    <3>2. (n = EngineCount) = TRUE
      BY <2>1
    <3>3. reactor' = q
      BY <1>2, <3>2, Zenon
    <3> HIDE DEF b
    <3>4. q \in Reactors /\ Blank(q) /\ q.quarantined
      BY <3>1, Finished, Zenon
    <3> HIDE DEF q
    <3>5. \A res \in results : res.overdue /\ q.quarantined
      <4>1. transit \in Seq(Results)
        BY <1>6, Zenon DEF Types
      <4> QED
        BY <3>4, <4>1, OverdueKeeps, Zenon DEF results
    <3>6. /\ Flushes(q) /\ Trusted(q, chip', results) /\ Issued(q, st)
          /\ Rotates(q, st, chip', poolGen)
      BY <1>10, <2>1, <3>4, <3>5, BlankParts, Zenon
    <3>7. Disturb(d) \in Budgets /\ Covers(q, Disturb(d))
      BY <1>4, <3>4, BudgetStarted, Zenon DEF d
    <3> QED
      BY <1>1, <1>7, <1>10, <3>3, <3>4, <3>6, <3>7, Zenon DEF Consistent, d, results
  <2>2. CASE n # EngineCount
    <3>1. (n = EngineCount) = FALSE
      BY <2>2
    <3>2. reactor' = FinishFlush(BeginFlush(r, FALSE))
      BY <1>2, <3>1, Zenon
    <3>3. ~BeginFlush(r, FALSE).flushComplete
      <4> HIDE DEF r
      <4> QED
        BY <1>3, <1>4, Begun
    <3>4. reactor' = BeginFlush(r, FALSE)
      BY <3>2, <3>3, Zenon DEF FinishFlush
    <3> HIDE DEF r
    <3> QED
      BY <1>1, <1>4, <1>7, <1>10, <3>4, FlushPendingParts, Zenon DEF d, results
  <2> QED
    BY <2>1, <2>2
<1> HIDE DEF made, st
<1> QED
  BY <1>1, <1>11, <1>12, FailedSend, Zenon DEF made

\* What is left on the wire after a checkpoint that completes the rotation was
\* not emitted before a flush.
LEMMA CheckpointClears ==
    ASSUME NEW t \in Seq(Results), NEW n \in 0 .. Len(t), NEW complete, CheckpointReads(t, n, complete)
    PROVE  /\ SubSeq(t, 1, n) \in Seq(Results) /\ Elements(SubSeq(t, 1, n)) \subseteq Elements(t)
           /\ SubSeq(t, n + 1, Len(t)) \in Seq(Results)
           /\ Elements(SubSeq(t, n + 1, Len(t))) \subseteq Elements(t)
           /\ Len(SubSeq(t, n + 1, Len(t))) <= Len(t)
           /\ complete => \A x \in Elements(SubSeq(t, n + 1, Len(t))) : ~x.overdue
<1>1. Len(t) \in Nat /\ n \in Nat
  BY LenProperties
<1>2. /\ 1 \in 1 .. Len(t) + 1 /\ n \in 0 .. Len(t) /\ 1 <= n + 1
      /\ n + 1 \in 1 .. Len(t) + 1 /\ Len(t) \in 0 .. Len(t) /\ n + 1 <= Len(t) + 1
  BY <1>1
<1>3. SubSeq(t, 1, n) \in Seq(Results) /\ Elements(SubSeq(t, 1, n)) \subseteq Elements(t)
  BY <1>2, ElementsOfSubSeq
<1> DEFINE m == n + 1
           last == Len(t)
<1>4. m \in 1 .. Len(t) + 1 /\ last \in 0 .. Len(t) /\ m <= last + 1
  BY <1>2
<1>5. last = Len(t) /\ m = n + 1
  OBVIOUS
<1> HIDE DEF m, last
<1>6. /\ SubSeq(t, m, last) \in Seq(Results) /\ Elements(SubSeq(t, m, last)) \subseteq Elements(t)
      /\ Len(SubSeq(t, m, last)) = last - m + 1
      /\ \A x \in Elements(SubSeq(t, m, last)) : \E i \in m .. last : x = t[i]
  BY <1>4, ElementsOfSubSeq
<1>7. Len(SubSeq(t, m, last)) <= Len(t)
  BY <1>1, <1>5, <1>6
<1>8. complete => \A i \in m .. last : ~t[i].overdue
  BY <1>5 DEF CheckpointReads
<1>9. complete => \A x \in Elements(SubSeq(t, m, last)) : ~x.overdue
  BY <1>6, <1>8, Zenon
<1> QED
  BY <1>3, <1>5, <1>6, <1>7, <1>9

\* What an accepted send leaves under way: nothing overdue once the quarantine
\* is over.
LEMMA AcceptedFlight ==
    ASSUME IInv, creator.pc = "send",
           LET q == Assigned(BarrierReactor, NextHandle(BarrierStore))
               released == BarrierReactor.quarantined /\ ~q.quarantined
           IN  \E n \in 0 .. Len(transit) :
                 /\ CheckpointReads(BarrierTransit, n, q.nextEngine = 0)
                 /\ pending' = IF released THEN <<>>
                               ELSE EnqueueAll(BarrierPending, SubSeq(BarrierTransit, 1, n))
                 /\ transit' = SubSeq(BarrierTransit, n + 1, Len(transit))
    PROVE  /\ pending' \in Seq(Results) /\ Len(pending') <= PendingCapacity
           /\ transit' \in Seq(Results) /\ Len(transit') <= MaxTransit
           /\ ResultsInFlight' \in SUBSET BarrierFlight
           /\ \A res \in ResultsInFlight' :
                 res.overdue => Assigned(BarrierReactor, NextHandle(BarrierStore)).quarantined
<1> DEFINE r == BarrierReactor
           h == NextHandle(BarrierStore)
           q == Assigned(r, h)
           released == r.quarantined /\ ~q.quarantined
           t == BarrierTransit
<1>1. PICK n \in 0 .. Len(transit) :
        /\ CheckpointReads(t, n, q.nextEngine = 0)
        /\ pending' = IF released THEN <<>> ELSE EnqueueAll(BarrierPending, SubSeq(t, 1, n))
        /\ transit' = SubSeq(t, n + 1, Len(transit))
  BY Zenon
<1>2. /\ Consistent(r, BarrierStore, BarrierChip, BarrierDispatch, BarrierFlight)
      /\ ~r.flushPending /\ r.nextSequence[r.nextEngine] < SequenceSpace
      /\ BarrierPending \in Seq(Results) /\ Len(BarrierPending) <= PendingCapacity
      /\ t \in Seq(Results) /\ Len(t) = Len(transit)
  BY BarrierParts, Zenon
<1>3. r \in Reactors /\ h \in Handles /\ r.nextEngine \in Engines
  BY <1>1, <1>2, TargetTyped, Zenon DEF Consistent
<1>4. Types /\ MaxTransit \in Nat
  BY Taken, BzmDriverAssumption, Zenon
<1>5. /\ q.nextEngine = (r.nextEngine + 1) % EngineCount
      /\ q.quarantined <=> r.quarantined /\ (r.nextEngine + 1) % EngineCount # 0
  <2> HIDE DEF r, h
  <2> QED
    BY <1>2, <1>3, Reassigned
<1> HIDE DEF r, h, q
<1>6. BarrierFlight = Elements(BarrierPending) \union Elements(t)
  BY Zenon DEF BarrierFlight
<1> HIDE DEF t
<1> DEFINE complete == q.nextEngine = 0
           taken == SubSeq(t, 1, n)
           left == SubSeq(t, n + 1, Len(t))
<1>7. /\ taken \in Seq(Results) /\ Elements(taken) \subseteq Elements(t)
      /\ left \in Seq(Results) /\ Elements(left) \subseteq Elements(t) /\ Len(left) <= Len(t)
      /\ complete => \A x \in Elements(left) : ~x.overdue
  <2>1. n \in 0 .. Len(t) /\ CheckpointReads(t, n, complete)
    BY <1>1, <1>2
  <2> HIDE DEF complete
  <2> QED
    BY <1>2, <2>1, CheckpointClears, ZenonT(60)
<1>8. transit' = left
  BY <1>1, <1>2, Zenon
<1>9. pending' = IF released THEN <<>> ELSE EnqueueAll(BarrierPending, taken)
  BY <1>1, Zenon
<1> HIDE DEF taken, left
<1>10. /\ EnqueueAll(BarrierPending, taken) \in Seq(Results)
       /\ Len(EnqueueAll(BarrierPending, taken)) <= PendingCapacity
       /\ Elements(EnqueueAll(BarrierPending, taken))
            \subseteq Elements(BarrierPending) \union Elements(taken)
  BY <1>2, <1>7, EnqueueAllKeeps, Zenon
<1>11. <<>> \in Seq(Results) /\ Len(<<>>) <= PendingCapacity /\ Elements(<<>>) = {}
  BY NoElements, BzmDriverAssumption
<1>12. /\ pending' \in Seq(Results) /\ Len(pending') <= PendingCapacity
       /\ released => Elements(pending') = {}
       /\ Elements(pending') \subseteq Elements(BarrierPending) \union Elements(t)
  <2>1. CASE released
    BY <1>9, <1>11, <2>1
  <2>2. CASE ~released
    <3>1. pending' = EnqueueAll(BarrierPending, taken)
      BY <1>9, <2>2, Zenon
    <3> QED
      BY <1>7, <1>10, <2>2, <3>1
  <2> QED
    BY <2>1, <2>2
<1>13. transit' \in Seq(Results) /\ Len(transit') <= MaxTransit
  <2>1. /\ Len(transit) <= MaxTransit /\ Len(left) \in Nat /\ Len(t) \in Nat
    BY <1>2, <1>4, <1>7, LenProperties DEF Types
  <2> QED
    BY <1>2, <1>4, <1>7, <1>8, <2>1
<1>14. ResultsInFlight' = Elements(pending') \union Elements(left)
  BY <1>7, <1>8, <1>12, <1>13, FlightNext, Zenon
<1>15. ResultsInFlight' \in SUBSET BarrierFlight
  BY <1>6, <1>7, <1>12, <1>14
<1>16. ASSUME NEW res \in ResultsInFlight', res.overdue PROVE q.quarantined
  <2>1. Trusted(r, BarrierChip, BarrierFlight) /\ res \in BarrierFlight
    BY <1>2, <1>15, <1>16, Zenon DEF Consistent
  <2>2. r.quarantined
    BY <1>2, <1>16, <2>1, Zenon DEF Trusted
  <2>3. SUFFICES ASSUME ~q.quarantined PROVE FALSE
    OBVIOUS
  <2>4. released /\ complete
    BY <1>5, <2>2, <2>3, Zenon
  <2>5. res \in Elements(left)
    BY <1>12, <1>14, <1>16, <2>4
  <2> QED
    BY <1>7, <1>16, <2>4, <2>5, Zenon
<1> QED
  BY <1>12, <1>13, <1>15, <1>16, Zenon DEF q, r, h

\* The assignment succeeds.
LEMMA SendAcceptedKeeps == ASSUME IInv, SendAccepted PROVE IInv'
<1> DEFINE r == BarrierReactor
           st == BarrierStore
           c == BarrierChip
           d == BarrierDispatch
           job == Job
           h == NextHandle(st)
           e == r.nextEngine
           w == TargetWork
<1>1. /\ creator.pc = "send" /\ running' = running /\ rejections' = rejections
      /\ reactor' = Assigned(r, h) /\ store' = AssignedStore(r, StoreGenerated(st, job))
      /\ dispatch' = CountAssigned(d, e) /\ chip' = Load(c, e, w)
      /\ dedup' = CleanedDedup /\ credited' = credited
      /\ poolGen' = poolGen /\ published' = published /\ cleaner' = cleaner
      /\ creator' = IF creator.gen = poolGen
                    THEN [creator EXCEPT !.pc = "wait", !.clean = FALSE, !.n = (@ + 1) % Variants]
                    ELSE [creator EXCEPT !.pc = "wait"]
  BY DEF SendAccepted, Sendable, poolVars
<1>2. /\ Consistent(r, st, c, d, BarrierFlight)
      /\ ~r.flushPending /\ r.nextSequence[e] < SequenceSpace
      /\ Dated(st, c, creator.gen, poolGen, creator.clean)
  BY BarrierParts, Zenon
<1>3. /\ r \in Reactors /\ st \in Stores /\ c \in Chips /\ d \in Budgets
      /\ Flushes(r) /\ Trusted(r, c, BarrierFlight) /\ Issued(r, st)
      /\ Rotates(r, st, c, poolGen) /\ Covers(r, d)
  BY <1>2, Zenon DEF Consistent
<1>4. /\ job \in Jobs /\ job.gen = creator.gen /\ e \in Engines /\ h \in Handles
      /\ w \in Works /\ w.active /\ w.job = job
  BY <1>1, TargetTyped, Zenon
<1>5. w = LoadedWork(r.nextSequence[e], h, job)
  BY Zenon DEF TargetWork
<1>6. /\ pending' \in Seq(Results) /\ Len(pending') <= PendingCapacity
      /\ transit' \in Seq(Results) /\ Len(transit') <= MaxTransit
      /\ ResultsInFlight' \in SUBSET BarrierFlight
      /\ \A res \in ResultsInFlight' : res.overdue => Assigned(r, h).quarantined
  <2>1. LET q == Assigned(BarrierReactor, NextHandle(BarrierStore))
            released == BarrierReactor.quarantined /\ ~q.quarantined
        IN  \E n \in 0 .. Len(transit) :
              /\ CheckpointReads(BarrierTransit, n, q.nextEngine = 0)
              /\ pending' = IF released THEN <<>>
                            ELSE EnqueueAll(BarrierPending, SubSeq(BarrierTransit, 1, n))
              /\ transit' = SubSeq(BarrierTransit, n + 1, Len(transit))
    BY Zenon DEF SendAccepted
  <2> QED
    BY <1>1, <2>1, AcceptedFlight, Zenon
<1>7. /\ Types /\ Generations /\ creator \in Creators /\ Variants \in Nat \ {0}
      /\ creator.gen \in Nat /\ poolGen \in Nat /\ published \in Nat
  BY Taken, DatesTyped, BzmDriverAssumption, Zenon
<1>8. CleanedDedup \in Seq(Jobs) /\ Window(CleanedDedup, credited, poolGen)
  BY CleanedParts, Zenon
\* The creator goes on with the next variant, or with a new job.
<1>9. /\ creator' \in Creators /\ creator'.gen = creator.gen /\ creator'.pc = "wait"
      /\ creator'.clean \in BOOLEAN /\ creator.clean \in BOOLEAN
      /\ creator'.clean => creator.clean /\ creator.gen # poolGen
  <2>1. (creator.n + 1) % Variants \in 0 .. Variants - 1
    BY <1>7 DEF Creators
  <2>2. CASE creator.gen = poolGen
    BY <1>1, <1>7, <2>1, <2>2 DEF Creators
  <2>3. CASE creator.gen # poolGen
    BY <1>1, <1>7, <2>3 DEF Creators
  <2> QED
    BY <2>2, <2>3
<1>10. creator'.clean => creator.clean /\ job.gen < poolGen
  <2>1. creator.gen <= published /\ published <= poolGen
    BY <1>7, Zenon DEF Generations
  <2> QED
    BY <1>4, <1>7, <1>9, <2>1
<1>11. BarrierFlight \in SUBSET Results
  <2>1. BarrierPending \in Seq(Results) /\ BarrierTransit \in Seq(Results)
    BY BarrierParts, Zenon
  <2>2. Elements(BarrierPending) \subseteq Results /\ Elements(BarrierTransit) \subseteq Results
    BY <2>1, ElementsTyped
  <2> QED
    BY <2>2 DEF BarrierFlight
<1> HIDE DEF r, st, c, d, job, w
<1>12. store' \in Stores /\ store'.nextGeneration = st.nextGeneration + 1
  BY <1>1, <1>3, <1>4, StoreAfterAssignment, Zenon
<1>13. chip' \in Chips
  <2> HIDE DEF e
  <2> QED
    BY <1>1, <1>3, <1>4, LoadedChips, Zenon
<1>14. reactor' \in Reactors /\ reactor'.nextEngine = (e + 1) % EngineCount
  BY <1>1, <1>2, <1>3, <1>4, Reassigned, Zenon
<1>15. dispatch' \in Budgets /\ Covers(reactor', dispatch')
  BY <1>1, <1>3, <1>14, CountedAssignment, Zenon
<1>16. Flushes(reactor')
  BY <1>1, <1>2, <1>3, <1>4, FlushesAfterAssignment, Zenon
<1>17. Trusted(reactor', chip', ResultsInFlight')
  BY <1>1, <1>2, <1>3, <1>4, <1>5, <1>6, <1>11, TrustedAfterAssignment, Zenon
<1>18. Issued(reactor', store')
  BY <1>1, <1>2, <1>3, <1>12, IssuedAfterAssignment, Zenon
<1>19. Rotates(reactor', store', chip', poolGen)
  BY <1>1, <1>2, <1>3, <1>4, RotatesAfterAssignment, Zenon
<1>20. Consistent(reactor', store', chip', dispatch', ResultsInFlight')
  BY <1>12, <1>13, <1>14, <1>15, <1>16, <1>17, <1>18, <1>19, <1>1, Zenon DEF Consistent
<1>21. Dated(store', chip', creator.gen, poolGen, creator'.clean)
  <2>1. job.gen <= creator.gen
    BY <1>4, <1>7
  <2> DEFINE flag == creator'.clean
             made == creator.gen
             clean == creator.clean
  <2>2. /\ flag \in BOOLEAN /\ clean \in BOOLEAN /\ (flag => clean /\ job.gen < poolGen)
        /\ made \in Nat /\ poolGen \in Nat /\ job.gen <= made /\ Dated(st, c, made, poolGen, clean)
    BY <1>2, <1>7, <1>9, <1>10, <2>1, Zenon
  <2> HIDE DEF flag, made, clean
  <2>3. Dated(AssignedStore(r, StoreGenerated(st, job)), Load(c, r.nextEngine, w), made, poolGen, flag)
    BY <1>3, <1>4, <2>2, DatedAfterAssignment, Zenon
  <2> QED
    BY <1>1, <2>3, Zenon DEF flag, made
<1>22. Types'
  BY <1>1, <1>6, <1>7, <1>8, <1>9, <1>12, <1>13, <1>14, <1>15, Zenon DEF Types
<1>23. Generations'
  <2>1. /\ creator.gen <= published /\ published <= poolGen
        /\ cleaner # "idle" => published < poolGen
        /\ \A i \in 1 .. Len(credited) :
              credited[i].gen <= creator.gen /\ (creator.clean => credited[i].gen < poolGen)
    BY <1>7, Zenon DEF Generations
  <2> QED
    BY <1>1, <1>9, <1>21, <2>1, Zenon DEF Generations
<1> QED
  BY <1>1, <1>8, <1>20, <1>22, <1>23, Assembled, Zenon

-----------------------------------------------------------------------------
(* The invariant and what follows from it *)

\* The driver starts with fresh chips, an empty store and a full budget.
LEMMA InitKeeps == ASSUME Init PROVE IInv
<1> DEFINE c == [e \in Engines |-> [new |-> Idle, old |-> Idle]]
           d == [fast |-> EngineCount, fresh |-> {}, disturbed |-> FALSE, report |-> "none"]
           k == [pc |-> "wait", gen |-> 0, clean |-> FALSE, n |-> 0]
<1>1. /\ store = InitStore /\ reactor = InitReactor /\ running = TRUE /\ dispatch = d
      /\ dedup = <<>> /\ chip = c /\ transit = <<>> /\ pending = <<>> /\ poolGen = 0
      /\ published = 0 /\ cleaner = "idle" /\ creator = k /\ rejections = 0 /\ credited = <<>>
  BY Zenon DEF Init
<1>2. InitReactor \in Reactors /\ Blank(InitReactor) /\ InitReactor.nextEngine = 0
  BY Initial
<1>3. InitStore \in Stores /\ \A s \in Slots : ~InitStore.entries[s].valid
  <2>1. 0 \in Slots
    BY CapacityAssumption DEF Slots
  <2> QED
    BY <2>1 DEF InitStore, Stores, Entries, NoEntry
<1>4. c \in Chips /\ Silent(c)
  <2>1. Idle \in Works
    BY DEF Works
  <2>2. c \in Chips
    BY <2>1 DEF Chips
  <2> QED
    BY <2>2 DEF Silent, Idle
<1>5. d \in Budgets
  BY ReactorAssumption DEF Budgets
<1>6. Covers(InitReactor, d)
  <2>1. \A e \in Engines : Ahead(e, 0, EngineCount) < EngineCount
    BY ReactorAssumption DEF Ahead, Engines
  <2>2. d.fast = EngineCount
    OBVIOUS
  <2> HIDE DEF d
  <2> QED
    BY <1>2, <2>1, <2>2, Zenon DEF Covers
<1>7. k \in Creators /\ k.gen = 0 /\ k.pc = "wait" /\ ~k.clean
  BY BzmDriverAssumption DEF Creators
<1>8. /\ <<>> \in Seq(Results) /\ Len(<<>>) = 0 /\ Len(<<>>) <= PendingCapacity
      /\ Len(<<>>) <= MaxTransit /\ Len(<<>>) <= DedupCapacity /\ <<>> \in Seq(Jobs)
      /\ Elements(<<>>) = {}
  BY NoElements, BzmDriverAssumption
<1>9. 0 \in 0 .. 1 /\ 0 \in 0 .. MaxPool /\ TRUE \in BOOLEAN
      /\ "idle" \in {"idle", "clear", "store"}
  BY BzmDriverAssumption
<1> HIDE DEF c, d, k
<1>10. Types
  BY <1>1, <1>2, <1>3, <1>4, <1>5, <1>7, <1>8, <1>9, Zenon DEF Types
<1>11. \A res \in ResultsInFlight : res.overdue /\ reactor.quarantined
  BY <1>1, <1>8, <1>10, FlightTyped
<1>12. /\ Flushes(reactor) /\ Trusted(reactor, chip, ResultsInFlight) /\ Issued(reactor, store)
       /\ Rotates(reactor, store, chip, poolGen)
  BY <1>1, <1>2, <1>4, <1>11, BlankParts, Zenon
<1>13. Covers(reactor, dispatch)
  BY <1>1, <1>6, Zenon
<1>14. Dated(store, chip, creator.gen, poolGen, creator.clean)
  BY <1>1, <1>3, <1>4, Zenon DEF Dated, Silent
<1>15. \A i \in 1 .. Len(credited) : FALSE
  BY <1>1, <1>8
<1>16. Generations
  <2>1. creator.gen <= published /\ published <= poolGen
    BY <1>1, <1>7
  <2> QED
    BY <1>1, <1>7, <1>14, <1>15, <2>1, Zenon DEF Generations
<1>17. Window(dedup, credited, poolGen)
  <2>1. \A i \in 1 .. 0 : FALSE
    OBVIOUS
  <2> QED
    BY <1>1, <1>8, <2>1 DEF Window
<1> QED
  BY <1>10, <1>12, <1>13, <1>16, <1>17, Zenon DEF IInv

\* No step of the driver, the hardware or the tasks around them breaks the
\* invariant.
LEMMA NextKeeps == ASSUME IInv, [Next]_vars PROVE IInv'
<1>1. CASE Publish \/ InvalidatePool \/ ClearWork \/ ClearStore
  BY <1>1, PublishKeeps, InvalidatePoolKeeps, ClearWorkKeeps, ClearStoreKeeps, Zenon
<1>2. CASE TakeJob \/ TakeSuccessor \/ CheckGeneration \/ SendRefused
  BY <1>2, TakeJobKeeps, OtherCreatorStepsKeep, Zenon
<1>3. CASE SendBarrierFails \/ SendAccepted \/ SendFails
  BY <1>3, SendBarrierFailsKeeps, SendAcceptedKeeps, SendFailsKeeps, Zenon
<1>4. CASE Emit \/ Poll \/ ProcessWork
  BY <1>4, EmitKeeps, PollKeeps, ProcessWorkKeeps, Zenon
<1>5. CASE FrequencyStep \/ StopMining \/ StartMining
  BY <1>5, FrequencyStepKeeps, StopMiningKeeps, StartMiningKeeps, Zenon
<1>6. CASE UNCHANGED vars
  <2>1. /\ store' = store /\ reactor' = reactor /\ running' = running /\ dispatch' = dispatch
        /\ dedup' = dedup /\ chip' = chip /\ transit' = transit /\ pending' = pending
        /\ poolGen' = poolGen /\ published' = published /\ cleaner' = cleaner
        /\ creator' = creator /\ rejections' = rejections /\ credited' = credited
    BY <1>6 DEF vars
  <2>2. Types' /\ Generations' /\ ResultsInFlight' = ResultsInFlight
    BY <2>1, Taken, Zenon DEF Types, Generations, ResultsInFlight
  <2> QED
    BY <2>1, <2>2, Zenon DEF IInv
<1> QED
  BY <1>1, <1>2, <1>3, <1>4, <1>5, <1>6, Zenon DEF Next

\* The inductive invariant holds throughout.
THEOREM Invariant == Spec => []IInv
<1>1. Init => IInv
  BY InitKeeps, Zenon
<1>2. IInv /\ [Next]_vars => IInv'
  BY NextKeeps, Zenon
<1> QED
  BY <1>1, <1>2, PTL DEF Spec

\* Type correctness: every handle, sequence, generation and cursor of the driver,
\* the chips and the rings is one the code can form.
THEOREM TypeCorrect == Spec => []TypeOK
<1>1. IInv => TypeOK
  <2> SUFFICES ASSUME IInv PROVE TypeOK
    OBVIOUS
  <2>1. Types /\ Flushes(reactor) /\ Window(dedup, credited, poolGen)
    BY Zenon DEF IInv
  <2>2. Len(dedup) <= DedupCapacity
    <3>1. dedup \in Seq(Jobs) /\ credited \in Seq(Jobs)
      BY <2>1, Zenon DEF Types
    <3>2. Len(dedup) \in Nat /\ Len(credited) \in Nat
      BY <3>1, LenProperties
    <3> QED
      BY <2>1, <3>2, BzmDriverAssumption DEF Window
  <2>3. /\ store.entries \in [Slots -> Entries] /\ store.nextSlot \in Slots
        /\ store.nextGeneration \in Nat
    BY <2>1 DEF Types, Stores
  <2>4. /\ reactor.current \in [Engines -> Assignments]
        /\ reactor.previous \in [Engines -> Assignments]
        /\ reactor.nextSequence \in [Engines -> 0 .. SequenceSpace]
        /\ reactor.retired \in [Engines -> SUBSET Sequences]
        /\ reactor.nextEngine \in Engines
    BY <2>1 DEF Types, Reactors
  <2>5. reactor.flushComplete => reactor.flushPending
    BY <2>1, Zenon DEF Flushes
  <2>6. dispatch.fast \in 0 .. EngineCount /\ dispatch.fresh \subseteq Engines
    BY <2>1 DEF Types, Budgets
  <2>7. creator.pc \in {"wait", "check", "send"}
    BY <2>1 DEF Types, Creators
  <2>8. chip \in [Engines -> [new : Works, old : Works]]
    BY <2>1, Zenon DEF Types, Chips
  <2> QED
    BY <2>1, <2>2, <2>3, <2>4, <2>5, <2>6, <2>7, <2>8, Zenon DEF TypeOK, Types
<1> QED
  BY <1>1, Invariant, PTL

\* What the reactor finds for a result that is neither overdue nor unknown.
LEMMA Found ==
    ASSUME IInv, ~reactor.flushPending, ~reactor.quarantined, NEW res \in ResultsInFlight
    PROVE  LET a == FindAssignment(reactor, res.engine, res.seq)
           IN  /\ a.active => a.handle = res.handle /\ ~a.flushing
               /\ a.active \/ res.seq \in reactor.retired[res.engine]
<1> DEFINE a == FindAssignment(reactor, res.engine, res.seq)
           cur == reactor.current[res.engine]
           prev == reactor.previous[res.engine]
<1>1. Types /\ Flushes(reactor) /\ Trusted(reactor, chip, ResultsInFlight)
  BY Zenon DEF IInv
<1>2. res \in Results
  BY <1>1, FlightTyped
<1>3. res.engine \in Engines
  BY <1>2 DEF Results
<1>4. Known(reactor, res.engine, res)
  BY <1>1, Zenon DEF Trusted
<1>5. (cur.active => ~cur.flushing) /\ (prev.active => ~prev.flushing)
  BY <1>1, <1>3, Zenon DEF Flushes, Settled
<1>6. /\ cur.active /\ cur.seq = res.seq => cur.handle = res.handle
      /\ prev.active /\ prev.seq = res.seq => prev.handle = res.handle
      /\ res.seq \in reactor.retired[res.engine] \union SequenceOf(cur) \union SequenceOf(prev)
  BY <1>4, Zenon DEF Known
<1>7. /\ res.seq \in SequenceOf(cur) => cur.active /\ cur.seq = res.seq
      /\ res.seq \in SequenceOf(prev) => prev.active /\ prev.seq = res.seq
  BY DEF SequenceOf
<1>8. \/ a = cur /\ cur.active /\ cur.seq = res.seq
      \/ a = prev /\ prev.active /\ prev.seq = res.seq
      \/ /\ a = NoWork /\ ~(cur.active /\ cur.seq = res.seq)
         /\ ~(prev.active /\ prev.seq = res.seq)
  BY DEF FindAssignment
<1>9. ~NoWork.active
  BY DEF NoWork
<1> HIDE DEF a, cur, prev
<1>10. /\ a.active => a.handle = res.handle /\ ~a.flushing
       /\ a.active \/ res.seq \in reactor.retired[res.engine]
  <2>1. CASE a = cur /\ cur.active /\ cur.seq = res.seq
    BY <1>5, <1>6, <2>1, Zenon
  <2>2. CASE a = prev /\ prev.active /\ prev.seq = res.seq
    BY <1>5, <1>6, <2>2, Zenon
  <2>3. CASE a = NoWork /\ ~(cur.active /\ cur.seq = res.seq) /\ ~(prev.active /\ prev.seq = res.seq)
    <3>1. ~a.active
      BY <1>9, <2>3, Zenon
    <3>2. res.seq \in reactor.retired[res.engine]
      BY <1>6, <1>7, <2>3
    <3> QED
      BY <3>1, <3>2, Zenon
  <2> QED
    BY <1>8, <2>1, <2>2, <2>3, Zenon
<1> QED
  BY <1>10, Zenon DEF a

\* However late a result arrives, the handle it is mapped to is that of the work
\* that produced it: for every number of engines, size of the store and length of
\* the rings, and every sequence of flushes, failed sends and restarts.
THEOREM AttributionCorrect == Spec => []AttributionSound
<1>1. IInv => AttributionSound
  <2> SUFFICES ASSUME IInv, NEW res \in ResultsInFlight, Mapped(res)
               PROVE  HandleOf(res) = res.handle
    BY Zenon DEF AttributionSound
  <2> DEFINE a == FindAssignment(reactor, res.engine, res.seq)
  <2>1. ~reactor.flushPending /\ ~reactor.quarantined /\ a.active
    BY Zenon DEF Mapped, Maps
  <2>2. a.active => a.handle = res.handle
    BY <2>1, Found, Zenon
  <2> QED
    BY <2>1, <2>2, Zenon DEF HandleOf
<1> QED
  BY <1>1, Invariant, PTL

\* A genuine result is never counted as a mapping rejection unless a flush that
\* failed is pending.
THEOREM NoFalseRejections == Spec => []NoFalseRejection
<1>1. IInv => NoFalseRejection
  <2> SUFFICES ASSUME IInv, NEW res \in ResultsInFlight, Rejected(res), ~reactor.flushPending
               PROVE  FALSE
    BY Zenon DEF NoFalseRejection
  <2> DEFINE a == FindAssignment(reactor, res.engine, res.seq)
  <2>1. /\ ~reactor.quarantined
        /\ ~Maps(reactor, store, res.engine, res.seq)
        /\ ~IsStale(reactor, store, res.engine, res.seq)
    BY Zenon DEF Rejected, Mapped
  <2>2. /\ a.active => a.handle = res.handle /\ ~a.flushing
        /\ a.active \/ res.seq \in reactor.retired[res.engine]
    BY <2>1, Found, Zenon
  <2>3. /\ ~(a.active /\ (a.epoch # reactor.epoch \/ ~Contains(store, a.handle)))
        /\ res.seq \notin reactor.retired[res.engine]
    BY <2>1, Zenon DEF IsStale
  <2>4. a.active /\ ~a.flushing /\ a.epoch = reactor.epoch /\ Contains(store, a.handle)
    BY <2>2, <2>3, Zenon
  <2> QED
    BY <2>1, <2>4, Zenon DEF Maps
<1> QED
  BY <1>1, Invariant, PTL

\* The job of every engine that holds work of the current epoch and generation
\* can be found in the store.
THEOREM CurrentFound == Spec => []CurrentAddressable
<1>1. IInv => CurrentAddressable
  <2> SUFFICES ASSUME IInv, NEW e \in DOMAIN reactor.current, reactor.current[e].active,
                      ~reactor.current[e].flushing, reactor.current[e].epoch = reactor.epoch,
                      chip[e].new.active, chip[e].new.job.gen = poolGen
               PROVE  Contains(store, reactor.current[e].handle)
    BY Zenon DEF CurrentAddressable
  <2>1. Types /\ Rotates(reactor, store, chip, poolGen)
    BY Zenon DEF IInv
  <2>2. e \in Engines
    BY <2>1 DEF Types, Reactors
  <2>3. Live(reactor, chip, poolGen, e)
    BY Zenon DEF Live
  <2> QED
    BY <2>1, <2>2, <2>3, Zenon DEF Rotates
<1> QED
  BY <1>1, Invariant, PTL

\* A replacement that nothing interrupted is reported complete only when every
\* engine has been given new work.
THEOREM ReplacementsCover == Spec => []ReplacementCoversEngines
<1>1. IInv => ReplacementCoversEngines
  BY DEF IInv, Types, Budgets, ReplacementCoversEngines
<1> QED
  BY <1>1, Invariant, PTL

\* Only BZM_process_work hands a share to the result task.
LEMMA OnlyProcessWorkCredits == ASSUME [Next]_vars PROVE ProcessWork \/ credited' = credited
<1>1. CASE Publish \/ InvalidatePool \/ ClearWork \/ ClearStore
  BY <1>1 DEF Publish, InvalidatePool, ClearWork, ClearStore
<1>2. CASE TakeJob \/ TakeSuccessor \/ CheckGeneration \/ SendRefused
  BY <1>2 DEF TakeJob, TakeSuccessor, CheckGeneration, SendRefused
<1>3. CASE SendBarrierFails \/ SendAccepted \/ SendFails
  BY <1>3 DEF SendBarrierFails, SendAccepted, SendFails
<1>4. CASE Emit \/ Poll
  BY <1>4 DEF Emit, Poll
<1>5. CASE FrequencyStep \/ StopMining \/ StartMining
  BY <1>5 DEF FrequencyStep, StopMining, StartMining
<1>6. CASE UNCHANGED vars
  BY <1>6 DEF vars
<1> QED
  BY <1>1, <1>2, <1>3, <1>4, <1>5, <1>6, Zenon DEF Next

\* A share of the current generation is handed over once: what the duplicate cache
\* has forgotten of the last DedupCapacity shares is out of date.
THEOREM NoRepeats == Spec => NoRepeatWithinWindow
<1>1. IInv /\ [Next]_vars => CreditedOnce
  <2> SUFFICES ASSUME IInv, [Next]_vars PROVE CreditedOnce
    OBVIOUS
  <2> DEFINE share == Snapshot(store, HandleOf(Head(pending)))
  <2>1. CASE credited' = credited
    BY <2>1, Zenon DEF CreditedOnce
  <2>2. CASE credited' # credited
    <3>1. ProcessWork
      BY <2>2, OnlyProcessWorkCredits, Zenon
    <3>2. /\ pending # <<>> /\ Mapped(Head(pending)) /\ ~Knows(dedup, share)
          /\ credited' = Remember(credited, share)
      BY <2>2, <3>1 DEF ProcessWork
    <3>3. /\ Types /\ Window(dedup, credited, poolGen)
      BY Taken, Zenon
    <3>4. /\ pending \in Seq(Results) /\ dedup \in Seq(Jobs) /\ credited \in Seq(Jobs)
      BY <3>3, Zenon DEF Types
    <3>5. Head(pending) \in Results
      BY <3>2, <3>4, ElementsOfTail
    <3>6. share \in Jobs
      <4> DEFINE res == Head(pending)
      <4>1. res \in Results /\ Mapped(res)
        BY <3>2, <3>5
      <4> HIDE DEF res
      <4>2. Snapshot(store, HandleOf(res)) \in Jobs
        BY <4>1, ShareDated, Zenon
      <4> QED
        BY <4>2, Zenon DEF res
    <3> HIDE DEF share
    <3>7. credited'[Len(credited')] = share
      BY <3>2, <3>3, <3>4, <3>6, WindowRemembers, ZenonT(60)
    <3>8. ASSUME share.gen = poolGen, NEW i \in DOMAIN credited, credited[i] = share PROVE FALSE
      <4>1. /\ Len(dedup) \in Nat /\ Len(credited) \in Nat /\ i \in 1 .. Len(credited)
            /\ DOMAIN dedup = 1 .. Len(dedup)
        BY <3>4, <3>8, LenProperties
      <4>2. /\ Len(dedup) <= Len(credited)
            /\ \A j \in 1 .. Len(dedup) : dedup[j] = credited[Len(credited) - Len(dedup) + j]
            /\ \A j \in 1 .. Len(credited) - Len(dedup) : credited[j].gen < poolGen
        BY <3>3, Zenon DEF Window
      <4>3. CASE i <= Len(credited) - Len(dedup)
        <5>1. credited[i].gen < poolGen /\ poolGen \in Nat
          BY <3>3, <4>1, <4>2, <4>3, DatesTyped
        <5> QED
          BY <3>8, <5>1
      <4>4. CASE i > Len(credited) - Len(dedup)
        <5> DEFINE j == i - (Len(credited) - Len(dedup))
        <5>1. j \in 1 .. Len(dedup) /\ Len(credited) - Len(dedup) + j = i
          BY <4>1, <4>2, <4>4
        <5> HIDE DEF j
        <5>2. dedup[j] = share
          BY <3>8, <4>2, <5>1
        <5> QED
          BY <3>2, <4>1, <5>1, <5>2, Zenon DEF Knows
      <4> QED
        BY <4>1, <4>3, <4>4
    <3> QED
      BY <3>7, <3>8, Zenon DEF CreditedOnce, Knows
  <2> QED
    BY <2>1, <2>2, Zenon
<1> QED
  BY <1>1, Invariant, PTL DEF Spec, NoRepeatWithinWindow
=============================================================================
