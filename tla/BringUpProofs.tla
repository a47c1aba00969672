--------------------------- MODULE BringUpProofs ---------------------------
(***************************************************************************)
(* Proofs, for any number of ASICs, any engine grid and any number of       *)
(* attempts, that a staged bring-up accepts current telemetry only, starts  *)
(* no engine unframed, keeps the two stacks of an ASIC balanced whatever    *)
(* fails, and that a chain taken for running is what its registers hold.    *)
(***************************************************************************)
EXTENDS BringUp, FiniteSetTheorems, TLAPS

-----------------------------------------------------------------------------
(* The pairing of the engines *)

Stacks == {"bottom", "top"}
StackOf(e) == StackForRow(e[1])
Stack(s) == {e \in Engines : StackOf(e) = s}

\* Those that come before an engine on its stack.
Ahead(e) == {f \in Engines : StackOf(f) = StackOf(e) /\ Before(f, e)}

LEMMA EnginesFinite ==
    ASSUME Parameters
    PROVE  /\ IsFiniteSet(Engines)
           /\ \A s : IsFiniteSet(Stack(s)) /\ Cardinality(Stack(s)) \in Nat
           /\ \A e : IsFiniteSet(Ahead(e)) /\ Cardinality(Ahead(e)) \in Nat
  <1> DEFINE R == 0 .. Rows - 1
             C == 0 .. Columns - 1
  <1>1. IsFiniteSet(R) /\ IsFiniteSet(C)
    BY FS_Interval, Rows - 1 \in Int, Columns - 1 \in Int DEF Parameters
  <1>2. IsFiniteSet(R \X C)
    <2> HIDE DEF R, C
    <2> QED BY <1>1, FS_Product
  <1>3. Engines \in SUBSET (R \X C)
    BY DEF Engines
  <1>4. IsFiniteSet(Engines)
    <2> HIDE DEF R, C
    <2> QED BY <1>2, <1>3, FS_Subset
  <1>5. ASSUME NEW T \in SUBSET Engines
        PROVE  IsFiniteSet(T) /\ Cardinality(T) \in Nat
    BY <1>4, FS_Subset, FS_CardinalityType
  <1>6. \A s : Stack(s) \in SUBSET Engines
    BY DEF Stack
  <1>7. \A e : Ahead(e) \in SUBSET Engines
    BY DEF Ahead
  <1> QED BY <1>4, <1>5, <1>6, <1>7

\* Engines are ordered: by column, then by row.
LEMMA EnginesOrdered ==
    ASSUME Parameters, NEW e \in Engines, NEW f \in Engines
    PROVE  /\ ~Before(e, e)
           /\ e # f => Before(e, f) \/ Before(f, e)
           /\ \A g \in Engines : Before(g, e) /\ Before(e, f) => Before(g, f)
  <1>1. \A g \in Engines : g = <<g[1], g[2]>> /\ g[1] \in Int /\ g[2] \in Int
    BY DEF Engines, Parameters
  <1> QED BY <1>1 DEF Before

\* Two engines of a stack have different numbers.
LEMMA IndexInjective ==
    ASSUME Parameters, NEW e \in Engines, NEW f \in Engines,
           StackOf(e) = StackOf(f), StackIndex(e) = StackIndex(f)
    PROVE  e = f
  <1>1. ASSUME NEW g \in Engines, NEW h \in Engines, StackOf(g) = StackOf(h), Before(g, h)
        PROVE  StackIndex(g) # StackIndex(h)
    <2>1. Ahead(g) \in SUBSET Ahead(h)
      BY <1>1, EnginesOrdered DEF Ahead
    <2>2. g \in Ahead(h) /\ g \notin Ahead(g)
      BY <1>1, EnginesOrdered DEF Ahead
    <2>3. Cardinality(Ahead(g)) # Cardinality(Ahead(h))
      BY <2>1, <2>2, EnginesFinite, FS_Subset
    <2>4. StackIndex(g) = Cardinality(Ahead(g)) /\ StackIndex(h) = Cardinality(Ahead(h))
      BY DEF StackIndex, Ahead, StackOf
    <2> QED BY <2>3, <2>4
  <1> QED BY <1>1, EnginesOrdered

LEMMA IndexIsNumber ==
    ASSUME Parameters
    PROVE  PairCount \in Nat /\ \A e \in Engines : StackIndex(e) \in Nat
  BY EnginesFinite DEF StackIndex, Ahead, StackOf, PairCount, StackCount, Stack

LEMMA IndexBounded ==
    ASSUME Parameters, NEW e \in Engines
    PROVE  StackIndex(e) \in 0 .. StackCount(StackOf(e)) - 1
  <1> DEFINE S == Stack(StackOf(e))
  <1>1. Ahead(e) \in SUBSET S /\ e \in S /\ e \notin Ahead(e)
    BY EnginesOrdered DEF Ahead, Stack
  <1>2. IsFiniteSet(S) /\ Cardinality(S) \in Nat /\ Cardinality(Ahead(e)) \in Nat
    BY EnginesFinite
  <1>3. Cardinality(Ahead(e)) <= Cardinality(S) /\ Cardinality(Ahead(e)) # Cardinality(S)
    <2> HIDE DEF S
    <2> QED BY <1>1, <1>2, FS_Subset
  <1>4. StackIndex(e) = Cardinality(Ahead(e)) /\ StackCount(StackOf(e)) = Cardinality(S)
    BY DEF StackIndex, StackCount, Ahead, Stack, StackOf
  <1> HIDE DEF S
  <1> QED BY <1>2, <1>3, <1>4

\* Every number below the size of a stack is the number of one of its engines.
LEMMA EngineAt ==
    ASSUME Parameters, NEW s \in Stacks, NEW i \in 0 .. StackCount(s) - 1
    PROVE  /\ StackEngineAt(s, i) \in Engines
           /\ StackOf(StackEngineAt(s, i)) = s
           /\ StackIndex(StackEngineAt(s, i)) = i
  <1> DEFINE S == Stack(s)
             N == Cardinality(S)
             T == 0 .. N - 1
             rank == [e \in S |-> StackIndex(e)]
  <1>1. IsFiniteSet(S) /\ N \in Nat /\ N = StackCount(s)
    BY EnginesFinite DEF StackCount, Stack, StackOf
  <1>2. IsFiniteSet(T) /\ Cardinality(T) = N
    <2>1. N - 1 \in Int /\ 0 \in Int
      BY <1>1
    <2>2. IsFiniteSet(T) /\ Cardinality(T) = IF 0 > N - 1 THEN 0 ELSE N - 1 - 0 + 1
      <3> HIDE DEF N
      <3> QED BY <2>1, FS_Interval
    <2> HIDE DEF T, N
    <2> QED BY <2>2, <1>1
  <1>3. rank \in [S -> T]
    <2>1. \A e \in S : e \in Engines /\ StackOf(e) = s
      BY DEF Stack
    <2>2. \A e \in S : StackIndex(e) \in T
      BY <2>1, <1>1, IndexBounded
    <2> HIDE DEF S, T
    <2> QED BY <2>2
  <1>4. rank \in Injection(S, T)
    <2>1. \A e, f \in S : StackIndex(e) = StackIndex(f) => e = f
      BY IndexInjective DEF Stack
    <2> HIDE DEF S, T
    <2>2. \A e, f \in S : rank[e] = rank[f] => e = f
      BY <2>1
    <2> HIDE DEF rank
    <2> QED BY <2>2, <1>3 DEF Injection, IsInjective
  <1>5. rank \in Surjection(S, T)
    <2> HIDE DEF S, T, rank
    <2> QED BY <1>1, <1>2, <1>4, FS_Injection
  <1>6. i \in T
    BY <1>1
  <1>7. PICK e \in S : rank[e] = i
    <2> HIDE DEF S, T, N, rank
    <2> QED BY <1>5, <1>6 DEF Surjection
  <1>8. e \in Engines /\ StackForRow(e[1]) = s /\ StackIndex(e) = i
    BY <1>7 DEF Stack, StackOf
  <1> QED BY <1>8 DEF StackEngineAt, StackOf

LEMMA EngineHasPlace ==
    ASSUME Parameters, NEW e \in Engines
    PROVE  e = StackEngineAt(StackOf(e), StackIndex(e))
  <1>1. StackOf(e) \in Stacks
    BY DEF StackOf, StackForRow, Stacks
  <1> QED BY <1>1, IndexBounded, EngineAt, IndexInjective

\* The engines of the first n pairs.
PairsDone(n) == {e \in Engines : StackIndex(e) < n}

LEMMA PairsBegin ==
    ASSUME Parameters
    PROVE  PairsDone(0) = {} /\ (TopologyIsExact => PairsDone(PairCount) = Engines /\ 0 < PairCount)
  <1>1. \A e \in Engines : StackOf(e) \in Stacks
                          /\ StackIndex(e) \in 0 .. StackCount(StackOf(e)) - 1
    BY IndexBounded DEF StackOf, StackForRow, Stacks
  <1>2. TopologyIsExact => \A s \in Stacks : StackCount(s) = PairCount
    BY DEF TopologyIsExact, PairCount, Stacks
  <1>3. PairCount \in Nat
    BY IndexIsNumber
  <1>4. PairsDone(0) = {}
    BY IndexIsNumber DEF PairsDone
  <1>5. ASSUME TopologyIsExact
        PROVE  PairsDone(PairCount) = Engines /\ 0 < PairCount
    <2>1. \A e \in Engines : StackIndex(e) \in 0 .. PairCount - 1
      BY <1>1, <1>2, <1>5
    <2> QED BY <2>1, <1>3 DEF PairsDone, Parameters
  <1> QED BY <1>4, <1>5

\* The engines of pair j, of different stacks, follow those of the pairs before it.
Pair(j) == {StackEngineAt("bottom", j), StackEngineAt("top", j)}

LEMMA PairEnginesAt ==
    ASSUME Parameters, TopologyIsExact, NEW j \in 0 .. PairCount - 1, NEW s \in Stacks
    PROVE  /\ StackEngineAt(s, j) \in Engines
           /\ StackOf(StackEngineAt(s, j)) = s
           /\ StackIndex(StackEngineAt(s, j)) = j
  <1>1. StackCount(s) = PairCount
    BY DEF TopologyIsExact, PairCount, Stacks
  <1> QED BY <1>1, EngineAt

LEMMA PairFollows ==
    ASSUME Parameters, TopologyIsExact, NEW j \in 0 .. PairCount - 1
    PROVE  PairsDone(j + 1) = PairsDone(j) \cup Pair(j) /\ PairsDone(j) \cap Pair(j) = {}
  <1> DEFINE b == StackEngineAt("bottom", j)
             t == StackEngineAt("top", j)
  <1>1. b \in Engines /\ StackIndex(b) = j /\ t \in Engines /\ StackIndex(t) = j
    BY PairEnginesAt DEF Stacks
  <1>2. \A e \in Engines : StackIndex(e) = j => e = b \/ e = t
    BY EngineHasPlace DEF StackOf, StackForRow
  <1>3. \A e \in Engines : StackIndex(e) \in Int
    BY IndexIsNumber
  <1>4. \A e \in Engines : StackIndex(e) < j + 1 <=> StackIndex(e) < j \/ StackIndex(e) = j
    BY <1>3
  <1>5. Pair(j) = {b, t}
    BY DEF Pair
  <1> HIDE DEF b, t
  <1>6. \A e : e \in PairsDone(j + 1) <=> e \in PairsDone(j) \cup {b, t}
    BY <1>1, <1>2, <1>4 DEF PairsDone
  <1> QED BY <1>1, <1>5, <1>6 DEF PairsDone

-----------------------------------------------------------------------------
(* Balance *)

\* How many of some engines are on a stack.
On(E, s) == Cardinality({e \in E : StackOf(e) = s})

LEMMA OnFinite ==
    ASSUME Parameters, NEW E \in SUBSET Engines, NEW s
    PROVE  IsFiniteSet({e \in E : StackOf(e) = s}) /\ On(E, s) \in Nat
  <1>1. {e \in E : StackOf(e) = s} \in SUBSET Engines
    OBVIOUS
  <1> QED BY <1>1, EnginesFinite, FS_Subset, FS_CardinalityType DEF On

\* One more engine counts on its own stack.
LEMMA OnAdds ==
    ASSUME Parameters, NEW E \in SUBSET Engines, NEW d \in Engines \ E, NEW s
    PROVE  On(E \cup {d}, s) = IF StackOf(d) = s THEN On(E, s) + 1 ELSE On(E, s)
  <1> DEFINE F == {e \in E : StackOf(e) = s}
  <1>1. CASE StackOf(d) = s
    <2>1. {e \in E \cup {d} : StackOf(e) = s} = F \cup {d} /\ d \notin F
      BY <1>1
    <2>2. Cardinality(F \cup {d}) = Cardinality(F) + 1
      BY <2>1, OnFinite, FS_AddElement
    <2> QED BY <2>1, <2>2, <1>1 DEF On
  <1>2. CASE StackOf(d) # s
    <2>1. {e \in E \cup {d} : StackOf(e) = s} = F
      BY <1>2
    <2> QED BY <2>1, <1>2 DEF On
  <1> QED BY <1>1, <1>2

\* Whole pairs are as many engines of one stack as of the other.
LEMMA PairsBalanced ==
    ASSUME Parameters, TopologyIsExact, NEW n \in Nat
    PROVE  On(PairsDone(n), "bottom") = On(PairsDone(n), "top")
  <1> DEFINE B == {e \in PairsDone(n) : StackOf(e) = "bottom"}
             T == {e \in PairsDone(n) : StackOf(e) = "top"}
             J == {j \in 0 .. PairCount - 1 : j < n}
             across == [e \in B |-> StackEngineAt("top", StackIndex(e))]
  <1>1. \A s \in Stacks : \A e \in {d \in PairsDone(n) : StackOf(d) = s} :
            e \in Engines /\ StackOf(e) = s /\ StackIndex(e) \in J
    <2>1. \A s \in Stacks : StackCount(s) = PairCount
      BY DEF TopologyIsExact, PairCount, Stacks
    <2> QED BY <2>1, IndexBounded DEF PairsDone
  <1>3. \A s \in Stacks : \A j \in J :
            /\ StackEngineAt(s, j) \in {d \in PairsDone(n) : StackOf(d) = s}
            /\ StackIndex(StackEngineAt(s, j)) = j
    BY PairEnginesAt DEF PairsDone
  <1>4. across \in [B -> T]
    BY <1>1, <1>3 DEF Stacks
  <1>5. \A e, f \in B : across[e] = across[f] => e = f
    <2> SUFFICES ASSUME NEW e \in B, NEW f \in B, across[e] = across[f]
                 PROVE  e = f
      OBVIOUS
    <2>1. across[e] = StackEngineAt("top", StackIndex(e))
      OBVIOUS
    <2>2. across[f] = StackEngineAt("top", StackIndex(f))
      OBVIOUS
    <2>3. StackIndex(e) = StackIndex(f)
      BY <2>1, <2>2, <1>1, <1>3 DEF Stacks
    <2> QED BY <2>3, <1>1, IndexInjective DEF Stacks
  <1>6. \A t \in T : \E e \in B : across[e] = t
    <2> TAKE t \in T
    <2>1. t = StackEngineAt("top", StackIndex(t)) /\ StackIndex(t) \in J
      BY <1>1, EngineHasPlace DEF Stacks
    <2> DEFINE b == StackEngineAt("bottom", StackIndex(t))
    <2>2. b \in B /\ StackIndex(b) = StackIndex(t)
      BY <2>1, <1>3 DEF Stacks
    <2>3. across[b] = t
      <3> HIDE DEF b
      <3> QED BY <2>1, <2>2
    <2> QED BY <2>2, <2>3
  <1>7. ExistsBijection(B, T)
    <2> HIDE DEF B, T, across
    <2> QED BY <1>4, <1>5, <1>6
         DEF ExistsBijection, Bijection, Injection, IsInjective, Surjection
  <1>8. IsFiniteSet(B)
    <2>1. PairsDone(n) \in SUBSET Engines
      BY DEF PairsDone
    <2> QED BY <2>1, OnFinite
  <1>9. Cardinality(T) = Cardinality(B)
    <2> HIDE DEF B, T
    <2> QED BY <1>7, <1>8, FS_Bijection
  <1> QED BY <1>9 DEF On

-----------------------------------------------------------------------------
(* The inductive invariant, in parts *)

Steps == {"idle", "assign", "sensor", "tdm", "acquire", "observe", "settle", "quiet",
          "pll", "mute", "capture", "captured", "open", "commit", "close", "barrier",
          "report", "enabled", "live", "jump", "jumped", "lost"}
Jobs == {"none", "sensors", "clocks", "ramp", "running"}

Places == [at : Steps, i : Asics, n : Nat, clean : Nat, pair : Nat, for : Jobs]
Chips == [id : BOOLEAN, tdm : BOOLEAN, sensing : BOOLEAN, pll : Int, reports : BOOLEAN,
          active : SUBSET Engines]
Samples == [quality : Qualities \cup {"none"}, fresh : BOOLEAN, current : BOOLEAN]
Frames == {"none", "old", "current"}
Ramps == [pair : Nat, prepared : BOOLEAN]

Types ==
    /\ present \in Int /\ next \in 1 .. 7 /\ reset \in BOOLEAN
    /\ pc \in Places /\ chip \in [Asics -> Chips] /\ sample \in [Asics -> Samples]
    /\ wire \in [Asics -> Frames] /\ ramp \in [Asics -> Ramps]
    /\ clock \in [Asics -> Int]

\* The steps of each stage, and when "running" is believed.
PlaceOf(job) ==
    CASE job = "none"    -> \/ At("idle")
                            \/ (At("assign") /\ next = 2)
                            \/ (pc.at \in {"live", "jump", "jumped", "lost"} /\ next = 7)
      [] job = "sensors" -> /\ pc.at \in {"sensor", "tdm", "acquire", "observe", "settle"}
                            /\ next = 3
      [] job = "clocks"  -> /\ pc.at \in {"quiet", "pll", "tdm", "acquire", "observe"}
                            /\ next = 4
      [] job = "ramp"    -> /\ pc.at \in {"mute", "capture", "captured", "quiet", "open",
                                          "commit", "close", "acquire", "observe", "barrier"}
                            /\ next = 5 /\ pc.pair < PairCount
      [] OTHER           -> /\ pc.at \in {"report", "enabled", "acquire", "observe", "settle"}
                            /\ next = 6

Located ==
    /\ PlaceOf(pc.for)
    /\ next = 1 => At("idle")
    /\ At("jump") => pc.i = 1
    /\ pc.for = "ramp" \/ next >= 6 => TopologyIsExact
    /\ "running" \in verified => next = 7 \/ (pc.for = "running" /\ At("settle"))

\* Whether a loop over the chain that is at a step has been at an ASIC.
Passed(step, a) == At(step) /\ a < pc.i

\* A chain that was discovered is out of reset, complete and has its identifiers.
Identified(a) ==
    /\ next >= 3 => ~reset /\ present = AsicCount /\ chip[a].id
    /\ At("assign") => ~reset
    /\ Passed("assign", a) => chip[a].id

\* An ASIC that sends nothing, with nothing left to read of it: whenever the
\* hardware is changed.
Silent(a) == ~chip[a].tdm /\ wire[a] = "none"

ToBeSilent(a) ==
    \/ next = 2 \/ (next = 3 /\ At("idle"))
    \/ pc.at \in {"sensor", "tdm", "pll", "open", "commit", "close"}
    \/ Passed("quiet", a)

Silenced(a) == ToBeSilent(a) => Silent(a)

\* What a stage waits for and looks at is current, and comes from an ASIC whose
\* transmitter is on.
Heard(a) ==
    /\ pc.at \in {"acquire", "observe", "barrier"} \/ next = 6 => wire[a] # "old"
    /\ pc.at \in {"acquire", "observe"} =>
          /\ sample[a].fresh => sample[a].current
          /\ sample[a].fresh \/ wire[a] # "none" => chip[a].tdm
    /\ At("barrier") \/ next >= 6 => chip[a].tdm

\* Reports are off while engines start, and on in the end.
Framed(a) ==
    /\ chip[a].active # {} /\ chip[a].reports => chip[a].tdm
    /\ pc.for = "ramp" /\ (At("mute") => Passed("mute", a)) => ~chip[a].reports
    /\ pc.for = "running" /\ (At("report") => Passed("report", a)) => chip[a].reports
    /\ next = 7 => chip[a].reports

\* The engines that run are those of the pairs done, and in the middle of a pair
\* one of its engines.
HalfDone(a) == At("commit") /\ pc.n # 0 /\ a = pc.i

Paired(a) ==
    next # 1 =>
        /\ ~ramp[a].prepared => chip[a].active = {}
        /\ next < 5 \/ (next = 5 /\ pc.at \in {"idle", "mute"}) => ramp[a].pair = 0
        /\ next >= 6 => ramp[a].pair = PairCount
        /\ IF HalfDone(a)
           THEN \E e \in Pair(pc.pair) : chip[a].active = PairsDone(pc.pair) \cup {e}
           ELSE chip[a].active = PairsDone(ramp[a].pair)

\* The clocks the driver believes in are those of the dividers.
Clocked(a) ==
    /\ Passed("pll", a) => chip[a].pll = 1
    /\ pc.for = "clocks" /\ pc.at \in {"tdm", "acquire", "observe"} => chip[a].pll = 1
    /\ next \in {5, 6} \/ (next = 7 /\ At("idle")) => chip[a].pll = clock[a]
    /\ Passed("live", a) => chip[a].pll = pc.pair /\ clock[a] = pc.pair
    /\ Passed("jumped", a) => chip[a].pll = pc.pair

IInv ==
    /\ Types /\ Located /\ StacksBalanced
    /\ \A a \in Asics : Identified(a) /\ Silenced(a) /\ Heard(a) /\ Framed(a)
                        /\ Paired(a) /\ Clocked(a)

-----------------------------------------------------------------------------
(* What the helpers of the actions do *)

LEMMA ChainNotEmpty ==
    ASSUME Parameters
    PROVE  AsicCount \in Nat /\ 1 \in Asics /\ AsicCount \in Asics
  BY DEF Parameters, Asics

LEMMA GoesTo ==
    ASSUME Parameters, Types, NEW step \in Steps, Go(step)
    PROVE  /\ pc' \in Places /\ pc'.at = step /\ pc'.i = 1 /\ pc'.n = 0
           /\ pc'.clean = pc.clean /\ pc'.pair = pc.pair /\ pc'.for = pc.for
  <1>1. pc' = [pc EXCEPT !.at = step, !.i = 1, !.n = 0]
    BY DEF Go
  <1>2. pc \in Places
    BY DEF Types
  <1> QED BY <1>1, <1>2, ChainNotEmpty DEF Places

LEMMA GoesOn ==
    ASSUME Parameters, Types, NEW step \in Steps, Each(step)
    PROVE  /\ pc' \in Places
           /\ pc'.clean = pc.clean /\ pc'.pair = pc.pair /\ pc'.for = pc.for
           /\ \/ pc.i < AsicCount /\ pc'.at = pc.at /\ pc'.i = pc.i + 1 /\ pc'.n = pc.n
              \/ pc.i = AsicCount /\ pc'.at = step /\ pc'.i = 1 /\ pc'.n = 0
  <1>1. pc \in Places /\ pc.i \in Asics
    BY DEF Types, Places
  <1>2. CASE pc.i < AsicCount
    <2>1. pc' = [pc EXCEPT !.i = @ + 1]
      BY <1>2 DEF Each
    <2>2. pc.i + 1 \in Asics
      BY <1>1, <1>2, ChainNotEmpty DEF Asics
    <2> QED BY <2>1, <2>2, <1>1, <1>2 DEF Places
  <1>3. CASE ~(pc.i < AsicCount)
    <2>1. Go(step) /\ pc.i = AsicCount
      BY <1>1, <1>3, ChainNotEmpty DEF Each, Asics
    <2> QED BY <2>1, GoesTo
  <1> QED BY <1>2, <1>3

LEMMA Written ==
    ASSUME Types, NEW i \in Asics, NEW c \in Chips, WriteAndVerify(i, c)
    PROVE  /\ chip' \in [Asics -> Chips] /\ chip'[i] = c
           /\ \A a \in Asics \ {i} : chip'[a] = chip[a]
  BY DEF Types, WriteAndVerify

LEMMA TdmBroadcast ==
    ASSUME Types, NEW on \in BOOLEAN, BroadcastTdm(on)
    PROVE  /\ chip' \in [Asics -> Chips]
           /\ \A a \in Asics :
                 /\ chip'[a].id = chip[a].id /\ chip'[a].pll = chip[a].pll
                 /\ chip'[a].reports = chip[a].reports /\ chip'[a].active = chip[a].active
                 /\ chip'[a].tdm = chip[a].tdm \/ chip'[a].tdm = on
  <1>1. PICK reached \in SUBSET Asics :
           chip' = [a \in Asics |-> IF a \in reached THEN [chip[a] EXCEPT !.tdm = on]
                                    ELSE chip[a]]
    BY Zenon DEF BroadcastTdm
  <1>2. \A a \in Asics : chip[a] \in Chips
    BY DEF Types
  <1>3. \A a \in Asics : chip'[a] = IF a \in reached THEN [chip[a] EXCEPT !.tdm = on]
                                    ELSE chip[a]
    BY <1>1
  <1>4. \A a \in Asics : [chip[a] EXCEPT !.tdm = on] \in Chips
    BY <1>2 DEF Chips
  <1>5. chip' \in [Asics -> Chips]
    BY <1>1, <1>2, <1>4
  <1>6. ASSUME NEW a \in Asics
        PROVE  /\ chip'[a].id = chip[a].id /\ chip'[a].pll = chip[a].pll
               /\ chip'[a].reports = chip[a].reports /\ chip'[a].active = chip[a].active
               /\ chip'[a].tdm = chip[a].tdm \/ chip'[a].tdm = on
    BY <1>2, <1>3 DEF Chips
  <1> QED BY <1>5, <1>6

\* A change of the chain ages what was measured and cannot make it current.
LEMMA Ages ==
    ASSUME Types, Outdated
    PROVE  /\ wire' \in [Asics -> Frames] /\ sample' \in [Asics -> Samples]
           /\ \A a \in Asics : wire[a] = "none" => wire'[a] = "none"
  <1>1. \A a \in Asics : wire[a] \in Frames /\ Aged(wire[a]) \in Frames
    BY DEF Types, Aged, Frames
  <1>2. wire' = [a \in Asics |-> Aged(wire[a])]
    BY DEF Outdated
  <1>3. sample' = [a \in Asics |-> [sample[a] EXCEPT !.current = FALSE]]
    BY DEF Outdated
  <1>4. \A a \in Asics : [sample[a] EXCEPT !.current = FALSE] \in Samples
    BY DEF Types, Samples
  <1> QED BY <1>1, <1>2, <1>3, <1>4 DEF Aged

LEMMA Stamped ==
    ASSUME Types, sample' = Stamp(sample)
    PROVE  sample' \in [Asics -> Samples] /\ \A a \in Asics : ~sample'[a].fresh
  <1>1. \A a \in Asics : sample[a] \in Samples
    BY DEF Types
  <1>2. \A a \in Asics : /\ [sample[a] EXCEPT !.fresh = FALSE] \in Samples
                         /\ ~([sample[a] EXCEPT !.fresh = FALSE].fresh)
    BY <1>1 DEF Samples
  <1> QED BY <1>2 DEF Stamp

\* A frame that is read becomes a sample that is as current as the frame was.
ReadOf(a) == wire'[a] = "none" /\ wire[a] # "none" /\ (sample'[a].current <=> wire[a] = "current")
MayBeRead(a) == ReadOf(a) \/ (wire'[a] = wire[a] /\ sample'[a] = sample[a])

LEMMA Reads ==
    ASSUME Types, NEW from \in SUBSET OnTheWire, NEW q \in [from -> Qualities], NEW tally,
           Ingested(from, q, tally)
    PROVE  /\ wire' \in [Asics -> Frames] /\ sample' \in [Asics -> Samples]
           /\ \A a \in Asics : MayBeRead(a)
           /\ \A a \in from : wire'[a] = "none"
  <1> DEFINE New(a) == [quality |-> q[a], fresh |-> TRUE, current |-> wire[a] = "current"]
  <1>1. sample' = [a \in Asics |-> IF a \in from THEN New(a) ELSE sample[a]]
    BY DEF Ingested
  <1>2. wire' = [a \in Asics |-> IF a \in from THEN "none" ELSE wire[a]]
    BY DEF Ingested
  <1>3. from \in SUBSET Asics /\ \A a \in from : wire[a] # "none"
    BY DEF OnTheWire
  <1>4. \A a \in from : New(a) \in Samples /\ (New(a).current <=> wire[a] = "current")
    <2> TAKE a \in from
    <2> DEFINE now == wire[a] = "current"
    <2>1. now \in BOOLEAN /\ q[a] \in Qualities
      OBVIOUS
    <2>2. New(a) = [quality |-> q[a], fresh |-> TRUE, current |-> now]
      OBVIOUS
    <2> HIDE DEF now, New
    <2>3. New(a) \in Samples /\ New(a).current = now
      BY <2>1, <2>2 DEF Samples
    <2> QED BY <2>3 DEF now
  <1>5. \A a \in Asics : sample[a] \in Samples /\ wire[a] \in Frames /\ "none" \in Frames
    BY DEF Types, Frames
  <1> HIDE DEF New
  <1>6. wire' \in [Asics -> Frames] /\ sample' \in [Asics -> Samples]
    BY <1>1, <1>2, <1>4, <1>5
  <1>7. \A a \in from : sample'[a] = New(a) /\ wire'[a] = "none"
    BY <1>1, <1>2, <1>3
  <1>8. \A a \in Asics \ from : wire'[a] = wire[a] /\ sample'[a] = sample[a]
    BY <1>1, <1>2
  <1> QED BY <1>3, <1>4, <1>6, <1>7, <1>8 DEF MayBeRead, ReadOf

LEMMA SomeRead ==
    ASSUME Types, NEW tally, SomeIngested(tally)
    PROVE  /\ wire' \in [Asics -> Frames] /\ sample' \in [Asics -> Samples]
           /\ \A a \in Asics : MayBeRead(a)
  BY Reads, Zenon DEF SomeIngested

LEMMA ReadBehind ==
    ASSUME Types, NEW i \in Asics, ReadBehindFrames(i)
    PROVE  /\ wire' \in [Asics -> Frames] /\ sample' \in [Asics -> Samples]
           /\ \A a \in Asics : MayBeRead(a)
           /\ wire'[i] = "none"
  <1>1. {i} \cap OnTheWire \in SUBSET OnTheWire
    OBVIOUS
  <1>2. PICK q \in [{i} \cap OnTheWire -> Qualities] : Ingested({i} \cap OnTheWire, q, anomalies)
    BY Zenon DEF ReadBehindFrames
  <1>3. /\ wire' \in [Asics -> Frames] /\ sample' \in [Asics -> Samples]
        /\ \A a \in Asics : MayBeRead(a)
        /\ \A a \in {i} \cap OnTheWire : wire'[a] = "none"
    BY <1>1, <1>2, Reads
  <1>4. i \notin OnTheWire => wire[i] = "none"
    BY DEF OnTheWire
  <1> QED BY <1>3, <1>4 DEF MayBeRead, ReadOf

\* A chain that is powered on anew, and any chain in which no engine is unframed or
\* runs without its partner, is a state in which a stage may have failed.
LEMMA PoweredOn ==
    ASSUME Parameters
    PROVE  /\ PowerOn \in Chips /\ [a \in Asics |-> PowerOn] \in [Asics -> Chips]
           /\ PowerOn.active = {} /\ ~PowerOn.tdm /\ PowerOn.reports /\ PowerOn.id = FALSE
           /\ On({}, "bottom") = 0 /\ On({}, "top") = 0
  <1>1. \A s : {e \in {} : StackOf(e) = s} = {}
    OBVIOUS
  <1> QED BY <1>1, FS_EmptySet DEF PowerOn, Chips, On

LEMMA BalanceOf ==
    /\ StacksBalanced <=> \A a \in Asics :
          On(chip[a].active, "bottom") - On(chip[a].active, "top") \in -1 .. 1
    /\ StacksBalanced' <=> \A a \in Asics :
          On(chip'[a].active, "bottom") - On(chip'[a].active, "top") \in -1 .. 1
  BY DEF StacksBalanced, Running, On, StackOf

\* Before the ramp no engine runs.
LEMMA NoEngineRuns ==
    ASSUME Parameters, IInv, next \in 2 .. 4 \/ (next = 5 /\ pc.at \in {"idle", "mute"})
    PROVE  \A a \in Asics : ramp[a].pair = 0 /\ chip[a].active = {}
  <1> SUFFICES ASSUME NEW a \in Asics
               PROVE  ramp[a].pair = 0 /\ chip[a].active = {}
    OBVIOUS
  <1>1. Paired(a) /\ next # 1 /\ (next < 5 \/ (next = 5 /\ pc.at \in {"idle", "mute"}))
    BY DEF IInv
  <1>2. ramp[a].pair = 0 /\ ~HalfDone(a)
    BY <1>1 DEF IInv, Paired, HalfDone, At, Located, PlaceOf
  <1>3. chip[a].active = PairsDone(0)
    BY <1>1, <1>2 DEF IInv, Paired
  <1> QED BY <1>2, <1>3, PairsBegin

SafeLeft(c) ==
    /\ c \in [Asics -> Chips]
    /\ \A a \in Asics : /\ c[a].active # {} /\ c[a].reports => c[a].tdm
                        /\ On(c[a].active, "bottom") - On(c[a].active, "top") \in -1 .. 1

LEMMA FailsClosed ==
    ASSUME Parameters, IInv, NEW c, SafeLeft(c), FailClosedLeaving(c)
    PROVE  IInv'
  <1>1. SafeLeft([a \in Asics |-> PowerOn])
    <2> DEFINE c0 == [a \in Asics |-> PowerOn]
    <2>1. \A a \in Asics : c0[a] = PowerOn
      OBVIOUS
    <2>2. On({}, "bottom") - On({}, "top") \in -1 .. 1
      BY PoweredOn
    <2>3. c0 \in [Asics -> Chips]
      BY PoweredOn
    <2> HIDE DEF c0
    <2>4. \A a \in Asics : c0[a].active = {}
      BY <2>1, PoweredOn
    <2>5. SafeLeft(c0)
      BY <2>2, <2>3, <2>4 DEF SafeLeft
    <2> QED BY <2>5 DEF c0
  <1>2. SafeLeft(chip')
    BY <1>1, Zenon DEF FailClosedLeaving
  <1>3. /\ reset' \in BOOLEAN /\ verified' = {} /\ ramp' = NoRamp /\ next' = 1 /\ pc' = Idle
        /\ UNCHANGED <<present, sample, wire, clock>>
    BY DEF FailClosedLeaving, evidence, IInv, Types
  <1>4. pc' \in Places /\ pc'.at = "idle" /\ pc'.for = "none"
    BY <1>3, ChainNotEmpty DEF Idle, Places, Steps, Jobs
  <1>5. Types'
    <2>1. ramp' \in [Asics -> Ramps]
      BY <1>3 DEF NoRamp, Ramps
    <2> QED BY <2>1, <1>2, <1>3, <1>4 DEF IInv, Types, SafeLeft
  <1>6. Located'
    BY <1>3, <1>4 DEF Located, PlaceOf, At
  <1>7. StacksBalanced'
    BY <1>2, BalanceOf DEF SafeLeft
  <1>8. ASSUME NEW a \in Asics
        PROVE  Identified(a)' /\ Silenced(a)' /\ Heard(a)'
               /\ Framed(a)' /\ Paired(a)' /\ Clocked(a)'
    <2>1. Identified(a)' /\ Silenced(a)' /\ Heard(a)'
      BY <1>3, <1>4 DEF Identified, Silenced, ToBeSilent, Heard, Passed, At
    <2>2. Framed(a)'
      BY <1>2, <1>3, <1>4 DEF Framed, SafeLeft, At
    <2>3. Paired(a)' /\ Clocked(a)'
      BY <1>3, <1>4 DEF Paired, Clocked, Passed, At
    <2> QED BY <2>1, <2>2, <2>3
  <1> QED BY <1>5, <1>6, <1>7, <1>8 DEF IInv

\* An engine that is started at its place in the order leaves the stacks balanced,
\* and the second one of a pair completes the pair.
LEMMA EngineStarts ==
    ASSUME Parameters, IInv, At("commit"), NEW e \in PairEngines \ Prepared(pc.i)
    PROVE  /\ e \in Pair(pc.pair)
           /\ Starting(e) \in [Asics -> Chips]
           /\ Starting(e)[pc.i].active = chip[pc.i].active \cup {e}
           /\ Starting(e)[pc.i].id = chip[pc.i].id /\ Starting(e)[pc.i].tdm = chip[pc.i].tdm
           /\ Starting(e)[pc.i].pll = chip[pc.i].pll
           /\ Starting(e)[pc.i].reports = chip[pc.i].reports
           /\ \A a \in Asics \ {pc.i} : Starting(e)[a] = chip[a]
           /\ pc.n # 0 => chip[pc.i].active \cup {e} = PairsDone(pc.pair + 1)
           /\ SafeLeft(Starting(e))
  <1> DEFINE i == pc.i
             k == pc.pair
             A == chip[i].active
             b == StackEngineAt("bottom", k)
             t == StackEngineAt("top", k)
  <1>1. next = 5 /\ pc.for = "ramp" /\ TopologyIsExact /\ k < PairCount
    BY DEF IInv, Located, PlaceOf, At
  <1>2. i \in Asics /\ k \in 0 .. PairCount - 1 /\ pc \in Places /\ pc.n \in Nat
    BY <1>1, IndexIsNumber DEF IInv, Types, Places
  <1>3. chip[i] \in Chips /\ chip \in [Asics -> Chips] /\ A \in SUBSET Engines
    BY <1>2 DEF IInv, Types, Chips
  <1>4. Paired(i) /\ Framed(i) /\ ~chip[i].reports /\ ramp[i].pair \in Nat
    BY <1>1, <1>2 DEF IInv, Framed, At, Types, Ramps
  <1>5. Prepared(i) = A
    BY <1>1, <1>4 DEF Prepared, Paired
  <1>6. PairEngines = Pair(k) /\ Pair(k) = {b, t}
    BY DEF PairEngines, BalancedPairAt, Pair
  <1>7. b \in Engines /\ t \in Engines /\ StackOf(b) = "bottom" /\ StackOf(t) = "top"
    BY <1>1, <1>2, PairEnginesAt DEF Stacks
  <1>8. e \in Engines \ A /\ e \in {b, t}
    BY <1>5, <1>6, <1>7
  <1>9. /\ Starting(e) \in [Asics -> Chips] /\ Starting(e)[i].active = A \cup {e}
        /\ Starting(e)[i].id = chip[i].id /\ Starting(e)[i].tdm = chip[i].tdm
        /\ Starting(e)[i].pll = chip[i].pll /\ Starting(e)[i].reports = chip[i].reports
        /\ \A a \in Asics \ {i} : Starting(e)[a] = chip[a]
    <2>1. Starting(e) = [chip EXCEPT ![i].active = A \cup {e}]
      BY <1>5 DEF Starting
    <2>2. A \cup {e} \in SUBSET Engines
      BY <1>3, <1>8
    <2> HIDE DEF A, i
    <2> QED BY <2>1, <2>2, <1>2, <1>3 DEF Chips
  <1>10. pc.n # 0 => A \cup {e} = PairsDone(k + 1)
    <2> SUFFICES ASSUME pc.n # 0
                 PROVE  A \cup {e} = PairsDone(k + 1)
      OBVIOUS
    <2>1. PICK f \in Pair(k) : A = PairsDone(k) \cup {f}
      <3>1. HalfDone(i) /\ next # 1
        BY <1>1 DEF HalfDone
      <3> QED BY <3>1, <1>4 DEF Paired
    <2>2. f # e /\ {f, e} = {b, t}
      BY <2>1, <1>6, <1>8
    <2>3. PairsDone(k + 1) = PairsDone(k) \cup Pair(k)
      BY <1>1, <1>2, PairFollows
    <2> QED BY <2>1, <2>2, <2>3, <1>6
  <1>11. On(A \cup {e}, "bottom") - On(A \cup {e}, "top") \in -1 .. 1
    <2>1. CASE pc.n # 0
      <3>1. A \cup {e} = PairsDone(k + 1) /\ k + 1 \in Nat
        BY <2>1, <1>2, <1>10
      <3>2. On(A \cup {e}, "bottom") = On(A \cup {e}, "top")
        BY <3>1, <1>1, PairsBalanced
      <3>3. On(A \cup {e}, "top") \in Nat
        BY <1>3, <1>8, OnFinite
      <3> QED BY <3>2, <3>3
    <2>2. CASE pc.n = 0
      <3>1. A = PairsDone(ramp[i].pair)
        BY <2>2, <1>1, <1>4 DEF Paired, HalfDone
      <3>2. On(A, "bottom") = On(A, "top") /\ On(A, "top") \in Nat
        BY <3>1, <1>1, <1>3, <1>4, PairsBalanced, OnFinite
      <3>3. /\ On(A \cup {e}, "bottom")
                = IF StackOf(e) = "bottom" THEN On(A, "bottom") + 1 ELSE On(A, "bottom")
            /\ On(A \cup {e}, "top")
                = IF StackOf(e) = "top" THEN On(A, "top") + 1 ELSE On(A, "top")
        BY <1>3, <1>8, OnAdds
      <3>4. StackOf(e) \in {"bottom", "top"}
        BY <1>7, <1>8
      <3> HIDE DEF A
      <3> QED BY <3>2, <3>3, <3>4
    <2> QED BY <2>1, <2>2
  <1>12. SafeLeft(Starting(e))
    <2>1. \A a \in Asics : On(chip[a].active, "bottom") - On(chip[a].active, "top") \in -1 .. 1
      BY BalanceOf DEF IInv
    <2>2. \A a \in Asics : chip[a].active # {} /\ chip[a].reports => chip[a].tdm
      BY DEF IInv, Framed
    <2> HIDE DEF A, i
    <2>3. ASSUME NEW a \in Asics
          PROVE  /\ Starting(e)[a].active # {} /\ Starting(e)[a].reports => Starting(e)[a].tdm
                 /\ On(Starting(e)[a].active, "bottom")
                    - On(Starting(e)[a].active, "top") \in -1 .. 1
      <3>1. CASE a = i
        BY <3>1, <1>4, <1>9, <1>11
      <3>2. CASE a # i
        <4>1. Starting(e)[a] = chip[a]
          BY <3>2, <1>9
        <4> QED BY <4>1, <2>1, <2>2
      <3> QED BY <3>1, <3>2
    <2> QED BY <2>3, <1>9 DEF SafeLeft
  <1> QED BY <1>6, <1>8, <1>9, <1>10, <1>12

-----------------------------------------------------------------------------
(* BZM_staged_initialize and BZM_staged_chain4 *)

LEMMA StagedInitializeKeeps ==
    ASSUME Parameters, IInv, StagedInitialize
    PROVE  IInv'
  <1>1. /\ pc.at = "idle" /\ next = 1 /\ next' = 2 /\ reset' = TRUE /\ verified' = {}
        /\ UNCHANGED <<present, pc, clock>>
    BY DEF StagedInitialize, At
  <1>2. pc.for = "none"
    BY <1>1 DEF IInv, Located, PlaceOf, At, Types, Places, Jobs
  <1>3. /\ chip' \in [Asics -> Chips]
        /\ \A a \in Asics : chip'[a].active = {} /\ ~chip'[a].tdm
    BY PoweredOn DEF StagedInitialize
  <1>4. /\ wire' \in [Asics -> Frames] /\ sample' \in [Asics -> Samples]
        /\ \A a \in Asics : wire'[a] = "none"
    BY DEF StagedInitialize, Frames, Samples, NoSample
  <1>5. ramp' \in [Asics -> Ramps] /\ \A a \in Asics : ramp'[a].pair = 0
    BY DEF StagedInitialize, Ramps, NoRamp
  <1>6. Types'
    BY <1>1, <1>2, <1>3, <1>4, <1>5 DEF IInv, Types
  <1>7. Located'
    BY <1>1, <1>2, <1>3, <1>4, <1>5 DEF IInv, Types, Located, PlaceOf, At
  <1>8. StacksBalanced'
    <2>1. On({}, "bottom") - On({}, "top") \in -1 .. 1
      BY PoweredOn
    <2>2. ASSUME NEW a \in Asics
          PROVE  On(chip'[a].active, "bottom") - On(chip'[a].active, "top") \in -1 .. 1
      <3>1. chip'[a].active = {}
        BY <1>3
      <3> QED BY <2>1, <3>1
    <2> QED BY <2>2, BalanceOf
  <1>9. ASSUME NEW a \in Asics PROVE Identified(a)'
    BY <1>1, <1>2, <1>3, <1>4, <1>5 DEF IInv, Types, Identified, Passed, Asics, At
  <1>10. ASSUME NEW a \in Asics PROVE Silenced(a)'
    BY <1>1, <1>2, <1>3, <1>4, <1>5 DEF IInv, Types, Silenced, ToBeSilent, Silent, Passed,
        Asics, At
  <1>11. ASSUME NEW a \in Asics PROVE Heard(a)'
    BY <1>1, <1>2, <1>3, <1>4, <1>5 DEF IInv, Types, Heard, Silenced, ToBeSilent, Silent,
        Passed, Asics, At
  <1>12. ASSUME NEW a \in Asics PROVE Framed(a)'
    BY <1>1, <1>2, <1>3, <1>4, <1>5 DEF IInv, Types, Framed, Heard, Passed, Asics, At
  <1>13. ASSUME NEW a \in Asics PROVE Paired(a)'
    <2>1. chip'[a].active = {}
      BY <1>3
    <2>2. ramp'[a].pair = 0
      BY <1>5
    <2>3. PairsDone(0) = {} /\ ~HalfDone(a)'
      BY <1>1, PairsBegin DEF HalfDone, At
    <2>4. chip'[a].active = PairsDone(ramp'[a].pair) /\ next' = 2
      BY <2>1, <2>2, <2>3, <1>1, <1>2
    <2> QED BY <2>1, <2>2, <2>3, <2>4 DEF Paired
  <1>14. ASSUME NEW a \in Asics PROVE Clocked(a)'
    BY <1>1, <1>2, <1>3, <1>4, <1>5 DEF IInv, Types, Clocked, Passed, Asics, At
  <1> QED BY <1>6, <1>7, <1>8, <1>9, <1>10, <1>11, <1>12, <1>13, <1>14 DEF IInv

LEMMA StagedChain4Keeps ==
    ASSUME Parameters, IInv, StagedChain4
    PROVE  IInv'
  <1>1. /\ pc' \in Places /\ pc'.at = "assign" /\ pc'.i = 1 /\ pc'.n = 0
        /\ pc'.for = "none" /\ pc'.pair = 0 /\ pc.at = "idle"
    BY ChainNotEmpty DEF StagedChain4, At, Idle, Places, Steps, Jobs
  <1>2. /\ next = 2 /\ reset' = FALSE /\ verified' = {}
        /\ UNCHANGED <<present, next, wire, sample, ramp, clock>>
    BY DEF StagedChain4, evidence
  <1>3. /\ chip' \in [Asics -> Chips]
        /\ \A a \in Asics : chip'[a].active = {} /\ ~chip'[a].tdm
    BY PoweredOn DEF StagedChain4
  <1>4. Types'
    BY <1>1, <1>2, <1>3 DEF IInv, Types
  <1>5. Located'
    BY <1>1, <1>2, <1>3 DEF IInv, Types, Located, PlaceOf, At
  <1>6. StacksBalanced'
    <2>1. On({}, "bottom") - On({}, "top") \in -1 .. 1
      BY PoweredOn
    <2>2. ASSUME NEW a \in Asics
          PROVE  On(chip'[a].active, "bottom") - On(chip'[a].active, "top") \in -1 .. 1
      <3>1. chip'[a].active = {}
        BY <1>3
      <3> QED BY <2>1, <3>1
    <2> QED BY <2>2, BalanceOf
  <1>7. ASSUME NEW a \in Asics PROVE Identified(a)'
    BY <1>1, <1>2, <1>3 DEF IInv, Types, Identified, Passed, Asics, At
  <1>8. ASSUME NEW a \in Asics PROVE Silenced(a)'
    BY <1>1, <1>2, <1>3 DEF IInv, Types, Silenced, ToBeSilent, Silent, Passed, Asics, At
  <1>9. ASSUME NEW a \in Asics PROVE Heard(a)'
    BY <1>1, <1>2, <1>3 DEF IInv, Types, Heard, Silenced, ToBeSilent, Silent, Passed, Asics, At
  <1>10. ASSUME NEW a \in Asics PROVE Framed(a)'
    BY <1>1, <1>2, <1>3 DEF IInv, Types, Framed, Heard, Passed, Asics, At
  <1>11. ASSUME NEW a \in Asics PROVE Paired(a)'
    <2>1. chip'[a].active = {}
      BY <1>3
    <2>2. ramp'[a].pair = 0
      BY <1>2, NoEngineRuns
    <2>3. PairsDone(0) = {} /\ ~HalfDone(a)'
      BY <1>1, PairsBegin DEF HalfDone, At
    <2>4. chip'[a].active = PairsDone(ramp'[a].pair) /\ next' = 2
      BY <2>1, <2>2, <2>3, <1>1, <1>2
    <2> QED BY <2>1, <2>2, <2>3, <2>4 DEF Paired
  <1>12. ASSUME NEW a \in Asics PROVE Clocked(a)'
    BY <1>1, <1>2, <1>3 DEF IInv, Types, Clocked, Passed, Asics, At
  <1> QED BY <1>4, <1>5, <1>6, <1>7, <1>8, <1>9, <1>10, <1>11, <1>12 DEF IInv

LEMMA AssignIdKeeps ==
    ASSUME Parameters, IInv, AssignId
    PROVE  IInv'
  <1>1. /\ pc.at = "assign" /\ pc.for = "none" /\ next = 2 /\ pc.i \in Asics /\ AsicCount \in Nat
        /\ UNCHANGED <<present, reset, wire, sample, ramp, clock>>
    BY ChainNotEmpty DEF AssignId, At, IInv, Located, PlaceOf, Types, Places, Jobs, evidence
  <1>2. \/ /\ pc.i < AsicCount /\ pc' \in Places /\ pc'.at = "assign" /\ pc'.i = pc.i + 1
           /\ pc'.for = "none" /\ UNCHANGED <<verified, next>>
        \/ /\ pc.i = AsicCount /\ pc' \in Places /\ pc'.at = "idle" /\ pc'.for = "none"
           /\ verified' = {"chain"} /\ next' = 3 /\ present = AsicCount
    <2>1. CASE pc.i < AsicCount
      <3>1. pc' = [pc EXCEPT !.i = @ + 1] /\ UNCHANGED <<verified, next>>
        BY <2>1 DEF AssignId
      <3>2. pc.i + 1 \in Asics /\ pc \in Places
        BY <1>1, <2>1 DEF Asics, IInv, Types
      <3> QED BY <3>1, <3>2, <1>1, <2>1 DEF Places
    <2>2. CASE ~(pc.i < AsicCount)
      <3>1. pc' = Idle /\ verified' = {"chain"} /\ next' = 3
            /\ ~ProbeNoop(pc.i) /\ ProbeNoop(pc.i - 1)
        BY <2>2 DEF AssignId
      <3>2. pc.i = AsicCount /\ present = AsicCount
        BY <3>1, <1>1, <2>2 DEF ProbeNoop, Asics, IInv, Types
      <3> QED BY <3>1, <3>2, ChainNotEmpty DEF Idle, Places, Steps, Jobs
    <2> QED BY <2>1, <2>2
  <1>3. /\ chip' \in [Asics -> Chips] /\ chip'[pc.i].id
        /\ \A a \in Asics : /\ chip'[a].tdm = chip[a].tdm /\ chip'[a].pll = chip[a].pll
                            /\ chip'[a].reports = chip[a].reports
                            /\ chip'[a].active = chip[a].active
                            /\ a # pc.i => chip'[a].id = chip[a].id
    <2>1. chip' = [chip EXCEPT ![pc.i].id = TRUE] /\ chip \in [Asics -> Chips]
      BY DEF AssignId, IInv, Types
    <2> QED BY <2>1, <1>1, ZenonT(60) DEF Chips
  <1>4. Types'
    BY <1>1, <1>2, <1>3 DEF IInv, Types
  <1>5. Located'
    BY <1>1, <1>2, <1>3 DEF IInv, Types, Located, PlaceOf, At
  <1>6. StacksBalanced'
    BY <1>1, <1>2, <1>3 DEF IInv, Types, StacksBalanced, Running
  <1>7. ASSUME NEW a \in Asics PROVE Identified(a)'
    <2>1. Identified(a) /\ a \in Nat /\ a <= AsicCount
      BY <1>1 DEF IInv, Asics
    <2>2. reset = FALSE /\ reset' = FALSE
      BY <2>1, <1>1 DEF Identified, At, IInv, Types
    <2>3. a # pc.i => chip'[a].id = chip[a].id
      BY <1>3
    <2>4. a < pc.i => chip'[a].id
      BY <2>1, <2>3, <1>1 DEF Identified, Passed, At
    <2>5. a <= pc.i => chip'[a].id
      BY <2>1, <2>4, <1>1, <1>3 DEF Asics
    <2> QED BY <2>1, <2>2, <2>4, <2>5, <1>1, <1>2 DEF Identified, Passed, At, Asics
  <1>8. ASSUME NEW a \in Asics PROVE Silenced(a)'
    BY <1>1, <1>2, <1>3 DEF IInv, Types, Silenced, ToBeSilent, Silent, Passed, Asics, At
  <1>9. ASSUME NEW a \in Asics PROVE Heard(a)'
    BY <1>1, <1>2, <1>3 DEF IInv, Types, Heard, Silenced, ToBeSilent, Silent, Passed, Asics, At
  <1>10. ASSUME NEW a \in Asics PROVE Framed(a)'
    BY <1>1, <1>2, <1>3 DEF IInv, Types, Framed, Heard, Passed, Asics, At
  <1>11. ASSUME NEW a \in Asics PROVE Paired(a)'
    BY <1>1, <1>2, <1>3 DEF IInv, Types, Paired, HalfDone, At
  <1>12. ASSUME NEW a \in Asics PROVE Clocked(a)'
    BY <1>1, <1>2, <1>3, SMTT(40) DEF IInv, Types, Clocked, Passed, Asics, At
  <1> QED BY <1>4, <1>5, <1>6, <1>7, <1>8, <1>9, <1>10, <1>11, <1>12 DEF IInv

-----------------------------------------------------------------------------
(* BZM_staged_sensors *)

LEMMA StagedSensorsKeeps ==
    ASSUME Parameters, IInv, StagedSensors
    PROVE  IInv'
  <1>1. /\ pc' \in Places /\ pc'.at = "sensor" /\ pc'.i = 1 /\ pc'.n = 0
        /\ pc'.for = "sensors" /\ pc'.pair = 0 /\ pc.at = "idle"
    BY ChainNotEmpty DEF StagedSensors, At, Idle, Places, Steps, Jobs
  <1>2. /\ next = 3 /\ verified' = {"chain"}
        /\ UNCHANGED <<present, next, reset, chip, sample, wire, ramp, clock>>
    BY DEF StagedSensors, hardware, evidence
  <1>3. Types'
    BY <1>1, <1>2 DEF IInv, Types
  <1>4. Located'
    BY <1>1, <1>2 DEF IInv, Types, Located, PlaceOf, At
  <1>5. StacksBalanced'
    BY <1>1, <1>2 DEF IInv, Types, StacksBalanced, Running
  <1>6. ASSUME NEW a \in Asics PROVE Identified(a)'
    BY <1>1, <1>2 DEF IInv, Types, Identified, Passed, Asics, At
  <1>7. ASSUME NEW a \in Asics PROVE Silenced(a)'
    BY <1>1, <1>2 DEF IInv, Types, Silenced, ToBeSilent, Silent, Passed, Asics, At
  <1>8. ASSUME NEW a \in Asics PROVE Heard(a)'
    BY <1>1, <1>2 DEF IInv, Types, Heard, Silenced, ToBeSilent, Silent, Passed, Asics, At
  <1>9. ASSUME NEW a \in Asics PROVE Framed(a)'
    BY <1>1, <1>2 DEF IInv, Types, Framed, Heard, Passed, Asics, At
  <1>10. ASSUME NEW a \in Asics PROVE Paired(a)'
    BY <1>1, <1>2 DEF IInv, Types, Paired, HalfDone, At
  <1>11. ASSUME NEW a \in Asics PROVE Clocked(a)'
    BY <1>1, <1>2 DEF IInv, Types, Clocked, Passed, Asics, At
  <1> QED BY <1>3, <1>4, <1>5, <1>6, <1>7, <1>8, <1>9, <1>10, <1>11 DEF IInv

LEMMA ProgramSensorsKeeps ==
    ASSUME Parameters, IInv, ProgramSensors
    PROVE  IInv'
  <1>1. /\ pc' \in Places /\ pc.at = "sensor" /\ pc'.pair = pc.pair /\ pc'.for = pc.for
        /\ \/ pc.i < AsicCount /\ pc'.at = pc.at /\ pc'.i = pc.i + 1 /\ pc'.n = pc.n
           \/ pc.i = AsicCount /\ pc'.at = "tdm" /\ pc'.i = 1 /\ pc'.n = 0
        /\ pc.i \in Asics /\ AsicCount \in Nat
    BY GoesOn, ChainNotEmpty DEF ProgramSensors, At, IInv, Steps, Types, Places
  <1>2. Outdated /\ UNCHANGED <<present, next, verified, reset, ramp, clock>>
    BY DEF ProgramSensors
  <1>3. next = 3 /\ pc.for = "sensors"
    BY <1>1 DEF IInv, Located, PlaceOf, At, Types, Places, Jobs
  <1>4. /\ chip' \in [Asics -> Chips] /\ ~chip'[pc.i].tdm
        /\ \A a \in Asics : /\ chip'[a].id = chip[a].id /\ chip'[a].pll = chip[a].pll
                            /\ chip'[a].reports = chip[a].reports
                            /\ chip'[a].active = chip[a].active
                            /\ a # pc.i => chip'[a].tdm = chip[a].tdm
    <2> DEFINE c == [chip[pc.i] EXCEPT !.tdm = FALSE, !.sensing = TRUE]
    <2>1. chip[pc.i] \in Chips
      BY <1>1 DEF IInv, Types
    <2>2. /\ c \in Chips /\ ~c.tdm /\ c.id = chip[pc.i].id /\ c.pll = chip[pc.i].pll
          /\ c.reports = chip[pc.i].reports /\ c.active = chip[pc.i].active
      BY <2>1 DEF Chips
    <2>3. WriteAndVerify(pc.i, c)
      BY DEF ProgramSensors
    <2> HIDE DEF c
    <2>4. /\ chip' \in [Asics -> Chips] /\ chip'[pc.i] = c
          /\ \A a \in Asics \ {pc.i} : chip'[a] = chip[a]
      BY <2>2, <2>3, <1>1, Written DEF IInv
    <2> QED BY <2>2, <2>4
  <1>5. /\ wire' \in [Asics -> Frames] /\ sample' \in [Asics -> Samples]
        /\ \A a \in Asics : wire[a] = "none" => wire'[a] = "none"
    BY <1>2, Ages DEF IInv
  <1>6. \A a \in Asics : chip[a].active = {}
    BY <1>3, NoEngineRuns
  <1>7. Types'
    BY <1>1, <1>2, <1>3, <1>4, <1>5, <1>6 DEF IInv, Types
  <1>8. Located'
    BY <1>1, <1>2, <1>3, <1>4, <1>5, <1>6 DEF IInv, Types, Located, PlaceOf, At
  <1>9. StacksBalanced'
    BY <1>1, <1>2, <1>3, <1>4, <1>5, <1>6 DEF IInv, Types, StacksBalanced, Running
  <1>10. ASSUME NEW a \in Asics PROVE Identified(a)'
    BY <1>1, <1>2, <1>3, <1>4, <1>5, <1>6 DEF IInv, Types, Identified, Passed, Asics, At
  <1>11. ASSUME NEW a \in Asics PROVE Silenced(a)'
    BY <1>1, <1>2, <1>3, <1>4, <1>5, <1>6 DEF IInv, Types, Silenced, ToBeSilent, Silent,
        Passed, Asics, At
  <1>12. ASSUME NEW a \in Asics PROVE Heard(a)'
    BY <1>1, <1>2, <1>3, <1>4, <1>5, <1>6 DEF IInv, Types, Heard, Silenced, ToBeSilent, Silent,
        Passed, Asics, At
  <1>13. ASSUME NEW a \in Asics PROVE Framed(a)'
    BY <1>1, <1>2, <1>3, <1>4, <1>5, <1>6 DEF IInv, Types, Framed, Heard, Passed, Asics, At
  <1>14. ASSUME NEW a \in Asics PROVE Paired(a)'
    BY <1>1, <1>2, <1>3, <1>4, <1>5, <1>6 DEF IInv, Types, Paired, HalfDone, At
  <1>15. ASSUME NEW a \in Asics PROVE Clocked(a)'
    BY <1>1, <1>2, <1>3, <1>4, <1>5, <1>6 DEF IInv, Types, Clocked, Passed, Asics, At
  <1> QED BY <1>7, <1>8, <1>9, <1>10, <1>11, <1>12, <1>13, <1>14, <1>15 DEF IInv

LEMMA StartTdmKeeps ==
    ASSUME Parameters, IInv, StartTdm
    PROVE  IInv'
  <1>1. /\ pc' \in Places /\ pc'.at = "acquire" /\ pc'.i = 1 /\ pc'.n = 0 /\ pc.at = "tdm"
        /\ pc'.pair = pc.pair /\ pc'.for = pc.for
    BY GoesTo DEF StartTdm, At, IInv, Steps
  <1>2. UNCHANGED <<present, next, verified, reset, wire, ramp, clock>>
    BY DEF StartTdm
  <1>3. next \in {3, 4} /\ pc.for \in {"sensors", "clocks"}
    BY <1>1 DEF IInv, Located, PlaceOf, At, Types, Places, Jobs
  <1>4. /\ chip' \in [Asics -> Chips]
        /\ \A a \in Asics :
              /\ chip'[a].id = chip[a].id /\ chip'[a].pll = chip[a].pll
              /\ chip'[a].reports = chip[a].reports /\ chip'[a].active = chip[a].active
              /\ chip'[a].tdm = chip[a].tdm \/ chip'[a].tdm = TRUE
    BY TdmBroadcast DEF StartTdm, IInv
  <1>5. sample' \in [Asics -> Samples] /\ \A a \in Asics : ~sample'[a].fresh
    BY Stamped DEF StartTdm, IInv
  <1>6. Types'
    BY <1>1, <1>2, <1>3, <1>4, <1>5 DEF IInv, Types
  <1>7. Located'
    BY <1>1, <1>2, <1>3, <1>4, <1>5 DEF IInv, Types, Located, PlaceOf, At
  <1>8. StacksBalanced'
    BY <1>1, <1>2, <1>3, <1>4, <1>5 DEF IInv, Types, StacksBalanced, Running
  <1>9. ASSUME NEW a \in Asics PROVE Identified(a)'
    BY <1>1, <1>2, <1>3, <1>4, <1>5 DEF IInv, Types, Identified, Passed, Asics, At
  <1>10. ASSUME NEW a \in Asics PROVE Silenced(a)'
    BY <1>1, <1>2, <1>3, <1>4, <1>5 DEF IInv, Types, Silenced, ToBeSilent, Silent, Passed,
        Asics, At
  <1>11. ASSUME NEW a \in Asics PROVE Heard(a)'
    <2>1. wire[a] = "none" /\ wire'[a] = "none"
      BY <1>1, <1>2 DEF IInv, Silenced, ToBeSilent, Silent
    <2>2. ~sample'[a].fresh
      BY <1>5
    <2>3. next' \in {3, 4, 5}
      BY <1>2, <1>3
    <2> QED BY <2>1, <2>2, <2>3, <1>1 DEF Heard, At
  <1>12. ASSUME NEW a \in Asics PROVE Framed(a)'
    BY <1>1, <1>2, <1>3, <1>4, <1>5 DEF IInv, Types, Framed, Heard, Passed, Asics, At
  <1>13. ASSUME NEW a \in Asics PROVE Paired(a)'
    BY <1>1, <1>2, <1>3, <1>4, <1>5 DEF IInv, Types, Paired, HalfDone, At
  <1>14. ASSUME NEW a \in Asics PROVE Clocked(a)'
    BY <1>1, <1>2, <1>3, <1>4, <1>5 DEF IInv, Types, Clocked, Passed, Asics, At
  <1> QED BY <1>6, <1>7, <1>8, <1>9, <1>10, <1>11, <1>12, <1>13, <1>14 DEF IInv

-----------------------------------------------------------------------------
(* verify_telemetry *)

LEMMA AcquireKeeps ==
    ASSUME Parameters, IInv, Acquire
    PROVE  IInv'
  <1>1. UNCHANGED <<present, next, verified, reset, chip, ramp, clock>>
    BY DEF Acquire, hardware
  <1>2. pc.at = "acquire" => next \in 3 .. 6
    BY <1>1 DEF IInv, Located, PlaceOf, At, Types, Places, Jobs
  <1>3. /\ pc' \in Places /\ pc.at = "acquire" /\ pc'.at \in {"acquire", "observe"}
        /\ pc'.for = pc.for /\ pc'.pair = pc.pair
        /\ wire' \in [Asics -> Frames] /\ sample' \in [Asics -> Samples]
        /\ \A a \in Asics : MayBeRead(a)
    <2>1. CASE AllHeard \/ pc.n = Attempts
      <3>1. Go("observe") /\ UNCHANGED evidence /\ At("acquire") /\ Types
        BY <2>1 DEF Acquire, IInv
      <3> QED BY <3>1, GoesTo DEF Steps, At, evidence, MayBeRead, Types
    <2>2. CASE ~(AllHeard \/ pc.n = Attempts)
      <3>1. /\ SomeIngested(anomalies) /\ pc' = [pc EXCEPT !.n = @ + 1]
            /\ pc \in Places /\ At("acquire")
        BY <2>2 DEF Acquire, IInv, Types
      <3>2. pc' \in Places /\ pc'.at = "acquire" /\ pc'.for = pc.for /\ pc'.pair = pc.pair
        BY <3>1 DEF Places, At
      <3> QED BY <3>1, <3>2, SomeRead DEF IInv, At
    <2> QED BY <2>1, <2>2
  <1>4. Types'
    BY <1>1, <1>2, <1>3 DEF IInv, Types
  <1>5. Located'
    BY <1>1, <1>2, <1>3 DEF IInv, Types, Located, PlaceOf, At
  <1>6. StacksBalanced'
    BY <1>1, <1>2, <1>3 DEF IInv, Types, StacksBalanced, Running
  <1>7. ASSUME NEW a \in Asics PROVE Identified(a)'
    BY <1>1, <1>2, <1>3 DEF IInv, Types, Identified, Passed, Asics, At
  <1>8. ASSUME NEW a \in Asics PROVE Silenced(a)'
    BY <1>1, <1>2, <1>3 DEF IInv, Types, Silenced, ToBeSilent, Silent, Passed, Asics, At,
        MayBeRead, ReadOf, Frames
  <1>9. ASSUME NEW a \in Asics PROVE Heard(a)'
    BY <1>1, <1>2, <1>3 DEF IInv, Types, Heard, Silenced, ToBeSilent, Silent, Passed, Asics,
        At, MayBeRead, ReadOf, Frames
  <1>10. ASSUME NEW a \in Asics PROVE Framed(a)'
    BY <1>1, <1>2, <1>3 DEF IInv, Types, Framed, Heard, Passed, Asics, At, MayBeRead, ReadOf,
        Frames
  <1>11. ASSUME NEW a \in Asics PROVE Paired(a)'
    BY <1>1, <1>2, <1>3 DEF IInv, Types, Paired, HalfDone, At
  <1>12. ASSUME NEW a \in Asics PROVE Clocked(a)'
    BY <1>1, <1>2, <1>3 DEF IInv, Types, Clocked, Passed, Asics, At
  <1> QED BY <1>4, <1>5, <1>6, <1>7, <1>8, <1>9, <1>10, <1>11, <1>12 DEF IInv

LEMMA RecheckKeeps ==
    ASSUME Parameters, IInv, Recheck
    PROVE  IInv'
  <1>1. /\ SomeIngested(Tally) /\ pc.at = "observe" /\ pc' = [pc EXCEPT !.n = @ + 1]
        /\ pc \in Places /\ UNCHANGED <<present, next, verified, reset, chip, ramp, clock>>
    BY DEF Recheck, hardware, At, IInv, Types
  <1>2. pc.at = "observe" => next \in 3 .. 6
    BY <1>1 DEF IInv, Located, PlaceOf, At, Types, Places, Jobs
  <1>3. /\ pc' \in Places /\ pc.at = "observe" /\ pc'.at = "observe"
        /\ pc'.for = pc.for /\ pc'.pair = pc.pair
    BY <1>1 DEF Places
  <1>4. /\ wire' \in [Asics -> Frames] /\ sample' \in [Asics -> Samples]
        /\ \A a \in Asics : MayBeRead(a)
    BY <1>1, SomeRead DEF IInv
  <1>5. Types'
    BY <1>1, <1>2, <1>3, <1>4 DEF IInv, Types
  <1>6. Located'
    BY <1>1, <1>2, <1>3, <1>4 DEF IInv, Types, Located, PlaceOf, At
  <1>7. StacksBalanced'
    BY <1>1, <1>2, <1>3, <1>4 DEF IInv, Types, StacksBalanced, Running
  <1>8. ASSUME NEW a \in Asics PROVE Identified(a)'
    BY <1>1, <1>2, <1>3, <1>4 DEF IInv, Types, Identified, Passed, Asics, At
  <1>9. ASSUME NEW a \in Asics PROVE Silenced(a)'
    BY <1>1, <1>2, <1>3, <1>4 DEF IInv, Types, Silenced, ToBeSilent, Silent, Passed, Asics, At,
        MayBeRead, ReadOf, Frames
  <1>10. ASSUME NEW a \in Asics PROVE Heard(a)'
    BY <1>1, <1>2, <1>3, <1>4 DEF IInv, Types, Heard, Silenced, ToBeSilent, Silent, Passed,
        Asics, At, MayBeRead, ReadOf, Frames
  <1>11. ASSUME NEW a \in Asics PROVE Framed(a)'
    BY <1>1, <1>2, <1>3, <1>4 DEF IInv, Types, Framed, Heard, Passed, Asics, At, MayBeRead,
        ReadOf, Frames
  <1>12. ASSUME NEW a \in Asics PROVE Paired(a)'
    BY <1>1, <1>2, <1>3, <1>4 DEF IInv, Types, Paired, HalfDone, At
  <1>13. ASSUME NEW a \in Asics PROVE Clocked(a)'
    BY <1>1, <1>2, <1>3, <1>4 DEF IInv, Types, Clocked, Passed, Asics, At
  <1> QED BY <1>5, <1>6, <1>7, <1>8, <1>9, <1>10, <1>11, <1>12, <1>13 DEF IInv

LEMMA AcceptSensorsKeeps ==
    ASSUME Parameters, IInv, AcceptSensors
    PROVE  IInv'
  <1>1. /\ pc' \in Places /\ pc'.at = "settle" /\ pc'.i = 1 /\ pc'.n = 0 /\ pc.at = "observe"
        /\ pc'.pair = pc.pair /\ pc'.for = pc.for
    BY GoesTo DEF AcceptSensors, Accepts, At, IInv, Steps
  <1>2. /\ pc.for = "sensors"
        /\ UNCHANGED <<present, next, verified, reset, chip, sample, wire, ramp, clock>>
    BY DEF AcceptSensors, hardware, evidence
  <1>3. Types'
    BY <1>1, <1>2 DEF IInv, Types
  <1>4. Located'
    BY <1>1, <1>2 DEF IInv, Types, Located, PlaceOf, At
  <1>5. StacksBalanced'
    BY <1>1, <1>2 DEF IInv, Types, StacksBalanced, Running
  <1>6. ASSUME NEW a \in Asics PROVE Identified(a)'
    BY <1>1, <1>2 DEF IInv, Types, Identified, Passed, Asics, At
  <1>7. ASSUME NEW a \in Asics PROVE Silenced(a)'
    BY <1>1, <1>2 DEF IInv, Types, Silenced, ToBeSilent, Silent, Passed, Asics, At
  <1>8. ASSUME NEW a \in Asics PROVE Heard(a)'
    BY <1>1, <1>2 DEF IInv, Types, Heard, Silenced, ToBeSilent, Silent, Passed, Asics, At
  <1>9. ASSUME NEW a \in Asics PROVE Framed(a)'
    BY <1>1, <1>2 DEF IInv, Types, Framed, Heard, Passed, Asics, At
  <1>10. ASSUME NEW a \in Asics PROVE Paired(a)'
    BY <1>1, <1>2 DEF IInv, Types, Paired, HalfDone, At
  <1>11. ASSUME NEW a \in Asics PROVE Clocked(a)'
    BY <1>1, <1>2 DEF IInv, Types, Clocked, Passed, Asics, At
  <1> QED BY <1>3, <1>4, <1>5, <1>6, <1>7, <1>8, <1>9, <1>10, <1>11 DEF IInv

-----------------------------------------------------------------------------
(* BZM_staged_clocks *)

LEMMA StagedClocksKeeps ==
    ASSUME Parameters, IInv, StagedClocks
    PROVE  IInv'
  <1>1. /\ pc' \in Places /\ pc'.at = "quiet" /\ pc'.i = 1 /\ pc'.n = 0
        /\ pc'.for = "clocks" /\ pc'.pair = 0 /\ pc.at = "idle"
    BY ChainNotEmpty DEF StagedClocks, At, Idle, Places, Steps, Jobs
  <1>2. /\ next = 4 /\ verified' = {"chain", "sensors"}
        /\ UNCHANGED <<present, next, reset, wire, sample, ramp, clock>>
    BY DEF StagedClocks, evidence
  <1>3. /\ chip' \in [Asics -> Chips]
        /\ \A a \in Asics :
              /\ chip'[a].id = chip[a].id /\ chip'[a].pll = chip[a].pll
              /\ chip'[a].reports = chip[a].reports /\ chip'[a].active = chip[a].active
              /\ chip'[a].tdm = chip[a].tdm \/ chip'[a].tdm = FALSE
    BY TdmBroadcast DEF StagedClocks, IInv
  <1>4. \A a \in Asics : chip[a].active = {}
    BY <1>1, <1>2, NoEngineRuns
  <1>5. Types'
    BY <1>1, <1>2, <1>3, <1>4 DEF IInv, Types
  <1>6. Located'
    BY <1>1, <1>2, <1>3, <1>4 DEF IInv, Types, Located, PlaceOf, At
  <1>7. StacksBalanced'
    BY <1>1, <1>2, <1>3, <1>4 DEF IInv, Types, StacksBalanced, Running
  <1>8. ASSUME NEW a \in Asics PROVE Identified(a)'
    BY <1>1, <1>2, <1>3, <1>4 DEF IInv, Types, Identified, Passed, Asics, At
  <1>9. ASSUME NEW a \in Asics PROVE Silenced(a)'
    BY <1>1, <1>2, <1>3, <1>4 DEF IInv, Types, Silenced, ToBeSilent, Silent, Passed, Asics, At
  <1>10. ASSUME NEW a \in Asics PROVE Heard(a)'
    BY <1>1, <1>2, <1>3, <1>4 DEF IInv, Types, Heard, Silenced, ToBeSilent, Silent, Passed,
        Asics, At
  <1>11. ASSUME NEW a \in Asics PROVE Framed(a)'
    BY <1>1, <1>2, <1>3, <1>4 DEF IInv, Types, Framed, Heard, Passed, Asics, At
  <1>12. ASSUME NEW a \in Asics PROVE Paired(a)'
    BY <1>1, <1>2, <1>3, <1>4 DEF IInv, Types, Paired, HalfDone, At
  <1>13. ASSUME NEW a \in Asics PROVE Clocked(a)'
    BY <1>1, <1>2, <1>3, <1>4 DEF IInv, Types, Clocked, Passed, Asics, At
  <1> QED BY <1>5, <1>6, <1>7, <1>8, <1>9, <1>10, <1>11, <1>12, <1>13 DEF IInv

LEMMA QuietReadBackKeeps ==
    ASSUME Parameters, IInv, QuietReadBack
    PROVE  IInv'
  <1>1. /\ pc.at = "quiet" /\ pc.i \in Asics /\ AsicCount \in Nat /\ ~chip[pc.i].tdm
        /\ UNCHANGED <<present, next, verified, reset, chip, ramp, clock>>
    BY ChainNotEmpty DEF QuietReadBack, At, hardware, IInv, Types, Places
  <1>2. pc.at = "quiet" => (next = 4 /\ pc.for = "clocks") \/ (next = 5 /\ pc.for = "ramp")
    BY <1>1 DEF IInv, Located, PlaceOf, At, Types, Places, Jobs
  <1>3. /\ pc' \in Places /\ pc'.pair = pc.pair /\ pc'.for = pc.for
        /\ \/ pc.i < AsicCount /\ pc'.at = pc.at /\ pc'.i = pc.i + 1 /\ pc'.n = pc.n
           \/ /\ pc.i = AsicCount /\ pc'.i = 1 /\ pc'.n = 0
              /\ pc'.at = IF pc.for = "clocks" THEN "pll" ELSE "open"
    <2> DEFINE step == IF pc.for = "clocks" THEN "pll" ELSE "open"
    <2>1. Each(step) /\ step \in Steps
      BY DEF QuietReadBack, Steps
    <2> HIDE DEF step
    <2>2. /\ pc' \in Places /\ pc'.pair = pc.pair /\ pc'.for = pc.for
          /\ \/ pc.i < AsicCount /\ pc'.at = pc.at /\ pc'.i = pc.i + 1 /\ pc'.n = pc.n
             \/ pc.i = AsicCount /\ pc'.at = step /\ pc'.i = 1 /\ pc'.n = 0
      BY <2>1, GoesOn DEF IInv
    <2> QED BY <2>2 DEF step
  <1>4. /\ wire' \in [Asics -> Frames] /\ sample' \in [Asics -> Samples]
        /\ \A a \in Asics : MayBeRead(a) /\ wire'[pc.i] = "none"
    BY <1>1, ReadBehind DEF IInv, QuietReadBack
  <1>5. Types'
    BY <1>1, <1>2, <1>3, <1>4 DEF IInv, Types
  <1>6. Located'
    BY <1>1, <1>2, <1>3, <1>4 DEF IInv, Types, Located, PlaceOf, At
  <1>7. StacksBalanced'
    BY <1>1, <1>2, <1>3, <1>4 DEF IInv, Types, StacksBalanced, Running
  <1>8. ASSUME NEW a \in Asics PROVE Identified(a)'
    BY <1>1, <1>2, <1>3, <1>4 DEF IInv, Types, Identified, Passed, Asics, At
  <1>9. ASSUME NEW a \in Asics PROVE Silenced(a)'
    <2>1. Silenced(a) /\ MayBeRead(a) /\ a \in Nat /\ a <= AsicCount
      BY <1>1, <1>4 DEF IInv, Asics
    <2>2. a < pc.i => Silent(a)'
      BY <2>1, <1>1 DEF Silenced, ToBeSilent, Silent, Passed, At, MayBeRead, ReadOf
    <2>3. a = pc.i => Silent(a)'
      BY <1>1, <1>4 DEF Silent
    <2>4. ToBeSilent(a)' => a <= pc.i
      BY <2>1, <1>1, <1>2, <1>3 DEF ToBeSilent, Passed, At, Asics
    <2> QED BY <2>1, <2>2, <2>3, <2>4, <1>1 DEF Silenced, Asics
  <1>10. ASSUME NEW a \in Asics PROVE Heard(a)'
    BY <1>1, <1>2, <1>3, <1>4 DEF IInv, Types, Heard, Silenced, ToBeSilent, Silent, Passed,
        Asics, At, MayBeRead, ReadOf, Frames
  <1>11. ASSUME NEW a \in Asics PROVE Framed(a)'
    BY <1>1, <1>2, <1>3, <1>4 DEF IInv, Types, Framed, Heard, Passed, Asics, At, MayBeRead,
        ReadOf, Frames
  <1>12. ASSUME NEW a \in Asics PROVE Paired(a)'
    BY <1>1, <1>2, <1>3, <1>4 DEF IInv, Types, Paired, HalfDone, At
  <1>13. ASSUME NEW a \in Asics PROVE Clocked(a)'
    BY <1>1, <1>2, <1>3, <1>4 DEF IInv, Types, Clocked, Passed, Asics, At
  <1> QED BY <1>5, <1>6, <1>7, <1>8, <1>9, <1>10, <1>11, <1>12, <1>13 DEF IInv

LEMMA ProgramPllKeeps ==
    ASSUME Parameters, IInv, ProgramPll
    PROVE  IInv'
  <1>1. /\ pc' \in Places /\ pc.at = "pll" /\ pc'.pair = pc.pair /\ pc'.for = pc.for
        /\ \/ pc.i < AsicCount /\ pc'.at = pc.at /\ pc'.i = pc.i + 1 /\ pc'.n = pc.n
           \/ pc.i = AsicCount /\ pc'.at = "tdm" /\ pc'.i = 1 /\ pc'.n = 0
        /\ pc.i \in Asics /\ AsicCount \in Nat
    BY GoesOn, ChainNotEmpty DEF ProgramPll, At, IInv, Steps, Types, Places
  <1>2. Outdated /\ UNCHANGED <<present, next, verified, reset, ramp, clock>>
    BY DEF ProgramPll
  <1>3. next = 4 /\ pc.for = "clocks"
    BY <1>1 DEF IInv, Located, PlaceOf, At, Types, Places, Jobs
  <1>4. /\ chip' \in [Asics -> Chips] /\ chip'[pc.i].pll = 1
        /\ \A a \in Asics : /\ chip'[a].id = chip[a].id /\ chip'[a].tdm = chip[a].tdm
                            /\ chip'[a].reports = chip[a].reports
                            /\ chip'[a].active = chip[a].active
                            /\ a # pc.i => chip'[a].pll = chip[a].pll
    <2> DEFINE c == [chip[pc.i] EXCEPT !.pll = 1]
    <2>1. chip[pc.i] \in Chips
      BY <1>1 DEF IInv, Types
    <2>2. /\ c \in Chips /\ c.pll = 1 /\ c.id = chip[pc.i].id /\ c.tdm = chip[pc.i].tdm
          /\ c.reports = chip[pc.i].reports /\ c.active = chip[pc.i].active
      BY <2>1 DEF Chips
    <2>3. WriteAndVerify(pc.i, c)
      BY DEF ProgramPll
    <2> HIDE DEF c
    <2>4. /\ chip' \in [Asics -> Chips] /\ chip'[pc.i] = c
          /\ \A a \in Asics \ {pc.i} : chip'[a] = chip[a]
      BY <2>2, <2>3, <1>1, Written DEF IInv
    <2> QED BY <2>2, <2>4
  <1>5. /\ wire' \in [Asics -> Frames] /\ sample' \in [Asics -> Samples]
        /\ \A a \in Asics : wire[a] = "none" => wire'[a] = "none"
    BY <1>2, Ages DEF IInv
  <1>6. Types'
    BY <1>1, <1>2, <1>3, <1>4, <1>5 DEF IInv, Types
  <1>7. Located'
    BY <1>1, <1>2, <1>3, <1>4, <1>5 DEF IInv, Types, Located, PlaceOf, At
  <1>8. StacksBalanced'
    BY <1>1, <1>2, <1>3, <1>4, <1>5 DEF IInv, Types, StacksBalanced, Running
  <1>9. ASSUME NEW a \in Asics PROVE Identified(a)'
    BY <1>1, <1>2, <1>3, <1>4, <1>5 DEF IInv, Types, Identified, Passed, Asics, At
  <1>10. ASSUME NEW a \in Asics PROVE Silenced(a)'
    BY <1>1, <1>2, <1>3, <1>4, <1>5 DEF IInv, Types, Silenced, ToBeSilent, Silent, Passed,
        Asics, At
  <1>11. ASSUME NEW a \in Asics PROVE Heard(a)'
    BY <1>1, <1>2, <1>3, <1>4, <1>5 DEF IInv, Types, Heard, Silenced, ToBeSilent, Silent,
        Passed, Asics, At
  <1>12. ASSUME NEW a \in Asics PROVE Framed(a)'
    BY <1>1, <1>2, <1>3, <1>4, <1>5 DEF IInv, Types, Framed, Heard, Passed, Asics, At
  <1>13. ASSUME NEW a \in Asics PROVE Paired(a)'
    BY <1>1, <1>2, <1>3, <1>4, <1>5 DEF IInv, Types, Paired, HalfDone, At
  <1>14. ASSUME NEW a \in Asics PROVE Clocked(a)'
    <2>1. Clocked(a) /\ a \in Nat /\ a <= AsicCount
      BY <1>1 DEF IInv, Asics
    <2>2. a < pc.i => chip[a].pll = 1
      BY <2>1, <1>1 DEF Clocked, Passed, At
    <2>3. a <= pc.i => chip'[a].pll = 1
      BY <2>1, <2>2, <1>1, <1>4 DEF Asics
    <2> QED BY <2>1, <2>3, <1>1, <1>2, <1>3 DEF Clocked, Passed, At, Asics
  <1> QED BY <1>6, <1>7, <1>8, <1>9, <1>10, <1>11, <1>12, <1>13, <1>14 DEF IInv

LEMMA AcceptClocksKeeps ==
    ASSUME Parameters, IInv, AcceptClocks
    PROVE  IInv'
  <1>1. /\ pc.at = "observe" /\ pc.for = "clocks" /\ next' = 5
        /\ verified' = verified \cup {"clocks"}
        /\ pc' = Idle /\ UNCHANGED <<present, reset, chip, wire, sample, ramp>>
    BY DEF AcceptClocks, Accepts, At, hardware, evidence
  <1>2. /\ pc' \in Places /\ pc'.at = "idle" /\ pc'.i = 1 /\ pc'.n = 0 /\ pc'.for = "none"
    BY <1>1, ChainNotEmpty DEF Idle, Places, Steps, Jobs
  <1>3. clock' \in [Asics -> Int] /\ \A a \in Asics : clock'[a] = 1
    BY DEF AcceptClocks
  <1>4. next = 4
    BY <1>1 DEF IInv, Located, PlaceOf, At, Types, Places, Jobs
  <1>5. Types'
    BY <1>1, <1>2, <1>3, <1>4 DEF IInv, Types
  <1>6. Located'
    BY <1>1, <1>2, <1>3, <1>4 DEF IInv, Types, Located, PlaceOf, At
  <1>7. StacksBalanced'
    BY <1>1, <1>2, <1>3, <1>4 DEF IInv, Types, StacksBalanced, Running
  <1>8. ASSUME NEW a \in Asics PROVE Identified(a)'
    BY <1>1, <1>2, <1>3, <1>4 DEF IInv, Types, Identified, Passed, Asics, At
  <1>9. ASSUME NEW a \in Asics PROVE Silenced(a)'
    BY <1>1, <1>2, <1>3, <1>4 DEF IInv, Types, Silenced, ToBeSilent, Silent, Passed, Asics, At
  <1>10. ASSUME NEW a \in Asics PROVE Heard(a)'
    BY <1>1, <1>2, <1>3, <1>4 DEF IInv, Types, Heard, Silenced, ToBeSilent, Silent, Passed,
        Asics, At
  <1>11. ASSUME NEW a \in Asics PROVE Framed(a)'
    BY <1>1, <1>2, <1>3, <1>4 DEF IInv, Types, Framed, Heard, Passed, Asics, At
  <1>12. ASSUME NEW a \in Asics PROVE Paired(a)'
    BY <1>1, <1>2, <1>3, <1>4 DEF IInv, Types, Paired, HalfDone, At
  <1>13. ASSUME NEW a \in Asics PROVE Clocked(a)'
    BY <1>1, <1>2, <1>3, <1>4 DEF IInv, Types, Clocked, Passed, Asics, At
  <1> QED BY <1>5, <1>6, <1>7, <1>8, <1>9, <1>10, <1>11, <1>12, <1>13 DEF IInv

-----------------------------------------------------------------------------
(* BZM_staged_balanced_ramp *)

LEMMA StagedBalancedRampKeeps ==
    ASSUME Parameters, IInv, StagedBalancedRamp
    PROVE  IInv'
  <1>1. /\ pc' \in Places /\ pc'.at = "mute" /\ pc'.i = 1 /\ pc'.n = 0
        /\ pc'.for = "ramp" /\ pc'.pair = 0 /\ pc.at = "idle"
    BY ChainNotEmpty DEF StagedBalancedRamp, At, Idle, Places, Steps, Jobs
  <1>2. /\ next = 5 /\ TopologyIsExact
        /\ UNCHANGED <<present, next, verified, reset, chip, sample, wire, ramp, clock>>
    BY DEF StagedBalancedRamp, hardware, evidence
  <1>3. 0 < PairCount
    BY <1>2, PairsBegin
  <1>4. Types'
    BY <1>1, <1>2, <1>3 DEF IInv, Types
  <1>5. Located'
    BY <1>1, <1>2, <1>3 DEF IInv, Types, Located, PlaceOf, At
  <1>6. StacksBalanced'
    BY <1>1, <1>2, <1>3 DEF IInv, Types, StacksBalanced, Running
  <1>7. ASSUME NEW a \in Asics PROVE Identified(a)'
    BY <1>1, <1>2, <1>3 DEF IInv, Types, Identified, Passed, Asics, At
  <1>8. ASSUME NEW a \in Asics PROVE Silenced(a)'
    BY <1>1, <1>2, <1>3 DEF IInv, Types, Silenced, ToBeSilent, Silent, Passed, Asics, At
  <1>9. ASSUME NEW a \in Asics PROVE Heard(a)'
    BY <1>1, <1>2, <1>3 DEF IInv, Types, Heard, Silenced, ToBeSilent, Silent, Passed, Asics, At
  <1>10. ASSUME NEW a \in Asics PROVE Framed(a)'
    BY <1>1, <1>2, <1>3 DEF IInv, Types, Framed, Heard, Passed, Asics, At
  <1>11. ASSUME NEW a \in Asics PROVE Paired(a)'
    BY <1>1, <1>2, <1>3 DEF IInv, Types, Paired, HalfDone, At
  <1>12. ASSUME NEW a \in Asics PROVE Clocked(a)'
    BY <1>1, <1>2, <1>3 DEF IInv, Types, Clocked, Passed, Asics, At
  <1> QED BY <1>4, <1>5, <1>6, <1>7, <1>8, <1>9, <1>10, <1>11, <1>12 DEF IInv

LEMMA MuteReportsKeeps ==
    ASSUME Parameters, IInv, MuteReports
    PROVE  IInv'
  <1>1. /\ pc' \in Places /\ pc.at = "mute" /\ pc'.pair = pc.pair /\ pc'.for = pc.for
        /\ \/ pc.i < AsicCount /\ pc'.at = pc.at /\ pc'.i = pc.i + 1 /\ pc'.n = pc.n
           \/ pc.i = AsicCount /\ pc'.at = "capture" /\ pc'.i = 1 /\ pc'.n = 0
        /\ pc.i \in Asics /\ AsicCount \in Nat
    BY GoesOn, ChainNotEmpty DEF MuteReports, At, IInv, Steps, Types, Places
  <1>2. UNCHANGED <<present, next, verified, reset, ramp, clock>>
    BY DEF MuteReports
  <1>3. next = 5 /\ pc.for = "ramp"
    BY <1>1 DEF IInv, Located, PlaceOf, At, Types, Places, Jobs
  <1>4. /\ chip' \in [Asics -> Chips] /\ ~chip'[pc.i].reports
        /\ \A a \in Asics : /\ chip'[a].id = chip[a].id /\ chip'[a].tdm = chip[a].tdm
                            /\ chip'[a].pll = chip[a].pll
                            /\ chip'[a].active = chip[a].active
                            /\ a # pc.i => chip'[a].reports = chip[a].reports
    <2> DEFINE c == [chip[pc.i] EXCEPT !.reports = FALSE]
    <2>1. chip[pc.i] \in Chips
      BY <1>1 DEF IInv, Types
    <2>2. /\ c \in Chips /\ ~c.reports /\ c.id = chip[pc.i].id /\ c.tdm = chip[pc.i].tdm
          /\ c.pll = chip[pc.i].pll /\ c.active = chip[pc.i].active
      BY <2>1 DEF Chips
    <2>3. WriteAndVerify(pc.i, c)
      BY DEF MuteReports
    <2> HIDE DEF c
    <2>4. /\ chip' \in [Asics -> Chips] /\ chip'[pc.i] = c
          /\ \A a \in Asics \ {pc.i} : chip'[a] = chip[a]
      BY <2>2, <2>3, <1>1, Written DEF IInv
    <2> QED BY <2>2, <2>4
  <1>5. /\ wire' \in [Asics -> Frames] /\ sample' \in [Asics -> Samples]
        /\ \A a \in Asics : MayBeRead(a)
    BY <1>1, ReadBehind DEF IInv, MuteReports
  <1>6. \A a \in Asics : chip[a].active = {}
    BY <1>1, <1>3, NoEngineRuns
  <1>7. Types'
    BY <1>1, <1>2, <1>3, <1>4, <1>5, <1>6 DEF IInv, Types
  <1>8. Located'
    BY <1>1, <1>2, <1>3, <1>4, <1>5, <1>6 DEF IInv, Types, Located, PlaceOf, At
  <1>9. StacksBalanced'
    BY <1>1, <1>2, <1>3, <1>4, <1>5, <1>6 DEF IInv, Types, StacksBalanced, Running
  <1>10. ASSUME NEW a \in Asics PROVE Identified(a)'
    BY <1>1, <1>2, <1>3, <1>4, <1>5, <1>6 DEF IInv, Types, Identified, Passed, Asics, At
  <1>11. ASSUME NEW a \in Asics PROVE Silenced(a)'
    BY <1>1, <1>2, <1>3, <1>4, <1>5, <1>6 DEF IInv, Types, Silenced, ToBeSilent, Silent,
        Passed, Asics, At, MayBeRead, ReadOf, Frames
  <1>12. ASSUME NEW a \in Asics PROVE Heard(a)'
    BY <1>1, <1>2, <1>3, <1>4, <1>5, <1>6 DEF IInv, Types, Heard, Silenced, ToBeSilent, Silent,
        Passed, Asics, At, MayBeRead, ReadOf, Frames
  <1>13. ASSUME NEW a \in Asics PROVE Framed(a)'
    <2>1. Framed(a) /\ Heard(a) /\ a \in Nat /\ a <= AsicCount
      BY <1>1 DEF IInv, Asics
    <2>2. a < pc.i => ~chip[a].reports
      BY <2>1, <1>1, <1>3 DEF Framed, Passed, At
    <2>3. a <= pc.i => ~chip'[a].reports
      BY <2>1, <2>2, <1>1, <1>4 DEF Asics
    <2>4. ~(chip'[a].active # {} /\ chip'[a].reports) \/ chip'[a].tdm
      BY <2>1, <1>4, <1>6 DEF Heard
    <2> QED BY <2>1, <2>3, <2>4, <1>1, <1>2, <1>3 DEF Framed, Passed, At, Asics
  <1>14. ASSUME NEW a \in Asics PROVE Paired(a)'
    BY <1>1, <1>2, <1>3, <1>4, <1>5, <1>6 DEF IInv, Types, Paired, HalfDone, At
  <1>15. ASSUME NEW a \in Asics PROVE Clocked(a)'
    BY <1>1, <1>2, <1>3, <1>4, <1>5, <1>6 DEF IInv, Types, Clocked, Passed, Asics, At
  <1> QED BY <1>7, <1>8, <1>9, <1>10, <1>11, <1>12, <1>13, <1>14, <1>15 DEF IInv

LEMMA WaitTdmIdleKeeps ==
    ASSUME Parameters, IInv, WaitTdmIdle
    PROVE  IInv'
  <1>1. /\ pc.at = "capture" /\ pc' \in Places /\ pc'.at = "captured" /\ pc'.for = pc.for
        /\ pc'.pair = pc.pair
    BY DEF WaitTdmIdle, At, IInv, Types, Places, Steps
  <1>2. UNCHANGED <<present, next, verified, reset, chip, ramp, clock>>
    BY DEF WaitTdmIdle, hardware
  <1>3. /\ wire' \in [Asics -> Frames] /\ sample' \in [Asics -> Samples]
        /\ \A a \in Asics : MayBeRead(a)
    <2>1. PICK q \in [OnTheWire -> Qualities] :
             Ingested(OnTheWire, q, IF pc.n = 0 THEN Uncounted ELSE anomalies)
      BY Zenon DEF WaitTdmIdle
    <2> QED BY <2>1, Reads DEF IInv
  <1>4. next = 5 /\ pc.for = "ramp"
    BY <1>1 DEF IInv, Located, PlaceOf, At, Types, Places, Jobs
  <1>5. Types'
    BY <1>1, <1>2, <1>3, <1>4 DEF IInv, Types
  <1>6. Located'
    BY <1>1, <1>2, <1>3, <1>4 DEF IInv, Types, Located, PlaceOf, At
  <1>7. StacksBalanced'
    BY <1>1, <1>2, <1>3, <1>4 DEF IInv, Types, StacksBalanced, Running
  <1>8. ASSUME NEW a \in Asics PROVE Identified(a)'
    BY <1>1, <1>2, <1>3, <1>4 DEF IInv, Types, Identified, Passed, Asics, At
  <1>9. ASSUME NEW a \in Asics PROVE Silenced(a)'
    BY <1>1, <1>2, <1>3, <1>4 DEF IInv, Types, Silenced, ToBeSilent, Silent, Passed, Asics, At,
        MayBeRead, ReadOf, Frames
  <1>10. ASSUME NEW a \in Asics PROVE Heard(a)'
    BY <1>1, <1>2, <1>3, <1>4 DEF IInv, Types, Heard, Silenced, ToBeSilent, Silent, Passed,
        Asics, At, MayBeRead, ReadOf, Frames
  <1>11. ASSUME NEW a \in Asics PROVE Framed(a)'
    BY <1>1, <1>2, <1>3, <1>4 DEF IInv, Types, Framed, Heard, Passed, Asics, At, MayBeRead,
        ReadOf, Frames
  <1>12. ASSUME NEW a \in Asics PROVE Paired(a)'
    BY <1>1, <1>2, <1>3, <1>4 DEF IInv, Types, Paired, HalfDone, At
  <1>13. ASSUME NEW a \in Asics PROVE Clocked(a)'
    BY <1>1, <1>2, <1>3, <1>4 DEF IInv, Types, Clocked, Passed, Asics, At
  <1> QED BY <1>5, <1>6, <1>7, <1>8, <1>9, <1>10, <1>11, <1>12, <1>13 DEF IInv

LEMMA CaptureBatchTelemetryKeeps ==
    ASSUME Parameters, IInv, CaptureBatchTelemetry
    PROVE  IInv'
  <1>1. /\ pc.at = "captured" /\ pc' \in Places /\ pc'.at = "capture" /\ pc'.for = pc.for
        /\ pc'.pair = pc.pair
    <2>1. pc \in Places /\ pc' = [pc EXCEPT !.at = "capture", !.n = @ + 1] /\ pc.at = "captured"
      BY DEF CaptureBatchTelemetry, At, IInv, Types
    <2>2. pc.n + 1 \in Nat /\ "capture" \in Steps
      BY <2>1 DEF Places, Steps
    <2> QED BY <2>1, <2>2 DEF Places
  <1>2. UNCHANGED <<present, next, verified, reset, chip, sample, wire, ramp, clock>>
    BY DEF CaptureBatchTelemetry, hardware
  <1>3. next = 5 /\ pc.for = "ramp"
    BY <1>1 DEF IInv, Located, PlaceOf, At, Types, Places, Jobs
  <1>4. Types'
    BY <1>1, <1>2, <1>3 DEF IInv, Types
  <1>5. Located'
    BY <1>1, <1>2, <1>3 DEF IInv, Types, Located, PlaceOf, At
  <1>6. StacksBalanced'
    BY <1>1, <1>2, <1>3 DEF IInv, Types, StacksBalanced, Running
  <1>7. ASSUME NEW a \in Asics PROVE Identified(a)'
    BY <1>1, <1>2, <1>3 DEF IInv, Types, Identified, Passed, Asics, At
  <1>8. ASSUME NEW a \in Asics PROVE Silenced(a)'
    BY <1>1, <1>2, <1>3 DEF IInv, Types, Silenced, ToBeSilent, Silent, Passed, Asics, At
  <1>9. ASSUME NEW a \in Asics PROVE Heard(a)'
    BY <1>1, <1>2, <1>3 DEF IInv, Types, Heard, Silenced, ToBeSilent, Silent, Passed, Asics, At
  <1>10. ASSUME NEW a \in Asics PROVE Framed(a)'
    BY <1>1, <1>2, <1>3 DEF IInv, Types, Framed, Heard, Passed, Asics, At
  <1>11. ASSUME NEW a \in Asics PROVE Paired(a)'
    BY <1>1, <1>2, <1>3 DEF IInv, Types, Paired, HalfDone, At
  <1>12. ASSUME NEW a \in Asics PROVE Clocked(a)'
    BY <1>1, <1>2, <1>3 DEF IInv, Types, Clocked, Passed, Asics, At
  <1> QED BY <1>4, <1>5, <1>6, <1>7, <1>8, <1>9, <1>10, <1>11, <1>12 DEF IInv

LEMMA PauseTdmKeeps ==
    ASSUME Parameters, IInv, PauseTdm
    PROVE  IInv'
  <1>1. /\ pc' \in Places /\ pc'.at = "quiet" /\ pc'.i = 1 /\ pc'.n = 0 /\ pc.at = "captured"
        /\ pc'.pair = pc.pair /\ pc'.for = pc.for
    BY GoesTo DEF PauseTdm, At, IInv, Steps
  <1>2. UNCHANGED <<present, next, verified, reset, wire, sample, ramp, clock>>
    BY DEF PauseTdm
  <1>3. next = 5 /\ pc.for = "ramp"
    BY <1>1 DEF IInv, Located, PlaceOf, At, Types, Places, Jobs
  <1>4. /\ chip' \in [Asics -> Chips]
        /\ \A a \in Asics :
              /\ chip'[a].id = chip[a].id /\ chip'[a].pll = chip[a].pll
              /\ chip'[a].reports = chip[a].reports /\ chip'[a].active = chip[a].active
              /\ chip'[a].tdm = chip[a].tdm \/ chip'[a].tdm = FALSE
    BY TdmBroadcast DEF PauseTdm, IInv
  <1>5. Types'
    BY <1>1, <1>2, <1>3, <1>4 DEF IInv, Types
  <1>6. Located'
    BY <1>1, <1>2, <1>3, <1>4 DEF IInv, Types, Located, PlaceOf, At
  <1>7. StacksBalanced'
    BY <1>1, <1>2, <1>3, <1>4 DEF IInv, Types, StacksBalanced, Running
  <1>8. ASSUME NEW a \in Asics PROVE Identified(a)'
    BY <1>1, <1>2, <1>3, <1>4 DEF IInv, Types, Identified, Passed, Asics, At
  <1>9. ASSUME NEW a \in Asics PROVE Silenced(a)'
    BY <1>1, <1>2, <1>3, <1>4 DEF IInv, Types, Silenced, ToBeSilent, Silent, Passed, Asics, At
  <1>10. ASSUME NEW a \in Asics PROVE Heard(a)'
    BY <1>1, <1>2, <1>3, <1>4 DEF IInv, Types, Heard, Silenced, ToBeSilent, Silent, Passed,
        Asics, At
  <1>11. ASSUME NEW a \in Asics PROVE Framed(a)'
    BY <1>1, <1>2, <1>3, <1>4 DEF IInv, Types, Framed, Heard, Passed, Asics, At
  <1>12. ASSUME NEW a \in Asics PROVE Paired(a)'
    BY <1>1, <1>2, <1>3, <1>4 DEF IInv, Types, Paired, HalfDone, At
  <1>13. ASSUME NEW a \in Asics PROVE Clocked(a)'
    BY <1>1, <1>2, <1>3, <1>4 DEF IInv, Types, Clocked, Passed, Asics, At
  <1> QED BY <1>5, <1>6, <1>7, <1>8, <1>9, <1>10, <1>11, <1>12, <1>13 DEF IInv

LEMMA OpenWindowKeeps ==
    ASSUME Parameters, IInv, OpenWindow
    PROVE  IInv'
  <1>1. /\ pc' \in Places /\ pc'.at = "commit" /\ pc'.i = 1 /\ pc'.n = 0 /\ pc.at = "open"
        /\ pc'.pair = pc.pair /\ pc'.for = pc.for
    BY GoesTo DEF OpenWindow, At, IInv, Steps
  <1>2. UNCHANGED <<present, next, verified, reset, chip, sample, wire, ramp, clock>>
    BY DEF OpenWindow, hardware, evidence
  <1>3. next = 5 /\ pc.for = "ramp"
    BY <1>1 DEF IInv, Located, PlaceOf, At, Types, Places, Jobs
  <1>4. Types'
    BY <1>1, <1>2, <1>3 DEF IInv, Types
  <1>5. Located'
    BY <1>1, <1>2, <1>3 DEF IInv, Types, Located, PlaceOf, At
  <1>6. StacksBalanced'
    BY <1>1, <1>2, <1>3 DEF IInv, Types, StacksBalanced, Running
  <1>7. ASSUME NEW a \in Asics PROVE Identified(a)'
    BY <1>1, <1>2, <1>3 DEF IInv, Types, Identified, Passed, Asics, At
  <1>8. ASSUME NEW a \in Asics PROVE Silenced(a)'
    BY <1>1, <1>2, <1>3 DEF IInv, Types, Silenced, ToBeSilent, Silent, Passed, Asics, At
  <1>9. ASSUME NEW a \in Asics PROVE Heard(a)'
    BY <1>1, <1>2, <1>3 DEF IInv, Types, Heard, Silenced, ToBeSilent, Silent, Passed, Asics, At
  <1>10. ASSUME NEW a \in Asics PROVE Framed(a)'
    BY <1>1, <1>2, <1>3 DEF IInv, Types, Framed, Heard, Passed, Asics, At
  <1>11. ASSUME NEW a \in Asics PROVE Paired(a)'
    BY <1>1, <1>2, <1>3 DEF IInv, Types, Paired, HalfDone, At
  <1>12. ASSUME NEW a \in Asics PROVE Clocked(a)'
    BY <1>1, <1>2, <1>3 DEF IInv, Types, Clocked, Passed, Asics, At
  <1> QED BY <1>4, <1>5, <1>6, <1>7, <1>8, <1>9, <1>10, <1>11, <1>12 DEF IInv

LEMMA ActivateEngineKeeps ==
    ASSUME Parameters, IInv, ActivateEngine
    PROVE  IInv'
  <1>1. /\ pc.at = "commit" /\ pc.i \in Asics /\ pc.n \in Nat /\ pc.pair \in Nat /\ pc \in Places
        /\ AsicCount \in Nat /\ ramp[pc.i].pair = pc.pair /\ Outdated
        /\ UNCHANGED <<present, next, verified, reset, clock>>
    BY ChainNotEmpty DEF ActivateEngine, At, IInv, Types, Places
  <1>2. next = 5 /\ pc.for = "ramp" /\ TopologyIsExact /\ pc.pair < PairCount
    BY <1>1 DEF IInv, Located, PlaceOf, At, Types, Places, Jobs
  <1>3. PICK e \in PairEngines \ Prepared(pc.i) : chip' = Starting(e)
    BY Zenon DEF ActivateEngine
  <1>4. /\ chip' \in [Asics -> Chips] /\ e \in Pair(pc.pair)
        /\ chip'[pc.i].active = chip[pc.i].active \cup {e}
        /\ \A a \in Asics : /\ chip'[a].id = chip[a].id /\ chip'[a].tdm = chip[a].tdm
                            /\ chip'[a].pll = chip[a].pll
                            /\ chip'[a].reports = chip[a].reports
        /\ \A a \in Asics \ {pc.i} : chip'[a].active = chip[a].active
        /\ pc.n # 0 => chip'[pc.i].active = PairsDone(pc.pair + 1)
        /\ SafeLeft(chip')
    BY <1>1, <1>3, EngineStarts DEF At
  <1>5. /\ wire' \in [Asics -> Frames] /\ sample' \in [Asics -> Samples]
        /\ \A a \in Asics : wire[a] = "none" => wire'[a] = "none"
    BY <1>1, Ages DEF IInv
  <1>6. /\ pc' \in Places /\ pc'.for = "ramp" /\ pc'.pair = pc.pair
        /\ \/ /\ pc.n = 0 /\ pc'.at = "commit" /\ pc'.i = pc.i /\ pc'.n = 1
           \/ /\ pc.n # 0 /\ pc'.at \in {"commit", "close"} /\ pc'.n = 0
    <2>1. CASE pc.n = 0
      <3>1. pc' = [pc EXCEPT !.n = 1]
        BY <2>1 DEF ActivateEngine
      <3> QED BY <3>1, <2>1, <1>1, <1>2 DEF Places
    <2>2. CASE pc.n # 0 /\ pc.i < AsicCount
      <3>1. pc' = [pc EXCEPT !.i = @ + 1, !.n = 0] /\ pc.i + 1 \in Asics
        BY <2>2, <1>1 DEF ActivateEngine, Asics
      <3> QED BY <3>1, <2>2, <1>1, <1>2 DEF Places
    <2>3. CASE pc.n # 0 /\ ~(pc.i < AsicCount)
      <3>1. Go("close") /\ Types
        BY <2>3 DEF ActivateEngine, IInv
      <3> QED BY <3>1, <2>3, <1>2, GoesTo DEF Steps
    <2> QED BY <2>1, <2>2, <2>3
  <1>7. /\ ramp' \in [Asics -> Ramps] /\ \A a \in Asics \ {pc.i} : ramp'[a] = ramp[a]
        /\ pc.n = 0 => ramp'[pc.i].prepared /\ ramp'[pc.i].pair = pc.pair
        /\ pc.n # 0 => /\ ramp'[pc.i].prepared = ramp[pc.i].prepared
                       /\ ramp'[pc.i].pair = pc.pair + 1
    <2>1. ramp \in [Asics -> Ramps] /\ ramp[pc.i] \in Ramps
      BY <1>1 DEF IInv, Types
    <2>2. CASE pc.n = 0
      <3>1. ramp' = [ramp EXCEPT ![pc.i].prepared = TRUE]
        BY <2>2 DEF ActivateEngine
      <3> QED BY <3>1, <2>1, <2>2, <1>1 DEF Ramps
    <2>3. CASE pc.n # 0
      <3>1. ramp' = [ramp EXCEPT ![pc.i].pair = @ + 1]
        BY <2>3 DEF ActivateEngine
      <3> QED BY <3>1, <2>1, <2>3, <1>1 DEF Ramps
    <2> QED BY <2>2, <2>3
  <1>8. Types'
    BY <1>1, <1>2, <1>3, <1>4, <1>5, <1>6, <1>7 DEF IInv, Types
  <1>9. Located'
    BY <1>1, <1>2, <1>3, <1>4, <1>5, <1>6, <1>7 DEF IInv, Types, Located, PlaceOf, At
  <1>10. StacksBalanced'
    BY <1>4, BalanceOf DEF SafeLeft
  <1>11. ASSUME NEW a \in Asics PROVE Identified(a)'
    BY <1>1, <1>2, <1>3, <1>4, <1>5, <1>6, <1>7 DEF IInv, Types, Identified, Passed, Asics, At
  <1>12. ASSUME NEW a \in Asics PROVE Silenced(a)'
    BY <1>1, <1>2, <1>3, <1>4, <1>5, <1>6, <1>7 DEF IInv, Types, Silenced, ToBeSilent, Silent,
        Passed, Asics, At
  <1>13. ASSUME NEW a \in Asics PROVE Heard(a)'
    BY <1>1, <1>2, <1>3, <1>4, <1>5, <1>6, <1>7 DEF IInv, Types, Heard, Silenced, ToBeSilent,
        Silent, Passed, Asics, At
  <1>14. ASSUME NEW a \in Asics PROVE Framed(a)'
    <2>1. Framed(a) /\ ~chip[a].reports
      BY <1>1, <1>2 DEF IInv, Framed, At
    <2>2. ~chip'[a].reports
      BY <2>1, <1>4
    <2> QED BY <2>2, <1>1, <1>2, <1>6 DEF Framed, At
  <1>15. ASSUME NEW a \in Asics PROVE Paired(a)'
    <2>1. Paired(a) /\ ramp[a] \in Ramps
      BY DEF IInv, Types
    <2>2. CASE a # pc.i
      <3>1. chip'[a].active = chip[a].active /\ ramp'[a] = ramp[a]
        BY <2>2, <1>4, <1>7
      <3>2. ~HalfDone(a) /\ ~HalfDone(a)'
        BY <2>2, <1>6 DEF HalfDone
      <3> QED BY <3>1, <3>2, <2>1, <1>1, <1>2, <1>6 DEF Paired
    <2>3. CASE a = pc.i /\ pc.n = 0
      <3>1. ~HalfDone(a) /\ HalfDone(a)'
        BY <2>3, <1>6 DEF HalfDone, At
      <3>2. chip[a].active = PairsDone(pc.pair)
        BY <3>1, <2>1, <2>3, <1>1, <1>2 DEF Paired
      <3>3. \E f \in Pair(pc'.pair) : chip'[a].active = PairsDone(pc'.pair) \cup {f}
        BY <3>2, <2>3, <1>4, <1>6
      <3>4. ramp'[a].prepared /\ next' = 5 /\ pc'.at = "commit"
        BY <2>3, <1>1, <1>2, <1>6, <1>7
      <3> QED BY <3>1, <3>3, <3>4 DEF Paired
    <2>4. CASE a = pc.i /\ pc.n # 0
      <3>1. HalfDone(a) /\ ~HalfDone(a)'
        BY <2>4, <1>1, <1>6 DEF HalfDone, At
      <3>2. chip[a].active # {} /\ ramp[a].prepared
        BY <3>1, <2>1, <1>2 DEF Paired
      <3>3. ramp'[a].prepared /\ chip'[a].active = PairsDone(ramp'[a].pair)
        BY <3>2, <2>4, <1>4, <1>7
      <3>4. next' = 5 /\ pc'.at \in {"commit", "close"}
        BY <2>4, <1>1, <1>2, <1>6
      <3> QED BY <3>1, <3>3, <3>4 DEF Paired
    <2> QED BY <2>2, <2>3, <2>4
  <1>16. ASSUME NEW a \in Asics PROVE Clocked(a)'
    <2>1. Clocked(a) /\ next' = 5 /\ pc'.at \in {"commit", "close"}
      BY <1>1, <1>2, <1>6 DEF IInv
    <2>2. chip'[a].pll = clock'[a]
      BY <2>1, <1>1, <1>2, <1>4 DEF Clocked
    <2> QED BY <2>1, <2>2, <1>6 DEF Clocked, Passed, At
  <1> QED BY <1>8, <1>9, <1>10, <1>11, <1>12, <1>13, <1>14, <1>15, <1>16 DEF IInv

LEMMA ActivationUnprovedKeeps ==
    ASSUME Parameters, IInv, ActivationUnproved
    PROVE  IInv'
  <1>1. PICK e \in PairEngines \ Prepared(pc.i) : FailClosedLeaving(Starting(e))
    BY Zenon DEF ActivationUnproved
  <1>2. SafeLeft(Starting(e))
    BY EngineStarts, Zenon DEF ActivationUnproved
  <1> QED BY <1>1, <1>2, FailsClosed

LEMMA CloseWindowKeeps ==
    ASSUME Parameters, IInv, CloseWindow
    PROVE  IInv'
  <1>1. /\ pc' \in Places /\ pc'.at = "acquire" /\ pc'.i = 1 /\ pc'.n = 0 /\ pc.at = "close"
        /\ pc'.pair = pc.pair /\ pc'.for = pc.for
    BY GoesTo DEF CloseWindow, At, IInv, Steps
  <1>2. UNCHANGED <<present, next, verified, reset, wire, ramp, clock>>
    BY DEF CloseWindow
  <1>3. next = 5 /\ pc.for = "ramp"
    BY <1>1 DEF IInv, Located, PlaceOf, At, Types, Places, Jobs
  <1>4. /\ chip' \in [Asics -> Chips]
        /\ \A a \in Asics :
              /\ chip'[a].id = chip[a].id /\ chip'[a].pll = chip[a].pll
              /\ chip'[a].reports = chip[a].reports /\ chip'[a].active = chip[a].active
              /\ chip'[a].tdm = chip[a].tdm \/ chip'[a].tdm = TRUE
    BY TdmBroadcast DEF CloseWindow, IInv
  <1>5. sample' \in [Asics -> Samples] /\ \A a \in Asics : ~sample'[a].fresh
    BY Stamped DEF CloseWindow, IInv
  <1>6. Types'
    BY <1>1, <1>2, <1>3, <1>4, <1>5 DEF IInv, Types
  <1>7. Located'
    BY <1>1, <1>2, <1>3, <1>4, <1>5 DEF IInv, Types, Located, PlaceOf, At
  <1>8. StacksBalanced'
    BY <1>1, <1>2, <1>3, <1>4, <1>5 DEF IInv, Types, StacksBalanced, Running
  <1>9. ASSUME NEW a \in Asics PROVE Identified(a)'
    BY <1>1, <1>2, <1>3, <1>4, <1>5 DEF IInv, Types, Identified, Passed, Asics, At
  <1>10. ASSUME NEW a \in Asics PROVE Silenced(a)'
    BY <1>1, <1>2, <1>3, <1>4, <1>5 DEF IInv, Types, Silenced, ToBeSilent, Silent, Passed,
        Asics, At
  <1>11. ASSUME NEW a \in Asics PROVE Heard(a)'
    <2>1. wire[a] = "none" /\ wire'[a] = "none"
      BY <1>1, <1>2 DEF IInv, Silenced, ToBeSilent, Silent
    <2>2. ~sample'[a].fresh
      BY <1>5
    <2>3. next' \in {3, 4, 5}
      BY <1>2, <1>3
    <2> QED BY <2>1, <2>2, <2>3, <1>1 DEF Heard, At
  <1>12. ASSUME NEW a \in Asics PROVE Framed(a)'
    BY <1>1, <1>2, <1>3, <1>4, <1>5 DEF IInv, Types, Framed, Heard, Passed, Asics, At
  <1>13. ASSUME NEW a \in Asics PROVE Paired(a)'
    BY <1>1, <1>2, <1>3, <1>4, <1>5 DEF IInv, Types, Paired, HalfDone, At
  <1>14. ASSUME NEW a \in Asics PROVE Clocked(a)'
    BY <1>1, <1>2, <1>3, <1>4, <1>5 DEF IInv, Types, Clocked, Passed, Asics, At
  <1> QED BY <1>6, <1>7, <1>8, <1>9, <1>10, <1>11, <1>12, <1>13, <1>14 DEF IInv

LEMMA AcceptBatchKeeps ==
    ASSUME Parameters, IInv, AcceptBatch
    PROVE  IInv'
  <1>1. /\ pc.at = "observe" /\ pc.for = "ramp" /\ SnapshotSafe
        /\ UNCHANGED <<present, next, verified, reset, chip, sample, wire, ramp, clock>>
    BY DEF AcceptBatch, Accepts, At, hardware
  <1>2. /\ pc' \in Places /\ pc'.at \in {"capture", "barrier"} /\ pc'.for = "ramp"
        /\ pc'.pair < PairCount
    <2>1. pc \in Places /\ pc.pair < PairCount /\ pc.pair \in Nat
      BY <1>1 DEF IInv, Types, Located, PlaceOf, Places
    <2>2. CASE pc.pair + 1 < PairCount
      <3>1. pc' = [pc EXCEPT !.at = "capture", !.i = 1, !.n = 0, !.pair = @ + 1]
        BY <2>2 DEF AcceptBatch
      <3>2. pc.pair + 1 \in Nat /\ "capture" \in Steps /\ 1 \in Asics /\ 0 \in Nat
        BY <2>1, ChainNotEmpty DEF Steps
      <3>3. pc' \in Places /\ pc'.at = "capture" /\ pc'.for = pc.for /\ pc'.pair = pc.pair + 1
        BY <3>1, <3>2, <2>1 DEF Places
      <3> QED BY <3>3, <2>2, <1>1
    <2>3. CASE ~(pc.pair + 1 < PairCount)
      <3>1. pc' = [pc EXCEPT !.at = "barrier", !.i = 1, !.n = 0]
        BY <2>3 DEF AcceptBatch
      <3> QED BY <3>1, <2>1, <1>1, ChainNotEmpty DEF Places, Steps
    <2> QED BY <2>2, <2>3
  <1>3. next = 5
    BY <1>1 DEF IInv, Located, PlaceOf, At, Types, Places, Jobs
  <1>4. Types'
    BY <1>1, <1>2, <1>3 DEF IInv, Types
  <1>5. Located'
    BY <1>1, <1>2, <1>3 DEF IInv, Types, Located, PlaceOf, At
  <1>6. StacksBalanced'
    BY <1>1, <1>2, <1>3 DEF IInv, Types, StacksBalanced, Running
  <1>7. ASSUME NEW a \in Asics PROVE Identified(a)'
    BY <1>1, <1>2, <1>3 DEF IInv, Types, Identified, Passed, Asics, At
  <1>8. ASSUME NEW a \in Asics PROVE Silenced(a)'
    BY <1>1, <1>2, <1>3 DEF IInv, Types, Silenced, ToBeSilent, Silent, Passed, Asics, At
  <1>9. ASSUME NEW a \in Asics PROVE Heard(a)'
    BY <1>1, <1>2, <1>3 DEF IInv, Types, Heard, Silenced, ToBeSilent, Silent, Passed, Asics,
        At, SnapshotSafe
  <1>10. ASSUME NEW a \in Asics PROVE Framed(a)'
    BY <1>1, <1>2, <1>3 DEF IInv, Types, Framed, Heard, Passed, Asics, At
  <1>11. ASSUME NEW a \in Asics PROVE Paired(a)'
    BY <1>1, <1>2, <1>3 DEF IInv, Types, Paired, HalfDone, At
  <1>12. ASSUME NEW a \in Asics PROVE Clocked(a)'
    BY <1>1, <1>2, <1>3 DEF IInv, Types, Clocked, Passed, Asics, At
  <1> QED BY <1>4, <1>5, <1>6, <1>7, <1>8, <1>9, <1>10, <1>11, <1>12 DEF IInv

LEMMA ActivationBarrierKeeps ==
    ASSUME Parameters, IInv, ActivationBarrier
    PROVE  IInv'
  <1>1. /\ pc.at = "barrier" /\ next' = 6 /\ verified' = verified \cup {"ramp"} /\ pc' = Idle
        /\ UNCHANGED <<present, reset, chip, sample, wire, ramp, clock>>
    BY DEF ActivationBarrier, At, hardware, evidence
  <1>2. /\ pc' \in Places /\ pc'.at = "idle" /\ pc'.i = 1 /\ pc'.n = 0 /\ pc'.for = "none"
    BY <1>1, ChainNotEmpty DEF Idle, Places, Steps, Jobs
  <1>3. next = 5 /\ pc.for = "ramp"
    BY <1>1 DEF IInv, Located, PlaceOf, At, Types, Places, Jobs
  <1>4. \A a \in Asics : ramp[a].pair = PairCount
    BY DEF ActivationBarrier, BarrierPassed
  <1>5. Types'
    BY <1>1, <1>2, <1>3, <1>4 DEF IInv, Types
  <1>6. Located'
    BY <1>1, <1>2, <1>3, <1>4 DEF IInv, Types, Located, PlaceOf, At
  <1>7. StacksBalanced'
    BY <1>1, <1>2, <1>3, <1>4 DEF IInv, Types, StacksBalanced, Running
  <1>8. ASSUME NEW a \in Asics PROVE Identified(a)'
    BY <1>1, <1>2, <1>3, <1>4 DEF IInv, Types, Identified, Passed, Asics, At
  <1>9. ASSUME NEW a \in Asics PROVE Silenced(a)'
    BY <1>1, <1>2, <1>3, <1>4 DEF IInv, Types, Silenced, ToBeSilent, Silent, Passed, Asics, At
  <1>10. ASSUME NEW a \in Asics PROVE Heard(a)'
    BY <1>1, <1>2, <1>3, <1>4 DEF IInv, Types, Heard, Silenced, ToBeSilent, Silent, Passed,
        Asics, At
  <1>11. ASSUME NEW a \in Asics PROVE Framed(a)'
    BY <1>1, <1>2, <1>3, <1>4 DEF IInv, Types, Framed, Heard, Passed, Asics, At
  <1>12. ASSUME NEW a \in Asics PROVE Paired(a)'
    BY <1>1, <1>2, <1>3, <1>4 DEF IInv, Types, Paired, HalfDone, At
  <1>13. ASSUME NEW a \in Asics PROVE Clocked(a)'
    BY <1>1, <1>2, <1>3, <1>4 DEF IInv, Types, Clocked, Passed, Asics, At
  <1> QED BY <1>5, <1>6, <1>7, <1>8, <1>9, <1>10, <1>11, <1>12, <1>13 DEF IInv

-----------------------------------------------------------------------------
(* BZM_staged_running and the settling of the parser *)

LEMMA StagedRunningKeeps ==
    ASSUME Parameters, IInv, StagedRunning
    PROVE  IInv'
  <1>1. /\ pc' \in Places /\ pc'.at = "report" /\ pc'.i = 1 /\ pc'.n = 0
        /\ pc'.for = "running" /\ pc'.pair = 0 /\ pc.at = "idle"
    BY ChainNotEmpty DEF StagedRunning, At, Idle, Places, Steps, Jobs
  <1>2. /\ next = 6 /\ TopologyIsExact
        /\ UNCHANGED <<present, next, verified, reset, chip, sample, wire, ramp, clock>>
    BY DEF StagedRunning, hardware, evidence
  <1>3. Types'
    BY <1>1, <1>2 DEF IInv, Types
  <1>4. Located'
    BY <1>1, <1>2 DEF IInv, Types, Located, PlaceOf, At
  <1>5. StacksBalanced'
    BY <1>1, <1>2 DEF IInv, Types, StacksBalanced, Running
  <1>6. ASSUME NEW a \in Asics PROVE Identified(a)'
    BY <1>1, <1>2 DEF IInv, Types, Identified, Passed, Asics, At
  <1>7. ASSUME NEW a \in Asics PROVE Silenced(a)'
    BY <1>1, <1>2 DEF IInv, Types, Silenced, ToBeSilent, Silent, Passed, Asics, At
  <1>8. ASSUME NEW a \in Asics PROVE Heard(a)'
    BY <1>1, <1>2 DEF IInv, Types, Heard, Silenced, ToBeSilent, Silent, Passed, Asics, At
  <1>9. ASSUME NEW a \in Asics PROVE Framed(a)'
    BY <1>1, <1>2 DEF IInv, Types, Framed, Heard, Passed, Asics, At
  <1>10. ASSUME NEW a \in Asics PROVE Paired(a)'
    BY <1>1, <1>2 DEF IInv, Types, Paired, HalfDone, At
  <1>11. ASSUME NEW a \in Asics PROVE Clocked(a)'
    BY <1>1, <1>2 DEF IInv, Types, Clocked, Passed, Asics, At
  <1> QED BY <1>3, <1>4, <1>5, <1>6, <1>7, <1>8, <1>9, <1>10, <1>11 DEF IInv

LEMMA EnableReportsKeeps ==
    ASSUME Parameters, IInv, EnableReports
    PROVE  IInv'
  <1>1. /\ pc' \in Places /\ pc.at = "report" /\ pc'.pair = pc.pair /\ pc'.for = pc.for
        /\ \/ pc.i < AsicCount /\ pc'.at = pc.at /\ pc'.i = pc.i + 1 /\ pc'.n = pc.n
           \/ pc.i = AsicCount /\ pc'.at = "enabled" /\ pc'.i = 1 /\ pc'.n = 0
        /\ pc.i \in Asics /\ AsicCount \in Nat
    BY GoesOn, ChainNotEmpty DEF EnableReports, At, IInv, Steps, Types, Places
  <1>2. UNCHANGED <<present, next, verified, reset, ramp, clock>>
    BY DEF EnableReports
  <1>3. next = 6 /\ pc.for = "running"
    BY <1>1 DEF IInv, Located, PlaceOf, At, Types, Places, Jobs
  <1>4. /\ chip' \in [Asics -> Chips] /\ chip'[pc.i].reports
        /\ \A a \in Asics : /\ chip'[a].id = chip[a].id /\ chip'[a].tdm = chip[a].tdm
                            /\ chip'[a].pll = chip[a].pll
                            /\ chip'[a].active = chip[a].active
                            /\ a # pc.i => chip'[a].reports = chip[a].reports
    <2> DEFINE c == [chip[pc.i] EXCEPT !.reports = TRUE]
    <2>1. chip[pc.i] \in Chips
      BY <1>1 DEF IInv, Types
    <2>2. /\ c \in Chips /\ c.reports /\ c.id = chip[pc.i].id /\ c.tdm = chip[pc.i].tdm
          /\ c.pll = chip[pc.i].pll /\ c.active = chip[pc.i].active
      BY <2>1 DEF Chips
    <2>3. WriteAndVerify(pc.i, c)
      BY DEF EnableReports
    <2> HIDE DEF c
    <2>4. /\ chip' \in [Asics -> Chips] /\ chip'[pc.i] = c
          /\ \A a \in Asics \ {pc.i} : chip'[a] = chip[a]
      BY <2>2, <2>3, <1>1, Written DEF IInv
    <2> QED BY <2>2, <2>4
  <1>5. /\ wire' \in [Asics -> Frames] /\ sample' \in [Asics -> Samples]
        /\ \A a \in Asics : MayBeRead(a)
    BY <1>1, ReadBehind DEF IInv, EnableReports
  <1>6. Types'
    BY <1>1, <1>2, <1>3, <1>4, <1>5 DEF IInv, Types
  <1>7. Located'
    BY <1>1, <1>2, <1>3, <1>4, <1>5 DEF IInv, Types, Located, PlaceOf, At
  <1>8. StacksBalanced'
    BY <1>1, <1>2, <1>3, <1>4, <1>5 DEF IInv, Types, StacksBalanced, Running
  <1>9. ASSUME NEW a \in Asics PROVE Identified(a)'
    BY <1>1, <1>2, <1>3, <1>4, <1>5 DEF IInv, Types, Identified, Passed, Asics, At
  <1>10. ASSUME NEW a \in Asics PROVE Silenced(a)'
    BY <1>1, <1>2, <1>3, <1>4, <1>5 DEF IInv, Types, Silenced, ToBeSilent, Silent, Passed,
        Asics, At, MayBeRead, ReadOf, Frames
  <1>11. ASSUME NEW a \in Asics PROVE Heard(a)'
    BY <1>1, <1>2, <1>3, <1>4, <1>5 DEF IInv, Types, Heard, Silenced, ToBeSilent, Silent,
        Passed, Asics, At, MayBeRead, ReadOf, Frames
  <1>12. ASSUME NEW a \in Asics PROVE Framed(a)'
    <2>1. Framed(a) /\ Heard(a) /\ a \in Nat /\ a <= AsicCount
      BY <1>1 DEF IInv, Asics
    <2>2. a < pc.i => chip[a].reports
      BY <2>1, <1>1, <1>3 DEF Framed, Passed, At
    <2>3. a <= pc.i => chip'[a].reports
      BY <2>1, <2>2, <1>1, <1>4 DEF Asics
    <2>4. ~(chip'[a].active # {} /\ chip'[a].reports) \/ chip'[a].tdm
      BY <2>1, <1>3, <1>4 DEF Heard
    <2> QED BY <2>1, <2>3, <2>4, <1>1, <1>2, <1>3 DEF Framed, Passed, At, Asics
  <1>13. ASSUME NEW a \in Asics PROVE Paired(a)'
    BY <1>1, <1>2, <1>3, <1>4, <1>5 DEF IInv, Types, Paired, HalfDone, At
  <1>14. ASSUME NEW a \in Asics PROVE Clocked(a)'
    BY <1>1, <1>2, <1>3, <1>4, <1>5 DEF IInv, Types, Clocked, Passed, Asics, At
  <1> QED BY <1>6, <1>7, <1>8, <1>9, <1>10, <1>11, <1>12, <1>13, <1>14 DEF IInv

LEMMA ReportsEnabledKeeps ==
    ASSUME Parameters, IInv, ReportsEnabled
    PROVE  IInv'
  <1>1. /\ pc' \in Places /\ pc'.at = "acquire" /\ pc'.i = 1 /\ pc'.n = 0 /\ pc.at = "enabled"
        /\ pc'.pair = pc.pair /\ pc'.for = pc.for
    BY GoesTo DEF ReportsEnabled, At, IInv, Steps
  <1>2. UNCHANGED <<present, next, verified, reset, chip, wire, ramp, clock>>
    BY DEF ReportsEnabled, hardware
  <1>3. next = 6 /\ pc.for = "running"
    BY <1>1 DEF IInv, Located, PlaceOf, At, Types, Places, Jobs
  <1>4. sample' \in [Asics -> Samples] /\ \A a \in Asics : ~sample'[a].fresh
    BY Stamped DEF ReportsEnabled, IInv
  <1>5. Types'
    BY <1>1, <1>2, <1>3, <1>4 DEF IInv, Types
  <1>6. Located'
    BY <1>1, <1>2, <1>3, <1>4 DEF IInv, Types, Located, PlaceOf, At
  <1>7. StacksBalanced'
    BY <1>1, <1>2, <1>3, <1>4 DEF IInv, Types, StacksBalanced, Running
  <1>8. ASSUME NEW a \in Asics PROVE Identified(a)'
    BY <1>1, <1>2, <1>3, <1>4 DEF IInv, Types, Identified, Passed, Asics, At
  <1>9. ASSUME NEW a \in Asics PROVE Silenced(a)'
    BY <1>1, <1>2, <1>3, <1>4 DEF IInv, Types, Silenced, ToBeSilent, Silent, Passed, Asics, At
  <1>10. ASSUME NEW a \in Asics PROVE Heard(a)'
    BY <1>1, <1>2, <1>3, <1>4 DEF IInv, Types, Heard, Silenced, ToBeSilent, Silent, Passed,
        Asics, At
  <1>11. ASSUME NEW a \in Asics PROVE Framed(a)'
    BY <1>1, <1>2, <1>3, <1>4 DEF IInv, Types, Framed, Heard, Passed, Asics, At
  <1>12. ASSUME NEW a \in Asics PROVE Paired(a)'
    BY <1>1, <1>2, <1>3, <1>4 DEF IInv, Types, Paired, HalfDone, At
  <1>13. ASSUME NEW a \in Asics PROVE Clocked(a)'
    BY <1>1, <1>2, <1>3, <1>4 DEF IInv, Types, Clocked, Passed, Asics, At
  <1> QED BY <1>5, <1>6, <1>7, <1>8, <1>9, <1>10, <1>11, <1>12, <1>13 DEF IInv

LEMMA AcceptRunningKeeps ==
    ASSUME Parameters, IInv, AcceptRunning
    PROVE  IInv'
  <1>1. /\ pc' \in Places /\ pc'.at = "settle" /\ pc'.i = 1 /\ pc'.n = 0 /\ pc.at = "observe"
        /\ pc'.pair = pc.pair /\ pc'.for = pc.for
    BY GoesTo DEF AcceptRunning, Accepts, At, IInv, Steps
  <1>2. /\ pc.for = "running" /\ verified' = verified \cup {"running"}
        /\ UNCHANGED <<present, next, reset, chip, sample, wire, ramp, clock>>
    BY DEF AcceptRunning, hardware, evidence
  <1>3. next = 6
    BY <1>1, <1>2 DEF IInv, Located, PlaceOf
  <1>4. Types'
    BY <1>1, <1>2, <1>3 DEF IInv, Types
  <1>5. Located'
    BY <1>1, <1>2, <1>3 DEF IInv, Types, Located, PlaceOf, At
  <1>6. StacksBalanced'
    BY <1>1, <1>2, <1>3 DEF IInv, Types, StacksBalanced, Running
  <1>7. ASSUME NEW a \in Asics PROVE Identified(a)'
    BY <1>1, <1>2, <1>3 DEF IInv, Types, Identified, Passed, Asics, At
  <1>8. ASSUME NEW a \in Asics PROVE Silenced(a)'
    BY <1>1, <1>2, <1>3 DEF IInv, Types, Silenced, ToBeSilent, Silent, Passed, Asics, At
  <1>9. ASSUME NEW a \in Asics PROVE Heard(a)'
    BY <1>1, <1>2, <1>3 DEF IInv, Types, Heard, Silenced, ToBeSilent, Silent, Passed, Asics, At
  <1>10. ASSUME NEW a \in Asics PROVE Framed(a)'
    BY <1>1, <1>2, <1>3 DEF IInv, Types, Framed, Heard, Passed, Asics, At
  <1>11. ASSUME NEW a \in Asics PROVE Paired(a)'
    BY <1>1, <1>2, <1>3 DEF IInv, Types, Paired, HalfDone, At
  <1>12. ASSUME NEW a \in Asics PROVE Clocked(a)'
    BY <1>1, <1>2, <1>3 DEF IInv, Types, Clocked, Passed, Asics, At
  <1> QED BY <1>4, <1>5, <1>6, <1>7, <1>8, <1>9, <1>10, <1>11, <1>12 DEF IInv

LEMMA SettleWindowKeeps ==
    ASSUME Parameters, IInv, SettleWindow
    PROVE  IInv'
  <1>1. /\ pc.at = "settle" /\ UNCHANGED <<present, reset, chip, ramp, clock>>
    BY DEF SettleWindow, At, hardware
  <1>2. \/ /\ pc' \in Places /\ pc'.at = "settle" /\ pc'.for = pc.for /\ pc'.pair = pc.pair
           /\ UNCHANGED <<next, verified>>
        \/ /\ pc' \in Places /\ pc'.at = "idle" /\ pc'.for = "none"
           /\ verified' = verified \cup {pc.for} /\ next' = IF pc.for = "sensors" THEN 4 ELSE 7
    <2> DEFINE clean == IF parser.discarded THEN 0 ELSE pc.clean + 1
    <2>1. IF clean < CleanWindows
          THEN pc' = [pc EXCEPT !.n = @ + 1, !.clean = clean]
               /\ UNCHANGED <<present, next, verified>>
          ELSE pc' = Idle /\ verified' = verified \cup {pc.for}
               /\ next' = IF pc.for = "sensors" THEN 4 ELSE 7
      BY DEF SettleWindow
    <2>2. pc \in Places /\ pc.n + 1 \in Nat /\ clean \in Nat
      BY DEF IInv, Types, Places
    <2> HIDE DEF clean
    <2>3. CASE clean < CleanWindows
      BY <2>1, <2>2, <2>3, <1>1 DEF Places
    <2>4. CASE ~(clean < CleanWindows)
      <3>1. Idle \in Places /\ Idle.at = "idle" /\ Idle.for = "none"
        BY ChainNotEmpty DEF Idle, Places, Steps, Jobs
      <3> QED BY <2>1, <2>4, <3>1
    <2> QED BY <2>3, <2>4
  <1>3. (next = 3 /\ pc.for = "sensors") \/ (next = 6 /\ pc.for = "running")
    BY <1>1 DEF IInv, Located, PlaceOf, At, Types, Places, Jobs
  <1>4. /\ wire' \in [Asics -> Frames] /\ sample' \in [Asics -> Samples]
        /\ \A a \in Asics : MayBeRead(a)
    BY SomeRead DEF SettleWindow, IInv
  <1>5. Types'
    BY <1>1, <1>2, <1>3, <1>4 DEF IInv, Types
  <1>6. Located'
    BY <1>1, <1>2, <1>3, <1>4 DEF IInv, Types, Located, PlaceOf, At
  <1>7. StacksBalanced'
    BY <1>1, <1>2, <1>3, <1>4 DEF IInv, Types, StacksBalanced, Running
  <1>8. ASSUME NEW a \in Asics PROVE Identified(a)'
    BY <1>1, <1>2, <1>3, <1>4 DEF IInv, Types, Identified, Passed, Asics, At
  <1>9. ASSUME NEW a \in Asics PROVE Silenced(a)'
    BY <1>1, <1>2, <1>3, <1>4 DEF IInv, Types, Silenced, ToBeSilent, Silent, Passed, Asics, At,
        MayBeRead, ReadOf, Frames
  <1>10. ASSUME NEW a \in Asics PROVE Heard(a)'
    BY <1>1, <1>2, <1>3, <1>4 DEF IInv, Types, Heard, Silenced, ToBeSilent, Silent, Passed,
        Asics, At, MayBeRead, ReadOf, Frames
  <1>11. ASSUME NEW a \in Asics PROVE Framed(a)'
    BY <1>1, <1>2, <1>3, <1>4 DEF IInv, Types, Framed, Heard, Passed, Asics, At, MayBeRead,
        ReadOf, Frames
  <1>12. ASSUME NEW a \in Asics PROVE Paired(a)'
    BY <1>1, <1>2, <1>3, <1>4 DEF IInv, Types, Paired, HalfDone, At
  <1>13. ASSUME NEW a \in Asics PROVE Clocked(a)'
    BY <1>1, <1>2, <1>3, <1>4 DEF IInv, Types, Clocked, Passed, Asics, At
  <1> QED BY <1>5, <1>6, <1>7, <1>8, <1>9, <1>10, <1>11, <1>12, <1>13 DEF IInv

-----------------------------------------------------------------------------
(* BZM_staged_frequency_domains_step_live *)

LEMMA LiveStepKeeps ==
    ASSUME Parameters, IInv, NEW target \in 1 .. TopClock, LiveStep(target)
    PROVE  IInv'
  <1>1. /\ pc.at = "idle" /\ next = 7
        /\ UNCHANGED <<present, next, verified, reset, chip, sample, wire, ramp, clock>>
    BY DEF LiveStep, At, hardware, evidence
  <1>2. /\ pc' \in Places /\ pc'.at \in {"live", "jump"} /\ pc'.i = 1 /\ pc'.for = "none"
    <2>1. target \in Nat
      BY DEF Parameters
    <2>2. PICK step \in {"live", "jump"} : pc' = [Idle EXCEPT !.at = step, !.pair = target]
      BY DEF LiveStep
    <2> QED BY <2>1, <2>2, ChainNotEmpty DEF Idle, Places, Steps, Jobs
  <1>3. Types'
    BY <1>1, <1>2 DEF IInv, Types
  <1>4. Located'
    BY <1>1, <1>2 DEF IInv, Types, Located, PlaceOf, At
  <1>5. StacksBalanced'
    BY <1>1, <1>2 DEF IInv, Types, StacksBalanced, Running
  <1>6. ASSUME NEW a \in Asics PROVE Identified(a)'
    BY <1>1, <1>2 DEF IInv, Types, Identified, Passed, Asics, At
  <1>7. ASSUME NEW a \in Asics PROVE Silenced(a)'
    BY <1>1, <1>2 DEF IInv, Types, Silenced, ToBeSilent, Silent, Passed, Asics, At
  <1>8. ASSUME NEW a \in Asics PROVE Heard(a)'
    BY <1>1, <1>2 DEF IInv, Types, Heard, Silenced, ToBeSilent, Silent, Passed, Asics, At
  <1>9. ASSUME NEW a \in Asics PROVE Framed(a)'
    BY <1>1, <1>2 DEF IInv, Types, Framed, Heard, Passed, Asics, At
  <1>10. ASSUME NEW a \in Asics PROVE Paired(a)'
    BY <1>1, <1>2 DEF IInv, Types, Paired, HalfDone, At
  <1>11. ASSUME NEW a \in Asics PROVE Clocked(a)'
    BY <1>1, <1>2 DEF IInv, Types, Clocked, Passed, Asics, At
  <1> QED BY <1>3, <1>4, <1>5, <1>6, <1>7, <1>8, <1>9, <1>10, <1>11 DEF IInv

LEMMA LiveDomainKeeps ==
    ASSUME Parameters, IInv, LiveDomain
    PROVE  IInv'
  <1>1. /\ pc.at = "live" /\ pc.i \in Asics /\ pc.pair \in Nat /\ AsicCount \in Nat
        /\ UNCHANGED <<present, next, verified, reset, wire, sample, ramp>>
    BY ChainNotEmpty DEF LiveDomain, At, evidence, IInv, Types, Places
  <1>2. next = 7 /\ pc.for = "none"
    BY <1>1 DEF IInv, Located, PlaceOf, At, Types, Places, Jobs
  <1>3. \/ /\ pc.i < AsicCount /\ pc' \in Places /\ pc'.at = "live" /\ pc'.i = pc.i + 1
           /\ pc'.for = "none" /\ pc'.pair = pc.pair
        \/ /\ pc.i = AsicCount /\ pc' \in Places /\ pc'.at = "idle" /\ pc'.for = "none"
    <2>1. pc \in Places /\ pc' = IF pc.i < AsicCount THEN [pc EXCEPT !.i = @ + 1] ELSE Idle
      BY DEF LiveDomain, IInv, Types
    <2>2. CASE pc.i < AsicCount
      <3>1. pc.i + 1 \in Asics
        BY <1>1, <2>2 DEF Asics
      <3> QED BY <3>1, <2>1, <2>2, <1>1, <1>2 DEF Places
    <2>3. CASE ~(pc.i < AsicCount)
      <3>1. pc.i = AsicCount
        BY <1>1, <2>3 DEF Asics
      <3> QED BY <3>1, <2>1, ChainNotEmpty DEF Idle, Places, Steps, Jobs
    <2> QED BY <2>2, <2>3
  <1>4. /\ chip' \in [Asics -> Chips] /\ chip'[pc.i].pll = pc.pair
        /\ \A a \in Asics : /\ chip'[a].id = chip[a].id /\ chip'[a].tdm = chip[a].tdm
                            /\ chip'[a].reports = chip[a].reports
                            /\ chip'[a].active = chip[a].active
                            /\ a # pc.i => chip'[a].pll = chip[a].pll
    <2>1. chip' = [chip EXCEPT ![pc.i].pll = pc.pair] /\ chip \in [Asics -> Chips]
      BY DEF LiveDomain, Tuned, IInv, Types
    <2>2. chip[pc.i] \in Chips /\ pc.pair \in Int
      BY <1>1 DEF IInv, Types
    <2> QED BY <2>1, <2>2, <1>1 DEF Chips
  <1>5. clock' \in [Asics -> Int] /\ clock'[pc.i] = pc.pair
        /\ \A a \in Asics \ {pc.i} : clock'[a] = clock[a]
    BY <1>1 DEF LiveDomain, IInv, Types
  <1>6. Types'
    BY <1>1, <1>2, <1>3, <1>4, <1>5 DEF IInv, Types
  <1>7. Located'
    BY <1>1, <1>2, <1>3, <1>4, <1>5 DEF IInv, Types, Located, PlaceOf, At
  <1>8. StacksBalanced'
    BY <1>1, <1>2, <1>3, <1>4, <1>5 DEF IInv, Types, StacksBalanced, Running
  <1>9. ASSUME NEW a \in Asics PROVE Identified(a)'
    BY <1>1, <1>2, <1>3, <1>4, <1>5 DEF IInv, Types, Identified, Passed, Asics, At
  <1>10. ASSUME NEW a \in Asics PROVE Silenced(a)'
    BY <1>1, <1>2, <1>3, <1>4, <1>5, SMTT(40) DEF IInv, Types, Silenced, ToBeSilent, Silent, Passed,
        Asics, At
  <1>11. ASSUME NEW a \in Asics PROVE Heard(a)'
    BY <1>1, <1>2, <1>3, <1>4, <1>5 DEF IInv, Types, Heard, Silenced, ToBeSilent, Silent,
        Passed, Asics, At
  <1>12. ASSUME NEW a \in Asics PROVE Framed(a)'
    BY <1>1, <1>2, <1>3, <1>4, <1>5 DEF IInv, Types, Framed, Heard, Passed, Asics, At
  <1>13. ASSUME NEW a \in Asics PROVE Paired(a)'
    BY <1>1, <1>2, <1>3, <1>4, <1>5 DEF IInv, Types, Paired, HalfDone, At
  <1>14. ASSUME NEW a \in Asics PROVE Clocked(a)'
    <2>1. Clocked(a) /\ a \in Nat /\ a <= AsicCount
      BY <1>1 DEF IInv, Asics
    <2>2. a < pc.i => chip[a].pll = pc.pair /\ clock[a] = pc.pair
      BY <2>1, <1>1 DEF Clocked, Passed, At
    <2>3. a <= pc.i => chip'[a].pll = pc.pair /\ clock'[a] = pc.pair
      BY <2>1, <2>2, <1>1, <1>4, <1>5 DEF Asics
    <2> QED BY <2>1, <2>3, <1>1, <1>2, <1>3 DEF Clocked, Passed, At, Asics
  <1> QED BY <1>6, <1>7, <1>8, <1>9, <1>10, <1>11, <1>12, <1>13, <1>14 DEF IInv

LEMMA LiveBroadcastKeeps ==
    ASSUME Parameters, IInv, LiveBroadcast
    PROVE  IInv'
  <1>1. /\ pc.at = "jump" /\ pc.i \in Asics /\ pc.pair \in Nat
        /\ UNCHANGED <<present, next, verified, reset, wire, sample, ramp, clock>>
    BY DEF LiveBroadcast, At, evidence, IInv, Types, Places
  <1>2. next = 7 /\ pc.for = "none"
    BY <1>1 DEF IInv, Located, PlaceOf, At, Types, Places, Jobs
  <1>3. /\ pc' \in Places /\ pc'.at = "jumped" /\ pc'.for = "none"
        /\ pc'.i = pc.i /\ pc'.pair = pc.pair
    <2>1. pc \in Places /\ pc' = [pc EXCEPT !.at = "jumped"] /\ "jumped" \in Steps
      BY DEF LiveBroadcast, IInv, Types, Steps
    <2> QED BY <2>1, <1>2 DEF Places
  <1>4. /\ chip' \in [Asics -> Chips]
        /\ \A a \in Asics : /\ chip'[a].id = chip[a].id /\ chip'[a].tdm = chip[a].tdm
                            /\ chip'[a].reports = chip[a].reports
                            /\ chip'[a].active = chip[a].active
    <2>1. PICK reached \in SUBSET Asics :
             chip' = [a \in Asics |-> IF a \in reached THEN Tuned(a)[a] ELSE chip[a]]
      BY Zenon DEF LiveBroadcast
    <2>2. ASSUME NEW a \in Asics
          PROVE  /\ Tuned(a)[a] \in Chips /\ chip[a] \in Chips
                 /\ Tuned(a)[a].id = chip[a].id /\ Tuned(a)[a].tdm = chip[a].tdm
                 /\ Tuned(a)[a].reports = chip[a].reports /\ Tuned(a)[a].active = chip[a].active
      <3>1. chip \in [Asics -> Chips] /\ chip[a] \in Chips /\ pc.pair \in Int
        BY <1>1 DEF IInv, Types
      <3>2. Tuned(a)[a] = [chip[a] EXCEPT !.pll = pc.pair]
        BY <3>1 DEF Tuned
      <3> QED BY <3>1, <3>2 DEF Chips
    <2> QED BY <2>1, <2>2
  <1>5. Types'
    BY <1>1, <1>2, <1>3, <1>4 DEF IInv, Types
  <1>6. Located'
    BY <1>1, <1>2, <1>3, <1>4 DEF IInv, Types, Located, PlaceOf, At
  <1>7. StacksBalanced'
    BY <1>1, <1>2, <1>3, <1>4 DEF IInv, Types, StacksBalanced, Running
  <1>8. ASSUME NEW a \in Asics PROVE Identified(a)'
    BY <1>1, <1>2, <1>3, <1>4 DEF IInv, Types, Identified, Passed, Asics, At
  <1>9. ASSUME NEW a \in Asics PROVE Silenced(a)'
    BY <1>1, <1>2, <1>3, <1>4 DEF IInv, Types, Silenced, ToBeSilent, Silent, Passed, Asics, At
  <1>10. ASSUME NEW a \in Asics PROVE Heard(a)'
    BY <1>1, <1>2, <1>3, <1>4 DEF IInv, Types, Heard, Silenced, ToBeSilent, Silent, Passed,
        Asics, At
  <1>11. ASSUME NEW a \in Asics PROVE Framed(a)'
    BY <1>1, <1>2, <1>3, <1>4 DEF IInv, Types, Framed, Heard, Passed, Asics, At
  <1>12. ASSUME NEW a \in Asics PROVE Paired(a)'
    BY <1>1, <1>2, <1>3, <1>4 DEF IInv, Types, Paired, HalfDone, At
  <1>13. ASSUME NEW a \in Asics PROVE Clocked(a)'
    <2>1. Clocked(a) /\ a \in Nat
      BY DEF IInv, Asics
    <2>2. pc.i = 1
      BY <1>1 DEF IInv, Located, At
    <2> QED BY <2>1, <2>2, <1>1, <1>2, <1>3 DEF Clocked, Passed, At, Asics
  <1> QED BY <1>5, <1>6, <1>7, <1>8, <1>9, <1>10, <1>11, <1>12, <1>13 DEF IInv

LEMMA LiveVerifyKeeps ==
    ASSUME Parameters, IInv, LiveVerify
    PROVE  IInv'
  <1>1. /\ pc.at = "jumped" /\ pc.i \in Asics /\ pc.pair \in Nat /\ AsicCount \in Nat
        /\ chip[pc.i].pll = pc.pair
        /\ UNCHANGED <<present, next, verified, reset, chip, wire, sample, ramp>>
    BY ChainNotEmpty DEF LiveVerify, At, hardware, evidence, IInv, Types, Places
  <1>2. next = 7 /\ pc.for = "none"
    BY <1>1 DEF IInv, Located, PlaceOf, At, Types, Places, Jobs
  <1>3. \/ /\ pc.i < AsicCount /\ pc' \in Places /\ pc'.at = "jumped" /\ pc'.i = pc.i + 1
           /\ pc'.for = "none" /\ pc'.pair = pc.pair /\ clock' = clock
        \/ /\ pc.i = AsicCount /\ pc' \in Places /\ pc'.at = "idle" /\ pc'.for = "none"
           /\ clock' \in [Asics -> Int] /\ \A a \in Asics : clock'[a] = pc.pair
    <2>1. CASE pc.i < AsicCount
      <3>1. pc' = [pc EXCEPT !.i = @ + 1] /\ UNCHANGED clock /\ pc \in Places
        BY <2>1 DEF LiveVerify, IInv, Types
      <3>2. pc.i + 1 \in Asics
        BY <1>1, <2>1 DEF Asics
      <3> QED BY <3>1, <3>2, <2>1, <1>1, <1>2 DEF Places
    <2>2. CASE ~(pc.i < AsicCount)
      <3>1. pc' = Idle /\ clock' = [a \in Asics |-> pc.pair]
        BY <2>2 DEF LiveVerify
      <3>2. pc.i = AsicCount
        BY <1>1, <2>2 DEF Asics
      <3>3. Idle \in Places /\ Idle.at = "idle" /\ Idle.for = "none"
        BY ChainNotEmpty DEF Idle, Places, Steps, Jobs
      <3> QED BY <3>1, <3>2, <3>3, <1>1
    <2> QED BY <2>1, <2>2
  <1>4. Types'
    BY <1>1, <1>2, <1>3 DEF IInv, Types
  <1>5. Located'
    BY <1>1, <1>2, <1>3 DEF IInv, Types, Located, PlaceOf, At
  <1>6. StacksBalanced'
    BY <1>1, <1>2, <1>3 DEF IInv, Types, StacksBalanced, Running
  <1>7. ASSUME NEW a \in Asics PROVE Identified(a)'
    BY <1>1, <1>2, <1>3 DEF IInv, Types, Identified, Passed, Asics, At
  <1>8. ASSUME NEW a \in Asics PROVE Silenced(a)'
    BY <1>1, <1>2, <1>3 DEF IInv, Types, Silenced, ToBeSilent, Silent, Passed, Asics, At
  <1>9. ASSUME NEW a \in Asics PROVE Heard(a)'
    BY <1>1, <1>2, <1>3 DEF IInv, Types, Heard, Silenced, ToBeSilent, Silent, Passed, Asics, At
  <1>10. ASSUME NEW a \in Asics PROVE Framed(a)'
    BY <1>1, <1>2, <1>3 DEF IInv, Types, Framed, Heard, Passed, Asics, At
  <1>11. ASSUME NEW a \in Asics PROVE Paired(a)'
    BY <1>1, <1>2, <1>3 DEF IInv, Types, Paired, HalfDone, At
  <1>12. ASSUME NEW a \in Asics PROVE Clocked(a)'
    <2>1. Clocked(a) /\ a \in Nat /\ a <= AsicCount
      BY <1>1 DEF IInv, Asics
    <2>2. a < pc.i => chip[a].pll = pc.pair
      BY <2>1, <1>1 DEF Clocked, Passed, At
    <2>3. a <= pc.i => chip'[a].pll = pc.pair
      BY <2>1, <2>2, <1>1 DEF Asics
    <2> QED BY <2>1, <2>3, <1>1, <1>2, <1>3 DEF Clocked, Passed, At, Asics
  <1> QED BY <1>4, <1>5, <1>6, <1>7, <1>8, <1>9, <1>10, <1>11, <1>12 DEF IInv

LEMMA LiveTransientKeeps ==
    ASSUME Parameters, IInv, LiveTransient
    PROVE  IInv'
  <1>1. /\ pc.at \in {"live", "jump", "jumped"} /\ pc.i \in Asics /\ pc.pair \in Nat
        /\ UNCHANGED <<present, next, verified, reset, wire, sample, ramp, clock>>
    BY DEF LiveTransient, evidence, IInv, Types, Places
  <1>2. next = 7 /\ pc.for = "none"
    BY <1>1 DEF IInv, Located, PlaceOf, At, Types, Places, Jobs
  <1>3. /\ pc' \in Places /\ pc'.at \in {"live", "jump", "lost"} /\ pc'.for = "none" /\ pc'.i = 1
    <2>1. CASE pc.n + 1 < LiveAttempts
      <3> DEFINE step == IF At("jumped") THEN "jump" ELSE pc.at
      <3>1. pc' = [pc EXCEPT !.at = step, !.i = 1, !.n = @ + 1] /\ pc \in Places
        BY <2>1 DEF LiveTransient, IInv, Types, Places
      <3>2. step \in {"live", "jump"} /\ step \in Steps /\ 1 \in Asics /\ pc.n + 1 \in Nat
        BY <1>1, <3>1, ChainNotEmpty DEF At, Places, Steps
      <3> HIDE DEF step
      <3> QED BY <3>1, <3>2, <1>2 DEF Places
    <2>2. CASE ~(pc.n + 1 < LiveAttempts)
      <3>1. pc' = [Idle EXCEPT !.at = "lost"]
        BY <2>2 DEF LiveTransient
      <3> QED BY <3>1, ChainNotEmpty DEF Idle, Places, Steps, Jobs
    <2> QED BY <2>1, <2>2
  <1>4. /\ chip' \in [Asics -> Chips]
        /\ \A a \in Asics : /\ chip'[a].id = chip[a].id /\ chip'[a].tdm = chip[a].tdm
                            /\ chip'[a].reports = chip[a].reports
                            /\ chip'[a].active = chip[a].active
    <2>1. chip' = chip \/ chip' = [chip EXCEPT ![pc.i].pll = pc.pair]
      BY DEF LiveTransient, Tuned
    <2>2. chip \in [Asics -> Chips] /\ chip[pc.i] \in Chips /\ pc.pair \in Int
      BY <1>1 DEF IInv, Types
    <2> QED BY <2>1, <2>2, <1>1 DEF Chips
  <1>5. Types'
    BY <1>1, <1>2, <1>3, <1>4 DEF IInv, Types
  <1>6. Located'
    BY <1>1, <1>2, <1>3, <1>4 DEF IInv, Types, Located, PlaceOf, At
  <1>7. StacksBalanced'
    BY <1>1, <1>2, <1>3, <1>4 DEF IInv, Types, StacksBalanced, Running
  <1>8. ASSUME NEW a \in Asics PROVE Identified(a)'
    BY <1>1, <1>2, <1>3, <1>4 DEF IInv, Types, Identified, Passed, Asics, At
  <1>9. ASSUME NEW a \in Asics PROVE Silenced(a)'
    BY <1>1, <1>2, <1>3, <1>4 DEF IInv, Types, Silenced, ToBeSilent, Silent, Passed, Asics, At
  <1>10. ASSUME NEW a \in Asics PROVE Heard(a)'
    BY <1>1, <1>2, <1>3, <1>4 DEF IInv, Types, Heard, Silenced, ToBeSilent, Silent, Passed,
        Asics, At
  <1>11. ASSUME NEW a \in Asics PROVE Framed(a)'
    BY <1>1, <1>2, <1>3, <1>4 DEF IInv, Types, Framed, Heard, Passed, Asics, At
  <1>12. ASSUME NEW a \in Asics PROVE Paired(a)'
    BY <1>1, <1>2, <1>3, <1>4 DEF IInv, Types, Paired, HalfDone, At
  <1>13. ASSUME NEW a \in Asics PROVE Clocked(a)'
    BY <1>1, <1>2, <1>3, <1>4 DEF IInv, Types, Clocked, Passed, Asics, At
  <1> QED BY <1>5, <1>6, <1>7, <1>8, <1>9, <1>10, <1>11, <1>12, <1>13 DEF IInv

-----------------------------------------------------------------------------
(* Failures and the world around *)

LEMMA StageFailsKeeps ==
    ASSUME Parameters, IInv, StageFails
    PROVE  IInv'
  <1>1. SafeLeft(chip)
    BY BalanceOf DEF IInv, Types, Framed, SafeLeft
  <1>2. FailClosedLeaving(chip)
    BY DEF StageFails
  <1> QED BY <1>1, <1>2, FailsClosed

LEMMA BystandersKeeps ==
    ASSUME Parameters, IInv,
           UNCHANGED <<present, next, pc, verified, reset, chip, sample, wire, ramp, clock>>
    PROVE  IInv'
  <1>1. pc' \in Places
    BY DEF IInv, Types, Places
  <1>2. Types'
    BY <1>1 DEF IInv, Types
  <1>3. Located'
    BY <1>1 DEF IInv, Types, Located, PlaceOf, At
  <1>4. StacksBalanced'
    BY <1>1 DEF IInv, Types, StacksBalanced, Running
  <1>5. ASSUME NEW a \in Asics PROVE Identified(a)'
    BY <1>1 DEF IInv, Types, Identified, Passed, Asics, At
  <1>6. ASSUME NEW a \in Asics PROVE Silenced(a)'
    BY <1>1 DEF IInv, Types, Silenced, ToBeSilent, Silent, Passed, Asics, At
  <1>7. ASSUME NEW a \in Asics PROVE Heard(a)'
    BY <1>1 DEF IInv, Types, Heard, Silenced, ToBeSilent, Silent, Passed, Asics, At
  <1>8. ASSUME NEW a \in Asics PROVE Framed(a)'
    BY <1>1 DEF IInv, Types, Framed, Heard, Passed, Asics, At
  <1>9. ASSUME NEW a \in Asics PROVE Paired(a)'
    BY <1>1 DEF IInv, Types, Paired, HalfDone, At
  <1>10. ASSUME NEW a \in Asics PROVE Clocked(a)'
    BY <1>1 DEF IInv, Types, Clocked, Passed, Asics, At
  <1> QED BY <1>2, <1>3, <1>4, <1>5, <1>6, <1>7, <1>8, <1>9, <1>10 DEF IInv

LEMMA SenseKeeps ==
    ASSUME Parameters, IInv, NEW s \in Asics, Sense(s)
    PROVE  IInv'
  <1>1. /\ chip[s].tdm /\ wire[s] = "none" /\ wire' = [wire EXCEPT ![s] = "current"]
        /\ UNCHANGED <<present, next, pc, verified, reset, chip, sample, ramp, clock>>
    BY DEF Sense, hardware
  <1>2. /\ wire' \in [Asics -> Frames] /\ wire'[s] = "current"
        /\ \A a \in Asics \ {s} : wire'[a] = wire[a]
    BY <1>1 DEF IInv, Types, Frames
  <1>3. Types'
    BY <1>1, <1>2 DEF IInv, Types
  <1>4. Located'
    BY <1>1, <1>2 DEF IInv, Types, Located, PlaceOf, At
  <1>5. StacksBalanced'
    BY <1>1, <1>2 DEF IInv, Types, StacksBalanced, Running
  <1>6. ASSUME NEW a \in Asics PROVE Identified(a)'
    BY <1>1, <1>2 DEF IInv, Types, Identified, Passed, Asics, At
  <1>7. ASSUME NEW a \in Asics PROVE Silenced(a)'
    BY <1>1, <1>2 DEF IInv, Types, Silenced, ToBeSilent, Silent, Passed, Asics, At
  <1>8. ASSUME NEW a \in Asics PROVE Heard(a)'
    BY <1>1, <1>2 DEF IInv, Types, Heard, Silenced, ToBeSilent, Silent, Passed, Asics, At
  <1>9. ASSUME NEW a \in Asics PROVE Framed(a)'
    BY <1>1, <1>2 DEF IInv, Types, Framed, Heard, Passed, Asics, At
  <1>10. ASSUME NEW a \in Asics PROVE Paired(a)'
    BY <1>1, <1>2 DEF IInv, Types, Paired, HalfDone, At
  <1>11. ASSUME NEW a \in Asics PROVE Clocked(a)'
    BY <1>1, <1>2 DEF IInv, Types, Clocked, Passed, Asics, At
  <1> QED BY <1>3, <1>4, <1>5, <1>6, <1>7, <1>8, <1>9, <1>10, <1>11 DEF IInv

-----------------------------------------------------------------------------
(* The theorems *)

LEMMA InitHolds ==
    ASSUME Parameters, Init
    PROVE  IInv
  <1>1. /\ pc = Idle /\ next = 1 /\ verified = {} /\ reset = TRUE /\ present \in Int
        /\ chip = [a \in Asics |-> PowerOn] /\ sample = [a \in Asics |-> NoSample]
        /\ wire = [a \in Asics |-> "none"] /\ ramp = NoRamp /\ clock = [a \in Asics |-> 1]
    BY DEF Init, Parameters
  <1>2. pc \in Places /\ pc.at = "idle" /\ pc.for = "none"
    BY <1>1, ChainNotEmpty DEF Idle, Places, Steps, Jobs
  <1>3. Types
    <2>1. chip \in [Asics -> Chips]
      BY <1>1, PoweredOn
    <2>2. sample \in [Asics -> Samples] /\ wire \in [Asics -> Frames]
      BY <1>1 DEF Samples, NoSample, Frames
    <2>3. ramp \in [Asics -> Ramps] /\ clock \in [Asics -> Int]
      BY <1>1 DEF Ramps, NoRamp
    <2> QED BY <1>1, <1>2, <2>1, <2>2, <2>3 DEF Types
  <1>4. Located
    BY <1>1, <1>2 DEF Located, PlaceOf, At
  <1>5. \A a \in Asics : chip[a].active = {}
    BY <1>1, PoweredOn
  <1>6. StacksBalanced
    <2>1. On({}, "bottom") - On({}, "top") \in -1 .. 1
      BY PoweredOn
    <2>2. ASSUME NEW a \in Asics
          PROVE  On(chip[a].active, "bottom") - On(chip[a].active, "top") \in -1 .. 1
      <3>1. chip[a].active = {}
        BY <1>5
      <3> QED BY <2>1, <3>1
    <2> QED BY <2>2, BalanceOf
  <1>7. ASSUME NEW a \in Asics
        PROVE  Identified(a) /\ Silenced(a) /\ Heard(a) /\ Framed(a) /\ Paired(a) /\ Clocked(a)
    <2>1. Identified(a) /\ Silenced(a) /\ Heard(a)
      BY <1>1, <1>2 DEF Identified, Silenced, ToBeSilent, Heard, Passed, At
    <2>2. Framed(a) /\ Paired(a) /\ Clocked(a)
      BY <1>1, <1>2, <1>5 DEF Framed, Paired, Clocked, Passed, At
    <2> QED BY <2>1, <2>2
  <1> QED BY <1>3, <1>4, <1>6, <1>7 DEF IInv

LEMMA StepKeeps ==
    ASSUME Parameters, IInv, [Next]_vars
    PROVE  IInv'
  <1>1. CASE StagedInitialize
    BY <1>1, StagedInitializeKeeps
  <1>2. CASE StagedChain4
    BY <1>2, StagedChain4Keeps
  <1>3. CASE AssignId
    BY <1>3, AssignIdKeeps
  <1>4. CASE StagedSensors
    BY <1>4, StagedSensorsKeeps
  <1>5. CASE ProgramSensors
    BY <1>5, ProgramSensorsKeeps
  <1>6. CASE StartTdm
    BY <1>6, StartTdmKeeps
  <1>7. CASE Acquire
    BY <1>7, AcquireKeeps
  <1>8. CASE Recheck
    BY <1>8, RecheckKeeps
  <1>9. CASE AcceptSensors
    BY <1>9, AcceptSensorsKeeps
  <1>10. CASE StagedClocks
    BY <1>10, StagedClocksKeeps
  <1>11. CASE QuietReadBack
    BY <1>11, QuietReadBackKeeps
  <1>12. CASE ProgramPll
    BY <1>12, ProgramPllKeeps
  <1>13. CASE AcceptClocks
    BY <1>13, AcceptClocksKeeps
  <1>14. CASE StagedBalancedRamp
    BY <1>14, StagedBalancedRampKeeps
  <1>15. CASE MuteReports
    BY <1>15, MuteReportsKeeps
  <1>16. CASE WaitTdmIdle
    BY <1>16, WaitTdmIdleKeeps
  <1>17. CASE CaptureBatchTelemetry
    BY <1>17, CaptureBatchTelemetryKeeps
  <1>18. CASE PauseTdm
    BY <1>18, PauseTdmKeeps
  <1>19. CASE OpenWindow
    BY <1>19, OpenWindowKeeps
  <1>20. CASE ActivateEngine
    BY <1>20, ActivateEngineKeeps
  <1>21. CASE ActivationUnproved
    BY <1>21, ActivationUnprovedKeeps
  <1>22. CASE CloseWindow
    BY <1>22, CloseWindowKeeps
  <1>23. CASE AcceptBatch
    BY <1>23, AcceptBatchKeeps
  <1>24. CASE ActivationBarrier
    BY <1>24, ActivationBarrierKeeps
  <1>25. CASE StagedRunning
    BY <1>25, StagedRunningKeeps
  <1>26. CASE EnableReports
    BY <1>26, EnableReportsKeeps
  <1>27. CASE ReportsEnabled
    BY <1>27, ReportsEnabledKeeps
  <1>28. CASE AcceptRunning
    BY <1>28, AcceptRunningKeeps
  <1>29. CASE SettleWindow
    BY <1>29, SettleWindowKeeps
  <1>30. CASE LiveDomain
    BY <1>30, LiveDomainKeeps
  <1>31. CASE LiveBroadcast
    BY <1>31, LiveBroadcastKeeps
  <1>32. CASE LiveVerify
    BY <1>32, LiveVerifyKeeps
  <1>33. CASE LiveTransient
    BY <1>33, LiveTransientKeeps
  <1>34. CASE StageFails
    BY <1>34, StageFailsKeeps
  <1>35. CASE \E target \in 1 .. TopClock : LiveStep(target)
    BY <1>35, LiveStepKeeps
  <1>36. CASE \E a \in Asics : Sense(a)
    BY <1>36, SenseKeeps
  <1>37. CASE Withdraw \/ Grant \/ Noise \/ UNCHANGED vars
    <2>1. UNCHANGED <<present, next, pc, verified, reset, chip, sample, wire, ramp, clock>>
      BY <1>37 DEF Withdraw, Grant, Noise, vars, hardware, evidence
    <2> QED BY <2>1, BystandersKeeps
  <1> QED BY <1>1, <1>2, <1>3, <1>4, <1>5, <1>6, <1>7, <1>8, <1>9, <1>10, <1>11, <1>12, <1>13,
      <1>14, <1>15, <1>16, <1>17, <1>18, <1>19, <1>20, <1>21, <1>22, <1>23, <1>24, <1>25,
      <1>26, <1>27, <1>28, <1>29, <1>30, <1>31, <1>32, <1>33, <1>34, <1>35, <1>36, <1>37 DEF
      Next

\* The inductive invariant holds throughout: where a stage is, what the flags say of
\* the chain, who may speak, which engines run, and the clocks believed in
\* (bzm_bringup.c, bzm_balanced_ramp.c and the staged operations of bzm_driver.c).
THEOREM Invariant == Spec => []IInv
<1>1. Init => IInv
  BY InitHolds, BringUpAssumption
<1>2. IInv /\ [Next]_vars => IInv'
  BY StepKeeps, BringUpAssumption
<1> QED
  BY <1>1, <1>2, PTL DEF Spec

\* BringUp!FramedReports (quiesce_asic, staged_ramp_set_tdm): whatever fails, even a
\* failure whose reset never reached the chain, no engine works with its result
\* reports on and its transmitter off.
THEOREM ReportsFramed == Spec => []FramedReports
<1>1. IInv => FramedReports
  BY DEF IInv, Framed, FramedReports
<1> QED
  BY <1>1, Invariant, PTL

\* BringUp!StacksBalanced (bzm_balanced_ramp_run): the two stacks of an ASIC never
\* differ by more than one running engine, wherever in a pair a ramp stops.
THEOREM RampBalanced == Spec => []StacksBalanced
<1>1. IInv => StacksBalanced
  BY DEF IInv
<1> QED
  BY <1>1, Invariant, PTL

\* BringUp!RunningMatchesHardware (BZM_staged_running, the live clock step): a chain
\* taken for running is out of reset, complete and identified, sends framed
\* telemetry and reports, runs every engine of the grid, and its dividers hold the
\* clock the driver believes in.
THEOREM RunningIsReal == Spec => []RunningMatchesHardware
<1>1. ASSUME Parameters, IInv PROVE RunningMatchesHardware
  <2> SUFFICES ASSUME At("idle"), "running" \in verified
               PROVE  /\ ~reset /\ present = AsicCount
                      /\ \A a \in Asics :
                            /\ chip[a].id /\ chip[a].tdm /\ chip[a].reports
                            /\ chip[a].active = Engines /\ chip[a].pll = clock[a]
    BY DEF RunningMatchesHardware
  <2>1. next = 7 /\ TopologyIsExact
    BY <1>1 DEF IInv, Located, At
  <2>2. ASSUME NEW a \in Asics
        PROVE  /\ ~reset /\ present = AsicCount
               /\ chip[a].id /\ chip[a].tdm /\ chip[a].reports
               /\ chip[a].active = Engines /\ chip[a].pll = clock[a]
    <3>1. ~reset /\ present = AsicCount /\ chip[a].id
      BY <1>1, <2>1 DEF IInv, Identified
    <3>2. chip[a].tdm /\ chip[a].reports
      BY <1>1, <2>1 DEF IInv, Heard, Framed
    <3>3. chip[a].active = Engines
      <4>1. Paired(a) /\ ~HalfDone(a)
        BY <1>1 DEF IInv, HalfDone, At
      <4>2. chip[a].active = PairsDone(PairCount)
        BY <4>1, <2>1 DEF Paired
      <4> QED BY <4>2, <2>1, <1>1, PairsBegin
    <3>4. chip[a].pll = clock[a]
      BY <1>1, <2>1 DEF IInv, Clocked
    <3> QED BY <3>1, <3>2, <3>3, <3>4
  <2> QED BY <2>2, <1>1, ChainNotEmpty
<1>2. IInv => RunningMatchesHardware
  BY <1>1, BringUpAssumption
<1> QED
  BY <1>2, Invariant, PTL

\* BringUp!BringUpVerified: the three together, which is what the run checks.
THEOREM BringUpIsVerified == Spec => []BringUpVerified
<1> QED
  BY ReportsFramed, RampBalanced, RunningIsReal, PTL DEF BringUpVerified

\* BringUp!EvidenceIsCurrent (verify_telemetry, bzm_telemetry_confirmation_observe):
\* what a stage or a batch of engines is accepted on was measured after the last
\* change of the chain, although the code compares times of reading.
THEOREM AcceptanceIsCurrent == Spec => EvidenceIsCurrent
<1>1. IInv /\ [Next]_vars => [AcceptsCurrent]_vars
  <2>1. IInv /\ Accepts => \A a \in Asics : sample[a].current
    BY DEF IInv, Heard, Accepts, SnapshotSafe, At
  <2> QED BY <2>1 DEF AcceptsCurrent
<1> QED
  BY <1>1, Invariant, PTL DEF Spec, EvidenceIsCurrent

=============================================================================
