---------------------------- MODULE OutageProofs ----------------------------
(* Theorem of Outage: however long a reading is kept or held, and whoever reads, *)
(* holds or records it meanwhile, no run starts on stand-ins once the pool has   *)
(* been up for as long as a hold lasts.                                          *)
EXTENDS Outage, TLAPS

RunAt == {"new", "asks", "answered", "refused", "primary", "standin"}
DaemonAt == {"idle", "asks", "answered", "refused", "judged", "tell", "book", "close"}
Probe == [exhausted: BOOLEAN, age: Nat, hold: Nat]
Pass_ == [at: DaemonAt, active: BOOLEAN, source: {None, "forced", "probe"}, flipped: BOOLEAN]

CalmTypes ==
  /\ pool \in {"up", "dry", "busy"}
  /\ probe \in Probe /\ calm \in Nat
  /\ runs \in [Runs -> RunAt] /\ daemon \in Pass_

\* A reading that says dry is no older than the calm, nor is what is left of its hold
\* more than the calm leaves of a whole one.
ReadingFits ==
  probe.exhausted => /\ probe.hold > 0 => calm + probe.hold <= Hold
                     /\ probe.age <= Cache => calm <= probe.age

\* While the pool is not up, or an answer "dry" is on its way to the record, there is no calm.
AnswerFits ==
  /\ pool # "up" => calm = 0
  /\ \A r \in Runs : runs[r] = "refused" => calm = 0
  /\ daemon.at = "refused" => calm = 0

CalmInv == CalmTypes /\ ReadingFits /\ AnswerFits

LEMMA Bounds == Cache \in Nat /\ Hold \in Nat /\ Cache < Hold
  BY OutageAssumption

LEMMA Readings ==
  /\ \A e \in BOOLEAN : /\ Reading(e) \in Probe /\ Reading(e).age = 0 /\ Reading(e).hold = 0
                       /\ Reading(e).exhausted = e
  /\ LaneReading \in Probe /\ LaneReading.age = 0 /\ LaneReading.hold = Hold
  BY Bounds DEF Reading, LaneReading, Probe

LEMMA CalmInit == Init => CalmInv
<1> SUFFICES ASSUME Init PROVE CalmInv
  OBVIOUS
<1>1. NoProbe \in Probe /\ ~NoProbe.exhausted /\ NoPass \in Pass_ /\ NoPass.at = "idle"
  BY Bounds DEF NoProbe, Probe, NoPass, Pass_, DaemonAt
<1> QED
  BY <1>1, Bounds DEF Init, CalmInv, CalmTypes, ReadingFits, AnswerFits, RunAt

\* A step that leaves the pool, the reading and the time alone, and brings no answer.
LEMMA CalmQuiet ==
  ASSUME CalmInv, UNCHANGED <<pool, probe, calm>>,
         runs' \in [Runs -> RunAt], daemon' \in Pass_,
         \A r \in Runs : runs'[r] = "refused" => runs[r] = "refused" \/ Exhausted,
         daemon'.at = "refused" => daemon.at = "refused" \/ Exhausted
  PROVE  CalmInv'
  BY DEF CalmInv, CalmTypes, ReadingFits, AnswerFits, Exhausted

LEMMA RunMoves ==
  ASSUME CalmInv, NEW r \in Runs, NEW at \in RunAt, Goes(r, at)
  PROVE  /\ runs' \in [Runs -> RunAt] /\ runs'[r] = at
         /\ \A q \in Runs : q # r => runs'[q] = runs[q]
  BY DEF CalmInv, CalmTypes, Goes

LEMMA WorkerStep == ASSUME CalmInv, NEW r \in Runs, Worker(r) PROVE CalmInv'
<1>1. CASE Detect(r) \/ Over(r)
  <2>1. UNCHANGED <<pool, probe, calm, daemon>> /\ \E at \in RunAt \ {"refused"} : Goes(r, at)
    BY <1>1 DEF Detect, Over, On, RunAt, world, clocks
  <2> QED
    BY <2>1, RunMoves, CalmQuiet DEF CalmInv, CalmTypes
<1>2. CASE Ask(r)
  <2>1. UNCHANGED <<pool, probe, calm, daemon>> /\ Goes(r, Answered(Exhausted))
    BY <1>2 DEF Ask, world, clocks
  <2>2. Answered(Exhausted) \in RunAt /\ (Answered(Exhausted) = "refused" => Exhausted)
    BY DEF Answered, RunAt
  <2> QED
    BY <2>1, <2>2, RunMoves, CalmQuiet DEF CalmInv, CalmTypes
<1>3. CASE Record(r)
  <2>1. /\ UNCHANGED <<pool, calm, daemon>> /\ Goes(r, On(runs[r] = "refused"))
        /\ probe' = Reading(runs[r] = "refused")
    BY <1>3 DEF Record, world, clocks
  <2>2. On(runs[r] = "refused") \in RunAt \ {"refused"}
    BY DEF On, RunAt
  <2>3. runs[r] = "refused" => calm = 0
    BY DEF CalmInv, AnswerFits
  <2>4. probe' \in Probe /\ probe'.age = 0 /\ probe'.hold = 0 /\ (probe'.exhausted => calm = 0)
    BY <2>1, <2>3, Readings
  <2> QED
    BY <2>1, <2>2, <2>4, RunMoves DEF CalmInv, CalmTypes, ReadingFits, AnswerFits
<1>4. CASE MeetsPool(r)
  <2>1. UNCHANGED <<pool, calm, daemon>> /\ Goes(r, "standin") /\ probe' = LaneReading /\ pool # "up"
    BY <1>4 DEF MeetsPool, world
  <2>2. calm = 0 /\ "standin" \in RunAt
    BY <2>1 DEF CalmInv, AnswerFits, RunAt
  <2> QED
    BY <2>1, <2>2, Readings, Bounds, RunMoves DEF CalmInv, CalmTypes, ReadingFits, AnswerFits
<1> QED
  BY <1>1, <1>2, <1>3, <1>4 DEF Worker

LEMMA PassMoves ==
  ASSUME NEW d \in Pass_, NEW at \in DaemonAt
  PROVE  /\ [d EXCEPT !.at = at] \in Pass_ /\ [d EXCEPT !.at = at].at = at
         /\ \A f \in BOOLEAN : /\ [d EXCEPT !.at = at, !.flipped = f] \in Pass_
                             /\ [d EXCEPT !.at = at, !.flipped = f].at = at
  BY DEF Pass_

LEMMA PassJudged ==
  ASSUME NEW a \in BOOLEAN, NEW s \in {"forced", "probe"}, Judged(a, s)
  PROVE  daemon' \in Pass_ /\ daemon'.at = "judged"
  BY DEF Judged, Pass_, DaemonAt

LEMMA PassOver == NoPass \in Pass_ /\ NoPass.at = "idle"
  BY DEF NoPass, Pass_, DaemonAt

LEMMA PassStep == ASSUME CalmInv, Pass \/ Crash PROVE CalmInv'
<1>1. daemon \in Pass_ /\ runs \in [Runs -> RunAt] /\ probe.exhausted \in BOOLEAN
  BY DEF CalmInv, CalmTypes, Probe
<1>2. CASE LookRecords
  <2>1. /\ UNCHANGED <<pool, calm, runs>> /\ probe' = Reading(daemon.at = "refused")
        /\ Judged(daemon.at = "refused", "probe")
    BY <1>2 DEF LookRecords, world, clocks
  <2>2. daemon'.at = "judged" /\ daemon' \in Pass_
    BY <2>1, PassJudged
  <2>3. daemon.at = "refused" => calm = 0
    BY DEF CalmInv, AnswerFits
  <2>4. probe' \in Probe /\ probe'.age = 0 /\ probe'.hold = 0 /\ (probe'.exhausted => calm = 0)
    BY <2>1, <2>3, Readings
  <2>5. ReadingFits'
    BY <2>1, <2>4 DEF ReadingFits
  <2>6. CalmTypes' /\ AnswerFits'
    BY <2>1, <2>2, <2>4 DEF CalmInv, CalmTypes, AnswerFits
  <2> QED
    BY <2>5, <2>6 DEF CalmInv
<1>3. CASE LookAsks
  <2>1. UNCHANGED <<pool, probe, calm, runs>> /\ daemon' = [daemon EXCEPT !.at = Answered(Exhausted)]
    BY <1>3 DEF LookAsks, Step, world, clocks
  <2>2. Answered(Exhausted) \in DaemonAt /\ (Answered(Exhausted) = "refused" => Exhausted)
    BY DEF Answered, DaemonAt
  <2>3. daemon' \in Pass_ /\ daemon'.at = Answered(Exhausted)
    BY <1>1, <2>1, <2>2, PassMoves
  <2> QED
    BY <1>1, <2>1, <2>2, <2>3, CalmQuiet
<1>4. CASE Look
  <2>1. UNCHANGED <<pool, probe, calm, runs>>
    BY <1>4 DEF Look, world, clocks
  <2>2. daemon' \in Pass_ /\ daemon'.at # "refused"
    <3>1. CASE force # "auto"
      <4>1. Judged(force = "on", "forced")
        BY <1>4, <3>1 DEF Look
      <4> QED
        BY <4>1, PassJudged
    <3>2. CASE force = "auto" /\ Held
      <4>1. Judged(probe.exhausted, "probe")
        BY <1>4, <3>2 DEF Look
      <4> QED
        BY <1>1, <4>1, PassJudged
    <3>3. CASE force = "auto" /\ ~Held
      <4>1. daemon' = [daemon EXCEPT !.at = "asks"]
        BY <1>4, <3>3 DEF Look, Step
      <4>2. "asks" \in DaemonAt
        BY DEF DaemonAt
      <4> QED
        BY <1>1, <4>1, <4>2, PassMoves
    <3> QED
      BY <3>1, <3>2, <3>3
  <2> QED
    BY <1>1, <2>1, <2>2, CalmQuiet
<1>5. CASE Transition \/ TellOutage \/ Book \/ TellOperator \/ TellNormal \/ Close \/ Crash
  <2>1. UNCHANGED <<pool, probe, calm, runs>>
    BY <1>5 DEF Transition, TellOutage, Book, TellOperator, TellNormal, Close, Crash, world, clocks
  <2>2. \/ daemon' = NoPass
        \/ \E at \in {"book", "close"} : daemon' = [daemon EXCEPT !.at = at]
        \/ \E f \in BOOLEAN : daemon' = [daemon EXCEPT !.at = "tell", !.flipped = f]
    BY <1>5 DEF Transition, TellOutage, Book, TellOperator, TellNormal, Close, Crash, Step
  <2>3. {"book", "close", "tell"} \subseteq DaemonAt
    BY DEF DaemonAt
  <2>4. daemon' \in Pass_ /\ daemon'.at # "refused"
    <3>1. CASE daemon' = NoPass
      BY <3>1, PassOver
    <3>2. ASSUME NEW at \in {"book", "close"}, daemon' = [daemon EXCEPT !.at = at]
          PROVE  daemon' \in Pass_ /\ daemon'.at # "refused"
      BY <1>1, <2>3, <3>2, PassMoves
    <3>3. ASSUME NEW f \in BOOLEAN, daemon' = [daemon EXCEPT !.at = "tell", !.flipped = f]
          PROVE  daemon' \in Pass_ /\ daemon'.at # "refused"
      BY <1>1, <2>3, <3>3, PassMoves
    <3> QED
      BY <2>2, <3>1, <3>2, <3>3
  <2> QED
    BY <1>1, <2>1, <2>4, CalmQuiet
<1> QED
  BY <1>2, <1>3, <1>4, <1>5 DEF Pass

\* A unit of time takes one off the hold and adds one to the calm; no answer waits for its record.
LEMMA TimePasses == ASSUME CalmInv, Tick PROVE CalmInv'
<1>1. /\ UNCHANGED <<pool, runs, daemon>>
      /\ daemon.at # "refused" /\ \A r \in Runs : runs[r] # "refused"
      /\ probe' = [probe EXCEPT !.age = Least(@ + 1, Cache + 1), !.hold = Less(@)]
      /\ calm' = IF pool = "up" THEN Least(calm + 1, Hold + 1) ELSE calm
  BY DEF Tick, Probing, world
<1>2. probe \in Probe /\ probe.age \in Nat /\ probe.hold \in Nat /\ calm \in Nat
  BY DEF CalmInv, CalmTypes, Probe
<1>3. /\ probe' = [probe EXCEPT !.age = Least(probe.age + 1, Cache + 1), !.hold = Less(probe.hold)]
      /\ Least(probe.age + 1, Cache + 1) \in Nat /\ Less(probe.hold) \in Nat /\ calm' \in Nat
  BY <1>1, <1>2, Bounds DEF Least, Less
<1>4. /\ probe' \in Probe /\ probe'.exhausted = probe.exhausted
      /\ probe'.age = Least(probe.age + 1, Cache + 1) /\ probe'.hold = Less(probe.hold)
  BY <1>2, <1>3 DEF Probe
<1>5. ReadingFits'
  BY <1>1, <1>2, <1>4, Bounds DEF CalmInv, ReadingFits, Least, Less
<1> QED
  BY <1>1, <1>3, <1>4, <1>5 DEF CalmInv, CalmTypes, AnswerFits

LEMMA CalmStep == ASSUME CalmInv, [Next]_vars PROVE CalmInv'
<1>1. ASSUME NEW state \in {"up", "dry", "busy"}, Pool(state) PROVE CalmInv'
  <2>1. UNCHANGED <<probe, runs, daemon>> /\ pool' = state /\ calm' = 0
    BY <1>1 DEF Pool
  <2>2. probe \in Probe /\ probe.age \in Nat /\ probe.hold \in Nat /\ calm \in Nat
    BY DEF CalmInv, CalmTypes, Probe
  <2>3. ReadingFits'
    BY <2>1, <2>2, Bounds DEF CalmInv, ReadingFits
  <2> QED
    BY <2>1, <2>2, <2>3 DEF CalmInv, CalmTypes, AnswerFits
<1>2. ASSUME NEW mode \in {"auto", "on", "off"}, Override(mode) PROVE CalmInv'
  <2>1. UNCHANGED <<pool, probe, calm, runs, daemon>>
    BY <1>2 DEF Override, clocks
  <2> QED
    BY <2>1, CalmQuiet DEF CalmInv, CalmTypes
<1>3. CASE UNCHANGED vars
  BY <1>3, CalmQuiet DEF vars, world, clocks, CalmInv, CalmTypes
<1> QED
  BY <1>1, <1>2, <1>3, WorkerStep, PassStep, TimePasses DEF Next

LEMMA OnlyWorkersRun == [Next]_vars /\ runs' # runs => \E r \in Runs : Worker(r)
<1>1. Pass => runs' = runs
  BY DEF Pass, Look, LookAsks, LookRecords, Transition, TellOutage, Book, TellOperator, TellNormal, Close
<1>2. Crash \/ Tick => runs' = runs
  BY DEF Crash, Tick
<1>3. \A state : Pool(state) => runs' = runs
  BY DEF Pool
<1>4. \A mode : Override(mode) => runs' = runs
  BY DEF Override
<1> QED
  BY <1>1, <1>2, <1>3, <1>4 DEF Next, vars

\* Without an override no run starts on stand-ins once the pool has been up for as long as a hold
\* lasts, whoever read or recorded what meanwhile (degraded._cached_probe, LANE_HOLD).
THEOREM NoneStartsStale == Spec => NoStaleOutage
<1>1. ASSUME CalmInv, [Next]_vars, NEW r \in Runs,
             runs[r] \in {"new", "refused"}, runs'[r] = "standin", force = "auto"
      PROVE  calm <= Hold
  <2>1. probe.exhausted /\ Cached(Cache) => calm <= Hold
    BY <1>1, Bounds DEF CalmInv, CalmTypes, ReadingFits, Probe, Cached, Held
  <2>2. runs[r] = "refused" => calm = 0
    BY <1>1 DEF CalmInv, AnswerFits
  <2>3. ASSUME runs[r] = "new" PROVE probe.exhausted /\ Cached(Cache)
    <3>1. ASSUME NEW q \in Runs, Worker(q), q # r PROVE FALSE
      BY <1>1, <3>1, <2>3 DEF Worker, Detect, Ask, Record, MeetsPool, Over, Goes, CalmInv, CalmTypes
    <3>2. ~UNCHANGED runs
      BY <1>1, <2>3
    <3>3. Worker(r)
      BY <1>1, <3>1, <3>2, OnlyWorkersRun
    <3>4. Detect(r)
      BY <2>3, <3>3 DEF Worker, Ask, Record, MeetsPool, Over
    <3> QED
      BY <1>1, <3>4 DEF Detect, Goes, On, CalmInv, CalmTypes
  <2> QED
    BY <1>1, <2>1, <2>2, <2>3, Bounds
<1>2. CalmInv /\ [Next]_vars =>
        [\A r \in Runs : (runs[r] \in {"new", "refused"} /\ runs'[r] = "standin" /\ force = "auto") =>
           calm <= Hold]_vars
  BY <1>1
<1>3. CalmInv /\ [Next]_vars => CalmInv'
  BY CalmStep
<1> QED
  BY CalmInit, <1>2, <1>3, PTL DEF Spec, NoStaleOutage
=============================================================================
