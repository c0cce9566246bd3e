--------------------------- MODULE PipelineProofs ---------------------------
(***************************************************************************)
(* What holds of the pipeline for any roles, ladder, shards, plans and     *)
(* faults: no lane's thread runs on after its phase, the run flips to      *)
(* stand-ins once, an approval rests on a whole final review, what is      *)
(* published names the lanes it came from, and the ladder is walked.       *)
(*                                                                         *)
(* A lane keeps its group for life, so a lane alive belongs to the phase   *)
(* of the worker's own thread or of the single stage beside it; Stages     *)
(* says which phases that side may run beside.  FullInv says how each kind *)
(* of lane may end, and what the worker has in hand at each place; ListInv *)
(* of the list that it has the lanes that answered, less a Phase 1 thrown   *)
(* away; WalkInv what a Phase-1 lane at work has tried.                    *)
(***************************************************************************)
EXTENDS Pipeline, WellFoundedInduction, TLAPS

Groups == ReviewGroups \cup VerifyGroups \cup {"threads"}
Ats == Live \cup Errors \cup {"done", "dropped", "gone", "unchecked"}
LaneRec ==
  [at : Ats, lm : Models \cup {None}, model : Models \cup {None}, n : Nat, budget : Nat]

LaneTypes ==
  /\ lanes \in [DOMAIN lanes -> LaneRec]
  /\ \A l \in DOMAIN lanes : l.group \in Groups

RungTypes == rung \in [at : 0..Len(Ladder), lm : Models \cup {None}]

\* The single stage's Phase 1 runs beside Phase 2 and nothing else.
Stages ==
  /\ side \in {None, "phase1", "ok"} \cup Errors
  /\ side = "phase1" => SingleStage /\ pc \in {"phase2", "beside", "lost"}
  /\ pc = "route" => DOMAIN lanes = {}

LanesInv == LaneTypes /\ RungTypes /\ Stages /\ NoLaneOutlives

FlipInv == degraded \in BOOLEAN /\ holds \in Nat /\ FlipsOnce

LEMMA Resolved ==
  /\ \A m \in Models : Resolve(m) \in Models
  /\ \A i \in DOMAIN Ladder : Ladder[i] \in Models
  /\ Final \in Models /\ Second \in Models
BY DEF Resolve, Models

-----------------------------------------------------------------------------
(* Steps of lanes                                                          *)

\* One lane that is alive changes, and stays what it is.
OneLane ==
  \E l \in DOMAIN lanes, r \in LaneRec :
    lanes[l].at \in Live /\ lanes' = [lanes EXCEPT ![l] = r]

LEMMA OneLaneSafe ==
  ASSUME LanesInv, OneLane, UNCHANGED <<plan, pc, side>>, RungTypes'
  PROVE  LanesInv'
<1>1. PICK l \in DOMAIN lanes, r \in LaneRec :
         lanes[l].at \in Live /\ lanes' = [lanes EXCEPT ![l] = r]
  BY DEF OneLane
<1>2. DOMAIN lanes' = DOMAIN lanes /\ lanes' \in [DOMAIN lanes -> LaneRec]
  BY <1>1 DEF LanesInv, LaneTypes
<1>3. LaneTypes' BY <1>2 DEF LanesInv, LaneTypes
<1>4. Stages' BY <1>2 DEF LanesInv, Stages, SingleStage
<1>5. NoLaneOutlives'
  <2> SUFFICES ASSUME NEW k \in DOMAIN lanes, lanes'[k].at \in Live
               PROVE  pc # "ended" /\ (k.group \in {pc, side} \/ k = ThreadLane)
    BY <1>2 DEF NoLaneOutlives, ThreadLane, LaneId
  <2>1. lanes[k].at \in Live BY <1>1 DEF LanesInv, LaneTypes
  <2> QED BY <2>1 DEF LanesInv, NoLaneOutlives
<1> QED BY <1>3, <1>4, <1>5 DEF LanesInv

\* Values of a lane.
LEMMA Changed ==
  ASSUME NEW r \in LaneRec
  PROVE  /\ \A where \in Ats : [r EXCEPT !.at = where] \in LaneRec
         /\ \A m \in Models \cup {None} : /\ [r EXCEPT !.model = m] \in LaneRec
                                         /\ [r EXCEPT !.lm = m] \in LaneRec
         /\ \A k \in Nat : /\ [r EXCEPT !.n = k] \in LaneRec
                           /\ [r EXCEPT !.budget = k] \in LaneRec
BY DEF LaneRec

LEMMA Left ==
  ASSUME NEW r \in LaneRec, NEW where \in Ats
  PROVE  [r EXCEPT !.at = where, !.lm = None, !.n = 0, !.budget = 0] \in LaneRec
<1> DEFINE a == [r EXCEPT !.at = where]
           b == [a EXCEPT !.lm = None]
           c == [b EXCEPT !.n = 0]
<1>1. a \in LaneRec BY Changed
<1>2. b \in LaneRec BY <1>1, Changed
<1>3. c \in LaneRec BY <1>2, Changed
<1>4. [c EXCEPT !.budget = 0] \in LaneRec BY <1>3, Changed
<1> QED BY <1>4

LEMMA Flipped ==
  ASSUME NEW r \in LaneRec, NEW m \in Models
  PROVE  [r EXCEPT !.at = "top", !.model = m, !.budget = r.n + 2] \in LaneRec
<1> DEFINE a == [r EXCEPT !.at = "top"]
           b == [a EXCEPT !.model = m]
<1>1. a \in LaneRec BY Changed DEF Ats, Live
<1>2. b \in LaneRec BY <1>1, Changed
<1>3. r.n + 2 \in Nat BY DEF LaneRec
<1>4. [b EXCEPT !.budget = r.n + 2] \in LaneRec BY <1>2, <1>3, Changed
<1> QED BY <1>4

LEMMA Attempted ==
  ASSUME NEW r \in LaneRec, NEW m \in Models \cup {None}
  PROVE  [r EXCEPT !.at = "running", !.model = m, !.n = r.n + 1] \in LaneRec
<1> DEFINE a == [r EXCEPT !.at = "running"]
           b == [a EXCEPT !.model = m]
<1>1. a \in LaneRec BY Changed DEF Ats, Live
<1>2. b \in LaneRec BY <1>1, Changed
<1>3. r.n + 1 \in Nat BY DEF LaneRec
<1>4. [b EXCEPT !.n = r.n + 1] \in LaneRec BY <1>2, <1>3, Changed
<1> QED BY <1>4

\* However a lane leaves, it leaves with an outcome.
LEMMA Outcomes ==
  ASSUME NEW l, NEW error \in Ats
  PROVE  Raised(l, error) \in Ats /\ StopError \in Ats
BY DEF Raised, StopError, Ats, Errors

LEMMA Leaving ==
  ASSUME LaneTypes, NEW l \in DOMAIN lanes, lanes[l].at \in Live, NEW where \in Ats,
         Leaves(l, where) \/ Goes(l, where)
  PROVE  OneLane
<1>1. [lanes[l] EXCEPT !.at = where] \in LaneRec
      /\ [lanes[l] EXCEPT !.at = where, !.lm = None, !.n = 0, !.budget = 0] \in LaneRec
  BY Changed, Left DEF LaneTypes
<1>2. CASE Leaves(l, where) BY <1>1, <1>2 DEF Leaves, OneLane
<1>3. CASE Goes(l, where)
  <2>1. lanes' = [lanes EXCEPT ![l] = [lanes[l] EXCEPT !.at = where]] BY <1>3 DEF Goes
  <2> QED BY <1>1, <2>1 DEF OneLane
<1> QED BY <1>2, <1>3

\* What a lane's thread starts with.
LEMMA Starting ==
  ASSUME LaneTypes, RungTypes, NEW l, AtTop(l)
  PROVE  l \in DOMAIN lanes /\ lanes[l].at \in Live /\ Now(l) \in LaneRec
<1>1. l \in DOMAIN lanes /\ lanes[l].at \in Live BY DEF AtTop, At, Live
<1>2. lanes[l] \in LaneRec BY <1>1 DEF LaneTypes
<1>3. Thread0(l) \in LaneRec
  BY <1>2 DEF Thread0, Lane, LaneRec, Ats, Live, RungTypes
<1> QED BY <1>1, <1>2, <1>3 DEF Now

LEMMA LoopStep ==
  ASSUME LanesInv, NEW l, Loop(l)
  PROVE  OneLane
<1> USE DEF LanesInv
<1>1. CASE StopsAtTop(l)
  <2>1. l \in DOMAIN lanes /\ lanes[l].at \in Live BY <1>1, Starting DEF StopsAtTop
  <2>2. Raised(l, StopError) \in Ats BY DEF Raised, StopError, Ats, Errors
  <2> QED BY <1>1, <2>1, <2>2, Leaving DEF StopsAtTop
<1>2. CASE RefusesStandin(l)
  <2>1. l \in DOMAIN lanes /\ lanes[l].at \in Live BY <1>2, Starting DEF RefusesStandin
  <2>2. Raised(l, "failed") \in Ats BY DEF Raised, Ats, Errors
  <2> QED BY <1>2, <2>1, <2>2, Leaving DEF RefusesStandin
<1>3. CASE LeftBehind(l)
  <2>1. l \in DOMAIN lanes /\ lanes[l].at \in Live /\ Now(l) \in LaneRec
    BY <1>3, Starting DEF LeftBehind, Tries
  <2>2. [Now(l) EXCEPT !.at = "dead"] \in LaneRec BY <2>1 DEF LaneRec, Ats, Live
  <2> QED BY <1>3, <2>1, <2>2 DEF LeftBehind, OneLane
<1>4. CASE Attempt(l)
  <2>1. l \in DOMAIN lanes /\ lanes[l].at \in Live /\ Now(l) \in LaneRec
    BY <1>4, Starting DEF Attempt, Tries
  <2>2. NextModel(l) \in Models \cup {None}
    <3>1. Now(l).model \in Models \cup {None} BY <2>1 DEF LaneRec
    <3>2. \A m : m \in Models \cup {None} => Resolve(m) \in Models \cup {None}
      BY DEF Resolve, Models
    <3> QED BY <3>1, <3>2 DEF NextModel
  <2>3. [Now(l) EXCEPT !.at = "running", !.model = NextModel(l), !.n = @ + 1] \in LaneRec
    BY <2>1, <2>2, Attempted
  <2> QED BY <1>4, <2>1, <2>3 DEF Attempt, OneLane
<1> QED BY <1>1, <1>2, <1>3, <1>4 DEF Loop

LEMMA SessionStep ==
  ASSUME LanesInv, NEW l, Answers(l) \/ IsStopped(l) \/ RunsDry(l) \/ Fails(l)
  PROVE  OneLane
<1> USE DEF LanesInv
<1>1. l \in DOMAIN lanes /\ lanes[l].at \in Live
  BY DEF Answers, IsStopped, RunsDry, Fails, Fault, At, Live
<1>2. CASE Answers(l)
  BY <1>1, <1>2, Leaving DEF Answers, Ats
<1>3. CASE IsStopped(l)
  <2>1. Raised(l, StopError) \in Ats BY DEF Raised, StopError, Ats, Errors
  <2> QED BY <1>1, <1>3, <2>1, Leaving DEF IsStopped
<1>4. CASE RunsDry(l)
  <2> DEFINE m == Standin[lanes[l].model]
  <2>1. m \in Models BY <1>4 DEF RunsDry, Flips, Models
  <2>2. [lanes[l] EXCEPT !.at = "top", !.model = m, !.budget = lanes[l].n + 2] \in LaneRec
    BY <1>1, <2>1, Flipped DEF LaneTypes
  <2>3. lanes' = [lanes EXCEPT ![l] =
                   [lanes[l] EXCEPT !.at = "top", !.model = m, !.budget = lanes[l].n + 2]]
    BY <1>4 DEF RunsDry, Flip
  <2> QED BY <1>1, <2>2, <2>3 DEF OneLane
<1>5. CASE Fails(l)
  <2>1. (IF lanes[l].n < lanes[l].budget THEN "top" ELSE "dead") \in Ats BY DEF Ats, Live
  <2> QED BY <1>1, <1>5, <2>1, Leaving DEF Fails
<1> QED BY <1>2, <1>3, <1>4, <1>5

LEMMA DeadStep ==
  ASSUME LanesInv, NEW l, Dead(l)
  PROVE  OneLane /\ RungTypes'
<1> USE DEF LanesInv
<1>1. l \in DOMAIN lanes /\ lanes[l].at \in Live
  BY DEF Dead, DiesStopped, Follows, Falls, Dies, ShardDies, ThreadLaneDies, At, Live
<1>2. ASSUME NEW lm \in Models \cup {None}, Restarts(l, lm) PROVE OneLane
  <2>1. Lane("top", lm, 0, 2) \in LaneRec BY DEF Lane, LaneRec, Ats, Live
  <2> QED BY <1>1, <1>2, <2>1 DEF Restarts, OneLane
<1>3. CASE DiesStopped(l)
  <2>1. Raised(l, StopError) \in Ats BY DEF Raised, StopError, Ats, Errors
  <2> QED BY <1>1, <1>3, <2>1, Leaving DEF DiesStopped, RungTypes
<1>4. CASE Follows(l)
  BY <1>2, <1>4 DEF Follows, RungTypes
<1>5. CASE Falls(l)
  <2>1. PICK i \in (rung.at + 1)..Len(Ladder) :
          rung' = [at |-> i, lm |-> Resolve(Ladder[i])] /\ Restarts(l, rung'.lm)
    BY <1>5 DEF Falls
  <2>2. rung.at \in Nat /\ Len(Ladder) \in Nat /\ DOMAIN Ladder = 1..Len(Ladder)
    BY PipelineAssumption DEF RungTypes
  <2>3. i \in DOMAIN Ladder /\ i \in 0..Len(Ladder) BY <2>2
  <2>4. Resolve(Ladder[i]) \in Models BY <2>3, Resolved
  <2> QED BY <1>2, <2>1, <2>3, <2>4 DEF RungTypes
<1>6. CASE Dies(l)
  <2>1. Raised(l, "failed") \in Ats BY DEF Raised, Ats, Errors
  <2> QED BY <1>1, <1>6, <2>1, Leaving DEF Dies, RungTypes
<1>7. CASE ShardDies(l)
  <2>1. \A how \in {"cancelled", "unchecked", "dropped"} : how \in Ats BY DEF Ats, Errors
  <2> QED BY <1>1, <1>7, <2>1, Leaving DEF ShardDies, RungTypes
<1>8. CASE ThreadLaneDies(l)
  BY <1>1, <1>8, Leaving DEF ThreadLaneDies, RungTypes, Ats, Errors
<1> QED BY <1>3, <1>4, <1>5, <1>6, <1>7, <1>8 DEF Dead

-----------------------------------------------------------------------------
(* Steps of the worker's thread and of the single stage beside it          *)

\* Lanes are added with groups of their own, and nobody else comes alive.
LEMMA AddedSafe ==
  ASSUME LaneTypes, NEW new, new \in [DOMAIN new -> LaneRec],
         \A l \in DOMAIN new : l.group \in Groups, Added(new)
  PROVE  /\ LaneTypes'
         /\ \A k \in DOMAIN lanes' : lanes'[k].at \in Live =>
              k \in DOMAIN new \/ (k \in DOMAIN lanes /\ lanes[k].at \in Live)
BY DEF LaneTypes, Added

LEMMA StartSafe ==
  ASSUME LaneTypes, NEW groups, groups \subseteq ReviewGroups, Start(groups)
  PROVE  /\ LaneTypes'
         /\ \A k \in DOMAIN lanes' : lanes'[k].at \in Live =>
              \/ k.group \in groups \/ k = ThreadLane
              \/ k \in DOMAIN lanes /\ lanes[k].at \in Live
<1> DEFINE beside == IF pc = "route" /\ plan.threads THEN {ThreadLane} ELSE {}
           ids == beside \cup UNION {ReviewLanes(g) : g \in groups}
           new == [l \in ids |-> Lane("queued", PhaseLm(l), 0, 0)]
<1>1. ASSUME NEW g \in groups, NEW l \in ReviewLanes(g) PROVE l.group = g
  <2> DEFINE roles == IF g = "fresh" THEN Confirmers ELSE Roles
             kinds == IF plan.twins /\ g = "phase2" THEN BOOLEAN ELSE {FALSE}
  <2>0. ReviewLanes(g) = {LaneId(g, r, t) : r \in roles, t \in kinds} BY DEF ReviewLanes
  <2> HIDE DEF roles, kinds
  <2>1. PICK r \in roles, t \in kinds : l = LaneId(g, r, t) BY <1>1, <2>0
  <2> QED BY <2>1 DEF LaneId
<1>2. \A l \in ids : l.group \in groups \/ l = ThreadLane
  BY <1>1
<1>3. \A l \in ids : l.group \in Groups
  BY <1>2 DEF ThreadLane, LaneId, Groups
<1>4. \A l : PhaseLm(l) \in Models \cup {None}
  BY Resolved, Zenon DEF PhaseLm
<1>5. new \in [ids -> LaneRec]
  BY <1>4 DEF Lane, LaneRec, Ats, Live
<1>6. Added(new) BY DEF Start
<1> HIDE DEF new
<1>7. DOMAIN new = ids BY <1>5
<1> QED BY <1>2, <1>3, <1>5, <1>6, <1>7, AddedSafe

LEMMA StartVerifySafe ==
  ASSUME LaneTypes, NEW group \in VerifyGroups, StartVerify(group)
  PROVE  /\ LaneTypes'
         /\ \A k \in DOMAIN lanes' : lanes'[k].at \in Live =>
              k.group = group \/ (k \in DOMAIN lanes /\ lanes[k].at \in Live)
<1>1. PICK s \in 0..Shards :
        Added([l \in {LaneId(group, n, FALSE) : n \in 1..s} |->
                 Lane("queued", Resolve(Final), 0, 0)])
  BY DEF StartVerify
<1> DEFINE ids == {LaneId(group, n, FALSE) : n \in 1..s}
           new == [l \in ids |-> Lane("queued", Resolve(Final), 0, 0)]
<1>2. \A l \in ids : l.group = group BY DEF LaneId
<1>3. new \in [ids -> LaneRec] BY Resolved DEF Lane, LaneRec, Ats, Live
<1>4. Added(new) BY <1>1
<1> HIDE DEF new, ids
<1>5. DOMAIN new = ids BY <1>3
<1>6. \A l \in DOMAIN new : l.group \in Groups BY <1>2, <1>5 DEF Groups
<1> QED BY <1>2, <1>3, <1>4, <1>5, <1>6, AddedSafe

LEMMA Results ==
  ASSUME NEW g
  PROVE  PhaseResult(g) \in {"ok"} \cup Errors
BY Zenon DEF PhaseResult, Errors

\* The worker's thread moves on from a phase that is over, to phases whose
\* lanes it starts: the form of all its steps.
LEMMA MovesOn ==
  ASSUME LanesInv, LaneTypes', RungTypes', Stages',
         pc' # "ended",
         \A k \in DOMAIN lanes : lanes[k].at \in Live /\ k.group \in {pc, side} =>
            k.group \in {pc', side'},
         \A k \in DOMAIN lanes' : lanes'[k].at \in Live =>
            \/ k.group \in {pc', side'} \/ k = ThreadLane
            \/ k \in DOMAIN lanes /\ lanes[k].at \in Live
  PROVE  LanesInv'
<1>1. \A k \in DOMAIN lanes : lanes[k].at \in Live => k.group \in {pc', side'} \/ k = ThreadLane
  BY DEF LanesInv, NoLaneOutlives
<1>2. NoLaneOutlives'
  BY <1>1 DEF NoLaneOutlives, ThreadLane, LaneId
<1> QED BY <1>2 DEF LanesInv

\* Of no group but the phases of lanes are there any.
LEMMA NoGroup ==
  ASSUME LanesInv, NEW k \in DOMAIN lanes
  PROVE  /\ k.group \in Groups
         /\ pc \notin Groups \/ pc \in ReviewGroups \/ pc \in VerifyGroups \/ pc = "threads"
BY DEF LanesInv, LaneTypes, Groups

LEMMA RouteStep ==
  ASSUME LanesInv, Route
  PROVE  LanesInv'
<1> USE DEF LanesInv
<1>0. pc = "route" /\ DOMAIN lanes = {} /\ UNCHANGED plan
      /\ side \in {None, "phase1", "ok"} \cup Errors /\ side # "phase1"
  BY DEF Route, Stages, setup
<1>1. ASSUME ChooseRung PROVE RungTypes'
  <2>1. PICK i \in DOMAIN Ladder : rung' = [at |-> i, lm |-> Resolve(Ladder[i])]
    BY <1>1 DEF ChooseRung
  <2>2. i \in 0..Len(Ladder) BY PipelineAssumption
  <2>3. Resolve(Ladder[i]) \in Models BY Resolved
  <2> QED BY <2>1, <2>2, <2>3 DEF RungTypes
<1>2. \/ pc' = "phase1" /\ Start({"phase1"}) /\ ChooseRung /\ side' = side
      \/ pc' = "phase2" /\ side' = "phase1" /\ Start({"phase1", "phase2"}) /\ ChooseRung
         /\ plan.route = "single"
      \/ pc' = "phase2" /\ Start({"phase2"}) /\ side' = side /\ rung' = rung
  BY Zenon DEF Route
<1>3. CASE pc' = "phase1" /\ Start({"phase1"}) /\ ChooseRung /\ side' = side
  <2>1. LaneTypes' /\ \A k \in DOMAIN lanes' : lanes'[k].at \in Live =>
          k.group = "phase1" \/ k = ThreadLane
    BY <1>0, <1>3, StartSafe DEF ReviewGroups
  <2>2. Stages' BY <1>0, <1>3 DEF Stages
  <2> QED BY <1>0, <1>1, <1>3, <2>1, <2>2, MovesOn
<1>4. CASE pc' = "phase2" /\ side' = "phase1" /\ Start({"phase1", "phase2"}) /\ ChooseRung
           /\ plan.route = "single"
  <2>1. LaneTypes' /\ \A k \in DOMAIN lanes' : lanes'[k].at \in Live =>
          k.group \in {"phase1", "phase2"} \/ k = ThreadLane
    BY <1>0, <1>4, StartSafe DEF ReviewGroups
  <2>2. Stages' BY <1>0, <1>4 DEF Stages, SingleStage
  <2> QED BY <1>0, <1>1, <1>4, <2>1, <2>2, MovesOn
<1>5. CASE pc' = "phase2" /\ Start({"phase2"}) /\ side' = side /\ rung' = rung
  <2>1. LaneTypes' /\ \A k \in DOMAIN lanes' : lanes'[k].at \in Live =>
          k.group = "phase2" \/ k = ThreadLane
    BY <1>0, <1>5, StartSafe DEF ReviewGroups
  <2>2. Stages' /\ RungTypes' BY <1>0, <1>5 DEF Stages, RungTypes
  <2> QED BY <1>0, <1>5, <2>1, <2>2, MovesOn
<1> QED BY <1>2, <1>3, <1>4, <1>5

\* A step of the worker's thread that starts no lane, from a phase that is over.
LEMMA MovesAway ==
  ASSUME LanesInv, UNCHANGED <<lanes, rung, plan, side>>,
         pc # "route", pc' \notin {"ended", "route"},
         side = "phase1" => pc' \in {"phase2", "beside", "lost"},
         \A k \in DOMAIN lanes : lanes[k].at \in Live => k.group # pc
  PROVE  LanesInv'
<1> USE DEF LanesInv
<1>1. LaneTypes' /\ RungTypes' BY DEF LaneTypes, RungTypes
<1>2. Stages' BY DEF Stages, SingleStage
<1> QED BY <1>1, <1>2, MovesOn

\* ... and one that starts the lanes of Phase 2 or of the confirmation pass.
LEMMA Enters ==
  ASSUME LanesInv, UNCHANGED <<rung, plan, side>>,
         NEW group \in ReviewGroups, pc' = group, Start({group}),
         pc # "route", side # "phase1",
         \A k \in DOMAIN lanes : lanes[k].at \in Live => k.group # pc
  PROVE  LanesInv'
<1> USE DEF LanesInv
<1>1. LaneTypes' /\ \A k \in DOMAIN lanes' : lanes'[k].at \in Live =>
        k.group = group \/ k = ThreadLane \/ (k \in DOMAIN lanes /\ lanes[k].at \in Live)
  BY StartSafe
<1>2. RungTypes' BY DEF RungTypes
<1>3. Stages' BY DEF Stages, ReviewGroups
<1>4. \A k \in DOMAIN lanes : lanes[k].at \in Live => k.group \notin {pc, side}
  BY DEF LaneTypes, Stages, Groups, ReviewGroups, VerifyGroups, Errors, None
<1>5. pc' # "ended" BY DEF ReviewGroups
<1> QED BY <1>1, <1>2, <1>3, <1>4, <1>5, MovesOn

LEMMA OverIsQuiet ==
  ASSUME NEW g, PhaseOver(g) \/ VerifyOver(g)
  PROVE  \A k \in DOMAIN lanes : lanes[k].at \in Live => k.group # g
BY DEF PhaseOver, VerifyOver, Of

\* Where no lanes are named after the worker's place, none is alive there.
LEMMA ElsewhereIsQuiet ==
  ASSUME LanesInv, pc \notin Groups
  PROVE  \A k \in DOMAIN lanes : lanes[k].at \in Live => k.group # pc
BY DEF LanesInv, LaneTypes

\* Phase1Fails, with the phase or its verification over.
LEMMA Phase1FailsStep ==
  ASSUME LanesInv, UNCHANGED <<rung, plan, side>>, pc \in {"phase1", "verify1"}, Phase1Fails,
         \A k \in DOMAIN lanes : lanes[k].at \in Live => k.group # pc
  PROVE  LanesInv'
<1>0. side # "phase1" BY DEF LanesInv, Stages
<1>1. \/ pc' = "stopping" /\ lanes' = lanes
      \/ pc' = "phase2" /\ Start({"phase2"})
  BY Zenon DEF Phase1Fails, Finish
<1> QED BY <1>0, <1>1, MovesAway, Enters DEF ReviewGroups

LEMMA Phase1Steps ==
  ASSUME LanesInv, Phase1Ends \/ Verify1Ends
  PROVE  LanesInv'
<1>0. UNCHANGED <<rung, plan, side>> BY DEF Phase1Ends, Verify1Ends, setup
<1>1. CASE Phase1Ends
  <2>1. pc = "phase1" /\ \A k \in DOMAIN lanes : lanes[k].at \in Live => k.group # pc
    BY <1>1, OverIsQuiet DEF Phase1Ends
  <2>2. (pc' \in {"join1", "stopping"} /\ lanes' = lanes) \/ Phase1Fails
    BY <1>1, Zenon DEF Phase1Ends, Finish
  <2>3. side # "phase1" BY <2>1 DEF LanesInv, Stages
  <2> QED BY <1>0, <2>1, <2>2, <2>3, MovesAway, Phase1FailsStep
<1>2. CASE Verify1Ends
  <2>1. pc = "verify1" /\ \A k \in DOMAIN lanes : lanes[k].at \in Live => k.group # pc
    BY <1>2, OverIsQuiet DEF Verify1Ends
  <2>2. (pc' \in {"gate", "stopping"} /\ lanes' = lanes) \/ Phase1Fails
    BY <1>2, Zenon DEF Verify1Ends, Finish
  <2>3. side # "phase1" BY <2>1 DEF LanesInv, Stages
  <2> QED BY <1>0, <2>1, <2>2, <2>3, MovesAway, Phase1FailsStep
<1> QED BY <1>1, <1>2

LEMMA VerifyStep ==
  ASSUME LanesInv, Verify
  PROVE  LanesInv'
<1>0. /\ pc \in {"join1", "join2", "join3"} /\ pc \notin Groups /\ UNCHANGED <<rung, plan, side>>
      /\ side # "phase1"
  BY DEF Verify, Joins, setup, Groups, ReviewGroups, VerifyGroups, LanesInv, Stages
<1>1. \A k \in DOMAIN lanes : lanes[k].at \in Live => k.group # pc
  BY <1>0, ElsewhereIsQuiet
<1>2. CASE pc' = "stopping" /\ lanes' = lanes
  BY <1>0, <1>1, <1>2, MovesAway
<1>3. CASE pc' = Joins[pc] /\ StartVerify(Joins[pc])
  <2>1. Joins[pc] \in VerifyGroups BY <1>0 DEF Joins, VerifyGroups
  <2>2. LaneTypes' /\ \A k \in DOMAIN lanes' : lanes'[k].at \in Live =>
          k.group = pc' \/ (k \in DOMAIN lanes /\ lanes[k].at \in Live)
    BY <1>3, <2>1, StartVerifySafe DEF LanesInv
  <2>3. RungTypes' BY <1>0 DEF LanesInv, RungTypes
  <2>4. Stages' BY <1>0, <1>3, <2>1 DEF LanesInv, Stages, VerifyGroups
  <2>5. \A k \in DOMAIN lanes : lanes[k].at \in Live => k.group \notin {pc, side}
    BY <1>0, <1>1 DEF LanesInv, LaneTypes, Stages, Groups, ReviewGroups, VerifyGroups, Errors, None
  <2>6. pc' # "ended" BY <1>3, <2>1 DEF VerifyGroups
  <2> QED BY <2>2, <2>3, <2>4, <2>5, <2>6, MovesOn
<1> QED BY <1>2, <1>3 DEF Verify, Finish

LEMMA LaterSteps ==
  ASSUME LanesInv, \/ Gate \/ Phase2Ends \/ Beside \/ Lost \/ Verify2Ends \/ Confirm
                   \/ FreshEnds \/ RecheckEnds \/ Publish
  PROVE  LanesInv'
<1> USE DEF LanesInv, Stages, Finish, Publishes
<1>1. CASE Gate
  <2>1. pc = "gate" /\ pc \notin Groups /\ UNCHANGED <<rung, plan, side>> /\ side # "phase1"
    BY <1>1 DEF Gate, setup, Groups, ReviewGroups, VerifyGroups
  <2>2. (pc' = "phase2" /\ Start({"phase2"})) \/ (pc' = "stopping" /\ lanes' = lanes)
    BY <1>1, Zenon DEF Gate
  <2> QED BY <2>1, <2>2, ElsewhereIsQuiet, MovesAway, Enters DEF ReviewGroups
<1>2. CASE Phase2Ends
  <2>1. pc = "phase2" /\ UNCHANGED <<lanes, rung, plan, side>>
    BY <1>2 DEF Phase2Ends, setup
  <2>2. \/ pc' \in {"beside", "lost"}
        \/ ~SingleStage /\ pc' \in {"join2", "stopping"}
    BY <1>2, Zenon DEF Phase2Ends
  <2> QED BY <1>2, <2>1, <2>2, OverIsQuiet, MovesAway DEF Phase2Ends
<1>3. CASE Beside
  <2>1. pc = "beside" /\ side # "phase1" /\ pc \notin Groups /\ UNCHANGED <<lanes, rung, plan, side>>
        /\ pc' \in {"join2", "stopping"}
    BY <1>3 DEF Beside, setup, Groups, ReviewGroups, VerifyGroups
  <2> QED BY <2>1, ElsewhereIsQuiet, MovesAway
<1>4. CASE Lost
  <2>1. pc = "lost" /\ side # "phase1" /\ pc \notin Groups /\ UNCHANGED <<lanes, rung, plan, side>>
        /\ pc' = "stopping"
    BY <1>4 DEF Lost, setup, Groups, ReviewGroups, VerifyGroups
  <2> QED BY <2>1, ElsewhereIsQuiet, MovesAway
<1>5. CASE Verify2Ends
  <2>1. pc = "verify2" /\ UNCHANGED <<lanes, rung, plan, side>> /\ pc' \in {"confirm", "stopping"}
    BY <1>5 DEF Verify2Ends, VerifyFails, setup
  <2> QED BY <1>5, <2>1, OverIsQuiet, MovesAway DEF Verify2Ends
<1>6. CASE Confirm
  <2>1. pc = "confirm" /\ pc \notin Groups /\ UNCHANGED <<rung, plan, side>> /\ side # "phase1"
    BY <1>6 DEF Confirm, setup, Groups, ReviewGroups, VerifyGroups
  <2>2. (pc' = "fresh" /\ Start({"fresh"})) \/ (pc' = "publish" /\ lanes' = lanes)
    BY <1>6, Zenon DEF Confirm
  <2> QED BY <2>1, <2>2, ElsewhereIsQuiet, MovesAway, Enters DEF ReviewGroups
<1>7. CASE FreshEnds
  <2>1. pc = "fresh" /\ UNCHANGED <<lanes, rung, plan, side>>
    BY <1>7 DEF FreshEnds, setup
  <2>2. pc' \in {"join3", "stopping", "publish"}
    BY <1>7, Zenon DEF FreshEnds
  <2> QED BY <1>7, <2>1, <2>2, OverIsQuiet, MovesAway DEF FreshEnds
<1>8. CASE RecheckEnds
  <2>1. pc = "recheck" /\ UNCHANGED <<lanes, rung, plan, side>> /\ pc' \in {"publish", "stopping"}
    BY <1>8 DEF RecheckEnds, VerifyFails, setup
  <2> QED BY <1>8, <2>1, OverIsQuiet, MovesAway DEF RecheckEnds
<1>9. CASE Publish
  <2>1. pc = "publish" /\ pc \notin Groups /\ UNCHANGED <<lanes, rung, plan, side>> /\ pc' = "stopping"
    BY <1>9 DEF Publish, setup, Groups, ReviewGroups, VerifyGroups
  <2> QED BY <2>1, ElsewhereIsQuiet, MovesAway
<1> QED BY <1>1, <1>2, <1>3, <1>4, <1>5, <1>6, <1>7, <1>8, <1>9

LEMMA AbandonStep ==
  ASSUME LanesInv, NEW g \in ReviewGroups, Abandon(g)
  PROVE  LanesInv'
<1> USE DEF LanesInv
<1>0. UNCHANGED <<plan, rung, pc, side>> BY DEF Abandon, setup
<1>1. /\ DOMAIN lanes' = DOMAIN lanes
      /\ \A l \in DOMAIN lanes : \/ lanes'[l] = lanes[l]
                               \/ lanes'[l] = [lanes[l] EXCEPT !.at = "gone"]
      /\ lanes' = [l \in DOMAIN lanes |-> lanes'[l]]
  BY DEF Abandon
<1>2. \A l \in DOMAIN lanes : /\ lanes[l] \in LaneRec
                            /\ [lanes[l] EXCEPT !.at = "gone"] \in LaneRec
  BY Changed DEF LaneTypes, Ats
<1>3. \A l \in DOMAIN lanes : lanes'[l] \in LaneRec BY <1>1, <1>2
<1>4. LaneTypes'
  <2>1. lanes' \in [DOMAIN lanes -> LaneRec] BY <1>1, <1>3
  <2> QED BY <1>1, <2>1 DEF LaneTypes
<1>5. \A l \in DOMAIN lanes : lanes'[l].at \in Live => lanes[l].at \in Live
  <2> SUFFICES ASSUME NEW l \in DOMAIN lanes, lanes'[l] # lanes[l]
               PROVE  lanes'[l].at \notin Live
    OBVIOUS
  <2>1. lanes'[l] = [lanes[l] EXCEPT !.at = "gone"] /\ lanes[l] \in LaneRec BY <1>1, <1>2
  <2> QED BY <2>1 DEF LaneRec, Live
<1>6. RungTypes' /\ Stages' BY <1>0, <1>1 DEF RungTypes, Stages, SingleStage
<1>7. NoLaneOutlives'
  BY <1>0, <1>1, <1>5 DEF NoLaneOutlives, ThreadLane, LaneId
<1> QED BY <1>4, <1>6, <1>7

LEMMA SideEndsStep ==
  ASSUME LanesInv, SideEnds
  PROVE  LanesInv'
<1> USE DEF LanesInv
<1>0. /\ UNCHANGED <<plan, rung, pc, lanes>> /\ side = "phase1"
      /\ side' = PhaseResult("phase1")
  BY DEF SideEnds, setup
<1>1. side' \in {"ok"} \cup Errors BY <1>0, Results
<1>2. \A k \in DOMAIN lanes : lanes[k].at \in Live => k.group # "phase1"
  BY OverIsQuiet DEF SideEnds
<1>3. LaneTypes' /\ RungTypes' BY <1>0 DEF LaneTypes, RungTypes
<1>4. Stages' BY <1>0, <1>1 DEF Stages, Errors
<1>5. pc' # "ended" BY <1>0 DEF Stages
<1> QED BY <1>0, <1>2, <1>3, <1>4, <1>5, MovesOn

LEMMA EndsStep ==
  ASSUME LanesInv, Ends
  PROVE  LanesInv'
<1> USE DEF LanesInv
<1>0. /\ UNCHANGED <<plan, rung, lanes, side>> /\ pc = "stopping" /\ pc' = "ended"
      /\ ThreadLane \in DOMAIN lanes => lanes[ThreadLane].at \notin Live
  BY DEF Ends, setup
<1>1. LaneTypes' /\ RungTypes' /\ Stages' BY <1>0 DEF LaneTypes, RungTypes, Stages
<1>2. ASSUME NEW k \in DOMAIN lanes, lanes[k].at \in Live PROVE FALSE
  <2>1. k.group \in Groups BY DEF LaneTypes
  <2>2. k.group \in {"stopping", side} BY <1>0, <1>2 DEF NoLaneOutlives
  <2>3. side \in {None, "ok"} \cup Errors BY <1>0 DEF Stages
  <2> QED BY <2>1, <2>2, <2>3 DEF Groups, ReviewGroups, VerifyGroups, Errors, None
<1>3. NoLaneOutlives' BY <1>0, <1>2 DEF NoLaneOutlives
<1> QED BY <1>1, <1>3

\* Steps that leave lanes, places and rung alone.
LEMMA QuietStep ==
  ASSUME LanesInv, UNCHANGED <<plan, rung, pc, lanes, side>>
  PROVE  LanesInv'
BY DEF LanesInv, LaneTypes, RungTypes, Stages, NoLaneOutlives, SingleStage, ThreadLane, LaneId

LEMMA LanesInit == Init => LanesInv
<1> SUFFICES ASSUME Init PROVE LanesInv OBVIOUS
<1>1. lanes = << >> /\ rung = [at |-> 0, lm |-> None] /\ side = None /\ pc = "route"
  BY DEF Init
<1>2. DOMAIN lanes = {} BY <1>1
<1>3. Len(Ladder) \in Nat BY PipelineAssumption
<1>4. RungTypes BY <1>1, <1>3 DEF RungTypes
<1>5. lanes \in [DOMAIN lanes -> LaneRec] BY <1>1
<1> QED BY <1>1, <1>2, <1>4, <1>5 DEF LanesInv, LaneTypes, Stages, NoLaneOutlives, None

LEMMA LanesStep == LanesInv /\ [Next]_vars => LanesInv'
<1> SUFFICES ASSUME LanesInv, [Next]_vars PROVE LanesInv' OBVIOUS
<1>1. CASE Route BY <1>1, RouteStep
<1>2. CASE Phase1Ends \/ Verify1Ends BY <1>2, Phase1Steps
<1>3. CASE Verify BY <1>3, VerifyStep
<1>4. CASE \/ Gate \/ Phase2Ends \/ Beside \/ Lost \/ Verify2Ends \/ Confirm
           \/ FreshEnds \/ RecheckEnds \/ Publish
  BY <1>4, LaterSteps
<1>5. CASE Ends BY <1>5, EndsStep
<1>6. CASE SideEnds BY <1>6, SideEndsStep
<1>7. CASE GraceEnds \/ Cancel \/ Rest \/ UNCHANGED vars
  BY <1>7, QuietStep DEF GraceEnds, Cancel, Rest, vars, setup
<1>8. ASSUME NEW g \in ReviewGroups, Abandon(g) PROVE LanesInv' BY <1>8, AbandonStep
<1>9. ASSUME NEW l, Loop(l) \/ IsStopped(l) \/ Answers(l) \/ RunsDry(l) \/ Fails(l)
      PROVE  LanesInv'
  <2>1. OneLane BY <1>9, LoopStep, SessionStep
  <2>2. UNCHANGED <<plan, pc, side, rung>>
    BY <1>9 DEF Loop, IsStopped, Answers, RunsDry, Fails, setup
  <2>3. RungTypes' BY <2>2 DEF LanesInv, RungTypes
  <2> QED BY <2>1, <2>2, <2>3, OneLaneSafe
<1>10. ASSUME NEW l, Dead(l) PROVE LanesInv'
  <2>1. OneLane /\ RungTypes' BY <1>10, DeadStep
  <2>2. UNCHANGED <<plan, pc, side>> BY <1>10 DEF Dead, setup
  <2> QED BY <2>1, <2>2, OneLaneSafe
<1> QED
  BY <1>1, <1>2, <1>3, <1>4, <1>5, <1>6, <1>7, <1>8, <1>9, <1>10
  DEF Next, Main, Thread, Model

\* No lane's thread runs on after its phase is left, whatever failed.
THEOREM NoStrayLane == Spec => []NoLaneOutlives
<1>1. LanesInv => NoLaneOutlives BY DEF LanesInv
<1> QED BY <1>1, LanesInit, LanesStep, PTL DEF Spec

-----------------------------------------------------------------------------
(* The flip to stand-ins                                                   *)

\* Only a lane that runs dry touches the mode.
LEMMA OnlyDryFlips ==
  ASSUME [Next]_vars
  PROVE  (\E l : Flip(l)) \/ UNCHANGED <<degraded, holds>>
<1>1. CASE Main
  BY <1>1 DEF Main, Route, Phase1Ends, Verify, Verify1Ends, Gate, Phase2Ends, Beside, Lost,
     Verify2Ends, Confirm, FreshEnds, RecheckEnds, Publish, Ends, SideEnds, GraceEnds, Abandon, mode
<1>2. CASE Cancel \/ Rest \/ UNCHANGED vars
  BY <1>2 DEF Cancel, Rest, vars, mode
<1>3. ASSUME NEW l, Thread(l) \/ Model(l) PROVE Flip(l) \/ UNCHANGED <<degraded, holds>>
  BY <1>3 DEF Thread, Model, Loop, IsStopped, Dead, Answers, RunsDry, Fails, mode
<1> QED BY <1>1, <1>2, <1>3 DEF Next

\* The run flips to its stand-ins once, however many lanes run dry.
THEOREM OneFlip == Spec => []FlipsOnce
<1>1. Init => FlipInv BY DEF Init, FlipInv, FlipsOnce
<1>2. FlipInv /\ [Next]_vars => FlipInv'
  <2> SUFFICES ASSUME FlipInv, [Next]_vars PROVE FlipInv' OBVIOUS
  <2>1. CASE UNCHANGED <<degraded, holds>> BY <2>1 DEF FlipInv, FlipsOnce
  <2>2. ASSUME NEW l, Flip(l) PROVE FlipInv'
    <3>1. degraded' = TRUE /\ holds' = IF degraded THEN holds ELSE holds + 1
      BY <2>2 DEF Flip
    <3> QED BY <3>1 DEF FlipInv, FlipsOnce
  <2> QED BY <2>1, <2>2, OnlyDryFlips
<1>3. FlipInv => FlipsOnce BY DEF FlipInv
<1> QED BY <1>1, <1>2, <1>3, PTL DEF Spec

-----------------------------------------------------------------------------
(* What an approval rests on                                               *)

Begun(group, roles) == \A r \in roles : LaneId(group, r, FALSE) \in DOMAIN lanes
Whole(group, roles) == \A r \in roles : At(LaneId(group, r, FALSE), "done")
Checked(group) == \A l \in Of(group) : lanes[l].at \in {"done", "dropped"}
ThreadOver == ThreadLane \in DOMAIN lanes => lanes[ThreadLane].at \in {"done", "failed", "stopped"}

\* How a lane may stand: a shard is dropped or left unchecked, a primary lane only fails or is
\* stopped, unless its phase was lost before it began.
Fits(l, at) ==
  /\ l.group \in VerifyGroups =>
       /\ ~l.twin /\ l.role \in Nat
       /\ at \in Live \cup {"done", "cancelled", "unchecked", "dropped"}
  /\ l = ThreadLane => at \in Live \cup Errors \cup {"done"}
  /\ l.group \in ReviewGroups /\ ~l.twin =>
       at \in Live \cup Errors \cup {"done"} \/ (at = "gone" /\ l.group \in signals)
Standing == \A l \in DOMAIN lanes : Fits(l, lanes[l].at)

\* A phase that is lost has an error to show for it.
LostPhases ==
  /\ signals \subseteq ReviewGroups \cup {"abort", "grace"}
  /\ \A g \in ReviewGroups : g \in signals => Failing(g) # {}

\* Off the stand-ins, a primary lane of the final phases has run on the final model only.
Primary(l) == l.group \in {"phase2", "fresh"} /\ ~l.twin
OnFinal ==
  ~degraded =>
    \A l \in DOMAIN lanes : Primary(l) =>
      lanes[l].model = Final /\ (lanes[l].at = "queued" => lanes[l].lm = Final)

\* Phases that are still to come have no lanes.
BeforePhase2 == {"route", "phase1", "join1", "verify1", "gate"}
BeforeFresh == BeforePhase2 \cup {"phase2", "beside", "lost", "join2", "verify2", "confirm"}
Ahead ==
  /\ pc \in BeforePhase2 => Of("phase2") = {}
  /\ pc \in BeforeFresh => Of("fresh") = {}

\* What the worker has in hand where it is.
Decided == {"confirm", "fresh", "join3", "recheck", "publish"}
InHand ==
  /\ pc = "phase2" => Begun("phase2", Roles)
  /\ pc \in {"beside", "join2", "verify2"} \cup Decided => Whole("phase2", Roles)
  /\ pc \in {"verify2"} \cup Decided => ThreadOver
  /\ pc \in Decided => Checked("verify2")
  /\ pc = "fresh" => Begun("fresh", Confirmers)
  /\ pc \in {"join3", "recheck"} => Whole("fresh", Confirmers)
  /\ confirmation = "ran" => Whole("fresh", Confirmers) /\ Checked("recheck")
  /\ confirmation # None => pc \in {"publish", "stopping", "ended"}
  /\ pc = "publish" /\ plan.confirm => confirmation # None
  /\ plan.threads /\ pc # "route" => ThreadLane \in DOMAIN lanes
  /\ verdict # None => pc \in {"stopping", "ended"}

LanesHold == Standing /\ LostPhases /\ OnFinal
WorkerHolds == Ahead /\ InHand /\ ApprovalIsFull
FullInv == LanesHold /\ WorkerHolds

\* A set of natural numbers that is not empty has a least element.
LEMMA LeastNat ==
  ASSUME NEW T, T \subseteq Nat, T # {}
  PROVE  \E i \in T : \A j \in T : i <= j
<1>1. \E i \in T : \A j \in T : <<j, i>> \notin OpToRel(<, Nat)
  BY WFMin, NatLessThanWellFounded, Zenon
<1>2. PICK i \in T : \A j \in T : <<j, i>> \notin OpToRel(<, Nat)
  BY <1>1
<1>3. ASSUME NEW j \in T PROVE ~(j < i)
  BY <1>2, Zenon DEF OpToRel
<1> QED BY <1>3

\* A review phase that ended well has every role's answer ...
LEMMA PhaseOk ==
  ASSUME Standing, LostPhases, NEW g \in ReviewGroups, NEW roles, Begun(g, roles),
         PhaseOver(g), PhaseResult(g) = "ok"
  PROVE  Whole(g, roles)
<1>1. Failing(g) = {}
  <2> SUFFICES ASSUME NEW l \in Failing(g) PROVE FALSE OBVIOUS
  <2> DEFINE errors == {lanes[k].at : k \in Failing(g)}
  <2>1. lanes[l].at \in errors OBVIOUS
  <2>2. PhaseResult(g) = IF "cancelled" \in errors THEN "cancelled"
                        ELSE IF "failed" \in errors THEN "failed"
                        ELSE IF errors # {} THEN "stopped" ELSE "ok"
    BY DEF PhaseResult
  <2> HIDE DEF errors
  <2> QED BY <2>1, <2>2
<1>2. g \notin signals BY <1>1 DEF LostPhases
<1> SUFFICES ASSUME NEW r \in roles PROVE At(LaneId(g, r, FALSE), "done") BY DEF Whole
<1> DEFINE l == LaneId(g, r, FALSE)
<1>3. l \in DOMAIN lanes /\ l.group = g /\ l.twin = FALSE BY DEF Begun, LaneId
<1>4. l \in Of(g) BY <1>3 DEF Of
<1>5. lanes[l].at \notin Live /\ lanes[l].at \notin Errors
  BY <1>1, <1>4 DEF PhaseOver, Failing
<1>6. lanes[l].at \in Live \cup Errors \cup {"done"} BY <1>2, <1>3 DEF Standing, Fits
<1> HIDE DEF l
<1>7. At(l, "done") BY <1>3, <1>5, <1>6 DEF At
<1> QED BY <1>7 DEF l

\* ... and a verification its shards', but for the dropped ones.
LEMMA VerifyOk ==
  ASSUME Standing, NEW g \in VerifyGroups, VerifyOver(g), VerifyResult(g) = "ok"
  PROVE  Checked(g)
<1> DEFINE errors == {l \in Of(g) : lanes[l].at \in {"cancelled", "unchecked"}}
           least(l) == \A k \in errors : l.role <= k.role
           first == CHOOSE l \in errors : least(l)
<1>1. \A l \in errors : l.role \in Nat
  BY DEF Standing, Fits, Of
<1>2. errors = {}
  <2> SUFFICES ASSUME errors # {} PROVE FALSE OBVIOUS
  <2> DEFINE T == {l.role : l \in errors}
  <2>1. PICK i \in T : \A j \in T : i <= j BY <1>1, LeastNat
  <2>2. \E l \in errors : least(l) BY <2>1
  <2>3. first \in errors BY <2>2
  <2>4. VerifyResult(g) = lanes[first].at BY DEF VerifyResult
  <2> QED BY <2>3, <2>4
<1>3. ASSUME NEW l \in Of(g) PROVE lanes[l].at \in {"done", "dropped"}
  <2>1. lanes[l].at \notin Live BY DEF VerifyOver
  <2>2. lanes[l].at \notin {"cancelled", "unchecked"} BY <1>2
  <2>3. lanes[l].at \in Live \cup {"done", "cancelled", "unchecked", "dropped"}
    BY DEF Standing, Fits, Of
  <2> QED BY <2>1, <2>2, <2>3
<1> QED BY <1>3 DEF Checked

\* The worker's own thread counts on settled lanes only: they stay as they are, and nobody's
\* thread adds or takes away a lane.
Settled == \A l \in DOMAIN lanes : lanes[l].at \notin Live => lanes'[l] = lanes[l]
LEMMA SettledKept ==
  ASSUME WorkerHolds, DOMAIN lanes' = DOMAIN lanes, Settled,
         UNCHANGED <<plan, pc, confirmation, verdict>>
  PROVE  WorkerHolds'
<1> USE DEF WorkerHolds
<1>1. \A g : Of(g)' = Of(g) BY DEF Of
<1>2. \A l : At(l, "done") => At(l, "done")' /\ lanes'[l] = lanes[l]
  BY DEF At, Settled, Live
<1>3. \A g, roles : Begun(g, roles) => Begun(g, roles)' BY DEF Begun, LaneId
<1>4. ASSUME NEW g, NEW roles, Whole(g, roles) PROVE Whole(g, roles)'
  BY <1>2, <1>4 DEF Whole, LaneId
<1>5. ASSUME NEW g, Checked(g) PROVE Checked(g)'
  BY <1>1, <1>5 DEF Checked, Of, Settled, Live
<1>6. ThreadOver => ThreadOver' BY DEF ThreadOver, Settled, Live, ThreadLane, LaneId
<1>7. Ahead' BY <1>1 DEF Ahead
<1>8. (ThreadLane \in DOMAIN lanes) = (ThreadLane \in DOMAIN lanes)' BY DEF ThreadLane, LaneId
<1>9. InHand' BY <1>3, <1>4, <1>5, <1>6, <1>8 DEF InHand
<1>10. ApprovalIsFull'
  <2> SUFFICES ASSUME verdict = "APPROVE"
               PROVE  /\ Answered("phase2", Roles)' /\ AllVerified("verify2")'
                      /\ plan.confirm => Answered("fresh", Confirmers)' /\ AllVerified("recheck")'
                      /\ plan.threads => At(ThreadLane, "done")'
    BY DEF ApprovalIsFull
  <2>1. ASSUME NEW g, NEW roles, Answered(g, roles) PROVE Answered(g, roles)'
    BY <1>2, <2>1 DEF Answered, LaneId
  <2>2. ASSUME NEW g, AllVerified(g) PROVE AllVerified(g)'
    BY <1>1, <2>2 DEF AllVerified, Of, Settled, Live
  <2>3. At(ThreadLane, "done") => At(ThreadLane, "done")' BY <1>2 DEF ThreadLane, LaneId
  <2> QED BY <2>1, <2>2, <2>3 DEF ApprovalIsFull
<1> QED BY <1>7, <1>9, <1>10

\* A step of one lane's thread or model: it stays in place or leaves as its kind may, and off
\* the stand-ins a primary lane keeps to the final model.
Steps(l, r) ==
  /\ lanes[l].at \in Live /\ lanes' = [lanes EXCEPT ![l] = r]
  /\ Fits(l, r.at) /\ r.at # "queued"
  /\ degraded => degraded'
  /\ ~degraded' /\ Primary(l) => r.model = Final

LEMMA StepsSafe ==
  ASSUME LaneTypes, FullInv, NEW l \in DOMAIN lanes, NEW r, Steps(l, r),
         UNCHANGED <<plan, pc, signals, confirmation, verdict>>
  PROVE  FullInv'
<1> USE DEF FullInv, LanesHold
<1>1. /\ DOMAIN lanes' = DOMAIN lanes /\ lanes'[l] = r
      /\ \A k \in DOMAIN lanes : k # l => lanes'[k] = lanes[k]
  BY DEF LaneTypes, Steps
<1>2. Settled BY <1>1 DEF Settled, Steps
<1>3. WorkerHolds' BY <1>1, <1>2, SettledKept
<1>4. Standing'
  BY <1>1 DEF Standing, Steps, Fits, ThreadLane, LaneId
<1>5. LostPhases'
  <2> SUFFICES ASSUME NEW g \in ReviewGroups, g \in signals PROVE Failing(g)' # {}
    BY DEF LostPhases
  <2>1. PICK k \in Failing(g) : TRUE BY DEF LostPhases
  <2>2. k \in DOMAIN lanes /\ k.group = g /\ lanes[k].at \in Errors BY DEF Failing, Of
  <2>3. lanes'[k] = lanes[k] BY <1>2, <2>2 DEF Settled, Live, Errors
  <2>4. k \in Failing(g)' BY <1>1, <2>2, <2>3 DEF Failing, Of
  <2> QED BY <2>4
<1>6. OnFinal'
  <2> SUFFICES ASSUME ~degraded', NEW k \in DOMAIN lanes, Primary(k)
               PROVE  lanes'[k].model = Final /\ (lanes'[k].at = "queued" => lanes'[k].lm = Final)
    BY <1>1 DEF OnFinal, Primary
  <2>1. ~degraded BY DEF Steps
  <2>2. CASE k = l BY <1>1, <2>2 DEF Steps
  <2>3. CASE k # l BY <1>1, <2>1, <2>3 DEF OnFinal
  <2> QED BY <2>2, <2>3
<1> QED BY <1>3, <1>4, <1>5, <1>6

\* How a lane leaves on a stop, on an error, and well.
LEMMA LeavesFit ==
  ASSUME Standing, LostPhases, NEW l \in DOMAIN lanes, lanes[l].at \in Live
  PROVE  /\ Fits(l, "done") /\ \A at \in Live : Fits(l, at)
         /\ Stopped(l) => Fits(l, Raised(l, StopError))
         /\ l.group \notin VerifyGroups => Fits(l, Raised(l, "failed"))
<1>0. Fits(l, lanes[l].at) BY DEF Standing
<1>1. Fits(l, "done") /\ \A at \in Live : Fits(l, at)
  BY <1>0 DEF Fits
<1>2. ASSUME l.group \notin VerifyGroups, NEW error \in Errors PROVE Fits(l, Raised(l, error))
  <2>1. ~l.twin => Raised(l, error) = error BY DEF Raised
  <2>2. l = ThreadLane => ~l.twin BY DEF ThreadLane, LaneId
  <2> QED BY <1>2, <2>1, <2>2 DEF Fits
<1>3. ASSUME Stopped(l), l.group \in VerifyGroups PROVE Fits(l, Raised(l, StopError))
  <2>1. l.group \notin signals /\ l.group # "phase1" /\ ~l.twin /\ l # ThreadLane
    BY <1>0, <1>3 DEF LostPhases, VerifyGroups, ReviewGroups, Fits, ThreadLane, LaneId
  <2>2. cancel BY <1>3, <2>1 DEF Stopped
  <2>3. Raised(l, StopError) = "cancelled" BY <2>1, <2>2 DEF Raised, StopError
  <2> QED BY <1>0, <1>3, <2>1, <2>3 DEF Fits, VerifyGroups, ReviewGroups
<1>4. StopError \in Errors /\ "failed" \in Errors BY DEF StopError, Errors
<1> QED BY <1>1, <1>2, <1>3, <1>4

LEMMA LeavesSafe ==
  ASSUME LaneTypes, FullInv, NEW l \in DOMAIN lanes, lanes[l].at \in Live,
         NEW where, Fits(l, where), where # "queued", Leaves(l, where) \/ Goes(l, where),
         UNCHANGED <<plan, pc, signals, confirmation, verdict>>, degraded' = degraded
  PROVE  FullInv'
<1>1. lanes[l] \in LaneRec BY DEF LaneTypes
<1>2. PICK r : /\ lanes' = [lanes EXCEPT ![l] = r]
              /\ r.at = where /\ r.model = lanes[l].model
  <2> DEFINE a == [lanes[l] EXCEPT !.at = where]
             b == [lanes[l] EXCEPT !.at = where, !.lm = None, !.n = 0, !.budget = 0]
  <2>1. /\ a.at = where /\ a.model = lanes[l].model
        /\ b.at = where /\ b.model = lanes[l].model
    BY <1>1 DEF LaneRec
  <2>2. CASE Leaves(l, where)
    <3>1. lanes' = [lanes EXCEPT ![l] = b] BY <2>2 DEF Leaves
    <3> HIDE DEF a, b
    <3> QED BY <2>1, <3>1
  <2>3. CASE Goes(l, where)
    <3>1. lanes' = [lanes EXCEPT ![l] = a] BY <2>3 DEF Goes
    <3> HIDE DEF a, b
    <3> QED BY <2>1, <3>1
  <2> QED BY <2>2, <2>3
<1>3. ~degraded' /\ Primary(l) => r.model = Final
  BY <1>2 DEF FullInv, LanesHold, OnFinal
<1>4. Steps(l, r) BY <1>2, <1>3 DEF Steps
<1> QED BY <1>4, StepsSafe

LEMMA LoopSafe ==
  ASSUME LanesInv, FullInv, NEW l, Loop(l)
  PROVE  FullInv'
<1> USE DEF LanesInv, FullInv, LanesHold
<1>0. UNCHANGED <<plan, pc, signals, confirmation, verdict>> /\ degraded' = degraded
  BY DEF Loop, setup, mode, ending
<1>1. l \in DOMAIN lanes /\ lanes[l].at \in Live /\ Now(l) \in LaneRec
  BY Starting DEF Loop, StopsAtTop, RefusesStandin, LeftBehind, Attempt, Tries
<1>2. /\ lanes[l].at = "queued" => Now(l).model = Now(l).lm
      /\ l.group # "phase1" /\ lanes[l].at = "queued" => Now(l).lm = lanes[l].lm
      /\ lanes[l].at # "queued" => Now(l) = lanes[l]
  BY DEF Now, Thread0, Lane
<1>3. ~degraded /\ Primary(l) => Now(l).model = Final /\ lanes[l].model = Final
  BY <1>1, <1>2 DEF OnFinal, Primary
<1>4. CASE StopsAtTop(l)
  <2>1. Fits(l, Raised(l, StopError)) BY <1>1, <1>4, LeavesFit DEF StopsAtTop
  <2>2. Raised(l, StopError) # "queued" BY DEF Raised, StopError
  <2>3. Leaves(l, Raised(l, StopError)) BY <1>4 DEF StopsAtTop
  <2> QED BY <1>0, <1>1, <1>3, <2>1, <2>2, <2>3, LeavesSafe
<1>5. CASE RefusesStandin(l)
  <2>1. l.twin /\ Leaves(l, Raised(l, "failed")) BY <1>5 DEF RefusesStandin
  <2>2. l.group \notin VerifyGroups BY <1>1, <2>1 DEF Standing, Fits
  <2>3. Fits(l, Raised(l, "failed")) BY <1>1, <2>2, LeavesFit
  <2>4. Raised(l, "failed") # "queued" /\ ~Primary(l) BY <2>1 DEF Raised, Primary
  <2> QED BY <1>0, <1>1, <2>1, <2>3, <2>4, LeavesSafe
<1>6. CASE LeftBehind(l)
  <2> DEFINE r == [Now(l) EXCEPT !.at = "dead"]
  <2>1. lanes' = [lanes EXCEPT ![l] = r] /\ ~Primary(l)
    BY <1>6 DEF LeftBehind, OnRung, Primary
  <2>2. r.at = "dead" BY <1>1 DEF LaneRec
  <2> HIDE DEF r
  <2>3. Fits(l, r.at) BY <1>1, <2>2, LeavesFit DEF Live
  <2>4. Steps(l, r) BY <1>0, <1>1, <2>1, <2>2, <2>3 DEF Steps
  <2> QED BY <1>0, <1>1, <2>4, StepsSafe
<1>7. CASE Attempt(l)
  <2> DEFINE r == [Now(l) EXCEPT !.at = "running", !.model = NextModel(l), !.n = @ + 1]
  <2>1. lanes' = [lanes EXCEPT ![l] = r] BY <1>7 DEF Attempt
  <2>2. r.at = "running" /\ r.model = NextModel(l) BY <1>1 DEF LaneRec
  <2> HIDE DEF r
  <2>3. ~degraded' /\ Primary(l) => r.model = Final
    BY <1>0, <1>3, <2>2 DEF NextModel, Resolve, Primary
  <2>4. Fits(l, r.at) BY <1>1, <2>2, LeavesFit DEF Live
  <2>5. Steps(l, r) BY <1>0, <1>1, <2>1, <2>2, <2>3, <2>4 DEF Steps
  <2> QED BY <1>0, <1>1, <2>5, StepsSafe
<1> QED BY <1>4, <1>5, <1>6, <1>7 DEF Loop

LEMMA SessionSafe ==
  ASSUME LanesInv, FullInv, NEW l, Answers(l) \/ IsStopped(l) \/ RunsDry(l) \/ Fails(l)
  PROVE  FullInv'
<1> USE DEF LanesInv, FullInv, LanesHold
<1>0. UNCHANGED <<plan, pc, signals, confirmation, verdict>>
  BY DEF Answers, IsStopped, RunsDry, Fails, setup, ending
<1>1. l \in DOMAIN lanes /\ lanes[l].at = "running" /\ lanes[l].at \in Live
      /\ lanes[l] \in LaneRec
  BY DEF Answers, IsStopped, RunsDry, Fails, Fault, At, Live, LaneTypes
<1>2. CASE Answers(l)
  <2>1. Leaves(l, "done") /\ degraded' = degraded BY <1>2 DEF Answers, mode
  <2>2. Fits(l, "done") BY <1>1, LeavesFit
  <2> QED BY <1>0, <1>1, <2>1, <2>2, LeavesSafe
<1>3. CASE IsStopped(l)
  <2>1. Leaves(l, Raised(l, StopError)) /\ degraded' = degraded /\ Stopped(l)
    BY <1>3 DEF IsStopped, mode
  <2>2. Fits(l, Raised(l, StopError)) BY <1>1, <2>1, LeavesFit
  <2>3. Raised(l, StopError) # "queued" BY DEF Raised, StopError
  <2> QED BY <1>0, <1>1, <2>1, <2>2, <2>3, LeavesSafe
<1>4. CASE RunsDry(l)
  <2> DEFINE r == [lanes[l] EXCEPT !.at = "top", !.model = Standin[lanes[l].model],
                                   !.budget = lanes[l].n + 2]
  <2>1. lanes' = [lanes EXCEPT ![l] = r] /\ degraded' = TRUE BY <1>4 DEF RunsDry, Flip
  <2>2. r.at = "top" BY <1>1 DEF LaneRec
  <2> HIDE DEF r
  <2>3. Fits(l, r.at) BY <1>1, <2>2, LeavesFit DEF Live
  <2>4. Steps(l, r) BY <1>1, <2>1, <2>2, <2>3 DEF Steps
  <2> QED BY <1>0, <1>1, <2>4, StepsSafe
<1>5. CASE Fails(l)
  <2> DEFINE where == IF lanes[l].n < lanes[l].budget THEN "top" ELSE "dead"
  <2>1. Goes(l, where) /\ degraded' = degraded BY <1>5 DEF Fails, mode
  <2>2. where \in Live /\ where # "queued" BY DEF Live
  <2> HIDE DEF where
  <2>3. Fits(l, where) BY <1>1, <2>2, LeavesFit
  <2> QED BY <1>0, <1>1, <2>1, <2>2, <2>3, LeavesSafe
<1> QED BY <1>2, <1>3, <1>4, <1>5

LEMMA DeadSafe ==
  ASSUME LanesInv, FullInv, NEW l, Dead(l)
  PROVE  FullInv'
<1> USE DEF LanesInv, FullInv, LanesHold
<1>0. UNCHANGED <<plan, pc, signals, confirmation, verdict>> /\ degraded' = degraded
  BY DEF Dead, setup, mode, ending
<1>1. l \in DOMAIN lanes /\ lanes[l].at = "dead" /\ lanes[l].at \in Live /\ lanes[l] \in LaneRec
  BY DEF Dead, DiesStopped, Follows, Falls, Dies, ShardDies, ThreadLaneDies, At, Live, LaneTypes
<1>2. CASE DiesStopped(l)
  <2>1. Leaves(l, Raised(l, StopError)) /\ Stopped(l) BY <1>2 DEF DiesStopped
  <2>2. Fits(l, Raised(l, StopError)) BY <1>1, <2>1, LeavesFit
  <2>3. Raised(l, StopError) # "queued" BY DEF Raised, StopError
  <2> QED BY <1>0, <1>1, <2>1, <2>2, <2>3, LeavesSafe
<1>3. CASE Dies(l)
  <2>1. Leaves(l, Raised(l, "failed")) /\ l.group \notin VerifyGroups
    BY <1>3 DEF Dies, ReviewGroups, VerifyGroups
  <2>2. Fits(l, Raised(l, "failed")) BY <1>1, <2>1, LeavesFit
  <2>3. Raised(l, "failed") # "queued" BY DEF Raised
  <2> QED BY <1>0, <1>1, <2>1, <2>2, <2>3, LeavesSafe
<1>4. CASE Follows(l) \/ Falls(l)
  <2>1. PICK lm : lanes' = [lanes EXCEPT ![l] = Lane("top", lm, 0, 2)] /\ ~Primary(l)
    BY <1>4 DEF Follows, Falls, Restarts, Primary
  <2>2. Lane("top", lm, 0, 2).at = "top" BY DEF Lane
  <2>3. Fits(l, "top") BY <1>1, LeavesFit DEF Live
  <2>4. Steps(l, Lane("top", lm, 0, 2)) BY <1>0, <1>1, <2>1, <2>2, <2>3 DEF Steps
  <2> QED BY <1>0, <1>1, <2>4, StepsSafe
<1>5. CASE ShardDies(l)
  <2>1. PICK how \in {"cancelled", "unchecked", "dropped"} : Leaves(l, how)
    BY <1>5 DEF ShardDies
  <2>2. l.group \in VerifyGroups BY <1>5 DEF ShardDies
  <2>3. Fits(l, how)
    BY <1>1, <2>2 DEF Standing, Fits, VerifyGroups, ReviewGroups, ThreadLane, LaneId
  <2> QED BY <1>0, <1>1, <2>1, <2>3, LeavesSafe
<1>6. CASE ThreadLaneDies(l)
  <2>1. Leaves(l, "failed") /\ l = ThreadLane BY <1>6 DEF ThreadLaneDies
  <2>2. Fits(l, "failed")
    BY <2>1 DEF Fits, VerifyGroups, ReviewGroups, ThreadLane, LaneId, Errors
  <2> QED BY <1>0, <1>1, <2>1, <2>2, LeavesSafe
<1> QED BY <1>2, <1>3, <1>4, <1>5, <1>6 DEF Dead

LEMMA AbandonSafe ==
  ASSUME LanesInv, FullInv, NEW g \in ReviewGroups, Abandon(g)
  PROVE  FullInv'
<1> USE DEF LanesInv, FullInv, LanesHold
<1>0. UNCHANGED <<plan, pc, degraded, confirmation, verdict>> /\ signals' = signals \cup {g}
  BY DEF Abandon, setup, mode, ending
<1>1. /\ DOMAIN lanes' = DOMAIN lanes
      /\ \A l \in DOMAIN lanes :
           \/ lanes'[l] = lanes[l]
           \/ /\ l.group = g /\ lanes[l].at = "queued"
              /\ lanes'[l] = [lanes[l] EXCEPT !.at = "gone"]
  BY DEF Abandon
<1>2. ASSUME NEW l \in DOMAIN lanes, lanes'[l] # lanes[l]
      PROVE  /\ l.group = g /\ lanes[l].at = "queued"
             /\ lanes'[l].at = "gone" /\ lanes'[l].model = lanes[l].model
  <2>1. lanes[l] \in LaneRec BY DEF LaneTypes
  <2>2. lanes'[l] = [lanes[l] EXCEPT !.at = "gone"] /\ l.group = g /\ lanes[l].at = "queued"
    BY <1>1, <1>2
  <2> QED BY <2>1, <2>2 DEF LaneRec
<1>3. Settled BY <1>2 DEF Settled, Live
<1>4. WorkerHolds' BY <1>0, <1>1, <1>3, SettledKept
<1>5. Standing'
  <2> SUFFICES ASSUME NEW l \in DOMAIN lanes PROVE Fits(l, lanes[l].at)'
    BY <1>1 DEF Standing
  <2>1. Fits(l, lanes[l].at) BY DEF Standing
  <2>2. CASE lanes'[l] = lanes[l]
    BY <1>0, <2>1, <2>2 DEF Fits, ThreadLane, LaneId
  <2>3. CASE lanes'[l] # lanes[l]
    BY <1>0, <1>2, <2>3 DEF Fits, ThreadLane, LaneId, ReviewGroups, VerifyGroups
  <2> QED BY <2>2, <2>3
<1>6. LostPhases'
  <2>1. \A h : Failing(h) # {} => Failing(h)' # {}
    <3> SUFFICES ASSUME NEW h, NEW k \in Failing(h) PROVE k \in Failing(h)' OBVIOUS
    <3>1. k \in DOMAIN lanes /\ k.group = h /\ lanes[k].at \in Errors BY DEF Failing, Of
    <3>2. lanes'[k] = lanes[k] BY <1>3, <3>1 DEF Settled, Live, Errors
    <3> QED BY <1>1, <3>1, <3>2 DEF Failing, Of
  <2>2. Failing(g) # {} BY DEF Abandon
  <2> QED BY <1>0, <2>1, <2>2 DEF LostPhases
<1>7. OnFinal'
  BY <1>0, <1>1, <1>2 DEF OnFinal, Primary
<1> QED BY <1>4, <1>5, <1>6, <1>7

-----------------------------------------------------------------------------
(* The worker's own thread                                                *)

\* Where the worker starts no lane: what it has in hand is what its next place asks for.
LEMMA MoveSafe ==
  ASSUME FullInv, UNCHANGED <<plan, lanes, degraded>>,
         signals' \in {signals, signals \cup {"abort"}, signals \cup {"grace"}},
         InHand', ApprovalIsFull',
         pc' \in BeforePhase2 => pc \in BeforePhase2,
         pc' \in BeforeFresh => pc \in BeforeFresh
  PROVE  FullInv'
<1> USE DEF FullInv, LanesHold, WorkerHolds
<1>1. Standing'
  <2> SUFFICES ASSUME NEW l \in DOMAIN lanes PROVE Fits(l, lanes[l].at)' BY DEF Standing
  <2>1. Fits(l, lanes[l].at) BY DEF Standing
  <2>2. signals \subseteq signals' OBVIOUS
  <2> QED BY <2>1, <2>2 DEF Fits, ThreadLane, LaneId
<1>2. LostPhases' BY DEF LostPhases, Failing, Of, ReviewGroups
<1>3. OnFinal' BY DEF OnFinal, Primary
<1>4. Ahead' BY DEF Ahead, Of
<1> QED BY <1>1, <1>2, <1>3, <1>4

\* Where it starts the lanes of phases or of a verification: the others stay as they are.
Others(G) ==
  /\ DOMAIN lanes \subseteq DOMAIN lanes'
  /\ \A l \in DOMAIN lanes' :
       (l \in DOMAIN lanes /\ lanes'[l] = lanes[l]) \/ l.group \in G
  /\ \A l \in DOMAIN lanes : l.group \notin G => lanes'[l] = lanes[l]

LEMMA AddedOthers ==
  ASSUME NEW new, NEW G, \A l \in DOMAIN new : l.group \in G, Added(new)
  PROVE  /\ Others(G)
         /\ \A l \in DOMAIN lanes' :
              \/ l \in DOMAIN lanes /\ lanes'[l] = lanes[l]
              \/ l \in DOMAIN new /\ lanes'[l] = new[l]
         /\ DOMAIN lanes' = DOMAIN new \cup DOMAIN lanes
<1>1. /\ DOMAIN lanes' = DOMAIN new \cup DOMAIN lanes
      /\ \A l \in DOMAIN new \cup DOMAIN lanes :
           lanes'[l] = IF l \in DOMAIN new THEN new[l] ELSE lanes[l]
  BY DEF Added
<1> QED BY <1>1 DEF Others

\* What holds of lanes of other groups is not touched.
LEMMA OthersKeep ==
  ASSUME NEW G, Others(G)
  PROVE  /\ \A g : g \notin G => Of(g)' = Of(g) /\ (Checked(g) => Checked(g)')
                                /\ (Failing(g) # {} => Failing(g)' # {})
         /\ \A g, roles : g \notin G /\ Whole(g, roles) => Whole(g, roles)'
         /\ "threads" \notin G =>
              /\ (ThreadLane \in DOMAIN lanes) = (ThreadLane \in DOMAIN lanes)'
              /\ ThreadOver => ThreadOver'
<1>1. \A g : g \notin G => Of(g)' = Of(g) /\ \A l \in Of(g) : l \in DOMAIN lanes /\ lanes'[l] = lanes[l]
  BY DEF Others, Of
<1>2. \A g : g \notin G /\ Checked(g) => Checked(g)' BY <1>1 DEF Checked
<1>3. \A g : g \notin G /\ Failing(g) # {} => Failing(g)' # {} BY <1>1 DEF Failing
<1>4. ASSUME NEW g, NEW roles, g \notin G, Whole(g, roles) PROVE Whole(g, roles)'
  <2> SUFFICES ASSUME NEW r \in roles PROVE At(LaneId(g, r, FALSE), "done")'
    BY DEF Whole, LaneId
  <2> DEFINE l == LaneId(g, r, FALSE)
  <2>1. l \in DOMAIN lanes /\ lanes[l].at = "done" BY <1>4 DEF Whole, At
  <2>2. l.group = g BY DEF LaneId
  <2>3. l \in DOMAIN lanes' /\ lanes'[l] = lanes[l] BY <1>4, <2>1, <2>2 DEF Others
  <2>4. At(l, "done")'
    <3>1. l' = l BY DEF LaneId
    <3> HIDE DEF l
    <3> QED BY <2>1, <2>3, <3>1 DEF At
  <2> QED BY <2>4
<1>5. ASSUME "threads" \notin G
      PROVE  /\ (ThreadLane \in DOMAIN lanes) = (ThreadLane \in DOMAIN lanes)'
             /\ ThreadOver => ThreadOver'
  <2>1. ThreadLane.group = "threads" /\ ThreadLane' = ThreadLane BY DEF ThreadLane, LaneId
  <2>2. (ThreadLane \in DOMAIN lanes) = (ThreadLane \in DOMAIN lanes)'
    BY <1>5, <2>1 DEF Others
  <2>3. ThreadLane \in DOMAIN lanes => lanes'[ThreadLane] = lanes[ThreadLane]
    BY <1>5, <2>1 DEF Others
  <2> QED BY <2>1, <2>2, <2>3 DEF ThreadOver
<1> QED BY <1>1, <1>2, <1>3, <1>4, <1>5

LEMMA AddedHold ==
  ASSUME LanesHold, NEW new, NEW G, \A l \in DOMAIN new : l.group \in G, Added(new),
         UNCHANGED <<degraded, signals>>, \A g \in ReviewGroups \cap G : Of(g) = {},
         \A l \in DOMAIN new :
           /\ Fits(l, new[l].at)
           /\ ~degraded /\ Primary(l) => new[l].model = Final /\ new[l].lm = Final
  PROVE  LanesHold'
<1> USE DEF LanesHold
<1>1. /\ Others(G)
      /\ \A l \in DOMAIN lanes' :
           \/ l \in DOMAIN lanes /\ lanes'[l] = lanes[l]
           \/ l \in DOMAIN new /\ lanes'[l] = new[l]
  BY AddedOthers
<1>2. Standing'
  <2> SUFFICES ASSUME NEW l \in DOMAIN lanes' PROVE Fits(l, lanes[l].at)' BY DEF Standing
  <2>1. Fits(l, lanes'[l].at) BY <1>1 DEF Standing
  <2> QED BY <2>1 DEF Fits, ThreadLane, LaneId
<1>3. LostPhases'
  <2> SUFFICES ASSUME NEW g \in ReviewGroups, g \in signals PROVE Failing(g)' # {}
    BY DEF LostPhases
  <2>1. Failing(g) # {} BY DEF LostPhases
  <2>2. g \notin G BY <2>1 DEF Failing
  <2> QED BY <1>1, <2>1, <2>2, OthersKeep
<1>4. OnFinal' BY <1>1 DEF OnFinal, Primary
<1> QED BY <1>2, <1>3, <1>4

RolesOf(g) == IF g = "fresh" THEN Confirmers ELSE Roles
LEMMA PhaseLanes ==
  ASSUME NEW g
  PROVE  /\ \A l \in ReviewLanes(g) : l.group = g
         /\ \A r \in RolesOf(g) : LaneId(g, r, FALSE) \in ReviewLanes(g)
<1> DEFINE kinds == IF plan.twins /\ g = "phase2" THEN BOOLEAN ELSE {FALSE}
<1>1. ReviewLanes(g) = {LaneId(g, r, t) : r \in RolesOf(g), t \in kinds}
  BY DEF ReviewLanes, RolesOf
<1>2. FALSE \in kinds OBVIOUS
<1> HIDE DEF kinds
<1>3. \A l : l \in ReviewLanes(g) <=> \E r \in RolesOf(g), t \in kinds : l = LaneId(g, r, t)
  BY <1>1 DEF LaneId
<1>4. ASSUME NEW r \in RolesOf(g) PROVE LaneId(g, r, FALSE) \in ReviewLanes(g)
  BY <1>2, <1>3, Zenon
<1>5. ASSUME NEW l \in ReviewLanes(g) PROVE l.group = g
  <2>1. PICK r \in RolesOf(g), t \in kinds : l = LaneId(g, r, t) BY <1>3
  <2> QED BY <2>1 DEF LaneId
<1> QED BY <1>4, <1>5

\* The phases that start have all their lanes; the thread lane starts with the first.
LEMMA StartHolds ==
  ASSUME LanesHold, NEW groups, groups \subseteq ReviewGroups, Start(groups),
         UNCHANGED <<degraded, signals>>, \A g \in groups : Of(g) = {}
  PROVE  /\ LanesHold'
         /\ pc # "route" => Others(groups)
         /\ pc = "route" => Others(groups \cup {"threads"})
         /\ \A g \in groups : Begun(g, RolesOf(g))'
         /\ pc = "route" /\ plan.threads => ThreadLane \in DOMAIN lanes'
<1> DEFINE beside == IF pc = "route" /\ plan.threads THEN {ThreadLane} ELSE {}
           ids == beside \cup UNION {ReviewLanes(g) : g \in groups}
           new == [l \in ids |-> Lane("queued", PhaseLm(l), 0, 0)]
           G == groups \cup (IF pc = "route" THEN {"threads"} ELSE {})
<1>1. Added(new) BY DEF Start
<1>2. DOMAIN new = ids OBVIOUS
<1>0. ASSUME NEW g \in groups
      PROVE  /\ \A l \in ReviewLanes(g) : l.group = g /\ l \in ids
             /\ \A r \in RolesOf(g) : LaneId(g, r, FALSE) \in ids
  <2>1. \A l \in ReviewLanes(g) : l \in UNION {ReviewLanes(h) : h \in groups} BY Zenon
  <2> QED BY <2>1, PhaseLanes, Zenon
<1>3. ASSUME NEW l \in ids PROVE l.group \in groups \/ (l = ThreadLane /\ pc = "route")
  <2>1. (l = ThreadLane /\ pc = "route") \/ \E g \in groups : l \in ReviewLanes(g)
    BY Zenon
  <2> QED BY <1>0, <2>1
<1>4. \A l \in ids : l.group \in G BY <1>3 DEF ThreadLane, LaneId
<1>5. ASSUME NEW l \in ids
      PROVE  /\ Fits(l, new[l].at)
             /\ ~degraded /\ Primary(l) => new[l].model = Final /\ new[l].lm = Final
  <2>1. /\ new[l].at = "queued" /\ new[l].model = PhaseLm(l) /\ new[l].lm = PhaseLm(l)
    BY DEF Lane
  <2>2. l.group \notin VerifyGroups
    BY <1>3 DEF ThreadLane, LaneId, ReviewGroups, VerifyGroups
  <2>3. Fits(l, "queued") BY <2>2 DEF Fits, Live
  <2>4. ~degraded /\ Primary(l) => PhaseLm(l) = Final BY DEF PhaseLm, Primary, Resolve
  <2> HIDE DEF new
  <2> QED BY <2>1, <2>3, <2>4
<1>6. \A g \in ReviewGroups \cap G : Of(g) = {} BY DEF ReviewGroups
<1> HIDE DEF new, G
<1>7. LanesHold' BY <1>1, <1>2, <1>4, <1>5, <1>6, AddedHold
<1>8. Others(G) /\ ids \subseteq DOMAIN lanes' BY <1>1, <1>2, <1>4, AddedOthers
<1>9. ASSUME NEW g \in groups PROVE Begun(g, RolesOf(g))'
  <2>1. \A r \in RolesOf(g) : LaneId(g, r, FALSE) \in DOMAIN lanes'
    BY <1>0, <1>8, Zenon
  <2> QED BY <2>1 DEF Begun, LaneId, RolesOf
<1>10. (pc # "route" => G = groups) /\ (pc = "route" => G = groups \cup {"threads"})
  BY DEF G
<1>11. pc = "route" /\ plan.threads => ThreadLane \in ids OBVIOUS
<1> HIDE DEF ids
<1> QED BY <1>7, <1>8, <1>9, <1>10, <1>11

LEMMA StartVerifyHolds ==
  ASSUME LanesHold, NEW group \in VerifyGroups, StartVerify(group), UNCHANGED <<degraded, signals>>
  PROVE  LanesHold' /\ Others({group})
<1>1. PICK k \in 0..Shards :
        Added([l \in {LaneId(group, n, FALSE) : n \in 1..k} |-> Lane("queued", Resolve(Final), 0, 0)])
  BY DEF StartVerify
<1> DEFINE ids == {LaneId(group, n, FALSE) : n \in 1..k}
           new == [l \in ids |-> Lane("queued", Resolve(Final), 0, 0)]
<1>2. Added(new) /\ DOMAIN new = ids BY <1>1
<1>3. \A l \in ids : l.group = group /\ l.twin = FALSE /\ l.role \in Nat BY DEF LaneId
<1>4. ASSUME NEW l \in ids
      PROVE  /\ Fits(l, new[l].at)
             /\ ~degraded /\ Primary(l) => new[l].model = Final /\ new[l].lm = Final
  <2>1. new[l].at = "queued" BY DEF Lane
  <2>2. l.group \in VerifyGroups /\ ~l.twin /\ l.role \in Nat BY <1>3
  <2>3. ~Primary(l) BY <2>2 DEF Primary, VerifyGroups
  <2>4. l # ThreadLane BY <2>2 DEF VerifyGroups, ThreadLane, LaneId
  <2>5. Fits(l, "queued") BY <2>2, <2>4 DEF Fits, VerifyGroups, ReviewGroups, Live
  <2> HIDE DEF new
  <2> QED BY <2>1, <2>3, <2>5
<1>5. \A g \in ReviewGroups \cap {group} : Of(g) = {} BY DEF ReviewGroups, VerifyGroups
<1>6. \A l \in DOMAIN new : l.group \in {group} BY <1>2, <1>3
<1> HIDE DEF new, ids
<1>7. LanesHold' BY <1>2, <1>4, <1>5, <1>6, AddedHold
<1>8. Others({group}) BY <1>2, <1>6, AddedOthers
<1> QED BY <1>7, <1>8

\* Nothing moves with the lanes.
LEMMA LanesSame ==
  ASSUME UNCHANGED lanes
  PROVE  /\ \A g, roles : (Begun(g, roles) => Begun(g, roles)') /\ (Whole(g, roles) => Whole(g, roles)')
         /\ \A g : Checked(g) => Checked(g)'
         /\ ThreadOver => ThreadOver'
         /\ (ThreadLane \in DOMAIN lanes) = (ThreadLane \in DOMAIN lanes)'
<1>1. \A g, roles : Begun(g, roles) => Begun(g, roles)' BY DEF Begun, LaneId
<1>2. \A g, roles : Whole(g, roles) => Whole(g, roles)' BY DEF Whole, At, LaneId
<1>3. \A g : Checked(g) => Checked(g)' BY DEF Checked, Of
<1>4. ThreadOver => ThreadOver' BY DEF ThreadOver, ThreadLane, LaneId
<1>5. (ThreadLane \in DOMAIN lanes) = (ThreadLane \in DOMAIN lanes)' BY DEF ThreadLane, LaneId
<1> QED BY <1>1, <1>2, <1>3, <1>4, <1>5

\* The run has not published yet.
LEMMA NotYet ==
  ASSUME InHand, pc \notin {"stopping", "ended"}, verdict' = verdict
  PROVE  verdict = None /\ ApprovalIsFull' /\ (pc # "publish" => confirmation = None)
BY DEF InHand, ApprovalIsFull, None

\* The run stops without a review.
LEMMA StopSafe ==
  ASSUME FullInv, pc \notin {"route", "stopping", "ended"}, pc' = "stopping",
         UNCHANGED <<plan, lanes, degraded, confirmation, verdict>>,
         signals' \in {signals, signals \cup {"abort"}, signals \cup {"grace"}}
  PROVE  FullInv'
<1> USE DEF FullInv, WorkerHolds
<1>1. ApprovalIsFull' BY NotYet
<1>2. InHand' BY LanesSame DEF InHand, Decided
<1> QED BY <1>1, <1>2, MoveSafe DEF BeforePhase2, BeforeFresh

\* Phase 2 starts, for the first time.
LEMMA Phase2Starts ==
  ASSUME FullInv, pc \in BeforePhase2 \ {"route"}, pc' = "phase2", Start({"phase2"}),
         UNCHANGED <<plan, degraded, signals, confirmation, verdict>>
  PROVE  FullInv'
<1> USE DEF FullInv, WorkerHolds
<1>1. Of("phase2") = {} /\ Of("fresh") = {} BY DEF Ahead, BeforeFresh
<1>2. pc # "route" /\ pc \notin {"publish", "stopping", "ended"} BY DEF BeforePhase2
<1>3. /\ LanesHold' /\ Others({"phase2"})
      /\ \A g \in {"phase2"} : Begun(g, RolesOf(g))'
  BY <1>1, <1>2, StartHolds DEF ReviewGroups
<1>4. Begun("phase2", Roles)' BY <1>3 DEF RolesOf
<1>5. verdict = None /\ confirmation = None /\ ApprovalIsFull' BY <1>2, NotYet
<1>6. (ThreadLane \in DOMAIN lanes) = (ThreadLane \in DOMAIN lanes)' /\ Of("fresh")' = {}
  BY <1>1, <1>3, OthersKeep
<1>7. Ahead' BY <1>6 DEF Ahead, BeforePhase2
<1>8. InHand' BY <1>2, <1>4, <1>5, <1>6 DEF InHand, Decided, None
<1> QED BY <1>3, <1>5, <1>7, <1>8

LEMMA RouteSafe ==
  ASSUME LanesInv, FullInv, Route
  PROVE  FullInv'
<1> USE DEF FullInv, WorkerHolds
<1>0. /\ pc = "route" /\ DOMAIN lanes = {}
      /\ UNCHANGED <<plan, degraded, signals, confirmation, verdict>>
  BY DEF Route, LanesInv, Stages, setup, mode, ending
<1>1. \/ pc' = "phase1" /\ Start({"phase1"})
      \/ pc' = "phase2" /\ Start({"phase1", "phase2"})
      \/ pc' = "phase2" /\ Start({"phase2"})
  BY Zenon DEF Route
<1>2. \A g : Of(g) = {} BY <1>0 DEF Of
<1>3. verdict = None /\ confirmation = None /\ ApprovalIsFull' BY <1>0, NotYet
<1>4. ASSUME NEW groups, groups \subseteq {"phase1", "phase2"}, Start(groups),
             \/ pc' = "phase1" /\ groups = {"phase1"}
             \/ pc' = "phase2" /\ "phase2" \in groups
      PROVE  FullInv'
  <2>1. groups \subseteq ReviewGroups BY <1>4 DEF ReviewGroups
  <2>2. /\ LanesHold' /\ Others(groups \cup {"threads"})
        /\ \A g \in groups : Begun(g, RolesOf(g))'
        /\ plan.threads => ThreadLane \in DOMAIN lanes'
    BY <1>0, <1>2, <1>4, <2>1, StartHolds
  <2>3. pc' = "phase2" => Begun("phase2", Roles)'
    <3>1. ASSUME "phase2" \in groups PROVE Begun("phase2", RolesOf("phase2"))' BY <2>2, <3>1
    <3> QED BY <1>4, <3>1 DEF RolesOf
  <2>4. \A g : g \notin groups \cup {"threads"} => Of(g)' = {} BY <1>2, <2>2, OthersKeep
  <2>5. Ahead'
    <3>1. Of("fresh")' = {} BY <1>4, <2>4
    <3>2. pc' \in BeforePhase2' => Of("phase2")' = {} BY <1>4, <2>4 DEF BeforePhase2
    <3> QED BY <3>1, <3>2 DEF Ahead
  <2>6. (ThreadLane \in DOMAIN lanes)' = (ThreadLane \in DOMAIN lanes') BY DEF ThreadLane, LaneId
  <2>7. InHand' BY <1>0, <1>3, <1>4, <2>2, <2>3, <2>6 DEF InHand, Decided, None
  <2> QED BY <1>3, <2>2, <2>5, <2>7
<1> QED BY <1>1, <1>4

LEMMA Phase1Safe ==
  ASSUME FullInv, Phase1Ends \/ Verify1Ends
  PROVE  FullInv'
<1> USE DEF FullInv, WorkerHolds
<1>0. /\ pc \in {"phase1", "verify1"} /\ UNCHANGED <<plan, degraded, signals, confirmation>>
  BY DEF Phase1Ends, Verify1Ends, setup, mode
<1>1. /\ verdict' = verdict
      /\ \/ pc' \in {"join1", "gate", "stopping"} /\ lanes' = lanes
         \/ pc' = "phase2" /\ Start({"phase2"})
  <2>1. CASE Phase1Fails BY <2>1, Zenon DEF Phase1Fails, Finish, ending
  <2>2. CASE ~Phase1Fails BY <2>2, Zenon DEF Phase1Ends, Verify1Ends, Finish, ending
  <2> QED BY <2>1, <2>2
<1>2. CASE pc' = "phase2" /\ Start({"phase2"})
  BY <1>0, <1>1, <1>2, Phase2Starts DEF BeforePhase2
<1>3. CASE pc' = "stopping" /\ lanes' = lanes
  BY <1>0, <1>1, <1>3, StopSafe
<1>4. CASE pc' \in {"join1", "gate"} /\ lanes' = lanes
  <2>1. verdict = None /\ confirmation = None /\ ApprovalIsFull' BY <1>0, <1>1, NotYet
  <2>2. InHand' BY <1>0, <1>1, <1>4, <2>1, LanesSame DEF InHand, Decided, None
  <2> QED BY <1>0, <1>1, <1>4, <2>1, <2>2, MoveSafe DEF BeforePhase2, BeforeFresh
<1> QED BY <1>1, <1>2, <1>3, <1>4

\* A verification starts once the thread lane is through.
LEMMA VerifySafe ==
  ASSUME FullInv, Verify
  PROVE  FullInv'
<1> USE DEF FullInv, WorkerHolds
<1>0. /\ pc \in {"join1", "join2", "join3"}
      /\ ThreadLane \in DOMAIN lanes => lanes[ThreadLane].at \notin Live
      /\ UNCHANGED <<plan, degraded, signals, confirmation>>
  BY DEF Verify, Joins, setup, mode
<1>1. CASE At(ThreadLane, "cancelled")
  <2>1. pc' = "stopping" /\ lanes' = lanes /\ verdict' = verdict
    BY <1>1 DEF Verify, Finish
  <2> QED BY <1>0, <2>1, StopSafe
<1>2. CASE ~At(ThreadLane, "cancelled")
  <2> DEFINE group == Joins[pc]
  <2>1. pc' = group /\ StartVerify(group) /\ verdict' = verdict /\ group \in VerifyGroups
        /\ group = CASE pc = "join1" -> "verify1" [] pc = "join2" -> "verify2"
                     [] OTHER -> "recheck"
    BY <1>0, <1>2 DEF Verify, ending, Joins, VerifyGroups
  <2>2. LanesHold' /\ Others({group}) BY <1>0, <2>1, StartVerifyHolds
  <2>3. verdict = None /\ confirmation = None /\ ApprovalIsFull'
    BY <1>0, <2>1, NotYet
  <2>4. ThreadOver
    <3>1. ThreadLane \in DOMAIN lanes =>
            lanes[ThreadLane].at \in Errors \cup {"done"} /\ lanes[ThreadLane].at # "cancelled"
      BY <1>0, <1>2 DEF LanesHold, Standing, Fits, At
    <3> QED BY <3>1 DEF ThreadOver, Errors
  <2>5. group \notin {"phase2", "fresh", "threads"} BY <2>1 DEF VerifyGroups
  <2> HIDE DEF group
  <2>6. /\ ThreadOver' /\ (ThreadLane \in DOMAIN lanes) = (ThreadLane \in DOMAIN lanes)'
        /\ Of("phase2")' = Of("phase2") /\ Of("fresh")' = Of("fresh")
        /\ \A roles : /\ Whole("phase2", roles) => Whole("phase2", roles)'
                      /\ Whole("fresh", roles) => Whole("fresh", roles)'
        /\ group # "verify2" /\ Checked("verify2") => Checked("verify2")'
    BY <2>2, <2>4, <2>5, OthersKeep
  <2>7. Ahead' BY <1>0, <2>1, <2>6 DEF Ahead, BeforePhase2, BeforeFresh
  <2>8. InHand' BY <1>0, <2>1, <2>3, <2>6 DEF InHand, Decided, None
  <2> QED BY <2>2, <2>3, <2>7, <2>8
<1> QED BY <1>1, <1>2

\* The gate publishes at less than full strength, or lets Phase 2 start.
LEMMA GateSafe ==
  ASSUME FullInv, Gate
  PROVE  FullInv'
<1> USE DEF FullInv, WorkerHolds
<1>0. pc = "gate" /\ UNCHANGED <<plan, degraded, signals, confirmation>>
  BY DEF Gate, setup, mode
<1>1. \/ pc' = "phase2" /\ Start({"phase2"}) /\ verdict' = verdict
      \/ lanes' = lanes /\ pc' = "stopping" /\ verdict' = verdict
      \/ lanes' = lanes /\ \E found1 : Publishes(found1, FALSE)
  BY Zenon DEF Gate, Finish, ending
<1>2. CASE pc' = "phase2" /\ Start({"phase2"}) /\ verdict' = verdict
  BY <1>0, <1>2, Phase2Starts DEF BeforePhase2
<1>3. CASE lanes' = lanes /\ pc' = "stopping" /\ verdict' = verdict
  BY <1>0, <1>3, StopSafe
<1>4. CASE lanes' = lanes /\ \E found1 : Publishes(found1, FALSE)
  <2>1. PICK found1 : pc' = "stopping" /\ verdict' = Verdict(found1, FALSE)
    BY <1>4 DEF Publishes
  <2>2. verdict' # "APPROVE" BY <2>1 DEF Verdict
  <2>3. ApprovalIsFull' BY <2>2 DEF ApprovalIsFull
  <2>4. InHand' BY <1>0, <1>4, <2>1, LanesSame DEF InHand, Decided
  <2> QED BY <1>0, <1>4, <2>1, <2>3, <2>4, MoveSafe DEF BeforePhase2, BeforeFresh
<1> QED BY <1>1, <1>2, <1>3, <1>4

LEMMA Phase2EndsSafe ==
  ASSUME FullInv, Phase2Ends
  PROVE  FullInv'
<1> USE DEF FullInv, WorkerHolds, LanesHold
<1>0. pc = "phase2" /\ UNCHANGED <<plan, lanes, degraded, confirmation, verdict>>
  BY DEF Phase2Ends, setup, mode, ending, Finish
<1>1. \/ pc' \in {"beside", "join2"} /\ PhaseResult("phase2") = "ok" /\ signals' = signals
      \/ pc' = "lost" /\ signals' = signals \cup {"abort"}
      \/ pc' = "stopping" /\ signals' = signals
  BY Zenon DEF Phase2Ends, Finish
<1>2. verdict = None /\ confirmation = None /\ ApprovalIsFull' BY <1>0, NotYet
<1>3. CASE pc' \in {"beside", "join2"} /\ PhaseResult("phase2") = "ok" /\ signals' = signals
  <2>1. Whole("phase2", Roles)
    BY <1>0, <1>3, PhaseOk DEF InHand, Phase2Ends, ReviewGroups
  <2>2. InHand' BY <1>0, <1>2, <1>3, <2>1, LanesSame DEF InHand, Decided, None
  <2> QED BY <1>0, <1>2, <1>3, <2>2, MoveSafe DEF BeforePhase2, BeforeFresh
<1>4. CASE pc' = "lost" /\ signals' = signals \cup {"abort"}
  <2>1. InHand' BY <1>0, <1>2, <1>4, LanesSame DEF InHand, Decided, None
  <2> QED BY <1>0, <1>2, <1>4, <2>1, MoveSafe DEF BeforePhase2, BeforeFresh
<1>5. CASE pc' = "stopping" /\ signals' = signals
  BY <1>0, <1>5, StopSafe
<1> QED BY <1>1, <1>3, <1>4, <1>5

LEMMA BesideSafe ==
  ASSUME FullInv, Beside \/ Lost
  PROVE  FullInv'
<1> USE DEF FullInv, WorkerHolds
<1>0. /\ UNCHANGED <<plan, lanes, degraded, signals, confirmation, verdict>>
      /\ pc \in {"beside", "lost"}
      /\ pc' = "stopping" \/ (pc = "beside" /\ pc' = "join2")
  BY DEF Beside, Lost, Finish, setup, mode, ending
<1>1. CASE pc' = "stopping" BY <1>0, <1>1, StopSafe
<1>2. CASE pc = "beside" /\ pc' = "join2"
  <2>1. verdict = None /\ confirmation = None /\ ApprovalIsFull' BY <1>0, NotYet
  <2>2. InHand' BY <1>0, <1>2, <2>1, LanesSame DEF InHand, Decided, None
  <2> QED BY <1>0, <1>2, <2>1, <2>2, MoveSafe DEF BeforePhase2, BeforeFresh
<1> QED BY <1>0, <1>1, <1>2

LEMMA Verify2EndsSafe ==
  ASSUME FullInv, Verify2Ends
  PROVE  FullInv'
<1> USE DEF FullInv, WorkerHolds, LanesHold
<1>0. pc = "verify2" /\ UNCHANGED <<plan, lanes, degraded, signals, confirmation, verdict>>
  BY DEF Verify2Ends, VerifyFails, Finish, setup, mode, ending
<1>1. CASE VerifyResult("verify2") = "ok"
  <2>1. pc' = "confirm" BY <1>1 DEF Verify2Ends
  <2>2. Checked("verify2") BY <1>1, VerifyOk DEF Verify2Ends, VerifyGroups
  <2>3. verdict = None /\ confirmation = None /\ ApprovalIsFull' BY <1>0, NotYet
  <2>4. InHand' BY <1>0, <2>1, <2>2, <2>3, LanesSame DEF InHand, Decided, None
  <2> QED BY <1>0, <2>1, <2>3, <2>4, MoveSafe DEF BeforePhase2, BeforeFresh
<1>2. CASE VerifyResult("verify2") # "ok"
  <2>1. pc' = "stopping" BY <1>2 DEF Verify2Ends, VerifyFails, Finish
  <2> QED BY <1>0, <2>1, StopSafe
<1> QED BY <1>1, <1>2

\* The confirmation pass starts for the first time, when it is due and not skipped.
LEMMA ConfirmSafe ==
  ASSUME FullInv, Confirm
  PROVE  FullInv'
<1> USE DEF FullInv, WorkerHolds
<1>0. pc = "confirm" /\ UNCHANGED <<plan, degraded, signals, verdict>>
  BY DEF Confirm, setup, mode, ending
<1>1. verdict = None /\ confirmation = None /\ ApprovalIsFull' BY <1>0, NotYet
<1>2. \/ pc' = "publish" /\ lanes' = lanes /\ confirmation' = confirmation /\ ~plan.confirm
      \/ pc' = "publish" /\ lanes' = lanes /\ confirmation' = "skipped"
      \/ pc' = "fresh" /\ Start({"fresh"}) /\ confirmation' = confirmation
  BY Zenon DEF Confirm
<1>3. CASE pc' = "publish" /\ lanes' = lanes /\ confirmation' = confirmation /\ ~plan.confirm
  <2>1. InHand' BY <1>0, <1>1, <1>3, LanesSame DEF InHand, Decided, None
  <2> QED BY <1>0, <1>1, <1>3, <2>1, MoveSafe DEF BeforePhase2, BeforeFresh
<1>4. CASE pc' = "publish" /\ lanes' = lanes /\ confirmation' = "skipped"
  <2>1. InHand' BY <1>0, <1>1, <1>4, LanesSame DEF InHand, Decided, None
  <2> QED BY <1>0, <1>1, <1>4, <2>1, MoveSafe DEF BeforePhase2, BeforeFresh
<1>5. CASE pc' = "fresh" /\ Start({"fresh"}) /\ confirmation' = confirmation
  <2>1. Of("fresh") = {} BY <1>0 DEF Ahead, BeforeFresh
  <2>2. /\ LanesHold' /\ Others({"fresh"})
        /\ \A g \in {"fresh"} : Begun(g, RolesOf(g))'
    BY <1>0, <1>5, <2>1, StartHolds DEF ReviewGroups
  <2>3. Begun("fresh", Confirmers)' BY <2>2 DEF RolesOf
  <2>4. /\ ThreadOver => ThreadOver'
        /\ (ThreadLane \in DOMAIN lanes) = (ThreadLane \in DOMAIN lanes)'
        /\ \A roles : Whole("phase2", roles) => Whole("phase2", roles)'
        /\ Checked("verify2") => Checked("verify2")'
    BY <2>2, OthersKeep
  <2>5. Ahead' BY <1>5 DEF Ahead, BeforePhase2, BeforeFresh
  <2>6. InHand' BY <1>0, <1>1, <1>5, <2>3, <2>4 DEF InHand, Decided, None
  <2> QED BY <1>1, <2>2, <2>5, <2>6
<1> QED BY <1>2, <1>3, <1>4, <1>5

LEMMA FreshEndsSafe ==
  ASSUME FullInv, FreshEnds
  PROVE  FullInv'
<1> USE DEF FullInv, WorkerHolds, LanesHold
<1>0. pc = "fresh" /\ UNCHANGED <<plan, lanes, degraded, signals, verdict>>
  BY DEF FreshEnds, Finish, setup, mode, ending
<1>1. verdict = None /\ confirmation = None /\ ApprovalIsFull' BY <1>0, NotYet
<1>2. \/ pc' = "join3" /\ PhaseResult("fresh") = "ok" /\ confirmation' = confirmation
      \/ pc' = "stopping" /\ confirmation' = confirmation
      \/ pc' = "publish" /\ confirmation' = "failed"
  BY Zenon DEF FreshEnds, Finish
<1>3. CASE pc' = "join3" /\ PhaseResult("fresh") = "ok" /\ confirmation' = confirmation
  <2>1. Whole("fresh", Confirmers)
    BY <1>0, <1>3, PhaseOk DEF InHand, FreshEnds, ReviewGroups
  <2>2. InHand' BY <1>0, <1>1, <1>3, <2>1, LanesSame DEF InHand, Decided, None
  <2> QED BY <1>0, <1>1, <1>3, <2>2, MoveSafe DEF BeforePhase2, BeforeFresh
<1>4. CASE pc' = "stopping" /\ confirmation' = confirmation
  BY <1>0, <1>4, StopSafe
<1>5. CASE pc' = "publish" /\ confirmation' = "failed"
  <2>1. InHand' BY <1>0, <1>1, <1>5, LanesSame DEF InHand, Decided, None
  <2> QED BY <1>0, <1>1, <1>5, <2>1, MoveSafe DEF BeforePhase2, BeforeFresh
<1> QED BY <1>2, <1>3, <1>4, <1>5

LEMMA RecheckEndsSafe ==
  ASSUME FullInv, RecheckEnds
  PROVE  FullInv'
<1> USE DEF FullInv, WorkerHolds, LanesHold
<1>0. pc = "recheck" /\ UNCHANGED <<plan, lanes, degraded, signals, verdict>>
  BY DEF RecheckEnds, VerifyFails, Finish, setup, mode, ending
<1>1. CASE VerifyResult("recheck") = "ok"
  <2>1. pc' = "publish" /\ confirmation' = "ran" BY <1>1 DEF RecheckEnds
  <2>2. Checked("recheck") BY <1>1, VerifyOk DEF RecheckEnds, VerifyGroups
  <2>3. verdict = None /\ confirmation = None /\ ApprovalIsFull' BY <1>0, NotYet
  <2>4. InHand' BY <1>0, <2>1, <2>2, <2>3, LanesSame DEF InHand, Decided, None
  <2> QED BY <1>0, <2>1, <2>3, <2>4, MoveSafe DEF BeforePhase2, BeforeFresh
<1>2. CASE VerifyResult("recheck") # "ok"
  <2>1. pc' = "stopping" /\ confirmation' = confirmation
    BY <1>2 DEF RecheckEnds, VerifyFails, Finish
  <2> QED BY <1>0, <2>1, StopSafe
<1> QED BY <1>1, <1>2

\* What an approval asks of the run, the worker has in hand.
LEMMA PublishSafe ==
  ASSUME FullInv, Publish
  PROVE  FullInv'
<1> USE DEF FullInv, WorkerHolds, LanesHold
<1>0. /\ pc = "publish" /\ pc' = "stopping"
      /\ UNCHANGED <<plan, lanes, degraded, signals, confirmation>>
  BY DEF Publish, Publishes, setup, mode
<1>1. PICK standing, conflict : verdict' = Verdict(standing, FullStrength(TRUE, conflict))
  BY DEF Publish, Publishes
<1>2. InHand' BY <1>0, LanesSame DEF InHand, Decided
<1>3. ASSUME verdict' = "APPROVE"
      PROVE  /\ Answered("phase2", Roles) /\ AllVerified("verify2")
             /\ plan.confirm => Answered("fresh", Confirmers) /\ AllVerified("recheck")
             /\ plan.threads => At(ThreadLane, "done")
  <2>1. FullStrength(TRUE, conflict) /\ Confirmed
    BY <1>1, <1>3 DEF Verdict
  <2>2. ~degraded /\ ~Incomplete /\ ~ThreadFailed BY <2>1 DEF FullStrength
  <2>3. ASSUME NEW g \in {"phase2", "fresh"}, NEW roles, Whole(g, roles)
        PROVE  Answered(g, roles)
    <3> SUFFICES ASSUME NEW r \in roles
                 PROVE  /\ At(LaneId(g, r, FALSE), "done")
                        /\ lanes[LaneId(g, r, FALSE)].model = Final
      BY DEF Answered
    <3>1. At(LaneId(g, r, FALSE), "done") BY <2>3 DEF Whole
    <3>2. Primary(LaneId(g, r, FALSE)) BY DEF Primary, LaneId
    <3> QED BY <2>2, <3>1, <3>2 DEF OnFinal, At
  <2>4. ASSUME NEW g \in VerifyGroups, Checked(g) PROVE AllVerified(g)
    BY <2>2, <2>4 DEF AllVerified, Checked, Incomplete, Of
  <2>5. Whole("phase2", Roles) /\ Checked("verify2") /\ ThreadOver
    BY <1>0 DEF InHand, Decided
  <2>6. ASSUME plan.confirm PROVE Whole("fresh", Confirmers) /\ Checked("recheck")
    BY <1>0, <2>1, <2>6 DEF InHand, Confirmed
  <2>7. ASSUME plan.threads PROVE At(ThreadLane, "done")
    BY <1>0, <2>2, <2>5, <2>7 DEF InHand, ThreadOver, ThreadFailed, At
  <2> QED BY <2>3, <2>4, <2>5, <2>6, <2>7 DEF VerifyGroups
<1>4. ApprovalIsFull'
  BY <1>0, <1>3 DEF ApprovalIsFull, Answered, AllVerified, At, Of, ThreadLane, LaneId
<1> QED BY <1>0, <1>2, <1>4, MoveSafe DEF BeforePhase2, BeforeFresh

\* The end, the single stage beside, a cancel and the grace leave all that as it is.
LEMMA RestSafe ==
  ASSUME FullInv, Ends \/ SideEnds \/ GraceEnds \/ Cancel \/ Rest \/ UNCHANGED vars
  PROVE  FullInv'
<1> USE DEF FullInv, WorkerHolds
<1>0. /\ UNCHANGED <<plan, lanes, degraded, confirmation, verdict>>
      /\ signals' \in {signals, signals \cup {"grace"}}
      /\ pc' = pc \/ (pc = "stopping" /\ pc' = "ended")
  BY DEF Ends, SideEnds, GraceEnds, Cancel, Rest, vars, setup, mode, ending
<1>1. ApprovalIsFull'
  BY <1>0 DEF ApprovalIsFull, Answered, AllVerified, At, Of, ThreadLane, LaneId
<1>2. InHand' BY <1>0, LanesSame DEF InHand, Decided
<1> QED BY <1>0, <1>1, <1>2, MoveSafe DEF BeforePhase2, BeforeFresh

LEMMA FullInit == Init => FullInv
<1> SUFFICES ASSUME Init PROVE FullInv OBVIOUS
<1>1. /\ lanes = << >> /\ pc = "route" /\ signals = {}
      /\ confirmation = None /\ verdict = None
  BY DEF Init
<1>2. DOMAIN lanes = {} BY <1>1
<1>3. LanesHold BY <1>1, <1>2 DEF LanesHold, Standing, LostPhases, OnFinal
<1>4. Ahead BY <1>2 DEF Ahead, Of
<1>5. InHand BY <1>1 DEF InHand, Decided, None
<1>6. ApprovalIsFull BY <1>1 DEF ApprovalIsFull, None
<1> QED BY <1>3, <1>4, <1>5, <1>6 DEF FullInv, WorkerHolds

LEMMA FullStep == LanesInv /\ FullInv /\ [Next]_vars => FullInv'
<1> SUFFICES ASSUME LanesInv, FullInv, [Next]_vars PROVE FullInv' OBVIOUS
<1>1. CASE Route BY <1>1, RouteSafe
<1>2. CASE Phase1Ends \/ Verify1Ends BY <1>2, Phase1Safe
<1>3. CASE Verify BY <1>3, VerifySafe
<1>4. CASE Gate BY <1>4, GateSafe
<1>5. CASE Phase2Ends BY <1>5, Phase2EndsSafe
<1>6. CASE Beside \/ Lost BY <1>6, BesideSafe
<1>7. CASE Verify2Ends BY <1>7, Verify2EndsSafe
<1>8. CASE Confirm BY <1>8, ConfirmSafe
<1>9. CASE FreshEnds BY <1>9, FreshEndsSafe
<1>10. CASE RecheckEnds BY <1>10, RecheckEndsSafe
<1>11. CASE Publish BY <1>11, PublishSafe
<1>12. CASE Ends \/ SideEnds \/ GraceEnds \/ Cancel \/ Rest \/ UNCHANGED vars
  BY <1>12, RestSafe
<1>13. ASSUME NEW g \in ReviewGroups, Abandon(g) PROVE FullInv' BY <1>13, AbandonSafe
<1>14. ASSUME NEW l, Loop(l) PROVE FullInv' BY <1>14, LoopSafe
<1>15. ASSUME NEW l, IsStopped(l) \/ Answers(l) \/ RunsDry(l) \/ Fails(l) PROVE FullInv'
  BY <1>15, SessionSafe
<1>16. ASSUME NEW l, Dead(l) PROVE FullInv' BY <1>16, DeadSafe
<1> QED
  BY <1>1, <1>2, <1>3, <1>4, <1>5, <1>6, <1>7, <1>8, <1>9, <1>10, <1>11, <1>12, <1>13, <1>14,
     <1>15, <1>16
  DEF Next, Main, Thread, Model

\* An approval rests on a whole final review on the primary model, every shard checked, the
\* confirmation pass and the thread lane when they were due (_review_strength12, _confirm12).
THEOREM ApprovalsAreFull == Spec => []ApprovalIsFull
<1>1. LanesInv /\ FullInv /\ [Next]_vars => (LanesInv /\ FullInv)' BY LanesStep, FullStep
<1>2. Init => LanesInv /\ FullInv BY LanesInit, FullInit
<1>3. FullInv => ApprovalIsFull BY DEF FullInv, WorkerHolds
<1> QED BY <1>1, <1>2, <1>3, PTL DEF Spec

-----------------------------------------------------------------------------
(* What the printed provenance rests on                                    *)

\* The lanes a review may be made of: Phase 1's until it is thrown away.
Counts(l) == l.group \in ReviewGroups /\ (l.group = "phase1" => ~skipped1)
AllListed == \A l \in DOMAIN lanes : Counts(l) /\ lanes[l].at = "done" => l \in listed
OnlyDone == \A l \in listed : l \in DOMAIN lanes /\ lanes[l].at = "done" /\ Counts(l)

\* A Phase 1 that is thrown away has no lane at work, and none to come.
Thrown == skipped1 => pc \notin {"route", "phase1"} /\ side # "phase1"

\* A run that publishes knows what became of the confirmation pass it started.
Told == Of("fresh") = {} \/ confirmation \in {"ran", "failed"}
PassEnds ==
  /\ result # None => pc \in {"lost", "stopping", "ended"}
  /\ result = "done" => pc # "lost"
  /\ pc = "publish" \/ result = "done" => Told

ListInv == AllListed /\ OnlyDone /\ Thrown /\ PassEnds

\* A lane's thread or model: the lane that changes is not done with a good answer.
NoAnswer(l) ==
  /\ l \in DOMAIN lanes /\ lanes[l].at \in Live
  /\ \E r : lanes' = [lanes EXCEPT ![l] = r] /\ r.at # "done"

LEMMA LeavesUndone ==
  ASSUME LaneTypes, NEW l \in DOMAIN lanes, lanes[l].at \in Live,
         NEW where, where # "done", Leaves(l, where) \/ Goes(l, where)
  PROVE  NoAnswer(l)
<1> DEFINE a == [lanes[l] EXCEPT !.at = where]
           b == [lanes[l] EXCEPT !.at = where, !.lm = None, !.n = 0, !.budget = 0]
<1>1. a.at = where /\ b.at = where
  <2>1. lanes[l] \in LaneRec BY DEF LaneTypes
  <2> QED BY <2>1 DEF LaneRec
<1>2. CASE Leaves(l, where)
  <2>1. lanes' = [lanes EXCEPT ![l] = b] BY <1>2 DEF Leaves
  <2> HIDE DEF a, b
  <2> QED BY <1>1, <2>1 DEF NoAnswer
<1>3. CASE Goes(l, where)
  <2>1. lanes' = [lanes EXCEPT ![l] = a] BY <1>3 DEF Goes
  <2> HIDE DEF a, b
  <2> QED BY <1>1, <2>1 DEF NoAnswer
<1> QED BY <1>2, <1>3

LEMMA LoopUndone ==
  ASSUME LaneTypes, RungTypes, NEW l, Loop(l)
  PROVE  NoAnswer(l)
<1>1. l \in DOMAIN lanes /\ lanes[l].at \in Live /\ Now(l) \in LaneRec
  BY Starting DEF Loop, StopsAtTop, RefusesStandin, LeftBehind, Attempt, Tries
<1>2. CASE StopsAtTop(l) \/ RefusesStandin(l)
  <2>1. PICK where : Leaves(l, where) /\ where # "done"
    BY <1>2 DEF StopsAtTop, RefusesStandin, Raised, StopError
  <2> QED BY <1>1, <2>1, LeavesUndone
<1>3. CASE LeftBehind(l)
  <2> DEFINE r == [Now(l) EXCEPT !.at = "dead"]
  <2>1. lanes' = [lanes EXCEPT ![l] = r] BY <1>3 DEF LeftBehind
  <2>2. r.at = "dead" BY <1>1 DEF LaneRec
  <2> HIDE DEF r
  <2> QED BY <1>1, <2>1, <2>2 DEF NoAnswer
<1>4. CASE Attempt(l)
  <2> DEFINE r == [Now(l) EXCEPT !.at = "running", !.model = NextModel(l), !.n = @ + 1]
  <2>1. lanes' = [lanes EXCEPT ![l] = r] BY <1>4 DEF Attempt
  <2>2. r.at = "running" BY <1>1 DEF LaneRec
  <2> HIDE DEF r
  <2> QED BY <1>1, <2>1, <2>2 DEF NoAnswer
<1> QED BY <1>2, <1>3, <1>4 DEF Loop

LEMMA SessionUndone ==
  ASSUME LaneTypes, NEW l, IsStopped(l) \/ RunsDry(l) \/ Fails(l) \/ Dead(l)
  PROVE  NoAnswer(l)
<1>1. l \in DOMAIN lanes /\ lanes[l].at \in Live /\ lanes[l] \in LaneRec
  BY DEF IsStopped, RunsDry, Fails, Fault, At, Live, LaneTypes,
         Dead, DiesStopped, Follows, Falls, Dies, ShardDies, ThreadLaneDies
<1>2. CASE IsStopped(l)
  <2>1. PICK where : Leaves(l, where) /\ where # "done"
    BY <1>2 DEF IsStopped, Raised, StopError
  <2> QED BY <1>1, <2>1, LeavesUndone
<1>3. CASE RunsDry(l)
  <2> DEFINE r == [lanes[l] EXCEPT !.at = "top", !.model = Standin[lanes[l].model],
                                   !.budget = lanes[l].n + 2]
  <2>1. lanes' = [lanes EXCEPT ![l] = r] BY <1>3 DEF RunsDry, Flip
  <2>2. r.at = "top" BY <1>1 DEF LaneRec
  <2> HIDE DEF r
  <2> QED BY <1>1, <2>1, <2>2 DEF NoAnswer
<1>4. CASE Fails(l)
  <2>1. PICK where : Goes(l, where) /\ where # "done" BY <1>4 DEF Fails
  <2> QED BY <1>1, <2>1, LeavesUndone
<1>5. CASE DiesStopped(l) \/ Dies(l) \/ ShardDies(l) \/ ThreadLaneDies(l)
  <2>1. PICK where : Leaves(l, where) /\ where # "done"
    BY <1>5 DEF DiesStopped, Dies, ShardDies, ThreadLaneDies, Raised, StopError
  <2> QED BY <1>1, <2>1, LeavesUndone
<1>6. CASE Follows(l) \/ Falls(l)
  <2>1. PICK lm : lanes' = [lanes EXCEPT ![l] = Lane("top", lm, 0, 2)]
    BY <1>6 DEF Follows, Falls, Restarts
  <2>2. Lane("top", lm, 0, 2).at # "done" BY DEF Lane
  <2> QED BY <1>1, <2>1, <2>2 DEF NoAnswer
<1> QED BY <1>2, <1>3, <1>4, <1>5, <1>6 DEF Dead

\* The list follows the lanes that answered; a lane that gives up was not on it.
LEMMA UndoneLists ==
  ASSUME LaneTypes, ListInv, NEW l, NoAnswer(l),
         UNCHANGED <<pc, side, listed, skipped1, confirmation, result>>
  PROVE  ListInv'
<1> USE DEF ListInv
<1>1. /\ DOMAIN lanes' = DOMAIN lanes /\ lanes'[l].at # "done" /\ lanes[l].at # "done"
      /\ \A k \in DOMAIN lanes : k # l => lanes'[k] = lanes[k]
  BY DEF NoAnswer, LaneTypes, Live
<1>2. AllListed' BY <1>1 DEF AllListed, Counts
<1>3. OnlyDone' BY <1>1 DEF OnlyDone, Counts
<1>4. Thrown' BY DEF Thrown
<1>5. PassEnds' BY <1>1 DEF PassEnds, Told, Of
<1> QED BY <1>2, <1>3, <1>4, <1>5

LEMMA AnswersLists ==
  ASSUME LanesInv, ListInv, NEW l, Answers(l)
  PROVE  ListInv'
<1> USE DEF ListInv, LanesInv
<1>1. /\ l \in DOMAIN lanes /\ lanes[l].at \in Live /\ lanes[l] \in LaneRec /\ Leaves(l, "done")
      /\ UNCHANGED <<pc, side, skipped1, confirmation, result>>
      /\ listed' = IF l.group \in ReviewGroups THEN listed \cup {l} ELSE listed
  BY DEF Answers, At, Live, LaneTypes, ending
<1>2. /\ DOMAIN lanes' = DOMAIN lanes /\ lanes'[l].at = "done"
      /\ \A k \in DOMAIN lanes : k # l => lanes'[k] = lanes[k]
  BY <1>1 DEF Leaves, LaneTypes, LaneRec
<1>3. l.group \in ReviewGroups => Counts(l)
  BY <1>1 DEF Counts, Thrown, NoLaneOutlives, ThreadLane, LaneId, ReviewGroups
<1>4. AllListed' BY <1>1, <1>2, <1>3 DEF AllListed, Counts
<1>5. OnlyDone' BY <1>1, <1>2, <1>3 DEF OnlyDone, Counts
<1>6. Thrown' BY <1>1 DEF Thrown
<1>7. PassEnds' BY <1>1, <1>2 DEF PassEnds, Told, Of
<1> QED BY <1>4, <1>5, <1>6, <1>7

\* The worker's own thread: it adds lanes that nobody counts on, and it may throw Phase 1 away.
LEMMA MovesList ==
  ASSUME ListInv, UNCHANGED <<listed, skipped1>> \/ Discard,
         DOMAIN lanes \subseteq DOMAIN lanes',
         \A l \in DOMAIN lanes' :
           (l \in DOMAIN lanes /\ lanes'[l] = lanes[l]) \/ (l \notin listed /\ lanes'[l].at = "queued"),
         Thrown', PassEnds'
  PROVE  ListInv'
<1> USE DEF ListInv
<1>1. AllListed' BY DEF AllListed, Counts, Discard
<1>2. OnlyDone' BY DEF OnlyDone, Counts, Discard
<1> QED BY <1>1, <1>2

LEMMA QuietList ==
  ASSUME ListInv, UNCHANGED <<lanes, listed, skipped1>>, Thrown', PassEnds'
  PROVE  ListInv'
BY MovesList

LEMMA StartLists ==
  ASSUME LaneTypes, ListInv, NEW groups, groups \subseteq ReviewGroups, Start(groups),
         \A g \in groups : Of(g) = {}, UNCHANGED <<listed, skipped1>> \/ Discard,
         Thrown', PassEnds'
  PROVE  ListInv'
<1> DEFINE beside == IF pc = "route" /\ plan.threads THEN {ThreadLane} ELSE {}
           ids == beside \cup UNION {ReviewLanes(g) : g \in groups}
           new == [l \in ids |-> Lane("queued", PhaseLm(l), 0, 0)]
<1>1. Added(new) /\ DOMAIN new = ids BY DEF Start
<1>2. ASSUME NEW l \in ids PROVE new[l].at = "queued" /\ l \notin listed
  <2>1. new[l].at = "queued" BY DEF Lane
  <2>2. l = ThreadLane \/ \E g \in groups : l \in ReviewLanes(g) BY Zenon
  <2>3. l = ThreadLane \/ \E g \in groups : l.group = g BY <2>2, PhaseLanes
  <2>4. l = ThreadLane => l \notin listed
    BY DEF ListInv, OnlyDone, Counts, ThreadLane, LaneId, ReviewGroups
  <2>5. (\E g \in groups : l.group = g) => l \notin listed
    BY DEF ListInv, OnlyDone, Of
  <2> HIDE DEF new
  <2> QED BY <2>1, <2>3, <2>4, <2>5
<1> HIDE DEF new, ids
<1>3. /\ DOMAIN lanes \subseteq DOMAIN lanes'
      /\ \A l \in DOMAIN lanes' :
           \/ l \in DOMAIN lanes /\ lanes'[l] = lanes[l]
           \/ l \in ids /\ lanes'[l] = new[l]
  <2> DEFINE G == {l.group : l \in ids}
  <2>1. \A l \in DOMAIN new : l.group \in G BY <1>1
  <2> HIDE DEF G
  <2> QED BY <1>1, <2>1, AddedOthers DEF Others
<1> QED BY <1>2, <1>3, MovesList

LEMMA VerifyLists ==
  ASSUME ListInv, NEW group \in VerifyGroups, StartVerify(group),
         UNCHANGED <<listed, skipped1>>, Thrown', PassEnds'
  PROVE  ListInv'
<1>1. PICK k \in 0..Shards :
        Added([l \in {LaneId(group, n, FALSE) : n \in 1..k} |-> Lane("queued", Resolve(Final), 0, 0)])
  BY DEF StartVerify
<1> DEFINE ids == {LaneId(group, n, FALSE) : n \in 1..k}
           new == [l \in ids |-> Lane("queued", Resolve(Final), 0, 0)]
<1>2. Added(new) /\ DOMAIN new = ids BY <1>1
<1>3. \A l \in ids : l.group = group BY DEF LaneId
<1>4. \A l \in ids : new[l].at = "queued" BY DEF Lane
<1>5. \A l \in ids : l \notin listed
  BY <1>3 DEF ListInv, OnlyDone, Counts, VerifyGroups, ReviewGroups
<1> HIDE DEF new, ids
<1>6. /\ DOMAIN lanes \subseteq DOMAIN lanes'
      /\ \A l \in DOMAIN lanes' :
           \/ l \in DOMAIN lanes /\ lanes'[l] = lanes[l]
           \/ l \in ids /\ lanes'[l] = new[l]
  <2>1. \A l \in DOMAIN new : l.group \in {group} BY <1>2, <1>3
  <2> QED BY <1>2, <2>1, AddedOthers DEF Others
<1> QED BY <1>4, <1>5, <1>6, MovesList

\* Where the worker is, it has not ended; where Phase 1 is thrown away, nobody is left of it.
LEMMA Unended ==
  ASSUME ListInv, pc \notin {"lost", "stopping", "ended"}
  PROVE  result = None
BY DEF ListInv, PassEnds, None

LEMMA RouteLists ==
  ASSUME LanesInv, FullInv, ListInv, Route
  PROVE  ListInv'
<1> USE DEF ListInv
<1>1. pc = "route" /\ result = None /\ DOMAIN lanes = {} /\ UNCHANGED <<listed, result, confirmation>>
  BY Unended DEF Route, LanesInv, Stages, ending
<1>2. listed = {} BY <1>1 DEF OnlyDone
<1>3. ~skipped1 BY <1>1 DEF Thrown
<1>4. \/ pc' = "phase1" /\ Start({"phase1"}) /\ UNCHANGED <<side, skipped1>>
      \/ pc' = "phase2" /\ Start({"phase1", "phase2"}) /\ UNCHANGED skipped1
      \/ pc' = "phase2" /\ skipped1' = TRUE /\ Start({"phase2"}) /\ UNCHANGED side
  BY Zenon DEF Route
<1>5. PassEnds' BY <1>1, <1>4 DEF PassEnds, None
<1>6. \A g : Of(g) = {} BY <1>1 DEF Of
<1>7. UNCHANGED <<listed, skipped1>> \/ Discard BY <1>1, <1>2, <1>4 DEF Discard
<1>8. Thrown'
  <2>1. side # "phase1" BY <1>1 DEF LanesInv, Stages
  <2> QED BY <1>3, <1>4, <2>1 DEF Thrown
<1>9. \A groups : Start(groups) /\ groups \subseteq ReviewGroups => ListInv'
  BY <1>5, <1>6, <1>7, <1>8, StartLists DEF LanesInv
<1> QED BY <1>4, <1>9 DEF ReviewGroups

LEMMA Phase1Lists ==
  ASSUME LanesInv, FullInv, ListInv, Phase1Ends \/ Verify1Ends
  PROVE  ListInv'
<1> USE DEF ListInv
<1>0. /\ pc \in {"phase1", "verify1"} /\ result = None /\ side # "phase1"
      /\ UNCHANGED <<side, confirmation>>
  BY Unended DEF Phase1Ends, Verify1Ends, LanesInv, Stages
<1>1. \/ pc' = "phase2" /\ Discard /\ Start({"phase2"}) /\ result' = result
      \/ /\ UNCHANGED <<lanes, listed, skipped1>>
         /\ \/ pc' \in {"join1", "gate"} /\ result' = result
            \/ pc' = "stopping" /\ result' \in {"failed", "cancelled"}
  <2>1. CASE Phase1Fails BY <2>1, Zenon DEF Phase1Fails, Finish, ending
  <2>2. CASE ~Phase1Fails BY <2>2, Zenon DEF Phase1Ends, Verify1Ends, Finish, ending
  <2> QED BY <2>1, <2>2
<1>2. CASE pc' = "phase2" /\ Discard /\ Start({"phase2"}) /\ result' = result
  <2>1. Of("phase2") = {} BY <1>0 DEF FullInv, WorkerHolds, Ahead, BeforePhase2
  <2>2. Thrown' BY <1>0, <1>2 DEF Thrown
  <2>3. PassEnds' BY <1>0, <1>2 DEF PassEnds, None
  <2> QED BY <1>2, <2>1, <2>2, <2>3, StartLists DEF LanesInv, ReviewGroups
<1>3. CASE /\ UNCHANGED <<lanes, listed, skipped1>>
           /\ \/ pc' \in {"join1", "gate"} /\ result' = result
              \/ pc' = "stopping" /\ result' \in {"failed", "cancelled"}
  <2>1. Thrown' BY <1>0, <1>3 DEF Thrown
  <2>2. PassEnds' BY <1>0, <1>3 DEF PassEnds, None
  <2> QED BY <1>3, <2>1, <2>2, QuietList
<1> QED BY <1>1, <1>2, <1>3

LEMMA VerifyStepLists ==
  ASSUME LanesInv, ListInv, Verify
  PROVE  ListInv'
<1> USE DEF ListInv
<1>0. /\ pc \in {"join1", "join2", "join3"} /\ result = None
      /\ UNCHANGED <<side, confirmation, listed, skipped1>>
  BY Unended DEF Verify, Joins
<1>1. CASE At(ThreadLane, "cancelled")
  <2>1. pc' = "stopping" /\ lanes' = lanes /\ result' = "cancelled"
    BY <1>1 DEF Verify, Finish
  <2>2. Thrown' BY <1>0, <2>1 DEF Thrown
  <2>3. PassEnds' BY <1>0, <2>1 DEF PassEnds
  <2> QED BY <1>0, <2>1, <2>2, <2>3, QuietList
<1>2. CASE ~At(ThreadLane, "cancelled")
  <2> DEFINE group == Joins[pc]
  <2>1. pc' = group /\ StartVerify(group) /\ result' = result /\ group \in VerifyGroups
    BY <1>0, <1>2 DEF Verify, ending, Joins, VerifyGroups
  <2> HIDE DEF group
  <2>2. Thrown' BY <1>0, <2>1 DEF Thrown, VerifyGroups
  <2>3. PassEnds' BY <1>0, <2>1 DEF PassEnds, VerifyGroups, None
  <2> QED BY <1>0, <2>1, <2>2, <2>3, VerifyLists
<1> QED BY <1>1, <1>2

LEMMA GateLists ==
  ASSUME LanesInv, FullInv, ListInv, Gate
  PROVE  ListInv'
<1> USE DEF ListInv
<1>0. /\ pc = "gate" /\ result = None /\ Of("fresh") = {} /\ Of("phase2") = {}
      /\ UNCHANGED <<side, confirmation, listed, skipped1>>
  BY Unended DEF Gate, FullInv, WorkerHolds, Ahead, BeforePhase2, BeforeFresh
<1>1. \/ pc' = "phase2" /\ Start({"phase2"}) /\ result' = result
      \/ lanes' = lanes /\ pc' = "stopping" /\ result' \in {"cancelled", "done"}
  BY Zenon DEF Gate, Finish, Publishes, ending
<1>2. Thrown' BY <1>0, <1>1 DEF Thrown
<1>3. CASE pc' = "phase2" /\ Start({"phase2"}) /\ result' = result
  <2>1. PassEnds' BY <1>0, <1>3 DEF PassEnds, None
  <2> QED BY <1>0, <1>2, <1>3, <2>1, StartLists DEF LanesInv, ReviewGroups
<1>4. CASE lanes' = lanes /\ pc' = "stopping" /\ result' \in {"cancelled", "done"}
  <2>1. PassEnds' BY <1>0, <1>4 DEF PassEnds, Told, Of
  <2> QED BY <1>0, <1>2, <1>4, <2>1, QuietList
<1> QED BY <1>1, <1>3, <1>4

LEMMA Phase2Lists ==
  ASSUME LanesInv, ListInv, Phase2Ends \/ Verify2Ends
  PROVE  ListInv'
<1> USE DEF ListInv
<1>0. /\ pc \in {"phase2", "verify2"} /\ result = None
      /\ UNCHANGED <<side, lanes, confirmation, listed, skipped1>>
  BY Unended DEF Phase2Ends, Verify2Ends
<1>1. \/ pc' \in {"beside", "join2", "confirm"} /\ result' = result
      \/ pc' \in {"lost", "stopping"} /\ result' # "done"
  <2>1. CASE Phase2Ends
    <3>1. PhaseResult("phase2") # "done" BY DEF PhaseResult
    <3> QED BY <2>1, <3>1, Zenon DEF Phase2Ends, Finish, ending
  <2>2. CASE Verify2Ends BY <2>2, Zenon DEF Verify2Ends, VerifyFails, Finish, ending
  <2> QED BY <2>1, <2>2
<1>2. Thrown' BY <1>0, <1>1 DEF Thrown
<1>3. PassEnds' BY <1>0, <1>1 DEF PassEnds, None
<1> QED BY <1>0, <1>2, <1>3, QuietList

LEMMA BesideLists ==
  ASSUME LanesInv, ListInv, Beside \/ Lost
  PROVE  ListInv'
<1> USE DEF ListInv
<1>0. pc \in {"beside", "lost"} /\ side # "phase1" /\ UNCHANGED <<side, lanes, confirmation>>
  BY DEF Beside, Lost
<1>1. UNCHANGED <<listed, skipped1>> \/ Discard BY Zenon DEF Beside, Lost
<1>2. pc' \in {"join2", "stopping"} BY DEF Beside, Lost, Finish
<1>3. Thrown' BY <1>0, <1>2 DEF Thrown
<1>4. PassEnds'
  <2>1. CASE Beside
    <3>1. pc = "beside" /\ result = None BY <2>1, Unended DEF Beside
    <3>2. \/ pc' = "stopping" /\ result' = "cancelled"
          \/ pc' = "join2" /\ result' = result
      BY <2>1, Zenon DEF Beside, Finish, ending
    <3> QED BY <3>1, <3>2 DEF PassEnds, None
  <2>2. CASE Lost
    <3>1. pc = "lost" /\ pc' = "stopping" /\ result' = result BY <2>2 DEF Lost, ending
    <3> QED BY <3>1 DEF PassEnds
  <2> QED BY <2>1, <2>2
<1> QED BY <1>0, <1>1, <1>3, <1>4, MovesList

\* The pass that is skipped has no lanes, the one that fails or ends says so.
LEMMA ConfirmLists ==
  ASSUME LanesInv, FullInv, ListInv, Confirm \/ FreshEnds \/ RecheckEnds
  PROVE  ListInv'
<1> USE DEF ListInv
<1>0. /\ pc \in {"confirm", "fresh", "recheck"} /\ result = None
      /\ pc = "confirm" => Of("fresh") = {}
      /\ UNCHANGED <<side, listed, skipped1>>
  BY Unended
  DEF Confirm, FreshEnds, RecheckEnds, FullInv, WorkerHolds, Ahead, BeforeFresh
<1>1. \/ pc = "confirm" /\ pc' = "publish" /\ lanes' = lanes /\ result' = result
      \/ pc' = "fresh" /\ Start({"fresh"}) /\ result' = result /\ pc = "confirm"
      \/ pc' = "join3" /\ lanes' = lanes /\ result' = result
      \/ pc' = "publish" /\ lanes' = lanes /\ result' = result /\ confirmation' \in {"failed", "ran"}
      \/ pc' = "stopping" /\ lanes' = lanes /\ result' \in {"cancelled", "failed"}
  <2>1. CASE Confirm BY <2>1, Zenon DEF Confirm, ending
  <2>2. CASE FreshEnds
    <3>1. \/ pc' = "join3" /\ result' = result
          \/ pc' = "stopping" /\ result' = "cancelled"
          \/ pc' = "publish" /\ result' = result /\ confirmation' = "failed"
      BY <2>2, Zenon DEF FreshEnds, Finish, ending
    <3> QED BY <2>2, <3>1 DEF FreshEnds
  <2>3. CASE RecheckEnds
    <3>1. \/ pc' = "publish" /\ result' = result /\ confirmation' = "ran"
          \/ pc' = "stopping" /\ result' \in {"cancelled", "failed"}
      BY <2>3 DEF RecheckEnds, VerifyFails, Finish, ending
    <3> QED BY <2>3, <3>1 DEF RecheckEnds
  <2> QED BY <2>1, <2>2, <2>3
<1>2. Thrown' BY <1>0, <1>1 DEF Thrown
<1>3. PassEnds' BY <1>0, <1>1 DEF PassEnds, Told, Of, None
<1>4. CASE pc' = "fresh" /\ Start({"fresh"}) /\ pc = "confirm"
  BY <1>0, <1>2, <1>3, <1>4, StartLists DEF LanesInv, ReviewGroups
<1>5. CASE lanes' = lanes BY <1>0, <1>2, <1>3, <1>5, QuietList
<1> QED BY <1>1, <1>4, <1>5

LEMMA EndsList ==
  ASSUME LanesInv, ListInv,
         Publish \/ Ends \/ SideEnds \/ GraceEnds \/ Cancel \/ Rest \/ UNCHANGED vars
  PROVE  ListInv'
<1> USE DEF ListInv
<1>0. UNCHANGED <<lanes, listed, skipped1, confirmation>>
  BY DEF Publish, Ends, SideEnds, GraceEnds, Cancel, Rest, vars
<1>1. /\ pc' = pc \/ pc' \in {"stopping", "ended"}
      /\ side' = side \/ (side = "phase1" /\ side' # "phase1")
  <2>1. PhaseResult("phase1") # "phase1" BY DEF PhaseResult
  <2> QED BY <2>1 DEF Publish, Publishes, Ends, SideEnds, GraceEnds, Cancel, Rest, vars
<1>2. Thrown' BY <1>0, <1>1 DEF Thrown
<1>3. PassEnds'
  <2>1. CASE Publish
    <3>1. pc = "publish" /\ pc' = "stopping" /\ result' = "done" BY <2>1 DEF Publish, Publishes
    <3> QED BY <1>0, <3>1 DEF PassEnds, Told, Of
  <2>2. CASE ~Publish
    <3>1. result' = result /\ (pc' = pc \/ (pc = "stopping" /\ pc' = "ended"))
      BY <2>2 DEF Ends, SideEnds, GraceEnds, Cancel, Rest, vars, ending
    <3> QED BY <1>0, <3>1 DEF PassEnds, Told, Of
  <2> QED BY <2>1, <2>2
<1> QED BY <1>0, <1>2, <1>3, QuietList

LEMMA AbandonLists ==
  ASSUME LanesInv, ListInv, NEW g, Abandon(g)
  PROVE  ListInv'
<1> USE DEF ListInv
<1>0. UNCHANGED <<pc, side, listed, skipped1, confirmation, result>> BY DEF Abandon, ending
<1>1. /\ DOMAIN lanes' = DOMAIN lanes
      /\ \A l \in DOMAIN lanes :
           \/ lanes'[l] = lanes[l]
           \/ lanes[l].at = "queued" /\ lanes'[l] = [lanes[l] EXCEPT !.at = "gone"]
  BY DEF Abandon
<1>2. ASSUME NEW l \in DOMAIN lanes
      PROVE  lanes'[l] = lanes[l] \/ (lanes[l].at = "queued" /\ lanes'[l].at = "gone")
  <2>1. lanes[l] \in LaneRec BY DEF LanesInv, LaneTypes
  <2> QED BY <1>1, <2>1 DEF LaneRec
<1>3. AllListed' BY <1>0, <1>1, <1>2 DEF AllListed, Counts
<1>4. OnlyDone' BY <1>0, <1>1, <1>2 DEF OnlyDone, Counts
<1>5. Thrown' BY <1>0 DEF Thrown
<1>6. PassEnds' BY <1>0, <1>1 DEF PassEnds, Told, Of
<1> QED BY <1>3, <1>4, <1>5, <1>6

LEMMA ListInit == Init => ListInv
<1> SUFFICES ASSUME Init PROVE ListInv OBVIOUS
<1>1. lanes = << >> /\ listed = {} /\ ~skipped1 /\ result = None /\ pc = "route"
  BY DEF Init
<1>2. DOMAIN lanes = {} BY <1>1
<1> QED BY <1>1, <1>2 DEF ListInv, AllListed, OnlyDone, Thrown, PassEnds, None

LEMMA ListStep == LanesInv /\ FullInv /\ ListInv /\ [Next]_vars => ListInv'
<1> SUFFICES ASSUME LanesInv, FullInv, ListInv, [Next]_vars PROVE ListInv' OBVIOUS
<1>1. CASE Route BY <1>1, RouteLists
<1>2. CASE Phase1Ends \/ Verify1Ends BY <1>2, Phase1Lists
<1>3. CASE Verify BY <1>3, VerifyStepLists
<1>4. CASE Gate BY <1>4, GateLists
<1>5. CASE Phase2Ends \/ Verify2Ends BY <1>5, Phase2Lists
<1>6. CASE Beside \/ Lost BY <1>6, BesideLists
<1>7. CASE Confirm \/ FreshEnds \/ RecheckEnds BY <1>7, ConfirmLists
<1>8. CASE Publish \/ Ends \/ SideEnds \/ GraceEnds \/ Cancel \/ Rest \/ UNCHANGED vars
  BY <1>8, EndsList
<1>9. ASSUME NEW g, Abandon(g) PROVE ListInv' BY <1>9, AbandonLists
<1>10. ASSUME NEW l, Loop(l) PROVE ListInv'
  <2>1. UNCHANGED <<pc, side, listed, skipped1, confirmation, result>> BY <1>10 DEF Loop, ending
  <2> QED BY <1>10, <2>1, LoopUndone, UndoneLists DEF LanesInv
<1>11. ASSUME NEW l, IsStopped(l) \/ RunsDry(l) \/ Fails(l) \/ Dead(l) PROVE ListInv'
  <2>1. UNCHANGED <<pc, side, listed, skipped1, confirmation, result>>
    BY <1>11 DEF IsStopped, RunsDry, Fails, Dead, ending
  <2> QED BY <1>11, <2>1, SessionUndone, UndoneLists DEF LanesInv
<1>12. ASSUME NEW l, Answers(l) PROVE ListInv' BY <1>12, AnswersLists
<1> QED
  BY <1>1, <1>2, <1>3, <1>4, <1>5, <1>6, <1>7, <1>8, <1>9, <1>10, <1>11, <1>12
  DEF Next, Main, Thread, Model

\* A published review names the lanes its findings came from, none of a Phase 1 that was thrown
\* away, and beyond them only those of a confirmation pass that failed (_record_reviewer,
\* _discard_phase1).
THEOREM ReviewsAreListed == Spec => []WeighedIsListed
<1>1. LanesInv /\ FullInv /\ ListInv /\ [Next]_vars => (LanesInv /\ FullInv /\ ListInv)'
  BY LanesStep, FullStep, ListStep
<1>2. Init => LanesInv /\ FullInv /\ ListInv BY LanesInit, FullInit, ListInit
<1>3. ListInv => WeighedIsListed
  <2> SUFFICES ASSUME ListInv, result = "done"
               PROVE  /\ Weighed \subseteq listed
                      /\ \A l \in listed \ Weighed : l.group = "fresh" /\ confirmation = "failed"
    BY DEF WeighedIsListed
  <2>1. Weighed \subseteq listed BY DEF ListInv, AllListed, Counts, Weighed
  <2>2. ASSUME NEW l \in listed \ Weighed PROVE l.group = "fresh" /\ confirmation = "failed"
    BY <2>2 DEF ListInv, OnlyDone, Counts, Weighed, PassEnds, Told, Of
  <2> QED BY <2>1, <2>2
<1> QED BY <1>1, <1>2, <1>3, PTL DEF Spec

-----------------------------------------------------------------------------
(* How the ladder is walked, when its last rung has no stand-in            *)

LastRung == Ladder[Len(Ladder)]

\* A Phase-1 lane at work on a rung without a stand-in has tried nothing else on it.
InTurn == {"top", "running", "dead"}
Walks(l, r) ==
  l.group = "phase1" =>
    /\ r.at \in InTurn /\ r.lm \notin DOMAIN Standin => r.model = r.lm
    /\ r.at = "failed" => rung.at = Len(Ladder) /\ r.model = LastRung

WalkInv ==
  /\ \A l \in Of("phase1") : ~l.twin
  /\ rung.at = Len(Ladder) => rung.lm = LastRung
  /\ \A l \in DOMAIN lanes : Walks(l, lanes[l])

LEMMA LaneWalks ==
  ASSUME LaneTypes, WalkInv, NEW l \in DOMAIN lanes, NEW r, Walks(l, r),
         lanes' = [lanes EXCEPT ![l] = r], rung' = rung
  PROVE  WalkInv'
<1>1. /\ DOMAIN lanes' = DOMAIN lanes /\ lanes'[l] = r
      /\ \A k \in DOMAIN lanes : k # l => lanes'[k] = lanes[k]
  BY DEF LaneTypes
<1> QED BY <1>1 DEF WalkInv, Walks, Of

LEMMA LeavesWalks ==
  ASSUME LaneTypes, WalkInv, NEW l \in DOMAIN lanes, NEW where,
         Leaves(l, where) \/ Goes(l, where), rung' = rung,
         l.group = "phase1" /\ where \in InTurn => lanes[l].at \in InTurn /\ Goes(l, where),
         l.group = "phase1" /\ where = "failed" => rung.at = Len(Ladder) /\ lanes[l].model = LastRung
  PROVE  WalkInv'
<1> DEFINE a == [lanes[l] EXCEPT !.at = where]
           b == [lanes[l] EXCEPT !.at = where, !.lm = None, !.n = 0, !.budget = 0]
<1>1. /\ a.at = where /\ a.model = lanes[l].model /\ a.lm = lanes[l].lm
      /\ b.at = where /\ b.model = lanes[l].model
  <2>1. lanes[l] \in LaneRec BY DEF LaneTypes
  <2> QED BY <2>1 DEF LaneRec
<1>2. CASE Goes(l, where)
  <2>1. lanes' = [lanes EXCEPT ![l] = a] BY <1>2 DEF Goes
  <2> HIDE DEF a, b
  <2>2. Walks(l, a) BY <1>1 DEF Walks, WalkInv
  <2> QED BY <2>1, <2>2, LaneWalks
<1>3. CASE ~Goes(l, where)
  <2>1. lanes' = [lanes EXCEPT ![l] = b] BY <1>3 DEF Leaves
  <2> HIDE DEF a, b
  <2>2. Walks(l, b) BY <1>1, <1>3 DEF Walks
  <2> QED BY <2>1, <2>2, LaneWalks
<1> QED BY <1>2, <1>3

\* A stop is no failure.
LEMMA StopIsNoFailure ==
  ASSUME NEW l
  PROVE  Raised(l, StopError) \notin InTurn \cup {"failed"}
BY DEF Raised, StopError, InTurn

LEMMA LoopWalks ==
  ASSUME LaneTypes, RungTypes, WalkInv, NEW l, Loop(l)
  PROVE  WalkInv'
<1>0. rung' = rung BY DEF Loop
<1>1. l \in DOMAIN lanes /\ Now(l) \in LaneRec
  BY Starting DEF Loop, StopsAtTop, RefusesStandin, LeftBehind, Attempt, Tries
<1>2. l.group = "phase1" =>
        ~l.twin /\ (Now(l).lm \notin DOMAIN Standin => Now(l).model = Now(l).lm)
  <2>1. AtTop(l) BY DEF Loop, StopsAtTop, RefusesStandin, LeftBehind, Attempt, Tries
  <2>2. CASE lanes[l].at = "queued"
    BY <1>1, <2>2 DEF Now, Thread0, Lane, WalkInv, Of
  <2>3. CASE lanes[l].at # "queued"
    BY <1>1, <2>1, <2>3 DEF Now, AtTop, At, InTurn, WalkInv, Walks, Of
  <2> QED BY <2>2, <2>3
<1>3. CASE StopsAtTop(l)
  <2>1. Leaves(l, Raised(l, StopError)) BY <1>3 DEF StopsAtTop
  <2> QED BY <1>0, <1>1, <2>1, StopIsNoFailure, LeavesWalks
<1>4. CASE RefusesStandin(l)
  <2>1. l.twin /\ Leaves(l, Raised(l, "failed")) BY <1>4 DEF RefusesStandin
  <2> QED BY <1>0, <1>1, <1>2, <2>1, LeavesWalks
<1>5. CASE LeftBehind(l)
  <2> DEFINE r == [Now(l) EXCEPT !.at = "dead"]
  <2>1. lanes' = [lanes EXCEPT ![l] = r] BY <1>5 DEF LeftBehind
  <2>2. r.at = "dead" /\ r.lm = Now(l).lm /\ r.model = Now(l).model BY <1>1 DEF LaneRec
  <2> HIDE DEF r
  <2>3. Walks(l, r) BY <1>2, <2>2 DEF Walks
  <2> QED BY <1>0, <1>1, <2>1, <2>3, LaneWalks
<1>6. CASE Attempt(l)
  <2> DEFINE r == [Now(l) EXCEPT !.at = "running", !.model = NextModel(l), !.n = @ + 1]
  <2>1. lanes' = [lanes EXCEPT ![l] = r] BY <1>6 DEF Attempt
  <2>2. r.at = "running" /\ r.lm = Now(l).lm /\ r.model = NextModel(l) BY <1>1 DEF LaneRec
  <2> HIDE DEF r
  <2>3. Walks(l, r) BY <1>2, <2>2 DEF Walks, NextModel, Resolve
  <2> QED BY <1>0, <1>1, <2>1, <2>3, LaneWalks
<1> QED BY <1>3, <1>4, <1>5, <1>6 DEF Loop

LEMMA SessionWalks ==
  ASSUME LaneTypes, WalkInv, NEW l, Answers(l) \/ IsStopped(l) \/ RunsDry(l) \/ Fails(l)
  PROVE  WalkInv'
<1>0. /\ rung' = rung /\ l \in DOMAIN lanes /\ lanes[l].at = "running" /\ lanes[l] \in LaneRec
  BY DEF Answers, IsStopped, RunsDry, Fails, Fault, At, LaneTypes
<1>1. CASE Answers(l)
  BY <1>0, <1>1, LeavesWalks DEF Answers, InTurn
<1>2. CASE IsStopped(l)
  BY <1>0, <1>2, LeavesWalks, StopIsNoFailure DEF IsStopped
<1>3. CASE RunsDry(l)
  <2> DEFINE r == [lanes[l] EXCEPT !.at = "top", !.model = Standin[lanes[l].model],
                                   !.budget = lanes[l].n + 2]
  <2>1. lanes' = [lanes EXCEPT ![l] = r] BY <1>3 DEF RunsDry, Flip
  <2>2. r.at = "top" /\ r.lm = lanes[l].lm BY <1>0 DEF LaneRec
  <2>3. l.group = "phase1" => lanes[l].lm \in DOMAIN Standin
    BY <1>0, <1>3 DEF RunsDry, Flips, WalkInv, Walks, InTurn
  <2> HIDE DEF r
  <2>4. Walks(l, r) BY <2>2, <2>3 DEF Walks
  <2> QED BY <1>0, <2>1, <2>4, LaneWalks
<1>4. CASE Fails(l)
  <2>1. PICK where \in {"top", "dead"} : Goes(l, where) BY <1>4 DEF Fails
  <2> QED BY <1>0, <2>1, LeavesWalks DEF InTurn
<1> QED BY <1>1, <1>2, <1>3, <1>4

\* A lane falls to a rung below, and nobody has given up before: that takes the last rung.
LEMMA DeadWalks ==
  ASSUME LaneTypes, RungTypes, WalkInv, LastRung \notin DOMAIN Standin, NEW l, Dead(l)
  PROVE  WalkInv'
<1>0. l \in DOMAIN lanes /\ lanes[l].at = "dead" /\ lanes[l] \in LaneRec
  BY DEF Dead, DiesStopped, Follows, Falls, Dies, ShardDies, ThreadLaneDies, At, LaneTypes
<1>1. CASE DiesStopped(l)
  BY <1>0, <1>1, LeavesWalks, StopIsNoFailure DEF DiesStopped
<1>2. CASE Dies(l)
  <2>1. rung' = rung /\ Leaves(l, Raised(l, "failed")) BY <1>2 DEF Dies
  <2>2. l.group = "phase1" => rung.at = Len(Ladder) /\ lanes[l].model = LastRung
    BY <1>0, <1>2 DEF Dies, WalkInv, Walks, InTurn
  <2>3. Raised(l, "failed") \notin InTurn BY DEF Raised, InTurn
  <2> QED BY <1>0, <2>1, <2>2, <2>3, LeavesWalks
<1>3. CASE ShardDies(l) \/ ThreadLaneDies(l)
  <2>1. rung' = rung /\ l.group # "phase1" /\ \E where : Leaves(l, where)
    BY <1>3 DEF ShardDies, ThreadLaneDies, VerifyGroups, ThreadLane, LaneId
  <2> QED BY <1>0, <2>1, LeavesWalks
<1>4. CASE Follows(l)
  <2>1. lanes' = [lanes EXCEPT ![l] = Lane("top", rung.lm, 0, 2)] /\ rung' = rung
    BY <1>4 DEF Follows, Restarts
  <2>2. Walks(l, Lane("top", rung.lm, 0, 2)) BY DEF Walks, Lane
  <2> QED BY <1>0, <2>1, <2>2, LaneWalks
<1>5. CASE Falls(l)
  <2>1. PICK i \in (rung.at + 1)..Len(Ladder) :
          /\ rung' = [at |-> i, lm |-> Resolve(Ladder[i])]
          /\ lanes' = [lanes EXCEPT ![l] = Lane("top", rung'.lm, 0, 2)]
    BY <1>5 DEF Falls, Restarts
  <2>2. rung.at \in Nat /\ rung.at # Len(Ladder)
    <3>1. Len(Ladder) \in Nat BY PipelineAssumption
    <3> QED BY <2>1, <3>1 DEF RungTypes
  <2>3. /\ DOMAIN lanes' = DOMAIN lanes /\ lanes'[l] = Lane("top", rung'.lm, 0, 2)
        /\ \A k \in DOMAIN lanes : k # l => lanes'[k] = lanes[k]
    BY <1>0, <2>1 DEF LaneTypes
  <2>4. \A k \in DOMAIN lanes : k.group = "phase1" => lanes[k].at # "failed"
    BY <2>2 DEF WalkInv, Walks
  <2>5. \A k \in DOMAIN lanes : Walks(k, lanes[k])'
    BY <2>3, <2>4 DEF WalkInv, Walks, Lane, InTurn
  <2>6. rung'.at = Len(Ladder) => rung'.lm = LastRung
    BY <2>1 DEF LastRung, Resolve
  <2> QED BY <2>3, <2>5, <2>6 DEF WalkInv, Of
<1> QED BY <1>1, <1>2, <1>3, <1>4, <1>5 DEF Dead

LEMMA OthersWalk ==
  ASSUME WalkInv, NEW G, Others(G), "phase1" \notin G, rung' = rung
  PROVE  WalkInv'
BY DEF WalkInv, Walks, Others, Of

LEMMA StartOthers ==
  ASSUME NEW groups, Start(groups)
  PROVE  /\ Others(groups \cup {"threads"})
         /\ \A l \in DOMAIN lanes' :
              \/ l \in DOMAIN lanes /\ lanes'[l] = lanes[l]
              \/ /\ l = ThreadLane \/ \E g \in groups : l \in ReviewLanes(g)
                 /\ lanes'[l].at = "queued"
<1> DEFINE beside == IF pc = "route" /\ plan.threads THEN {ThreadLane} ELSE {}
           ids == beside \cup UNION {ReviewLanes(g) : g \in groups}
           new == [l \in ids |-> Lane("queued", PhaseLm(l), 0, 0)]
<1>1. Added(new) /\ DOMAIN new = ids BY DEF Start
<1>2. \A l \in ids : new[l].at = "queued" BY DEF Lane
<1>3. \A l \in ids : l = ThreadLane \/ \E g \in groups : l \in ReviewLanes(g) BY Zenon
<1>4. \A l \in ids : l.group \in groups \cup {"threads"}
  BY <1>3, PhaseLanes DEF ThreadLane, LaneId
<1> HIDE DEF new, ids
<1> QED BY <1>1, <1>2, <1>3, <1>4, AddedOthers

LEMMA RouteWalks ==
  ASSUME LanesInv, WalkInv, LastRung \notin DOMAIN Standin, Route
  PROVE  WalkInv'
<1>1. DOMAIN lanes = {} BY DEF LanesInv, Stages, Route
<1>2. PICK groups \in SUBSET ReviewGroups : Start(groups)
  <2>1. Start({"phase1"}) \/ Start({"phase1", "phase2"}) \/ Start({"phase2"})
    BY Zenon DEF Route
  <2> QED BY <2>1 DEF ReviewGroups
<1>3. \A l \in DOMAIN lanes' :
        /\ l = ThreadLane \/ \E g \in groups : l \in ReviewLanes(g)
        /\ lanes'[l].at = "queued"
  BY <1>1, <1>2, StartOthers
<1>4. ASSUME NEW l \in DOMAIN lanes', l.group = "phase1" PROVE ~l.twin
  <2>1. l # ThreadLane BY <1>4 DEF ThreadLane, LaneId
  <2>2. l \in ReviewLanes("phase1") BY <1>3, <1>4, <2>1, PhaseLanes
  <2> QED BY <2>2, SMT DEF ReviewLanes, LaneId
<1>5. rung'.at = Len(Ladder) => rung'.lm = LastRung
  <2>1. rung' = rung \/ ChooseRung BY Zenon DEF Route
  <2> QED BY <2>1 DEF WalkInv, ChooseRung, LastRung, Resolve
<1> QED BY <1>3, <1>4, <1>5 DEF WalkInv, Walks, Of, InTurn

LEMMA MainWalks ==
  ASSUME LanesInv, WalkInv,
         \/ Phase1Ends \/ Verify \/ Verify1Ends \/ Gate \/ Phase2Ends \/ Beside \/ Lost
         \/ Verify2Ends \/ Confirm \/ FreshEnds \/ RecheckEnds \/ Publish \/ Ends
         \/ SideEnds \/ GraceEnds \/ Cancel \/ Rest \/ UNCHANGED vars
  PROVE  WalkInv'
<1>1. rung' = rung
  BY DEF Phase1Ends, Verify, Verify1Ends, Gate, Phase2Ends, Beside, Lost, Verify2Ends, Confirm,
         FreshEnds, RecheckEnds, Publish, Ends, SideEnds, GraceEnds, Cancel, Rest, vars
<1>2. \/ lanes' = lanes
      \/ Start({"phase2"}) \/ Start({"fresh"}) \/ \E g \in VerifyGroups : StartVerify(g)
  <2>1. CASE Phase1Ends \/ Verify1Ends
    <3>1. Phase1Fails => lanes' = lanes \/ Start({"phase2"}) BY Zenon DEF Phase1Fails
    <3> QED BY <2>1, <3>1, Zenon DEF Phase1Ends, Verify1Ends
  <2>2. CASE Verify
    <3>1. lanes' = lanes \/ (pc \in DOMAIN Joins /\ StartVerify(Joins[pc])) BY <2>2 DEF Verify
    <3>2. \A p \in DOMAIN Joins : Joins[p] \in VerifyGroups BY DEF Joins, VerifyGroups
    <3> QED BY <3>1, <3>2
  <2>3. CASE Gate BY <2>3, Zenon DEF Gate
  <2>4. CASE Confirm BY <2>4, Zenon DEF Confirm
  <2>5. CASE \/ Phase2Ends \/ Beside \/ Lost \/ Verify2Ends \/ FreshEnds \/ RecheckEnds \/ Publish
             \/ Ends \/ SideEnds \/ GraceEnds \/ Cancel \/ Rest \/ UNCHANGED vars
    BY <2>5 DEF Phase2Ends, Beside, Lost, Verify2Ends, FreshEnds, RecheckEnds, Publish, Ends,
                SideEnds, GraceEnds, Cancel, Rest, vars
  <2> QED BY <2>1, <2>2, <2>3, <2>4, <2>5
<1>3. CASE lanes' = lanes BY <1>1, <1>3 DEF WalkInv, Walks, Of
<1>4. CASE Start({"phase2"}) \/ Start({"fresh"})
  <2>1. PICK groups \in {{"phase2"}, {"fresh"}} : Start(groups) BY <1>4
  <2>2. Others(groups \cup {"threads"}) /\ "phase1" \notin groups \cup {"threads"}
    BY <2>1, StartOthers
  <2> QED BY <1>1, <2>2, OthersWalk
<1>5. ASSUME NEW g \in VerifyGroups, StartVerify(g) PROVE WalkInv'
  <2>1. PICK k \in 0..Shards :
          Added([l \in {LaneId(g, n, FALSE) : n \in 1..k} |-> Lane("queued", Resolve(Final), 0, 0)])
    BY <1>5 DEF StartVerify
  <2> DEFINE new == [l \in {LaneId(g, n, FALSE) : n \in 1..k} |-> Lane("queued", Resolve(Final), 0, 0)]
  <2>2. \A l \in DOMAIN new : l.group \in {g} BY DEF LaneId
  <2> HIDE DEF new
  <2>3. Others({g}) BY <2>1, <2>2, AddedOthers DEF new
  <2> QED BY <1>1, <2>3, OthersWalk DEF VerifyGroups
<1> QED BY <1>2, <1>3, <1>4, <1>5

LEMMA AbandonWalks ==
  ASSUME LanesInv, WalkInv, NEW g, Abandon(g)
  PROVE  WalkInv'
<1>1. /\ DOMAIN lanes' = DOMAIN lanes /\ rung' = rung
      /\ \A l \in DOMAIN lanes : lanes'[l] = lanes[l] \/ lanes'[l] = [lanes[l] EXCEPT !.at = "gone"]
  BY DEF Abandon
<1>2. ASSUME NEW l \in DOMAIN lanes PROVE lanes'[l] = lanes[l] \/ lanes'[l].at = "gone"
  <2>1. lanes[l] \in LaneRec BY DEF LanesInv, LaneTypes
  <2> QED BY <1>1, <2>1 DEF LaneRec
<1> QED BY <1>1, <1>2 DEF WalkInv, Walks, Of, InTurn

LEMMA WalkInit == Init => WalkInv
<1> SUFFICES ASSUME Init PROVE WalkInv OBVIOUS
<1>1. lanes = << >> /\ rung = [at |-> 0, lm |-> None] BY DEF Init
<1>2. DOMAIN lanes = {} BY <1>1
<1>3. Len(Ladder) # 0 BY PipelineAssumption
<1> QED BY <1>1, <1>2, <1>3 DEF WalkInv, Of

LEMMA WalkStep ==
  LastRung \notin DOMAIN Standin /\ LanesInv /\ WalkInv /\ [Next]_vars => WalkInv'
<1> SUFFICES ASSUME LastRung \notin DOMAIN Standin, LanesInv, WalkInv, [Next]_vars PROVE WalkInv'
  OBVIOUS
<1>1. CASE Route BY <1>1, RouteWalks
<1>2. CASE \/ Phase1Ends \/ Verify \/ Verify1Ends \/ Gate \/ Phase2Ends \/ Beside \/ Lost
           \/ Verify2Ends \/ Confirm \/ FreshEnds \/ RecheckEnds \/ Publish \/ Ends
           \/ SideEnds \/ GraceEnds \/ Cancel \/ Rest \/ UNCHANGED vars
  BY <1>2, MainWalks
<1>3. ASSUME NEW g, Abandon(g) PROVE WalkInv' BY <1>3, AbandonWalks
<1>4. ASSUME NEW l, Thread(l) \/ Model(l) PROVE WalkInv'
  BY <1>4, LoopWalks, SessionWalks, DeadWalks DEF Thread, Model, LanesInv
<1> QED BY <1>1, <1>2, <1>3, <1>4 DEF Next, Main

\* When the last rung has no stand-in ("Phase 1 stays on its own ladder", README.md:464), a
\* Phase-1 lane gives up only after it ran on that rung itself (_phase1_fallback).
THEOREM LadderWalked ==
  ASSUME LastRung \notin DOMAIN Standin
  PROVE  Spec => []LadderIsWalked
<1>1. LanesInv /\ WalkInv /\ [Next]_vars => (LanesInv /\ WalkInv)' BY LanesStep, WalkStep
<1>2. Init => LanesInv /\ WalkInv BY LanesInit, WalkInit
<1>3. WalkInv => LadderIsWalked BY DEF WalkInv, Walks, LadderIsWalked, LastRung, Of
<1> QED BY <1>1, <1>2, <1>3, PTL DEF Spec
=============================================================================
