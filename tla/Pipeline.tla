----------------------------- MODULE Pipeline -----------------------------
(***************************************************************************)
(* The review pipeline of one run (worker._review): Phase 1 on a ladder of *)
(* models, the gate, Phase 2 with its comparison lanes, the verifiers in   *)
(* shards, the confirmation pass, the verdict; with the thread lane beside *)
(* the finders, and Phase 1 on a thread of its own on a single-stage run.  *)
(* Lanes run in parallel, fail, are retried, fall down the ladder, flip    *)
(* the run to stand-in models, and are stopped when their phase is lost.   *)
(*                                                                         *)
(*   plan       what the triage and the policy ask of this run             *)
(*   outage     what is wrong with each model ("up", "broken", "dry")      *)
(*   pc, side   the worker's own thread; the single-stage Phase-1 thread   *)
(*   lanes      the lanes submitted so far, each with its thread           *)
(*   rung       ctx.phase1_choice and ctx.phase1_lm                        *)
(*   degraded, holds   the run is on stand-ins; the holds it recorded      *)
(*   cancel     ctx.cancel_flag                                            *)
(*   signals    the StopSignals set: an abandoned phase by its name,       *)
(*              "abort" (Phase 2 of a single stage failed), "grace" (the   *)
(*              comparison lanes ran out of it)                            *)
(*   listed     ctx.reviewers, the provenance the review prints            *)
(*   skipped1   ctx.phase1_skipped                                         *)
(*   found      what the final verification left standing                  *)
(*   confirmation  ctx.confirmation                                        *)
(*   result, verdict   how the run ended, and what it published            *)
(*   faulty     the lanes that have trouble of their own (MaxFaults)        *)
(*                                                                         *)
(* An attempt of a lane is one model session: its turn, the correction     *)
(* turns in the same session and slot, the repair lane as a last resort    *)
(* (lane.run_with_corrections, worker._repair).  Their texts decide only   *)
(* whether the attempt answered.                                           *)
(***************************************************************************)
EXTENDS Naturals, Sequences, FiniteSets

CONSTANTS Roles,        \* the reviewer roles of a phase (_phase_roles)
          Confirmers,   \* those of the confirmation pass
          Parallel,     \* phase_parallelism (0: all at once)
          Ladder,       \* the Phase-1 models, best first
          Final,        \* the model of Phase 2 and of the verifiers
          Second,       \* the comparison model
          Standin,      \* the stand-in of each primary model that has one
          Shards,       \* the most shards of a verification
          Plans,        \* the plans this instance starts with
          Outages,      \* the outages it meets
          MaxFaults

None == "none"
Models == {Ladder[i] : i \in DOMAIN Ladder} \cup {Final, Second}
            \cup {Standin[m] : m \in DOMAIN Standin}

\* The route is chosen before the first phase: "both" phases with the gate
\* between them, Phase 2 "alone" (repo or backlog), or a "single" stage.
PlanTypes ==
  [route : {"both", "alone", "single"}, deep : BOOLEAN, audit : {None, "light", "full"},
   twins : BOOLEAN, confirm : BOOLEAN, threads : BOOLEAN]

ASSUME PipelineAssumption ==
  /\ Confirmers \subseteq Roles /\ Roles # {}
  /\ Parallel \in Nat /\ Shards \in Nat /\ MaxFaults \in Nat
  /\ Ladder \in Seq(Models) /\ Ladder # << >> /\ DOMAIN Standin \subseteq Models
  /\ Plans \subseteq PlanTypes
  /\ Outages \subseteq [Models -> {"up", "broken", "dry"}]
  \* an audit has no single stage, comparison, confirmation or thread lane
  /\ \A p \in Plans : /\ p.route # "both" => p.deep
                      /\ p.audit # None => p.route = "both" /\ ~p.twins /\ ~p.confirm /\ ~p.threads

VARIABLES plan, outage, pc, side, lanes, rung, degraded, holds, cancel, signals,
          listed, skipped1, found, confirmation, result, verdict, faulty

setup == <<plan, outage>>
mode == <<degraded, holds>>
ending == <<result, verdict>>
vars == <<setup, pc, side, lanes, rung, mode, cancel, signals, listed, skipped1,
          found, confirmation, ending, faulty>>

ReviewGroups == {"phase1", "phase2", "fresh"}
VerifyGroups == {"verify1", "verify2", "recheck"}

\* A lane: its group, its role (or shard), whether it is a comparison lane.
LaneId(group, role, twin) == [group |-> group, role |-> role, twin |-> twin]
ReviewLanes(group) ==
  LET roles == IF group = "fresh" THEN Confirmers ELSE Roles
      kinds == IF plan.twins /\ group = "phase2" THEN BOOLEAN ELSE {FALSE}
  IN  {LaneId(group, r, t) : r \in roles, t \in kinds}
ThreadLane == LaneId("threads", 1, FALSE)

\* `lm` is the model the lane was given, `model` the one its attempts run on.
Lane(at, lm, n, budget) == [at |-> at, lm |-> lm, model |-> lm, n |-> n, budget |-> budget]
Live == {"queued", "top", "running", "dead"}

Of(group) == {l \in DOMAIN lanes : l.group = group}
At(l, where) == l \in DOMAIN lanes /\ lanes[l].at = where
Resolve(m) == IF degraded /\ m \in DOMAIN Standin THEN Standin[m] ELSE m

Init ==
  /\ plan \in Plans /\ outage \in Outages
  /\ pc = "route" /\ side = None
  /\ lanes = << >>
  /\ rung = [at |-> 0, lm |-> None]
  /\ degraded \in BOOLEAN /\ holds = 0
  /\ degraded => ~plan.twins
  /\ cancel = FALSE /\ signals = {}
  /\ listed = {} /\ skipped1 = FALSE
  /\ found = None /\ confirmation = None
  /\ result = None /\ verdict = None
  /\ faulty = {}

-----------------------------------------------------------------------------
(* A lane's thread: _reviewer_lane, _run_checked_lane, and what its caller *)
(* makes of an error.                                                      *)

\* Mutant: a comparison lane does not hear that its grace is over.
StoppedLate(l) ==
  \/ cancel
  \/ l.group \in signals
  \/ l.group = "phase1" /\ "abort" \in signals
  \/ l = ThreadLane /\ pc = "stopping"

\* The lane's should_stop.
Stopped(l) ==
  \/ cancel
  \/ l.group \in signals
  \/ l.group = "phase1" /\ "abort" \in signals
  \/ l.twin /\ "grace" \in signals
  \/ l = ThreadLane /\ pc = "stopping"

\* A stop is Cancelled on a cancelled run; an error of a comparison lane only
\* drops it, unless its phase is lost anyway.
Raised(l, error) ==
  CASE l.twin /\ error # "cancelled" /\ l.group \notin signals -> "dropped"
    [] OTHER -> error
StopError == IF cancel THEN "cancelled" ELSE "stopped"

Goes(l, where) == lanes' = [lanes EXCEPT ![l].at = where]
Leaves(l, where) ==
  lanes' = [lanes EXCEPT ![l] = [@ EXCEPT !.at = where, !.lm = None, !.n = 0, !.budget = 0]]

\* The phase's two executors: primaries and comparison lanes apart.
Room(l) ==
  l.group \in ReviewGroups /\ Parallel # 0 =>
    Cardinality({k \in Of(l.group) : k.twin = l.twin /\ lanes[k].at \in Live \ {"queued"}})
      < Parallel

\* A lane's thread starts with two attempts, one for a comparison lane; a
\* Phase-1 lane on the rung the run is on now.
Thread0(l) ==
  Lane("top", IF l.group = "phase1" THEN rung.lm ELSE lanes[l].lm, 0, IF l.twin THEN 1 ELSE 2)
AtTop(l) == (At(l, "queued") /\ Room(l)) \/ At(l, "top")
Now(l) == IF lanes[l].at = "queued" THEN Thread0(l) ELSE lanes[l]

\* The top of the attempt loop: stopped, or a comparison lane on a degraded
\* run, or a Phase-1 lane whose rung the run left, or the next attempt.
StopsAtTop(l) ==
  /\ AtTop(l) /\ Stopped(l)
  /\ Leaves(l, Raised(l, StopError))

RefusesStandin(l) ==
  /\ AtTop(l) /\ ~Stopped(l) /\ l.twin /\ degraded
  /\ Leaves(l, Raised(l, "failed"))

OnRung(l, m) == l.group = "phase1" => rung.lm = m
Tries(l) == AtTop(l) /\ ~Stopped(l) /\ ~(l.twin /\ degraded)
NextModel(l) == IF l.twin THEN Now(l).model ELSE Resolve(Now(l).model)

LeftBehind(l) ==
  /\ Tries(l) /\ ~OnRung(l, NextModel(l))
  /\ lanes' = [lanes EXCEPT ![l] = [Now(l) EXCEPT !.at = "dead"]]

Attempt(l) ==
  /\ Tries(l) /\ OnRung(l, NextModel(l))
  /\ lanes' = [lanes EXCEPT ![l] =
       [Now(l) EXCEPT !.at = "running", !.model = NextModel(l), !.n = @ + 1]]

Loop(l) ==
  /\ StopsAtTop(l) \/ RefusesStandin(l) \/ LeftBehind(l) \/ Attempt(l)
  /\ UNCHANGED <<setup, pc, side, rung, mode, cancel, signals, listed, skipped1,
                 found, confirmation, ending, faulty>>

\* A good answer counts even if the lane was told to stop meanwhile.
Answers(l) ==
  /\ At(l, "running") /\ outage[lanes[l].model] = "up"
  /\ Leaves(l, "done")
  /\ listed' = IF l.group \in ReviewGroups THEN listed \cup {l} ELSE listed
  /\ UNCHANGED <<setup, pc, side, rung, mode, cancel, signals, skipped1, found,
                 confirmation, ending, faulty>>

\* The poll kills the turn, or the stop is seen between two turns.
IsStopped(l) ==
  /\ At(l, "running") /\ Stopped(l)
  /\ Leaves(l, Raised(l, StopError))
  /\ UNCHANGED <<setup, pc, side, rung, mode, cancel, signals, listed, skipped1,
                 found, confirmation, ending, faulty>>

\* A session fails because its model is down, or by chance: a bounded number
\* of lanes has such trouble, in as many of its attempts as may be.
Chances == Cardinality(faulty) + (IF cancel THEN 1 ELSE 0)
Fault(l, how) ==
  /\ At(l, "running") /\ ~Stopped(l)
  /\ \/ outage[lanes[l].model] = how /\ UNCHANGED faulty
     \/ /\ outage[lanes[l].model] = "up"
        /\ l \in faulty \/ Chances < MaxFaults
        /\ faulty' = faulty \cup {l}

\* _degrade_on_quota_failure: a primary lane on a primary model.
Flips(l) == ~l.twin /\ lanes[l].model \in DOMAIN Standin

\* Mutant: whether the run is degraded already is not asked under the lock.
FlipAgain(l) ==
  /\ degraded' = TRUE
  /\ holds' = holds + 1
  /\ lanes' = [lanes EXCEPT ![l] =
       [@ EXCEPT !.at = "top", !.model = Standin[lanes[l].model], !.budget = lanes[l].n + 2]]

\* The first lane to die on the dry pool flips the run and records the hold;
\* each of them has two more attempts, on the stand-in.
Flip(l) ==
  /\ degraded' = TRUE
  /\ holds' = IF degraded THEN holds ELSE holds + 1
  /\ lanes' = [lanes EXCEPT ![l] =
       [@ EXCEPT !.at = "top", !.model = Standin[lanes[l].model], !.budget = lanes[l].n + 2]]

RunsDry(l) ==
  /\ Fault(l, "dry") /\ Flips(l)
  /\ Flip(l)
  /\ UNCHANGED <<setup, pc, side, rung, cancel, signals, listed, skipped1, found,
                 confirmation, ending>>

Fails(l) ==
  /\ \/ Fault(l, "broken")
     \/ Fault(l, "dry") /\ ~Flips(l)
  /\ Goes(l, IF lanes[l].n < lanes[l].budget THEN "top" ELSE "dead")
  /\ UNCHANGED <<setup, pc, side, rung, mode, cancel, signals, listed, skipped1,
                 found, confirmation, ending>>

-----------------------------------------------------------------------------
(* Every attempt failed.                                                   *)

\* No ladder for a lane whose phase is being abandoned.
DiesStopped(l) ==
  /\ At(l, "dead") /\ l.group \in ReviewGroups /\ Stopped(l)
  /\ Leaves(l, Raised(l, StopError))
  /\ UNCHANGED rung

\* Mutant: a sibling's fall counts as this lane's last rung.
DiesOffRung(l) ==
  /\ At(l, "dead") /\ l.group \in ReviewGroups /\ ~Stopped(l)
  /\ l.group = "phase1" => rung.lm # lanes[l].lm \/ rung.at = Len(Ladder)
  /\ Leaves(l, Raised(l, "failed"))
  /\ UNCHANGED rung

\* _phase1_fallback: where a sibling moved the run already, else to a rung
\* below that the quotas allow.
Restarts(l, lm) == lanes' = [lanes EXCEPT ![l] = Lane("top", lm, 0, 2)]
Follows(l) ==
  /\ At(l, "dead") /\ l.group = "phase1" /\ ~Stopped(l)
  /\ rung.lm # lanes[l].lm
  /\ Restarts(l, rung.lm)
  /\ UNCHANGED rung

Falls(l) ==
  /\ At(l, "dead") /\ l.group = "phase1" /\ ~Stopped(l)
  /\ rung.lm = lanes[l].lm
  /\ \E i \in (rung.at + 1)..Len(Ladder) :
       /\ rung' = [at |-> i, lm |-> Resolve(Ladder[i])]
       /\ Restarts(l, rung'.lm)

Dies(l) ==
  /\ At(l, "dead") /\ l.group \in ReviewGroups /\ ~Stopped(l)
  /\ l.group = "phase1" => rung.lm = lanes[l].lm /\ rung.at = Len(Ladder)
  /\ Leaves(l, Raised(l, "failed"))
  /\ UNCHANGED rung

\* A shard that held blockers fails its verification, another is dropped.
ShardDies(l) ==
  /\ At(l, "dead") /\ l.group \in VerifyGroups
  /\ \E how \in (IF cancel THEN {"cancelled"} ELSE {"unchecked", "dropped"}) : Leaves(l, how)
  /\ UNCHANGED rung

ThreadLaneDies(l) ==
  /\ At(l, "dead") /\ l = ThreadLane
  /\ Leaves(l, "failed")
  /\ UNCHANGED rung

Dead(l) ==
  /\ DiesStopped(l) \/ Follows(l) \/ Falls(l) \/ Dies(l) \/ ShardDies(l) \/ ThreadLaneDies(l)
  /\ UNCHANGED <<setup, pc, side, mode, cancel, signals, listed, skipped1, found,
                 confirmation, ending, faulty>>

-----------------------------------------------------------------------------
(* A phase: _reviewer_lanes on the thread that runs it.                    *)

Errors == {"failed", "cancelled", "stopped"}
Failing(group) == {l \in Of(group) : lanes[l].at \in Errors}

\* The first error collected abandons the phase: running lanes are told to
\* stop, the others never start.
Abandon(group) ==
  /\ group \in {pc, side} \cap ReviewGroups
  /\ group \notin signals /\ Failing(group) # {}
  /\ signals' = signals \cup {group}
  /\ lanes' = [l \in DOMAIN lanes |->
       IF l.group = group /\ lanes[l].at = "queued" THEN [lanes[l] EXCEPT !.at = "gone"]
       ELSE lanes[l]]
  /\ UNCHANGED <<setup, pc, side, rung, mode, cancel, listed, skipped1, found,
                 confirmation, ending, faulty>>

\* The comparison lanes' grace ends some time after the last primary lane.
GraceEnds ==
  /\ pc = "phase2" /\ "grace" \notin signals
  /\ \E l \in Of("phase2") : lanes[l].at \in Live
  /\ \A l \in Of("phase2") : lanes[l].at \in Live => l.twin
  /\ signals' = signals \cup {"grace"}
  /\ UNCHANGED <<setup, pc, side, lanes, rung, mode, cancel, listed, skipped1,
                 found, confirmation, ending, faulty>>

\* Mutant: the phase is left as soon as its fate is known.
PhaseLeft(group) ==
  \/ group \in signals
  \/ \A l \in Of(group) : lanes[l].at \notin Live

\* Both executors are left only when every lane's thread has ended.
PhaseOver(group) ==
  /\ \A l \in Of(group) : lanes[l].at \notin Live
  /\ Failing(group) # {} => group \in signals

\* A cancelled run wins, else the failure that stopped the others.
PhaseResult(group) ==
  LET errors == {lanes[l].at : l \in Failing(group)}
  IN  IF "cancelled" \in errors THEN "cancelled"
      ELSE IF "failed" \in errors THEN "failed"
      ELSE IF errors # {} THEN "stopped" ELSE "ok"

\* A verification ends with its last shard; its error is the first in order.
VerifyOver(group) == \A l \in Of(group) : lanes[l].at \notin Live
VerifyResult(group) ==
  LET errors == {l \in Of(group) : lanes[l].at \in {"cancelled", "unchecked"}}
      first == CHOOSE l \in errors : \A k \in errors : l.role <= k.role
  IN  IF errors = {} THEN "ok" ELSE lanes[first].at

Added(new) ==
  lanes' = [l \in DOMAIN new \cup DOMAIN lanes |-> IF l \in DOMAIN new THEN new[l] ELSE lanes[l]]

\* ctx.verify_incomplete, ctx.thread_failed
Incomplete == \E l \in DOMAIN lanes : l.group \in VerifyGroups /\ lanes[l].at = "dropped"
ThreadFailed == At(ThreadLane, "failed") \/ At(ThreadLane, "stopped")

-----------------------------------------------------------------------------
(* The worker's own thread.                                                *)

Finish(how) == pc' = "stopping" /\ result' = how /\ UNCHANGED verdict

\* _choose_phase1: any rung may be the first with quota left.
ChooseRung ==
  \E i \in DOMAIN Ladder : rung' = [at |-> i, lm |-> Resolve(Ladder[i])]

\* The lanes of these phases, and the thread lane beside the first.
PhaseLm(l) ==
  IF l.twin THEN Second ELSE IF l.group = "phase1" THEN None ELSE Resolve(Final)
Start(groups) ==
  LET beside == IF pc = "route" /\ plan.threads THEN {ThreadLane} ELSE {}
      ids == beside \cup UNION {ReviewLanes(g) : g \in groups}
  IN  Added([l \in ids |-> Lane("queued", PhaseLm(l), 0, 0)])

Route ==
  /\ pc = "route"
  /\ CASE plan.route = "both" ->
            pc' = "phase1" /\ Start({"phase1"}) /\ ChooseRung /\ UNCHANGED <<side, skipped1>>
       [] plan.route = "single" ->
            /\ pc' = "phase2" /\ side' = "phase1"
            /\ Start({"phase1", "phase2"}) /\ ChooseRung /\ UNCHANGED skipped1
       [] OTHER ->
            /\ pc' = "phase2" /\ skipped1' = TRUE
            /\ Start({"phase2"}) /\ UNCHANGED <<side, rung>>
  /\ UNCHANGED <<setup, mode, cancel, signals, listed, found, confirmation, ending, faulty>>

\* Mutant: Phase 1's lanes stay in the provenance.
DiscardQuietly == skipped1' = TRUE /\ UNCHANGED listed

\* _discard_phase1
Discard ==
  /\ skipped1' = TRUE
  /\ listed' = {l \in listed : l.group # "phase1"}

\* Phase 1 or its verification failed: review with Phase 2 alone, if there is
\* one and nobody needs the complete set.
FallsThrough == plan.deep /\ plan.audit = None
Phase1Fails ==
  CASE cancel -> Finish("cancelled") /\ UNCHANGED <<lanes, skipped1, listed>>
    [] ~cancel /\ FallsThrough ->
         pc' = "phase2" /\ Discard /\ Start({"phase2"}) /\ UNCHANGED ending
    [] OTHER -> Finish("failed") /\ UNCHANGED <<lanes, skipped1, listed>>

Phase1Ends ==
  /\ pc = "phase1" /\ PhaseOver("phase1")
  /\ CASE PhaseResult("phase1") = "ok" ->
            pc' = "join1" /\ UNCHANGED <<lanes, skipped1, listed, ending>>
       [] PhaseResult("phase1") = "cancelled" ->
            Finish("cancelled") /\ UNCHANGED <<lanes, skipped1, listed>>
       [] OTHER -> Phase1Fails
  /\ UNCHANGED <<setup, side, rung, mode, cancel, signals, found, confirmation, faulty>>

\* A verification reads the thread lane's outcomes first, waiting for them,
\* then starts its shards (none without candidates).
Joins == [join1 |-> "verify1", join2 |-> "verify2", join3 |-> "recheck"]
StartVerify(group) ==
  \E k \in 0..Shards :
    Added([l \in {LaneId(group, n, FALSE) : n \in 1..k} |-> Lane("queued", Resolve(Final), 0, 0)])
Verify ==
  /\ pc \in DOMAIN Joins
  /\ ThreadLane \in DOMAIN lanes => lanes[ThreadLane].at \notin Live
  /\ IF At(ThreadLane, "cancelled")
     THEN Finish("cancelled") /\ UNCHANGED lanes
     ELSE pc' = Joins[pc] /\ StartVerify(Joins[pc]) /\ UNCHANGED ending
  /\ UNCHANGED <<setup, side, rung, mode, cancel, signals, listed, skipped1, found,
                 confirmation, faulty>>

Verify1Ends ==
  /\ pc = "verify1" /\ VerifyOver("verify1")
  /\ CASE VerifyResult("verify1") = "ok" ->
            pc' = "gate" /\ UNCHANGED <<lanes, skipped1, listed, ending>>
       [] VerifyResult("verify1") = "cancelled" ->
            Finish("cancelled") /\ UNCHANGED <<lanes, skipped1, listed>>
       [] OTHER -> Phase1Fails
  /\ UNCHANGED <<setup, side, rung, mode, cancel, signals, found, confirmation, faulty>>

\* A publication: blockers always request changes; an approval needs a final
\* review at full strength, and the confirmation pass when one was due.
\* Mutant: a dropped shard does not count against the strength.
FullStrengthDropped(phase2, conflict) ==
  /\ phase2 /\ plan.audit = None
  /\ ~degraded /\ ~ThreadFailed /\ ~conflict

FullStrength(phase2, conflict) ==
  /\ phase2 /\ plan.audit = None
  /\ ~degraded /\ ~Incomplete /\ ~ThreadFailed /\ ~conflict
Confirmed == confirmation \in {None, "ran"}

Verdict(standing, full) ==
  IF plan.audit # None THEN "report"
  ELSE IF standing = "blockers" THEN "REQUEST_CHANGES"
  ELSE IF standing = "suggestions" \/ ~full \/ ~Confirmed THEN "COMMENT" ELSE "APPROVE"

Publishes(standing, full) ==
  pc' = "stopping" /\ result' = "done" /\ verdict' = Verdict(standing, full)

Strengths == [clear |-> 0, suggestions |-> 1, blockers |-> 2]
Standings == DOMAIN Strengths

\* The gate only defers a Phase 2 that would run, and no head whose final
\* review stands by suggestions alone; a full audit is never held back.
Admits(found1, over, stands) ==
  /\ plan.deep
  /\ plan.audit # "full" => ~(over /\ ~(found1 # "blockers" /\ stands))

Gate ==
  /\ pc = "gate"
  /\ \E found1 \in Standings, over \in BOOLEAN, stands \in BOOLEAN :
       /\ over => found1 # "clear"
       /\ CASE Admits(found1, over, stands) ->
                 pc' = "phase2" /\ Start({"phase2"}) /\ UNCHANGED ending
            [] OTHER ->
                 /\ IF cancel THEN Finish("cancelled") ELSE Publishes(found1, FALSE)
                 /\ UNCHANGED lanes
  /\ UNCHANGED <<setup, side, rung, mode, cancel, signals, listed, skipped1, found,
                 confirmation, faulty>>

SingleStage == plan.route = "single"

\* Phase 2 ended; on a single stage its failure aborts the Phase 1 beside it.
Phase2Ends ==
  /\ pc = "phase2" /\ PhaseOver("phase2")
  /\ LET how == PhaseResult("phase2")
     IN  CASE how = "ok" ->
                pc' = (IF SingleStage THEN "beside" ELSE "join2") /\ UNCHANGED <<signals, ending>>
           [] how # "ok" /\ SingleStage ->
                /\ pc' = "lost" /\ result' = how /\ UNCHANGED verdict
                /\ signals' = signals \cup {"abort"}
           [] OTHER -> Finish(how) /\ UNCHANGED signals
  /\ UNCHANGED <<setup, side, lanes, rung, mode, cancel, listed, skipped1, found,
                 confirmation, faulty>>

\* The single-stage Phase-1 thread ends, and is joined.
SideEnds ==
  /\ side = "phase1" /\ PhaseOver("phase1")
  /\ side' = PhaseResult("phase1")
  /\ UNCHANGED <<setup, pc, lanes, rung, mode, cancel, signals, listed, skipped1, found,
                 confirmation, ending, faulty>>

Beside ==
  /\ pc = "beside" /\ side # "phase1"
  /\ IF side \in {"ok", "cancelled"} THEN UNCHANGED <<skipped1, listed>> ELSE Discard
  /\ IF side = "cancelled" \/ cancel
     THEN Finish("cancelled")
     ELSE pc' = "join2" /\ UNCHANGED ending
  /\ UNCHANGED <<setup, side, lanes, rung, mode, cancel, signals, found, confirmation, faulty>>

Lost ==
  /\ pc = "lost" /\ side # "phase1"
  /\ pc' = "stopping"
  /\ UNCHANGED <<setup, side, lanes, rung, mode, cancel, signals, listed, skipped1, found,
                 confirmation, ending, faulty>>

VerifyFails(group) ==
  Finish(IF VerifyResult(group) = "cancelled" THEN "cancelled" ELSE "failed")

Verify2Ends ==
  /\ pc = "verify2" /\ VerifyOver("verify2")
  /\ IF VerifyResult("verify2") = "ok"
     THEN pc' = "confirm" /\ found' \in Standings /\ UNCHANGED ending
     ELSE VerifyFails("verify2") /\ UNCHANGED found
  /\ UNCHANGED <<setup, side, lanes, rung, mode, cancel, signals, listed, skipped1,
                 confirmation, faulty>>

\* _confirm12: the pass when it is due, none of its skips applies, and its
\* lanes; their failure costs the approval only.
SkipsConfirmation == found = "blockers" \/ degraded \/ Incomplete \/ Confirmers = {}
Confirm ==
  /\ pc = "confirm"
  /\ CASE ~plan.confirm ->
            pc' = "publish" /\ UNCHANGED <<lanes, confirmation>>
       [] plan.confirm /\ SkipsConfirmation ->
            pc' = "publish" /\ confirmation' = "skipped" /\ UNCHANGED lanes
       [] OTHER ->
            pc' = "fresh" /\ Start({"fresh"}) /\ UNCHANGED confirmation
  /\ UNCHANGED <<setup, side, rung, mode, cancel, signals, listed, skipped1, found,
                 ending, faulty>>

FreshEnds ==
  /\ pc = "fresh" /\ PhaseOver("fresh")
  /\ CASE PhaseResult("fresh") = "ok" ->
            pc' = "join3" /\ UNCHANGED <<confirmation, ending>>
       [] PhaseResult("fresh") # "ok" /\ (PhaseResult("fresh") = "cancelled" \/ cancel) ->
            Finish("cancelled") /\ UNCHANGED confirmation
       [] OTHER ->
            pc' = "publish" /\ confirmation' = "failed" /\ UNCHANGED ending
  /\ UNCHANGED <<setup, side, lanes, rung, mode, cancel, signals, listed, skipped1, found, faulty>>

RecheckEnds ==
  /\ pc = "recheck" /\ VerifyOver("recheck")
  /\ IF VerifyResult("recheck") = "ok"
     THEN /\ pc' = "publish" /\ confirmation' = "ran"
          /\ found' \in {f \in Standings : Strengths[f] >= Strengths[found]}
          /\ UNCHANGED ending
     ELSE VerifyFails("recheck") /\ UNCHANGED <<confirmation, found>>
  /\ UNCHANGED <<setup, side, lanes, rung, mode, cancel, signals, listed, skipped1, faulty>>

\* What the thread lane withdrew does not stand; where it and the finders
\* disagree nobody approves.
Publish ==
  /\ pc = "publish"
  /\ \E standing \in Standings, conflict \in BOOLEAN :
       /\ Strengths[standing] <= Strengths[found]
       /\ conflict \/ standing # found => At(ThreadLane, "done")
       /\ Publishes(standing, FullStrength(TRUE, conflict))
  /\ UNCHANGED <<setup, side, lanes, rung, mode, cancel, signals, listed, skipped1, found,
                 confirmation, faulty>>

\* _stop_thread_lane; its 120 seconds are well above what a stopped lane needs.
Ends ==
  /\ pc = "stopping"
  /\ ThreadLane \in DOMAIN lanes => lanes[ThreadLane].at \notin Live
  /\ pc' = "ended"
  /\ UNCHANGED <<setup, side, lanes, rung, mode, cancel, signals, listed, skipped1, found,
                 confirmation, ending, faulty>>

\* The heartbeat reads that the run was cancelled.
Cancel ==
  /\ pc # "ended" /\ ~cancel /\ Chances < MaxFaults
  /\ cancel' = TRUE
  /\ UNCHANGED <<setup, pc, side, lanes, rung, mode, signals, listed, skipped1, found,
                 confirmation, ending, faulty>>

Rest == pc = "ended" /\ UNCHANGED vars

\* What a lane's model does, and what its thread does with it.
Model(l) == Answers(l) \/ RunsDry(l) \/ Fails(l)
Thread(l) == Loop(l) \/ IsStopped(l) \/ Dead(l)
Main ==
  \/ Route \/ Phase1Ends \/ Verify \/ Verify1Ends \/ Gate \/ Phase2Ends \/ Beside \/ Lost
  \/ Verify2Ends \/ Confirm \/ FreshEnds \/ RecheckEnds \/ Publish \/ Ends
  \/ SideEnds \/ GraceEnds \/ \E g \in ReviewGroups : Abandon(g)

Submitted == DOMAIN lanes
Primaries == {l \in Submitted : ~l.twin}

Next ==
  \/ Main \/ Cancel
  \/ \E l \in Submitted : Thread(l) \/ Model(l)
  \/ Rest

\* Every session of a primary lane ends (its timeout), every thread goes on;
\* a comparison lane's session may hang for ever.
Progress == Main \/ (\E l \in Submitted : Thread(l)) \/ (\E l \in Primaries : Model(l))
Spec == Init /\ [][Next]_vars /\ WF_vars(Progress)

-----------------------------------------------------------------------------
(* Properties.                                                             *)

\* Types, and the bound on faults; a run never ends on a "stopped" lane: the
\* error that stopped it was collected (_reviewer_lanes).
TypeOK ==
  /\ plan \in Plans /\ outage \in Outages
  /\ \A l \in DOMAIN lanes :
       /\ lanes[l].at \in Live \cup Errors \cup {"done", "dropped", "gone", "unchecked"}
       /\ lanes[l].model \in Models \cup {None}
  /\ rung.at \in 0..Len(Ladder) /\ rung.lm \in Models \cup {None}
  /\ degraded \in BOOLEAN /\ holds \in Nat
  /\ signals \subseteq ReviewGroups \cup {"abort", "grace"}
  /\ listed \subseteq DOMAIN lanes
  /\ found \in Standings \cup {None}
  /\ confirmation \in {None, "skipped", "failed", "ran"}
  /\ result \in {None, "done", "failed", "cancelled"}
  /\ Chances <= MaxFaults

\* A thread of a lane runs only while its phase does: the executors are left
\* before the phase's result is used, whatever failed or was stopped, and the
\* thread lane is joined before the run ends (_reviewer_lanes, _stop_thread_lane).
NoLaneOutlives ==
  \A l \in DOMAIN lanes : lanes[l].at \in Live =>
    pc # "ended" /\ (l.group \in {pc, side} \/ l = ThreadLane)

\* However many lanes die on the dry pool, the run flips to the stand-ins once
\* and records one hold (_flip_to_degraded).
FlipsOnce == holds <= 1 /\ (holds = 1 => degraded)

\* The review lanes whose findings the review is made of.
Weighed ==
  {l \in DOMAIN lanes : /\ l.group \in ReviewGroups /\ lanes[l].at = "done"
                        /\ l.group = "phase1" => ~skipped1
                        /\ l.group = "fresh" => confirmation = "ran"}
\* The provenance a published review prints names the lanes its findings came
\* from, no lane of a Phase 1 that was thrown away, and beyond them only the
\* lanes of a confirmation pass that failed (_record_reviewer, _discard_phase1).
WeighedIsListed ==
  result = "done" =>
    /\ Weighed \subseteq listed
    /\ \A l \in listed \ Weighed : l.group = "fresh" /\ confirmation = "failed"

\* Every role of a phase answered on the primary model.
Answered(group, roles) ==
  \A r \in roles : /\ At(LaneId(group, r, FALSE), "done")
                   /\ lanes[LaneId(group, r, FALSE)].model = Final
AllVerified(group) == \A l \in Of(group) : lanes[l].at = "done"

\* An approval rests on a whole final review: every Phase-2 role on the primary
\* model, every shard verified, the confirmation pass when one was due, and the
\* thread lane when it ran (_review_strength12, _confirm12).
ApprovalIsFull ==
  verdict = "APPROVE" =>
    /\ Answered("phase2", Roles) /\ AllVerified("verify2")
    /\ plan.confirm => Answered("fresh", Confirmers) /\ AllVerified("recheck")
    /\ plan.threads => At(ThreadLane, "done")

\* A Phase-1 lane gives up only after it failed on the last rung itself, although
\* its siblings move the shared rung under it (_phase1_fallback).
LadderIsWalked ==
  \A l \in Of("phase1") : lanes[l].at = "failed" =>
    rung.at = Len(Ladder) /\ lanes[l].model = Ladder[Len(Ladder)]

\* "the run fails (INFRA) rather than publish without checking them"
\* (worker.UncheckedBlockers): a run with a shard of blockers nobody checked
\* publishes nothing.
BlockersAreChecked ==
  (\E l \in DOMAIN lanes : lanes[l].at = "unchecked") => verdict = None

\* Every run ends, although a comparison lane may hang for ever: its grace, the
\* abandoned phase and the joins let go of every thread.
RunEnds == <>(pc = "ended")
=============================================================================
