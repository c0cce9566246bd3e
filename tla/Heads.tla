------------------------------- MODULE Heads -------------------------------
(***************************************************************************)
(* The head rows of one pull request (table `heads`), and what every       *)
(* transaction of ingest.py and scheduler.py does to them.  An operator    *)
(* here takes the rows hs \in [Shas -> Head] of one PR and returns the     *)
(* rows after the transaction, so that the processes of ReviewQueue.tla    *)
(* (daemon, workers, operator) share one translation of it.                *)
(*                                                                         *)
(* Abstractions.  Times: eligible_at is `due` (it has passed or not) and   *)
(* queued_at is left out (ties between equal priorities are free).         *)
(* Triggers that every rule treats alike are one: "new" is NEW_PR and      *)
(* NEW_PUSH, "mention" is MENTION and REVIEW_REQUESTED, "manual" is MANUAL *)
(* and PRIORITY_REQUEST.  `reason` is kept only as `barred`: the head was  *)
(* closed by a skip label or a draft, which can be lifted.  The branch of  *)
(* _requeue_or_fail for "live head " is left out: no worker of this commit *)
(* raises it (scheduler.py:303).                                           *)
(***************************************************************************)
EXTENDS Integers, FiniteSets

CONSTANTS
  Shas,          \* commits a PR's head can be at
  NoSha,         \* a null commit
  MaxAttempts    \* [scheduling] max_attempts: runs an INFRA failure gets

ASSUME HeadsAssumption == /\ NoSha \notin Shas
                          /\ MaxAttempts \in Nat
                          /\ IsFiniteSet(Shas)

-----------------------------------------------------------------------------
(* Rows *)

Triggers == {"new", "mention", "manual", "normal", "reply", "ci", "audit"}
Automatic == {"new"}
Skippable == Automatic \cup {"ci"}
Reopening == {"reply", "manual", "normal"}
Asking == {"mention"}
Priority == {"mention", "manual", "reply"}

HeadStatus == {"none", "queued", "running", "done", "failed", "superseded", "closed"}

Head == [status: HeadStatus, trig: Triggers, prio: BOOLEAN, audit: BOOLEAN,
         attempts: Nat, due: BOOLEAN, barred: BOOLEAN, id: Nat,
         carried: Shas \cup {NoSha}, print: BOOLEAN]

\* No row yet for this commit.
NoHead == [status |-> "none", trig |-> "new", prio |-> FALSE, audit |-> FALSE,
           attempts |-> 0, due |-> FALSE, barred |-> FALSE, id |-> 0,
           carried |-> NoSha, print |-> FALSE]

Open(h) == h.status \in {"queued", "running"}
OpenLive(h) == Open(h) /\ ~h.audit

\* heads.id: rows are never deleted, so it is the creation order.
NextId(hs) == 1 + Cardinality({s \in Shas : hs[s].status # "none"})

CarriedFrom(hs, s, reviewed) ==
  IF hs[s].audit \/ s \in reviewed THEN NoSha ELSE hs[s].carried

ReviewedSha(hs, s, reviewed) ==
  IF CarriedFrom(hs, s, reviewed) = NoSha THEN s ELSE CarriedFrom(hs, s, reviewed)

-----------------------------------------------------------------------------
(* ingest.enqueue_head.  e.label: the PR carries a skip label; e.reviewed: *)
(* commits with a row in `reviews`; e.active: commits with an active run.  *)

Result(res, hs, again) == [res |-> res, hs |-> hs, again |-> again]

Requeue(h, t, prio, due) ==
  [h EXCEPT !.status = "queued", !.trig = t, !.prio = prio, !.due = due,
            !.barred = FALSE, !.attempts = 0]

SupersedeOthers(hs, s, trigs) ==
  [x \in Shas |-> IF x # s /\ OpenLive(hs[x]) /\ hs[x].trig \in trigs
                  THEN [hs[x] EXCEPT !.status = "superseded", !.barred = FALSE]
                  ELSE hs[x]]

\* The early returns: nothing is created, promoted or re-opened.
Refuses(h, t, label) ==
  \/ label /\ t \in Skippable
  \/ label /\ t = "reply" /\ h.status \in {"none", "closed", "superseded"}
  \/ h.audit
  \/ t = "ci" /\ h.status # "done"

\* Mutant: a closed head is closed for good.
NeverLifted(h) == FALSE

\* skip_closed: only a label or the draft state kept it from review.
Lifted(h) == h.status = "closed" /\ h.barred

\* _take_over_ci_check: the request takes the head over from its CI check.
TakesOverCheck(h, t, active) ==
  /\ h.trig = "ci" /\ t \in Reopening
  /\ \/ h.status = "queued"
     \/ h.status = "running" /\ t # "reply" /\ active

Promotes(h, t) == Open(h) /\ t \in Priority /\ ~h.prio

AsksQueued(h, t) == t = "normal" /\ h.status = "queued" /\ h.trig \in Automatic

Reopens(hs, s, t, reviewed) ==
  \/ t \in Reopening /\ hs[s].status \in {"done", "failed", "closed"}
  \/ t \in Asking /\ hs[s].status = "failed"
  \/ /\ t \in Asking /\ hs[s].status = "done"
     /\ CarriedFrom(hs, s, reviewed) # NoSha \/ s \notin reviewed

NewHead(hs, t) ==
  [NoHead EXCEPT !.status = "queued", !.trig = t, !.prio = (t \in Priority),
                 !.due = (t \in Priority \cup {"normal"}), !.id = NextId(hs)]

Enqueue(hs, s, t, e) ==
  LET h == hs[s]
      prio == t \in Priority
      Put(res, row, again) == Result(res, [hs EXCEPT ![s] = row], again)
  IN  IF Refuses(h, t, e.label)
        THEN Result("noop", hs, FALSE)
      ELSE IF h.status = "none"
        THEN Result("created", [SupersedeOthers(hs, s, Triggers) EXCEPT ![s] = NewHead(hs, t)], FALSE)
      ELSE IF t = "ci"
        THEN Put("requeued", Requeue(h, t, TRUE, TRUE), FALSE)
      ELSE IF Lifted(h)
        THEN Result("requeued",
                    [SupersedeOthers(hs, s, Triggers) EXCEPT
                       ![s] = Requeue(h, t, prio, t \in Priority \cup {"normal"})], FALSE)
      ELSE IF TakesOverCheck(h, t, s \in e.active)
        THEN Put("promoted", [h EXCEPT !.trig = t, !.due = @ \/ h.status = "queued"],
                 h.status = "running")
      ELSE IF Promotes(h, t)
        THEN Put("promoted", [h EXCEPT !.prio = TRUE, !.trig = t, !.due = TRUE],
                 h.status = "running" /\ CarriedFrom(hs, s, e.reviewed) # NoSha /\ s \in e.active)
      ELSE IF AsksQueued(h, t)
        THEN Put("promoted", [h EXCEPT !.trig = t, !.due = TRUE], FALSE)
      ELSE IF Reopens(hs, s, t, e.reviewed)
        THEN Put("requeued", Requeue(h, t, prio, TRUE), FALSE)
      ELSE Result("noop", hs, FALSE)

-----------------------------------------------------------------------------
(* ingest.close_pr_heads and ingest.skip_pr_heads *)

CloseHeads(hs, keep, barred) ==
  [s \in Shas |-> IF OpenLive(hs[s]) /\ ~(s = keep /\ hs[s].trig \notin Automatic)
                  THEN [hs[s] EXCEPT !.status = "closed", !.barred = barred]
                  ELSE hs[s]]

SkipHeads(hs, s) ==
  LET rest == SupersedeOthers(hs, s, Skippable)
      h == hs[s]
  IN  IF OpenLive(h) /\ h.trig = "ci"
        THEN [rest EXCEPT ![s].status = "done"]
      ELSE IF OpenLive(h) /\ h.trig \in Automatic
        THEN [rest EXCEPT ![s].status = "closed", ![s].barred = TRUE]
      ELSE rest

-----------------------------------------------------------------------------
(* scheduler._start_run, finish_run, _requeue_or_fail, retire_obsolete_head *)

FailKinds == {"infra", "contract", "fatal", "base"}   \* "base": FATAL, "live base ..."
FatalKinds == {"fatal", "base"}
CiCheckAttempts == 2
AttemptLimit == [infra |-> MaxAttempts, contract |-> 2, fatal |-> 0, base |-> 0]

\* The update of _start_run has no guard on the row's status.
StartHead(h, attempts) == [h EXCEPT !.status = "running", !.attempts = attempts + 1]

\* Mutant: a head out of attempts is left as it is.
RequeueOnly(h, kind) ==
  IF h.attempts < AttemptLimit[kind] THEN [h EXCEPT !.status = "queued", !.due = FALSE] ELSE h

RequeueOrFail(h, kind) ==
  IF h.trig = "ci" /\ (kind \in FatalKinds \/ h.attempts >= CiCheckAttempts)
    THEN [h EXCEPT !.status = "done"]
  ELSE IF kind = "base"
    THEN [h EXCEPT !.status = "queued", !.due = TRUE]
  ELSE IF h.attempts < AttemptLimit[kind]
    THEN [h EXCEPT !.status = "queued", !.due = FALSE]
  ELSE [h EXCEPT !.status = "failed"]

FinishHead(hs, s, end, kind, again, e) ==
  LET h == hs[s]
      done == [hs EXCEPT ![s].status = "done"]
  IN  IF h.status # "running" THEN hs
      ELSE IF end = "done" THEN IF again THEN Enqueue(done, s, "manual", e).hs ELSE done
      ELSE IF end = "cancelled" THEN [hs EXCEPT ![s].status = "queued", ![s].due = TRUE]
      ELSE [hs EXCEPT ![s] = RequeueOrFail(h, kind)]

RetireHead(hs, s, status) ==
  IF hs[s].status = "running"
  THEN [hs EXCEPT ![s].status = status, ![s].barred = FALSE] ELSE hs
=============================================================================
