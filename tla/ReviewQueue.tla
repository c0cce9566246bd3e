---------------------------- MODULE ReviewQueue ----------------------------
(***************************************************************************)
(* The life of a review: GitHub, the daemon (ingest, route, supersede,     *)
(* reap, schedule), one worker process per run, and the operator, around   *)
(* the tables `prs`, `heads`, `runs` and `reviews`.  Every action is one   *)
(* transaction, one exchange with GitHub, or one process event; what the   *)
(* code reads and uses later is kept in between (seen, plan, cur, cli, wk),*)
(* so that other processes can change the world meanwhile.                 *)
(*                                                                         *)
(*   gh        the pull requests on GitHub                                 *)
(*   posted    full reviews the bot has on GitHub, per commit and phase    *)
(*   prs       table prs: state, head_sha, is_draft, skip_label            *)
(*   heads     table heads, the rows of Heads.tla                          *)
(*   runs      table runs; `late`: phase is verify2 or publish; `again`:   *)
(*             the key rereview.after_run:<id>                             *)
(*   reviewed  per commit, the phase of its newest row in table reviews    *)
(*   fresh     commits whose fresh audit a conversation already asked for  *)
(*   audits    table audits: the mode of the PR's row, if any              *)
(*   inbox     unhandled rows of table inbox                               *)
(*   wk        the worker processes, by run                                *)
(*   task, seen, plan, cur, why   what the daemon is in the middle of      *)
(*   cli       what `reviewsys enqueue` has read                           *)
(*   left      what the environment may still do, from one of the Limits   *)
(*   owed, unread, promised   history: commits someone's accepted ask was  *)
(*             about, until a draft closes the head of one that is not the *)
(*             pull request's any more; commits with a reply marked        *)
(*             handled, or a fresh audit promised, that no review has      *)
(*             taken up yet                                                *)
(*                                                                         *)
(* Time is abstract: a head becomes due, a run overdue, at any moment.     *)
(***************************************************************************)
EXTENDS Heads

CONSTANTS
  Prs, NoPr,       \* pull requests, each of a repository of its own
  FirstSha,        \* the commit every PR starts at
  DiffOf,          \* what `git patch-id` says of a commit: its diff print
  RunBound,        \* bound: runs of any scenario
  MaxRuns,         \* [scheduling] max_runs: runs in flight, 0 for no cap
  MaxAudits,       \* audit.concurrency, 0 when audits are disabled
  WorkerKinds,     \* the kinds of failure of the workers of this instance
  Limits           \* bounds: how often the environment does each thing, one per scenario

Budgets == {"open", "push", "back", "base", "flip", "close", "mention", "reply", "manual", "normal",
            "ci", "cli", "cancel", "timeout", "crash", "die", "gate", "run"}

ASSUME QueueAssumption ==
  /\ NoPr \notin Prs /\ IsFiniteSet(Prs)
  /\ Shas \subseteq Nat /\ FirstSha \in Shas
  /\ RunBound \in Nat /\ MaxRuns \in Nat /\ MaxAudits \in Nat
  /\ WorkerKinds \subseteq FailKinds
  /\ Limits \subseteq [Budgets -> Nat]

VARIABLES gh, posted, prs, heads, runs, reviewed, fresh, audits, inbox, wk,
          task, seen, plan, cur, why, cli, left, owed, unread, promised

db == <<prs, heads, runs, reviewed, fresh, audits, inbox>>
daemon == <<task, seen, plan, cur, why>>
history == <<owed, unread, promised>>
vars == <<gh, posted, db, wk, daemon, cli, left, history>>

RunIds == 1..RunBound
NoRun == 0

-----------------------------------------------------------------------------
(* Types *)

\* `made`: somebody has opened it.  `open`: it is open now.
Pull == [made: BOOLEAN, sha: Shas, base: Nat, open: BOOLEAN, draft: BOOLEAN, label: BOOLEAN]

PrRow == [state: {"none", "open", "closed"}, sha: Shas \cup {NoSha},
          draft: BOOLEAN, label: BOOLEAN]
NoPrRow == [state |-> "none", sha |-> NoSha, draft |-> FALSE, label |-> FALSE]

ActiveStatus == {"spawned", "running"}
EndStatus == {"done", "failed", "cancelled", "timed_out"}
Run == [status: {"none"} \cup ActiveStatus \cup EndStatus,
        pr: Prs \cup {NoPr}, sha: Shas \cup {NoSha},
        pid: BOOLEAN, cancel: BOOLEAN, late: BOOLEAN, again: BOOLEAN]
NoRunRow == [status |-> "none", pr |-> NoPr, sha |-> NoSha,
             pid |-> FALSE, cancel |-> FALSE, late |-> FALSE, again |-> FALSE]

\* A preliminary review has the gate's blockers and owes Phase 2; a final one has the verdict.
Phase == {"preliminary", "final"}

\* How a worker's run() comes out: "done" is RunStatus.DONE, the last two are HeadObsolete.
Outcome == {"done", "failed", "cancelled", "superseded", "closed"}
WorkerPc == {"none", "boot", "claim", "ci", "tree", "talk", "carry", "lanes",
             "late", "post", "record", "retire", "finish", "gone"}
Worker == [pc: WorkerPc, trig: Triggers, base: Nat, phase: Phase, out: Outcome, kind: FailKinds]
NoWorker == [pc |-> "none", trig |-> "new", base |-> 0, phase |-> "final", out |-> "failed",
             kind |-> "infra"]
Gone == [NoWorker EXCEPT !.pc = "gone"]

Task == {"idle", "ingest", "route", "reap", "live", "audits", "spawn", "pid"}
Seen == [pr: Prs \cup {NoPr}, sha: Shas \cup {NoSha},
         open: BOOLEAN, draft: BOOLEAN, label: BOOLEAN]
NoSeen == [pr |-> NoPr, sha |-> NoSha, open |-> FALSE, draft |-> FALSE, label |-> FALSE]
Pick == [pr: Prs, sha: Shas, attempts: Nat, prio: BOOLEAN]
Plan == [busy: SUBSET Prs, todo: SUBSET Pick, flight: Nat, audits: Nat,
         waiting: BOOLEAN, audit: BOOLEAN]
NoPlan == [busy |-> {}, todo |-> {}, flight |-> 0, audits |-> 0,
           waiting |-> FALSE, audit |-> FALSE]
Cli == [pr: Prs \cup {NoPr}, sha: Shas \cup {NoSha}]
NoCli == [pr |-> NoPr, sha |-> NoSha]

TypeOK ==
  /\ gh \in [Prs -> Pull]
  /\ posted \in [Prs -> [Shas -> [Phase -> Nat]]]
  /\ prs \in [Prs -> PrRow]
  /\ heads \in [Prs -> [Shas -> Head]]
  /\ runs \in [RunIds -> Run]
  /\ reviewed \in [Prs -> [Shas -> {"none"} \cup Phase]]
  /\ fresh \in [Prs -> SUBSET Shas]
  /\ audits \in [Prs -> {"none", "light", "full"}]
  /\ inbox \in SUBSET (Prs \X {"mention", "reply"})
  /\ wk \in [RunIds -> Worker]
  /\ task \in Task
  /\ seen \in Seen
  /\ plan \in Plan
  /\ cur \in RunIds \cup {NoRun}
  /\ why \in {"overdue", "exited", "hard"}
  /\ cli \in Cli
  /\ left \in [Budgets -> Nat]
  /\ owed \in [Prs -> SUBSET Shas]
  /\ unread \in [Prs -> SUBSET Shas]
  /\ promised \in [Prs -> SUBSET Shas]

Init ==
  /\ gh = [p \in Prs |-> [made |-> FALSE, sha |-> FirstSha, base |-> 0, open |-> FALSE,
                          draft |-> FALSE, label |-> FALSE]]
  /\ posted = [p \in Prs |-> [s \in Shas |-> [phase \in Phase |-> 0]]]
  /\ prs = [p \in Prs |-> NoPrRow]
  /\ heads = [p \in Prs |-> [s \in Shas |-> NoHead]]
  /\ runs = [r \in RunIds |-> NoRunRow]
  /\ reviewed = [p \in Prs |-> [s \in Shas |-> "none"]]
  /\ fresh = [p \in Prs |-> {}]
  /\ audits = [p \in Prs |-> "none"]
  /\ inbox = {}
  /\ wk = [r \in RunIds |-> NoWorker]
  /\ task = "idle"
  /\ seen = NoSeen
  /\ plan = NoPlan
  /\ cur = NoRun
  /\ why = "overdue"
  /\ cli = NoCli
  /\ left \in Limits
  /\ owed = [p \in Prs |-> {}]
  /\ unread = [p \in Prs |-> {}]
  /\ promised = [p \in Prs |-> {}]

-----------------------------------------------------------------------------
(* Queries and transactions *)

Spend(b) == left[b] > 0 /\ left' = [left EXCEPT ![b] = @ - 1]

Active(r) == runs[r].status \in ActiveStatus
ActiveRuns == {r \in RunIds : Active(r)}
Alive(r) == wk[r].pc \notin {"none", "gone"}
AtWork(r) == Alive(r) /\ wk[r].pc \notin {"boot", "claim"}
HeadOf(r) == heads[runs[r].pr][runs[r].sha]

\* The commits with a row in table reviews, and those with a full review on GitHub.
Known(p) == {s \in Shas : reviewed[p][s] # "none"}
Full(p, s) == \E phase \in Phase : posted[p][s][phase] > 0

Env(p) == [label |-> prs[p].label, reviewed |-> Known(p),
           active |-> {runs[r].sha : r \in {q \in ActiveRuns : runs[q].pr = p}}]

\* One enqueue_head in a transaction of its own; e is what it reads of the other tables.
EnqueueTx(p, s, t, e) ==
  LET q == Enqueue(heads[p], s, t, e)
  IN  /\ heads' = [heads EXCEPT ![p] = q.hs]
      /\ runs' = [r \in RunIds |->
                    IF q.again /\ Active(r) /\ runs[r].pr = p /\ runs[r].sha = s
                    THEN [runs[r] EXCEPT !.again = TRUE] ELSE runs[r]]
      /\ owed' = IF q.res = "noop" \/ t \in Skippable THEN owed
                 ELSE [owed EXCEPT ![p] = @ \cup {s}]

\* scheduler.finish_run: idempotent, the head follows only while it is running.
FinishRun(r, end, kind) ==
  LET p == runs[r].pr
      s == runs[r].sha
  IN  IF Active(r)
      THEN /\ runs' = [runs EXCEPT ![r].status = end,
                                   ![r].again = @ /\ ~(end = "done" /\ HeadOf(r).status = "running")]
           /\ heads' = [heads EXCEPT ![p] = FinishHead(@, s, end, kind, runs[r].again, Env(p))]
      ELSE UNCHANGED <<runs, heads>>

RequestCancel(rs) ==
  runs' = [r \in RunIds |-> IF r \in rs /\ Active(r)
                            THEN [runs[r] EXCEPT !.cancel = TRUE] ELSE runs[r]]

-----------------------------------------------------------------------------
(* GitHub: authors open and push, the base moves, drafts and labels flip, PRs merge, *)
(* people mention the bot and reply to it.                                  *)

Created(p) ==
  /\ ~gh[p].made /\ Spend("open")
  /\ gh' = [gh EXCEPT ![p].made = TRUE, ![p].open = TRUE]
  /\ UNCHANGED <<posted, db, wk, daemon, cli, history>>

Push(p, s) ==
  /\ gh[p].open /\ (s = gh[p].sha + 1 \/ s < gh[p].sha)
  /\ Spend(IF s > gh[p].sha THEN "push" ELSE "back")
  /\ gh' = [gh EXCEPT ![p].sha = s]
  /\ UNCHANGED <<posted, db, wk, daemon, cli, history>>

BaseMoves(p) ==
  /\ gh[p].open /\ Spend("base")
  /\ gh' = [gh EXCEPT ![p].base = @ + 1]
  /\ UNCHANGED <<posted, db, wk, daemon, cli, history>>

FlipDraft(p) ==
  /\ gh[p].open /\ Spend("flip")
  /\ gh' = [gh EXCEPT ![p].draft = ~@]
  /\ UNCHANGED <<posted, db, wk, daemon, cli, history>>

FlipLabel(p) ==
  /\ gh[p].open /\ Spend("flip")
  /\ gh' = [gh EXCEPT ![p].label = ~@]
  /\ UNCHANGED <<posted, db, wk, daemon, cli, history>>

Merge(p) ==
  /\ gh[p].open /\ Spend("close")
  /\ gh' = [gh EXCEPT ![p].open = FALSE]
  /\ UNCHANGED <<posted, db, wk, daemon, cli, history>>

Write(p, t) ==
  /\ gh[p].open /\ <<p, t>> \notin inbox /\ Spend(t)
  /\ inbox' = inbox \cup {<<p, t>>}
  /\ UNCHANGED <<gh, posted, prs, heads, runs, reviewed, fresh, audits, wk, daemon, cli, history>>

-----------------------------------------------------------------------------
(* Daemon: ingest.  The poll is read before the transaction applies it.    *)

Snapshot(p) == [pr |-> p, sha |-> gh[p].sha, open |-> gh[p].open,
                draft |-> gh[p].draft, label |-> gh[p].label]

Fetch(p, t) ==
  /\ task = "idle" /\ task' = t
  /\ seen' = Snapshot(p)
  /\ UNCHANGED <<gh, posted, db, wk, plan, cur, why, cli, left, history>>

IngestFetch(p) == gh[p].made /\ Fetch(p, "ingest")

\* The row of an open PR is written first, so its label is the one just polled.  A draft ends
\* what was asked of its older commits.
IngestApply ==
  /\ task = "ingest" /\ task' = "idle" /\ seen' = NoSeen
  /\ LET p == seen.pr
         s == seen.sha
     IN  IF ~seen.open
         THEN IF prs[p].state = "open"
              THEN /\ prs' = [prs EXCEPT ![p].state = "closed"]
                   /\ heads' = [heads EXCEPT ![p] = CloseHeads(@, NoSha, FALSE)]
                   /\ UNCHANGED <<runs, owed>>
              ELSE UNCHANGED <<prs, heads, runs, owed>>
         ELSE /\ prs' = [prs EXCEPT ![p] = [state |-> "open", sha |-> s,
                                            draft |-> seen.draft, label |-> seen.label]]
              /\ IF seen.label
                 THEN heads' = [heads EXCEPT ![p] = SkipHeads(@, s)] /\ UNCHANGED <<runs, owed>>
                 ELSE IF seen.draft
                 THEN LET rest == CloseHeads(heads[p], s, TRUE)
                      IN  /\ heads' = [heads EXCEPT ![p] = rest]
                          /\ owed' = [owed EXCEPT ![p] = {x \in @ : rest[x].status # "closed"}]
                          /\ UNCHANGED runs
                 ELSE EnqueueTx(p, s, "new", [Env(p) EXCEPT !.label = FALSE])
  /\ UNCHANGED <<gh, posted, reviewed, fresh, audits, inbox, wk, plan, cur, why, cli, left, unread, promised>>

\* A new head's debounce, or a retry's backoff, has passed.
BecomesDue(p, s) ==
  /\ heads[p][s].status = "queued" /\ ~heads[p][s].due
  /\ heads' = [heads EXCEPT ![p][s].due = TRUE]
  /\ UNCHANGED <<gh, posted, prs, runs, reviewed, fresh, audits, inbox, wk, daemon, cli, left, history>>

-----------------------------------------------------------------------------
(* Daemon: the other ways a head is asked for *)

RouteFetch(p) ==
  /\ \E t \in {"mention", "reply"} : <<p, t>> \in inbox
  /\ Fetch(p, "route")

Handled(p, t) == inbox' = inbox \ {<<p, t>>}

\* A mention or a reply of a PR that is open and ready reaches enqueue_head.  A reply that
\* changes nothing because the head is running stays in the inbox, until it is too old.
RouteApply(t) ==
  /\ task = "route" /\ <<seen.pr, t>> \in inbox
  /\ task' = "idle" /\ seen' = NoSeen
  /\ LET p == seen.pr
         s == seen.sha
         q == Enqueue(heads[p], s, t, Env(p))
         waits == t = "reply" /\ q.res = "noop" /\ heads[p][s].status = "running"
     IN  IF ~seen.open \/ seen.draft
         THEN Handled(p, t) /\ UNCHANGED <<heads, runs, owed, unread>>
         ELSE IF waits
         THEN (Handled(p, t) \/ UNCHANGED inbox) /\ UNCHANGED <<heads, runs, owed, unread>>
         ELSE /\ Handled(p, t)
              /\ EnqueueTx(p, s, t, Env(p))
              /\ unread' = IF t = "reply" THEN [unread EXCEPT ![p] = @ \cup {s}] ELSE unread
  /\ UNCHANGED <<gh, posted, prs, reviewed, fresh, audits, wk, plan, cur, why, cli, left, promised>>

\* The heads whose gate comment the daemon offers a box on, or reads one from (queue_status).
Offered(p, t) ==
  LET s == prs[p].sha
      h == heads[p][s]
  IN  /\ prs[p].state = "open"
      /\ \/ ~prs[p].label /\ prs[p].draft /\ h.status # "queued"
         \/ ~prs[p].label /\ h.status = "queued" /\ ~h.due /\ ~h.prio /\ h.attempts = 0
         \/ t = "manual" /\ h.status = "queued" /\ ~h.prio
         \/ /\ prs[p].label /\ h.status \notin {"done", "failed"}
            /\ \A x \in Shas : ~OpenLive(heads[p][x])
            /\ \A r \in ActiveRuns : runs[r].pr # p

BoxTicked(p, t) ==
  /\ task = "idle" /\ Offered(p, t) /\ Spend(t)
  /\ EnqueueTx(p, prs[p].sha, t, Env(p))
  /\ UNCHANGED <<gh, posted, prs, reviewed, fresh, audits, inbox, wk, daemon, cli, unread, promised>>

\* The CI watch of an approved head finds a failed check (CI_FAILED), or re-opens a carried one.
CiFailed(p) ==
  LET s == prs[p].sha
      carried == CarriedFrom(heads[p], s, Known(p)) # NoSha
  IN  /\ task = "idle" /\ prs[p].state = "open" /\ heads[p][s].status = "done"
      /\ carried \/ s \in Known(p)
      /\ Spend("ci")
      /\ EnqueueTx(p, s, IF carried THEN "manual" ELSE "ci", Env(p))
      /\ UNCHANGED <<gh, posted, prs, reviewed, fresh, audits, inbox, wk, daemon, cli, unread, promised>>

\* The audit sweep meets a merged PR: its live runs are cancelled, its head is the audit's now.
AuditMerged(p, mode) ==
  LET s == gh[p].sha
      h == heads[p][s]
  IN  /\ task = "idle" /\ MaxAudits > 0 /\ gh[p].made /\ ~gh[p].open /\ audits[p] = "none"
      /\ audits' = [audits EXCEPT ![p] = mode]
      /\ RequestCancel({r \in RunIds : runs[r].pr = p})
      /\ heads' = [heads EXCEPT ![p][s] =
                     [h EXCEPT !.status = "queued", !.trig = "audit", !.audit = TRUE,
                               !.prio = FALSE, !.attempts = 0, !.due = TRUE, !.barred = FALSE,
                               !.id = IF h.status = "none" THEN NextId(heads[p]) ELSE @]]
      /\ UNCHANGED <<gh, posted, prs, reviewed, fresh, inbox, wk, daemon, cli, left, history>>

-----------------------------------------------------------------------------
(* Daemon: supersede and reap *)

\* scheduler.apply_supersedes, one row of its pass.
SupersedeRun(r) ==
  /\ task = "idle" /\ Active(r) /\ ~runs[r].cancel
  /\ HeadOf(r).status # "running" /\ ~HeadOf(r).audit
  /\ ~(HeadOf(r).status = "superseded" /\ runs[r].late)
  /\ RequestCancel({r})
  /\ UNCHANGED <<gh, posted, prs, heads, reviewed, fresh, audits, inbox, wk, daemon, cli, left, history>>

\* Mutant: a run whose pid was never written is not reaped.
ReapReasonPid(r, w) == runs[r].pid

\* The reasons reap has to end a run, by the row it reads: overdue is the deadline, a worker
\* that never beat or a stale heartbeat; exited and hard need the pid in the row.
ReapReason(r, w) ==
  \/ w = "overdue"
  \/ w = "exited" /\ runs[r].status = "running" /\ runs[r].pid /\ ~Alive(r)
  \/ w = "hard" /\ runs[r].status = "running" /\ runs[r].pid /\ runs[r].cancel

ReapSelect(r, w) ==
  /\ task = "idle" /\ Active(r) /\ ReapReason(r, w)
  /\ task' = "reap" /\ cur' = r /\ why' = w
  /\ IF w = "overdue" THEN Spend("timeout") ELSE UNCHANGED left
  /\ UNCHANGED <<gh, posted, db, wk, seen, plan, cli, history>>

ReapEnd == [overdue |-> "timed_out", exited |-> "failed", hard |-> "cancelled"]

\* Mutant: the run is ended, its worker is not killed.
ReapActNoKill ==
  /\ task = "reap" /\ task' = "idle" /\ cur' = NoRun /\ why' = "overdue"
  /\ FinishRun(cur, ReapEnd[why], "infra")
  /\ UNCHANGED <<gh, posted, prs, reviewed, fresh, audits, inbox, wk, seen, plan, cli, left, history>>

\* kill_group when the row has a pid, then finish_run; the run may have ended since.
ReapAct ==
  /\ task = "reap" /\ task' = "idle" /\ cur' = NoRun /\ why' = "overdue"
  /\ wk' = IF why # "exited" /\ runs[cur].pid THEN [wk EXCEPT ![cur] = Gone] ELSE wk
  /\ FinishRun(cur, ReapEnd[why], "infra")
  /\ UNCHANGED <<gh, posted, prs, reviewed, fresh, audits, inbox, seen, plan, cli, left, history>>

-----------------------------------------------------------------------------
(* Daemon: schedule.  One pass reads the active runs and the eligible heads *)
(* once, then starts them one by one.                                       *)

Waits(h, audit) == h.status = "queued" /\ h.due /\ h.audit = audit

Eligible(audit) ==
  UNION {{[pr |-> p, sha |-> s, attempts |-> heads[p][s].attempts, prio |-> heads[p][s].prio] :
            s \in {x \in Shas : Waits(heads[p][x], audit)}} : p \in Prs}

\* Mutant: a pull request with a run in flight is a candidate too.
CandidatesBusy == plan.todo

Candidates == {x \in plan.todo : x.pr \notin plan.busy}

\* Mutant: one run too many.
AtCapPlusOne == MaxRuns > 0 /\ plan.flight > MaxRuns

AtCap == MaxRuns > 0 /\ plan.flight >= MaxRuns

\* The scenario's runs are used up; this is a bound of the model.
Exhausted == left["run"] = 0 \/ \A r \in RunIds : runs[r].status # "none"

SchedBegin ==
  /\ task = "idle" /\ task' = "live"
  /\ plan' = [busy |-> {runs[r].pr : r \in ActiveRuns},
              todo |-> Eligible(FALSE),
              flight |-> Cardinality(ActiveRuns),
              audits |-> Cardinality({r \in ActiveRuns : HeadOf(r).audit}),
              waiting |-> FALSE, audit |-> FALSE]
  /\ UNCHANGED <<gh, posted, db, wk, seen, cur, why, cli, left, history>>

\* _start_run's first transaction, for the next head in line.
StartRun(x, r) ==
  /\ task = "live" \/ (task = "audits" /\ plan.audits < MaxAudits)
  /\ ~AtCap
  /\ x \in Candidates /\ \A y \in Candidates : y.prio => x.prio
  /\ runs[r].status = "none" /\ \A q \in 1..(r - 1) : runs[q].status # "none"
  /\ runs' = [runs EXCEPT ![r] = [NoRunRow EXCEPT !.status = "spawned", !.pr = x.pr, !.sha = x.sha]]
  /\ heads' = [heads EXCEPT ![x.pr][x.sha] = StartHead(@, x.attempts)]
  /\ plan' = [plan EXCEPT !.todo = @ \ {x}, !.audit = (task = "audits")]
  /\ task' = "spawn" /\ cur' = r /\ Spend("run")
  /\ UNCHANGED <<gh, posted, prs, reviewed, fresh, audits, inbox, wk, seen, why, cli, history>>

Loop == IF plan.audit THEN "audits" ELSE "live"

Spawn ==
  /\ task = "spawn" /\ task' = "pid"
  /\ wk' = [wk EXCEPT ![cur] = [NoWorker EXCEPT !.pc = "boot"]]
  /\ UNCHANGED <<gh, posted, db, seen, plan, cur, why, cli, left, history>>

\* proc.spawn raises OSError: the PR stays free for another head of it in this pass.
SpawnFails ==
  /\ task = "spawn" /\ task' = Loop /\ cur' = NoRun
  /\ FinishRun(cur, "failed", "infra")
  /\ plan' = [plan EXCEPT !.waiting = @ \/ ~plan.audit]
  /\ UNCHANGED <<gh, posted, prs, reviewed, fresh, audits, inbox, wk, seen, why, cli, left, history>>

WritePid ==
  /\ task = "pid" /\ task' = Loop /\ cur' = NoRun
  /\ runs' = [runs EXCEPT ![cur].pid = TRUE]
  /\ plan' = [plan EXCEPT !.busy = @ \cup {runs[cur].pr}, !.flight = @ + 1,
                          !.audits = @ + (IF plan.audit THEN 1 ELSE 0)]
  /\ UNCHANGED <<gh, posted, prs, heads, reviewed, fresh, audits, inbox, wk, seen, why, cli, left, history>>

\* No live head is left waiting: the audit heads get their turn.
LiveEnds ==
  /\ task = "live" /\ (Candidates = {} \/ AtCap \/ Exhausted)
  /\ IF Candidates # {} \/ plan.waiting \/ MaxAudits = 0
     THEN task' = "idle" /\ plan' = NoPlan
     ELSE task' = "audits" /\ plan' = [plan EXCEPT !.todo = Eligible(TRUE)]
  /\ UNCHANGED <<gh, posted, db, wk, seen, cur, why, cli, left, history>>

AuditsEnd ==
  /\ task = "audits"
  /\ Candidates = {} \/ AtCap \/ Exhausted \/ plan.audits >= MaxAudits
  /\ task' = "idle" /\ plan' = NoPlan
  /\ UNCHANGED <<gh, posted, db, wk, seen, cur, why, cli, left, history>>

\* The daemon dies in the middle of something and is restarted: it keeps nothing.
DaemonCrash ==
  /\ task # "idle" /\ Spend("crash")
  /\ task' = "idle" /\ seen' = NoSeen /\ plan' = NoPlan /\ cur' = NoRun /\ why' = "overdue"
  /\ UNCHANGED <<gh, posted, db, wk, cli, history>>

-----------------------------------------------------------------------------
(* The operator: reviewsys enqueue, cancel, retry *)

CliRead(p) ==
  /\ cli = NoCli /\ gh[p].made /\ Spend("cli")
  /\ cli' = [pr |-> p, sha |-> gh[p].sha]
  /\ UNCHANGED <<gh, posted, db, wk, daemon, history>>

CliEnqueue ==
  /\ cli # NoCli /\ cli' = NoCli
  /\ EnqueueTx(cli.pr, cli.sha, "manual", Env(cli.pr))
  /\ UNCHANGED <<gh, posted, prs, reviewed, fresh, audits, inbox, wk, daemon, left, unread, promised>>

CliCancel(r) ==
  /\ Active(r) /\ ~runs[r].cancel /\ Spend("cancel")
  /\ RequestCancel({r})
  /\ UNCHANGED <<gh, posted, prs, heads, reviewed, fresh, audits, inbox, wk, daemon, cli, history>>

CliRetry(p, s) ==
  /\ \A x \in Shas : ~Open(heads[p][x])
  /\ heads[p][s].status = "failed"
  /\ \A x \in Shas : heads[p][x].status = "failed" => heads[p][x].id <= heads[p][s].id
  /\ prs[p].state = "none" \/ prs[p].sha = s
  /\ Spend("cli")
  /\ heads' = [heads EXCEPT ![p][s] = [@ EXCEPT !.status = "queued", !.attempts = 0,
                                                !.due = TRUE, !.barred = FALSE]]
  /\ UNCHANGED <<gh, posted, prs, runs, reviewed, fresh, audits, inbox, wk, daemon, cli, history>>

-----------------------------------------------------------------------------
(* Workers.  P and S are the run's pull request and commit.                *)

P(r) == runs[r].pr
S(r) == runs[r].sha

Goto(r, pc) == wk' = [wk EXCEPT ![r].pc = pc]
Ends(r, out, kind) == wk' = [wk EXCEPT ![r].pc = "finish", ![r].out = out, ![r].kind = kind]
Retires(r) ==
  wk' = [wk EXCEPT ![r].pc = "retire", ![r].out = IF gh[P(r)].open THEN "superseded" ELSE "closed"]

\* _require_live: the PR is open and still at the run's commit.
IsLive(r) == gh[P(r)].open /\ gh[P(r)].sha = S(r)
IsAudit(r) == wk[r].trig = "audit"

WkOnly == UNCHANGED <<gh, posted, db, daemon, cli, left, history>>

\* main reads the run and its head, then claims the run by its token.
WkRead(r) ==
  /\ wk[r].pc = "boot"
  /\ wk' = IF Active(r) THEN [wk EXCEPT ![r].pc = "claim", ![r].trig = HeadOf(r).trig]
                        ELSE [wk EXCEPT ![r] = Gone]
  /\ WkOnly

\* Mutant: the claim does not look at the run's status.
WkClaimAny(r) ==
  /\ wk[r].pc = "claim"
  /\ runs' = [runs EXCEPT ![r].status = "running"]
  /\ Goto(r, IF wk[r].trig = "ci" THEN "ci" ELSE "tree")
  /\ UNCHANGED <<gh, posted, prs, heads, reviewed, fresh, audits, inbox, daemon, cli, left, history>>

WkClaim(r) ==
  /\ wk[r].pc = "claim"
  /\ IF Active(r)
     THEN /\ runs' = [runs EXCEPT ![r].status = "running"]
          /\ Goto(r, IF wk[r].trig = "ci" THEN "ci" ELSE "tree")
     ELSE wk' = [wk EXCEPT ![r] = Gone] /\ UNCHANGED runs
  /\ UNCHANGED <<gh, posted, prs, heads, reviewed, fresh, audits, inbox, daemon, cli, left, history>>

\* The heartbeat thread sets the cancel flag at some beat after either becomes true; the run
\* sees it at its next check_cancel.
WkCancelled(r) ==
  /\ wk[r].pc \in {"ci", "tree", "talk", "lanes", "late"}
  /\ runs[r].cancel \/ ~Active(r)
  /\ Ends(r, "cancelled", "infra")
  /\ WkOnly

WkFails(r, kind) ==
  /\ wk[r].pc \in {"ci", "tree", "talk", "lanes", "late", "post"} /\ kind \in {"infra", "contract", "fatal"}
  /\ Ends(r, "failed", kind)
  /\ WkOnly

\* _require_live fails: before the checkout, before publishing, before a conversation posts.
WkObsolete(r) ==
  /\ wk[r].pc \in {"ci", "tree", "talk", "late"} /\ ~IsAudit(r) /\ ~IsLive(r)
  /\ Retires(r)
  /\ WkOnly

\* step_worktree: a reply on a commit whose final review stands becomes a conversation; on a
\* preliminary one it runs the pipeline again, for Phase 2 is owed.
WkCheckout(r) ==
  /\ wk[r].pc = "tree" /\ (IsAudit(r) \/ IsLive(r))
  /\ \E talk \in {wk[r].trig = "reply" /\ posted[P(r)][S(r)]["final"] > 0, FALSE} :
       /\ wk' = [wk EXCEPT ![r].base = gh[P(r)].base,
                           ![r].pc = IF talk THEN "talk" ELSE IF IsAudit(r) THEN "lanes" ELSE "carry"]
       /\ heads' = [heads EXCEPT ![P(r)][S(r)].print = @ \/ ~(talk \/ IsAudit(r))]
       /\ unread' = IF talk THEN [unread EXCEPT ![P(r)] = @ \ {S(r)}] ELSE unread
  /\ UNCHANGED <<gh, posted, prs, runs, reviewed, fresh, audits, inbox, daemon, cli, left, owed, promised>>

\* Mutant: a review of either phase may stand for the next commit.
CarryableAnyPhase(r) ==
  LET hs == heads[P(r)]
      before == {x \in Shas : hs[x].status # "none" /\ ~hs[x].audit /\ hs[x].id < hs[S(r)].id}
  IN  {x \in before : /\ \A y \in before : hs[y].id <= hs[x].id
                      /\ hs[x].print /\ DiffOf[x] = DiffOf[S(r)]
                      /\ ReviewedSha(hs, x, Known(P(r))) \in Known(P(r))}

\* The head right before the run's own, when its final review may stand for this commit.
Carryable(r) ==
  LET hs == heads[P(r)]
      before == {x \in Shas : hs[x].status # "none" /\ ~hs[x].audit /\ hs[x].id < hs[S(r)].id}
  IN  {x \in before : /\ \A y \in before : hs[y].id <= hs[x].id
                      /\ hs[x].print /\ DiffOf[x] = DiffOf[S(r)]
                      /\ reviewed[P(r)][ReviewedSha(hs, x, Known(P(r)))] = "final"}

WkCarry(r) ==
  /\ wk[r].pc = "carry" /\ wk[r].trig \in Automatic
  /\ \E x \in Carryable(r) :
       IF HeadOf(r).status # "running"
       THEN Ends(r, "cancelled", "infra") /\ UNCHANGED heads
       ELSE IF HeadOf(r).trig \notin Automatic
       THEN wk' = [wk EXCEPT ![r].pc = "lanes", ![r].trig = HeadOf(r).trig] /\ UNCHANGED heads
       ELSE /\ heads' = [heads EXCEPT ![P(r)][S(r)].carried =
                           ReviewedSha(heads[P(r)], x, Known(P(r)))]
            /\ Ends(r, "done", "infra")
  /\ UNCHANGED <<gh, posted, prs, runs, reviewed, fresh, audits, inbox, daemon, cli, left, history>>

\* Nothing to carry (its verdict may not pass on): a review, whose context has the replies.
WkReviews(r) ==
  /\ wk[r].pc = "carry"
  /\ Goto(r, "lanes")
  /\ unread' = [unread EXCEPT ![P(r)] = @ \ {S(r)}]
  /\ promised' = [promised EXCEPT ![P(r)] = @ \ {S(r)}]
  /\ UNCHANGED <<gh, posted, db, daemon, cli, left, owed>>

\* The lanes are through; the last steps are verify2 and publish.
WkLate(r) ==
  /\ wk[r].pc = "lanes"
  /\ Goto(r, "late")
  /\ runs' = [runs EXCEPT ![r].late = TRUE]
  /\ UNCHANGED <<gh, posted, prs, heads, reviewed, fresh, audits, inbox, daemon, cli, left, history>>

\* Mutant: only a review of the very phase is looked for.
StandingPhaseExact(p, s, phase) == phase

\* _existing_review: the phase of the review that stands for one of this phase.  Only a
\* preliminary one is corrected by a follow-up on the final; a final one after it is posted in full.
StandingPhase(p, s, phase) ==
  IF phase = "preliminary" /\ posted[p][s][phase] = 0 /\ posted[p][s]["final"] > 0
  THEN "final" ELSE phase

\* Mutant: the answer of the look is read the wrong way round.
WkPublishSwapped(r, phase) ==
  /\ wk[r].pc = "late" /\ ~IsAudit(r) /\ IsLive(r)
  /\ LET stands == StandingPhase(P(r), S(r), phase)
     IN  IF wk[r].base # gh[P(r)].base THEN Ends(r, "failed", "base")
         ELSE wk' = [wk EXCEPT ![r].phase = stands,
                               ![r].pc = IF posted[P(r)][S(r)][stands] > 0 THEN "post" ELSE "record"]
  /\ IF phase = "preliminary" THEN Spend("gate") ELSE UNCHANGED left
  /\ UNCHANGED <<gh, posted, db, daemon, cli, history>>

\* _require_live_base and _existing_review: a review that stands gets a follow-up, which only
\* the record shows here.  A review that the gate holds back comes here as preliminary.
WkPublish(r, phase) ==
  /\ wk[r].pc = "late" /\ ~IsAudit(r) /\ IsLive(r)
  /\ LET stands == StandingPhase(P(r), S(r), phase)
     IN  IF wk[r].base # gh[P(r)].base THEN Ends(r, "failed", "base")
         ELSE wk' = [wk EXCEPT ![r].phase = stands,
                               ![r].pc = IF posted[P(r)][S(r)][stands] > 0 THEN "record" ELSE "post"]
  /\ IF phase = "preliminary" THEN Spend("gate") ELSE UNCHANGED left
  /\ UNCHANGED <<gh, posted, db, daemon, cli, history>>

\* The POST; its answer may be lost after GitHub took the review.
WkPost(r) ==
  /\ wk[r].pc = "post"
  /\ posted' = [posted EXCEPT ![P(r)][S(r)][wk[r].phase] = @ + 1]
  /\ Goto(r, "record") \/ Ends(r, "failed", "infra")
  /\ UNCHANGED <<gh, db, daemon, cli, left, history>>

\* _record_publication: the newest row has the phase that stands.
WkRecord(r) ==
  /\ wk[r].pc = "record"
  /\ reviewed' = [reviewed EXCEPT ![P(r)][S(r)] = wk[r].phase]
  /\ Ends(r, "done", "infra")
  /\ UNCHANGED <<gh, posted, prs, heads, runs, fresh, audits, inbox, daemon, cli, left, history>>

\* A conversation answers the threads; the approval may need one fresh audit of the commit.
WkTalk(r, audit) ==
  /\ wk[r].pc = "talk" /\ IsLive(r)
  /\ audit => S(r) \notin fresh[P(r)]
  /\ IF audit THEN /\ fresh' = [fresh EXCEPT ![P(r)] = @ \cup {S(r)}]
                    /\ promised' = [promised EXCEPT ![P(r)] = @ \cup {S(r)}]
              ELSE UNCHANGED <<fresh, promised>>
  /\ runs' = [runs EXCEPT ![r].again = @ \/ audit]
  /\ Ends(r, "done", "infra")
  /\ UNCHANGED <<gh, posted, prs, heads, reviewed, audits, inbox, daemon, cli, left, owed, unread>>

WkCiCheck(r) ==
  /\ wk[r].pc = "ci" /\ IsLive(r)
  /\ Ends(r, "done", "infra")
  /\ WkOnly

\* An audit reports; a light one that found a blocker queues its head again as a full one.
WkAudit(r, escalate) ==
  /\ wk[r].pc = "late" /\ IsAudit(r)
  /\ escalate => audits[P(r)] = "light"
  /\ IF escalate
     THEN /\ audits' = [audits EXCEPT ![P(r)] = "full"]
          /\ heads' = [heads EXCEPT ![P(r)][S(r)] = [@ EXCEPT !.status = "queued",
                                                              !.attempts = 0, !.due = TRUE]]
     ELSE UNCHANGED <<audits, heads>>
  /\ Ends(r, "done", "infra")
  /\ UNCHANGED <<gh, posted, prs, runs, reviewed, fresh, inbox, daemon, cli, left, history>>

WkRetire(r) ==
  /\ wk[r].pc = "retire"
  /\ heads' = [heads EXCEPT ![P(r)] = RetireHead(@, S(r), wk[r].out)]
  /\ Goto(r, "finish")
  /\ UNCHANGED <<gh, posted, prs, runs, reviewed, fresh, audits, inbox, daemon, cli, left, history>>

EndOf(out) == IF out \in {"superseded", "closed"} THEN "cancelled" ELSE out

WkFinish(r) ==
  /\ wk[r].pc = "finish"
  /\ FinishRun(r, EndOf(wk[r].out), wk[r].kind)
  /\ wk' = [wk EXCEPT ![r] = Gone]
  /\ UNCHANGED <<gh, posted, prs, reviewed, fresh, audits, inbox, daemon, cli, left, history>>

WkDies(r) ==
  /\ Alive(r) /\ Spend("die")
  /\ wk' = [wk EXCEPT ![r] = Gone]
  /\ UNCHANGED <<gh, posted, db, daemon, cli, history>>

-----------------------------------------------------------------------------
GitHubNext ==
  \E p \in Prs : \/ Created(p) \/ \E s \in Shas : Push(p, s)
                 \/ BaseMoves(p) \/ FlipDraft(p) \/ FlipLabel(p) \/ Merge(p)
                 \/ \E t \in {"mention", "reply"} : Write(p, t)

DaemonNext ==
  \/ \E p \in Prs : \/ IngestFetch(p) \/ RouteFetch(p) \/ CiFailed(p)
                    \/ \E t \in {"manual", "normal"} : BoxTicked(p, t)
                    \/ \E mode \in {"light", "full"} : AuditMerged(p, mode)
                    \/ \E s \in Shas : BecomesDue(p, s)
  \/ IngestApply \/ \E t \in {"mention", "reply"} : RouteApply(t)
  \/ \E r \in RunIds : \/ SupersedeRun(r)
                       \/ \E w \in {"overdue", "exited", "hard"} : ReapSelect(r, w)
                       \/ \E x \in Candidates : StartRun(x, r)
  \/ ReapAct \/ SchedBegin \/ Spawn \/ SpawnFails \/ WritePid \/ LiveEnds \/ AuditsEnd
  \/ DaemonCrash

OperatorNext ==
  \/ CliEnqueue
  \/ \E p \in Prs : CliRead(p) \/ \E s \in Shas : CliRetry(p, s)
  \/ \E r \in RunIds : CliCancel(r)

WorkerNext(r) ==
  \/ WkRead(r) \/ WkClaim(r) \/ WkCancelled(r) \/ WkObsolete(r) \/ WkCheckout(r) \/ WkCarry(r)
  \/ WkReviews(r) \/ WkLate(r) \/ WkPost(r) \/ WkRecord(r) \/ WkCiCheck(r)
  \/ WkRetire(r) \/ WkFinish(r) \/ WkDies(r)
  \/ \E phase \in Phase : WkPublish(r, phase)
  \/ \E kind \in WorkerKinds : WkFails(r, kind)
  \/ \E yes \in BOOLEAN : WkTalk(r, yes) \/ WkAudit(r, yes)

Next == GitHubNext \/ DaemonNext \/ OperatorNext \/ \E r \in RunIds : WorkerNext(r)

Spec == Init /\ [][Next]_vars

\* What the daemon is in the middle of goes on: a step of one task never waits.
MidTask == \/ IngestApply \/ (\E t \in {"mention", "reply"} : RouteApply(t))
           \/ ReapAct \/ Spawn \/ SpawnFails \/ WritePid \/ LiveEnds \/ AuditsEnd
           \/ \E r \in RunIds : \E x \in Candidates : StartRun(x, r)

\* Daemon.tick runs every task over and over (daemon.py:275-300): each poll, each schedule
\* pass, the reaper once a run is past its deadline; and time passes.  Nothing is assumed
\* of the workers.
Fairness ==
  /\ WF_vars(MidTask) /\ SF_vars(SchedBegin)
  /\ \A p \in Prs : SF_vars(IngestFetch(p)) /\ \A s \in Shas : WF_vars(BecomesDue(p, s))
  /\ \A r \in RunIds : SF_vars(ReapSelect(r, "overdue"))

FairSpec == Spec /\ Fairness

-----------------------------------------------------------------------------
(* Safety *)

\* Single-flight: the database never has two active runs on one pull request, whatever the
\* schedule pass read before another process wrote.
SingleFlight == \A q, r \in ActiveRuns : runs[q].pr = runs[r].pr => q = r

\* No ghost: a head the tables call running has an active run, so that the end of that run,
\* which the reaper guarantees, moves the head on.
NoGhostHead ==
  \A p \in Prs, s \in Shas :
    heads[p][s].status = "running" => \E r \in ActiveRuns : runs[r].pr = p /\ runs[r].sha = s

\* One process works on a pull request at a time, not only one row: a run is ended for its
\* worker only once that worker is gone, and an orphan claims nothing.
OneWorkerPerPr ==
  \A q, r \in RunIds : AtWork(q) /\ AtWork(r) /\ runs[q].pr = runs[r].pr => q = r

\* No full review is stacked (worker.py:3435-3438): whatever dies, loses the answer of its POST,
\* is retried or asked for again, a review of a phase is posted only where none of that phase
\* stands and no final one does.  A final review may follow the preliminary one.
PostedOnce ==
  [][\A p \in Prs, s \in Shas, phase \in Phase :
       posted'[p][s][phase] # posted[p][s][phase] =>
         posted[p][s][phase] = 0 /\ posted[p][s]["final"] = 0]_vars

\* A person asking gets a review: when the head of a commit they asked about is done, the bot
\* has reviewed that very commit; no carried review and no CI check swallowed the ask.
AskedIsReviewed ==
  \A p \in Prs : \A s \in owed[p] :
    heads[p][s].status = "done" /\ ~heads[p][s].audit => Full(p, s)

\* A commit stands only on a final review that is recorded and on GitHub, of the same diff,
\* through any chain of carries: never on a preliminary one, whose Phase 2 is owed.
CarriedIsSound ==
  \A p \in Prs, s \in Shas :
    LET c == heads[p][s].carried
    IN  c # NoSha => /\ c \in Known(p) /\ posted[p][c]["final"] > 0
                     /\ DiffOf[c] = DiffOf[s] /\ c # s

\* max_runs holds over live and audit runs together.
CapHolds == MaxRuns > 0 => Cardinality(ActiveRuns) <= MaxRuns

\* An ended run stays as it ended: no heartbeat, claim, reaper or late worker revives it.
EndedRunsStay ==
  [][\A r \in RunIds : runs[r].status \in EndStatus => runs'[r].status = runs[r].status]_vars

-----------------------------------------------------------------------------
(* Why single flight holds: the inductive invariant of ReviewQueueProofs.tla *)

\* What is named somewhere exists: the runs the workers and the daemon are about, the pull
\* requests and commits that were read.
Bound ==
  /\ \A r \in RunIds : /\ runs[r].status # "none" => runs[r].pr \in Prs /\ runs[r].sha \in Shas
                       /\ wk[r].pc # "none" => runs[r].status # "none"
                       /\ wk[r].pc = "retire" => wk[r].out \in {"superseded", "closed"}
  /\ task \in {"reap", "spawn", "pid"} => cur \in RunIds /\ runs[cur].status # "none"
  /\ task \in {"ingest", "route"} => seen.pr \in Prs /\ seen.sha \in Shas
  /\ cli # NoCli => cli.pr \in Prs /\ cli.sha \in Shas
  /\ \A p \in Prs : prs[p].state # "none" => prs[p].sha \in Shas

\* A schedule pass never forgets a pull request: whatever is active was read when the pass
\* began, or started by it and noted, or is the run being started.
Discipline ==
  /\ task \in {"live", "audits"} => \A r \in ActiveRuns : runs[r].pr \in plan.busy
  /\ task \in {"spawn", "pid"} => \A r \in ActiveRuns \ {cur} : runs[r].pr \in plan.busy

IInv == TypeOK /\ Bound /\ Discipline /\ SingleFlight /\ NoGhostHead

-----------------------------------------------------------------------------
(* Liveness, under FairSpec.  Nothing is claimed once the runs of the scenario are Exhausted. *)

\* No silent stall: a head that is queued or running gets to an end.
EveryHeadEnds ==
  \A p \in Prs, s \in Shas : Open(heads[p][s]) ~> ~Open(heads[p][s]) \/ Exhausted

\* The commit a PR comes to rest at, open, ready and unlabelled, is reviewed or given up on.
AtRest(p, s) == gh[p].open /\ gh[p].sha = s /\ ~gh[p].draft /\ ~gh[p].label
LiveCommitReviewed ==
  \A p \in Prs, s \in Shas :
    <>[]AtRest(p, s) => <>(heads[p][s].status \in {"done", "failed"} \/ Exhausted)

-----------------------------------------------------------------------------
(* What comments and documents say of the code, and the code does not do *)

\* scheduler.py:363: a superseded run past verify2 finishes and publishes at the old sha.
LateFinishes ==
  [][\A r \in RunIds :
       Active(r) /\ HeadOf(r).status = "superseded" /\ runs[r].late /\ ~runs[r].cancel =>
         runs'[r].status # "cancelled"]_vars

\* router.py:173: a reply that a running review's context predates waits for that run to end.
ReplyIsRead ==
  \A p \in Prs, s \in Shas : heads[p][s].status = "done" /\ ~heads[p][s].audit => s \notin unread[p]

\* worker.py:5137: the fresh audit a conversation asks for is run once that run ends.
FreshAuditRuns ==
  \A p \in Prs, s \in Shas : heads[p][s].status = "done" /\ ~heads[p][s].audit => s \notin promised[p]

-----------------------------------------------------------------------------
(* The abstraction: what the tables promise of reviews in flight *)

Flights == INSTANCE ReviewFlights WITH
  flight <- [p \in Prs |-> {r \in ActiveRuns : runs[r].pr = p}],
  ended <- {r \in RunIds : runs[r].status \in EndStatus}

\* The runs implement single flights, each landing once.
ImplementsFlights == Flights!Spec

\* ... and under fairness each of them lands: no run is ghosted, whatever its worker does.
ImplementsFairFlights == Flights!FairSpec
=============================================================================
