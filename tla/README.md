# TLA+ models of reviewsys

reviewsys is one daemon process, one detached worker process per review, an operator's command
line and one SQLite file. This directory models how they work on that file and on GitHub, checks
the models with TLC on small instances, and proves the most important results with TLAPS for every
instance.

    tlc -workers 2 -config queue_push.cfg MCQueue      # any cfg of the table below
    tlapm ReviewQueueProofs.tla

## The system

| part | state it keeps | operations | what is hard |
|---|---|---|---|
| `ingest.py` | `prs`, `heads` | poll, `enqueue_head`, supersede, close, skip by label or draft | the poll is read before the transaction that applies it; ten ways to ask for one commit meet one row in any status |
| `router.py` | `inbox` | mention, review request, reply, own-PR batch | a reply that arrives during a review of the same commit |
| `queue_status.py` | queue comments | offer boxes, read ticks, edit, delete | a tick made on a text that is no longer true |
| `scheduler.py` | `heads`, `runs` | one pass, `_start_run`, `finish_run`, retry, cancel, supersede | one read serves a whole pass; two transactions around a process's birth; end of a run by two parties |
| `reaper.py`, `proc.py` | `runs`, processes | deadline, stale heartbeat, dead process, hard cancel | kill and end are two steps; a run whose pid is unknown |
| `worker.py` | `runs`, `lanes`, `findings`, `reviews`, `threads`, GitHub | claim, checkout, carry, lanes, verify, gate, publish, conversation, CI check, audit | detached from the daemon; every step may die, and the retry meets what it left |
| `lanepool.py`, `lane.py`, `slots.py` | lanes of a run, model slots | run lanes in parallel, fall back, correct, stop | threads, slots at their limit, a lane that hangs |
| `gate.py`, `ledger.py`, `judge.py`, `dedupe.py`, `rules.py` | findings of a PR over its rounds | fold the rounds, group, weigh, decide the verdict | long sequences of rounds; a finding that comes back |
| `publish.py`, `converse.py`, `labels.py`, `checks.py`, `status.py` | what GitHub shows | review, thread replies, verdict label, check run, status | half of it posted when the worker dies |
| `ci.py` | watches | visit a reviewed commit until its checks settle | notice, correct, re-queue, each once |
| `audit.py` | `audits` | select merged PRs, run, escalate, report | takes over a head that live code owns |
| `quota.py`, `degraded.py`, `notify.py`, `doctor.py` | ladder, modes, alerts | pick a model, degrade, recover, alert, wake | hysteresis; a delivery that fails |
| `cli.py` | all tables | enqueue, cancel, retry, deploy, maintenance | concurrent with the daemon, in its own process |
| `gh.py`, `github.py`, `steps/worktree.py`, `gc.py`, `config.py`, `prompts.py` | none of the tables | GitHub, git, settings, texts | modelled where they are used, or not |
| `replay*.py`, `shadow*.py`, `compare.py`, `exporter.py`, `legacy_import.py`, `sister.py`, `deploy/`, `site/` | files of their own | offline tools, deployment | outside the loop |

The parts call each other in one direction only through the database: the daemon and the operator
write rows and start workers; a worker reads its run, talks to GitHub and ends its run; the daemon
learns of that from the rows. The daemon is single-threaded, so that its tasks never overlap, but
every worker and the operator run between any two of its transactions.

What makes the parts correct:

- queue: one review in flight per pull request, no run or head that silently stays for ever, one
  review per commit, the live commit reviewed, and an ask answered by a review;
- worker: nothing published for a commit or a base that has moved, a retry that repeats nothing;
- pipeline and lanes: no lane outlives its phase, no run waits on a slot nobody will free, and an
  approval rests on a whole review;
- verdict: no approval with a standing blocker, whatever the order of rounds, replies and CI results;
- GitHub's face: label, check run and comments in the end agree with the last review;
- audits: no merge left behind, nobody told twice, every report committed;
- modes: entered and left with the pool, announced once, delivered in the end.

`PROJECT.json` lists the hazards with their lines, and maps every definition to the lines it stands for.

## Modules

| module | models | shape |
|---|---|---|
| `Heads` | the rows of `heads` of one pull request, and what each transaction of `ingest.py` and `scheduler.py` does to them | operators from rows to rows, no variables; used by `ReviewQueue` and `Gate` |
| `ReviewQueue` | daemon, workers, operator and GitHub around the tables | one action per transaction, exchange or process event |
| `ReviewFlights` | what the scheduler promises, without the tables | abstract specification, implemented by `ReviewQueue` |
| `LanePool` | the slots of one model pool and of the comparison pool, taken by polling lanes of every process | one action per scan of lock and ticket files |
| `Pipeline` | one run's review: Phase 1 on its ladder, gate, Phase 2, verifiers, confirmation, thread lane, verdict | one action per submission, answer, failure or join of a lane; composed of the worker's thread, a Phase-1 thread and the lanes' threads |
| `Ledger` | events and statuses of the issue ledger, what stands and what it decides | operators on rows, used by `Rounds` |
| `Rounds` | the rounds of one pull request under policy v12: reviews and conversations over the ledger, GitHub's threads and the verdict | one action per GitHub call or transaction |
| `Converse` | the conversations of policy v11, their tracking issues, and the CI check of an approved commit | one action per GitHub call or transaction |
| `Outage` | degraded mode across runs: readings, holds, override, announcement | one action per reading, flip, delivery or unit of time |
| `Marks` | check runs and verdict labels as passes over the tables | one action per read or write of a pass |
| `Gate` | the gate comment under its three writers | one action per read or write of a thread |
| `Audits` | the sweep, an audit's public side, the passes that commit reports | one action per exchange with GitHub or transaction |
| `MC*` | instances for TLC of the module of that name (`MCQueue` of `ReviewQueue`, `MCLanes` of `LanePool`) | constants: roles, scenes, limits |
| `*Proofs` | theorems of the module of that name; `FaceProofs` of `Gate` and `Marks` | proofs |

Three models are of the same program at different grain. `ReviewQueue` takes a run's review in one step
and asks who runs, when, for which commit; `Pipeline` opens that step; `Rounds` and `Converse` take a
run's findings as given and follow what is said and booked over many runs, one at a time, which is what
`SingleFlight` of `ReviewQueue` (proved) allows. `Marks` and `Gate` read the tables that `ReviewQueue`
writes, and cut their writers down to what a mark or a comment can tell apart; `Gate` uses `Heads`
itself. `Outage` is the state across runs of which `Pipeline` has the flip inside one.

### State, actions and abstractions

`ReviewQueue`:

- `prs`, `heads`, `runs`, `reviewed`, `fresh`, `audits`, `inbox` are tables (`reviewed` the commits
  with a row in `reviews`, `fresh` the `converse.fresh_audit` keys, `runs[r].again` the key
  `rereview.after_run`). They survive crashes. `gh` and `posted` are GitHub.
- `task` is what the daemon is in the middle of; `seen`, `plan`, `cur`, `why` hold what it has read
  and not used yet. `DaemonCrash` empties them. A step that reads and writes in one transaction, or
  is the daemon's only writer between reads, is one action (`SupersedeRun`, `BoxTicked`, `CiFailed`).
- `SchedBegin`, `StartRun`, `Spawn` or `SpawnFails`, `WritePid`, `LiveEnds`, `AuditsEnd` are one call
  of `schedule`: the read, and for each head in line the insert, the process, the pid.
- `wk[r]` is the worker process of run r: `boot` (before it reads its run), `claim`, then the steps
  in the order of `worker.run`, `retire` and `finish`. A worker outlives the daemon. `WkDies` takes
  it anywhere; what it has written stays.
- `IngestFetch`/`IngestApply` and `RouteFetch`/`RouteApply` are a read of GitHub and the transaction
  it ends in; `CliRead`/`CliEnqueue` the same in the operator's process.
- Abstracted: time (a debounce, a backoff and a deadline may pass at any moment, so every timing is
  covered and none is claimed); triggers the code treats alike are one; the condition
  under which an earlier verdict may be carried (`WkReviews` may always decline), and the one under
  which a review ends preliminary (any may, `gate` bounds how many); each pull request is of its own
  repository, so that a poll is one row; closing is final.

`LanePool`: `slot` is the locked `flock` files, `tickets` and `came` the ticket files of `{pool}.line` and
`{pool}.replay`, `lane[l].pc` the place in `acquire` or `_acquire_replay` (`run` in the model's call),
`lane[l].may` the indexes of `_may_take` or `replay_slots`, computed in one step and tried in a later one.
`Read` is a pass's look at the line, `Ask` and `Answered` the lock and unlock of `gpt_idle`, `Check` the
second look at the share, `Start` the way from a locked slot to the call (or out, if the lane was stopped
meanwhile), `Turn` a correction turn that gives its slot up. `Dies` is the kernel dropping the locks of a
process. Left out: a process number that is used again, and the stall clock, which only moves the run's
deadline.

`Pipeline`: `lanes` is every lane submitted, with its thread (in line, in a turn, waiting for a fallback,
stopped, gone); an attempt is one model session with its corrections. `rung` is the shared Phase-1 rung
that siblings move under each other, `signals` the stop flags of abandoned phases, `listed` the
provenance the review prints. What the models find is a choice at each verification. Left out: the v11
fresh final pipeline (`_fresh_final_if_needed`), `force_phase2`, a head that turns obsolete at
publication (in `ReviewQueue`), the bounds in seconds of grace and join (either may run out), prompts.

`Rounds`: `issues` is the ledger as `Ledger` folds it, `threads` the newest finding thread of each issue,
`marks` the markers of the bot's answers, `shown` and `says` what GitHub shows of a commit, `rec` the rows
of `reviews`. The thread lane's and the finders' words are choices; publish-time dedupe, reconciliation of
a history from before the ledger, folds, revivals and the rules on candidates are what the code does with
them. A commit changes the lines of some issues and not of others (`touched`). A reply whose post fails,
and what else holds an approval back after a conversation (`ci_hold`, `thread_failed`), are left out: the
model approves more often than the code. The first is with the others under "Seen while modelling".

`Converse`: the same for policy v11, where the verdict is read from GitHub and the latest full review less
what was conceded. A full review is one step and its answers do not fail there (its seams are in `Rounds`
and `ReviewQueue`); a conversation has no stand-in models; lifted marks in the review's own text are left
out. `_known_tracking` counts a "pending" record as tracking, as the code does.

`Outage`: time passes in units of `PROBE_CACHE`; `probe` is the one kv row that holds the last reading
and the hold; a worker reads, starts, meets the dry pool and records. `Marks`: `off` is what
`labels.reconcile` keeps in `repos`; the scene says which
mark is configured and what people do; `chk` and `lab` are passes in the middle of their list. `Gate`:
`worker[c]` has the main thread and the heartbeat thread of the run of commit c, `gate_lock` where the
code takes it. Places in line, times and progress bars are left out of the comment.

`Audits`: the clock is coarse, so that things may share a second; `Search` may return any set that has
all merges older than `Lag`, which is assumed of GitHub and is at most the overlap; a merge excluded by
label or author or skipped as a branch sync is its `kind`; the review's findings are a choice; `from`,
`judged` and `late` are history. The live head of a merged pull request, which the audit takes over, is in
`ReviewQueue` (`AuditMerged`).

## Runs

A run is the cfg of its name. Every bound is a constant of the cfg or a limit in the `MC` module.
`max_attempts` is 2, the smallest value with a retry.

| run | instance | checks | states |
|---|---|---|---|
| `queue_push` | a push, a moved base, one deadline, one death, infra failures, one review that stays preliminary; the same less the push and the base, with a reply that asks again and two preliminary reviews; 3 runs | `SingleFlight`, `NoGhostHead`, `OneWorkerPerPr`, `PostedOnce`, `ImplementsFlights` | 986 k |
| `queue_asks` | a mention around a push (3 runs); two pushes (3); a push and one back, to a commit with a diff of its own (2); a box and a flip of label or draft (2); reply, box and failed CI on one commit (4); operator's enqueue, retry or cancel (2); two PRs that merge under a cap of one run and one audit (2) | `AskedIsReviewed`, `CarriedIsSound`, `CapHolds` | 1.42 M |
| `queue_live` | a daemon crash anywhere (3 runs); a push (3); two flips of label or draft (2); every run may be overdue, every worker may hang | `EveryHeadEnds`, `LiveCommitReviewed`, `ImplementsFairFlights` | 72 k |
| `lanes` | a verifier, an audit's side lane and two reviewers in a pool of 2; a replay and a pool of 3 that shrinks or stays; a process that dies and a line that is cleared; a comparison lane, a replay and a stopped run | `TopIsForSides`, `LockedIsHeld`, `SidesNeverWait`, `NobodyStarves` | 85 k |
| `pipeline` | two roles, a ladder of two, two shards; seven plans (gated, small, Phase 2 alone with confirmation, thread lane or comparison lanes, single stage, audit), three days (all up, a broken rung, a dry primary pool), one fault or cancel | `NoLaneOutlives`, `FlipsOnce`, `WeighedIsListed`, `ApprovalIsFull`, `LadderIsWalked`, `RunEnds` | 222 k |
| `rounds` | two findings and a regression, three commits, two replies, any two of thirteen events | `OneDecision`, `ApprovalIsPosted`, `ApprovalIsClear`, `SettledStays` | 1.7 M |
| `converse` | two findings; reviews with replies, pushes, dismissals; filing with every call failing; CI | `OneIssue`, `DeferralsHold`, `OneCiUpdate`, `ApprovalRests` | 796 k |
| `outage` | one worker and the daemon, two changes of pool or override, two faults | `OutageIsPaged`, `ModeRecovers`, `NoStaleOutage` | 144 k |
| `marks` | eight scenes over two commits, one write per pass, one fault, or two for a refused label and a restart | `ChecksSettle`, `SuccessStays`, `LabelSettles` | 342 k |
| `gate` | four scenes over two commits: pushes, drafts, labels, ticks, deletions, a close, one fault | `ProgressStops`, `GateSettles` | 214 k |
| `audits` | two merges seen late over four ticks; excluded and judged merges with a crash and a backfill; one audit with four attempts, two failures, a death and a retry; two reports with a failing pass | `NothingMissed`, `PostedOncePerPull`, `ReportsSettle` | 704 k |

Why this is enough. Processes of different pull requests share only the cap and the audit slots, so one
pull request does for everything but `CapHolds`. Two runs are a run and its retry or successor; three or
four are given where a latecomer matters. Three slots are the fewest with a replay share, a reviewer
slot and the top one; two runs and an audit the fewest in which a line has an order. Two roles are a
sibling and another; a ladder of two has a rung to fall to and a last one; two shards one that fails
beside one that does not. Two findings are one that settles and one that stands, two commits a push and
a reset. `rounds` has three commits and two events; the same properties were checked with three events
of any kind over two commits, and with four over three commits in three smaller worlds (a migrated
history with replies and failed lanes; with replies, lost writes and hands that resolve; a fresh one with
replies, deaths, asks and dismissals). The overlap of 2 and lag of 2 in `audits` are the least at which a cursor without overlap loses
a merge.

Deadlock is checked in the queue runs, `pipeline`, `rounds`, `outage` and `audits`. The lanes of `lanes`
come once and end; the worlds of `converse`, `marks` and `gate` may be at rest with nothing left to do.

Properties worth a word: `OneWorkerPerPr` is about processes, `SingleFlight` about rows; the first
rests on the reaper killing before it ends a run. `PostedOnce` is by phase, as
`worker._existing_review` looks for the review of the phase it is about to post: a commit gets one
preliminary and one final review in full, a final one may follow a preliminary one, and nothing follows a
final one. `AskedIsReviewed` keeps, in `owed`, every commit a
person's accepted ask was about, until a draft closes its head. `ApprovalIsFull` and `ApprovalIsClear` are the two halves of what an
approval promises: the review behind it was whole, and nothing above a nitpick counts in the ledger when
it goes up. The second leaves out an issue of a backfilled history that no round could judge yet and no
thread shows: with two failed thread lanes an approval does go up over one, as `rules.standing` has it.
`SettledStays` leaves out an issue whose title a finding bears that the verifier matched to another
issue, or that the run's own thread lane closes; `CheckIsRight` a write that GitHub took, nobody recorded
and whose wish flipped back; `ReportsSettle` a report the stamp ran over: the table below shows them.
`LabelSettles` leaves out a label while the cursor is past a change nothing looked at (`dirty.missed`): a
push a poll saw late (`marks_label.cfg` checks it without that exception), or a write GitHub refused. The
latter turns the repository off until the daemon restarts, and the cursor moves on, so that the restart
alone does not bring the label back: the next stamp of the pull request does.

Fairness. In `ReviewQueue` it is what `Daemon.tick` gives: what the daemon is in the middle of goes on;
every poll and every pass comes round again; an overdue run is met by the reaper, for ever if need be;
debounce and backoff pass. Strong fairness stands where the task is enabled only between other
tasks: `tick` runs every task in turn, so that none is passed over for ever. No worker is assumed to
do anything, so that `ImplementsFairFlights` and `EveryHeadEnds` hold for workers that hang or die at any
line. Liveness says nothing once the scenario's runs are used (`Exhausted`). In `LanePool` a waiting
lane polls and a side lane ends (it has a timeout of minutes); of reviewers and replays nothing is
assumed; `SidesNeverWait` holds only while the top slot is kept: when a pool shrinks, its new top slot may
be held by a reviewer that took it as an ordinary one. In `Pipeline` every thread goes on but a
comparison lane, which may hang for ever. In `Outage`, `Marks`, `Gate` and `Audits` the daemon's tasks come
round as above and, in the first three, workers go on (the reaper sees to those that do not); faults,
people and crashes have no fairness, and are bounded.

### Disagreements the runs show

`queue_stale_poll` is a run of `PROJECT.json` with a finding; the others are cfgs beside it, to be run by
hand (`tlc -config marks_label.cfg MCMarks`; `outage_hold` on `Outage`). Each checks what a line of the
repository says, and TLC finds it violated by what the code does.

| cfg | what the code does | what it is said to do |
|---|---|---|
| `queue_stale_poll` | A poll of commit 1, applied after the operator queued commit 2, supersedes 2; no later poll opens it. | `scheduler.py:230` "ingest queues, or has queued, the new one" |
| `queue_late` | A superseded run in its last phase is ended by the publish guard. | `scheduler.py:363` "they finish and publish at the old sha" |
| `queue_reply` | A reply during a running automatic review promotes it and is marked handled. | `router.py:173` "leave the row unhandled so it re-opens the head once that run finishes" |
| `queue_promise` | A run that dies after asking for a fresh audit leaves the guard and loses the ask. | `worker.py:5137` "Ask for one same-sha re-review once this conversation run ends" |
| `queue_crash` | A crash before the pid is written leaves a worker the reaper cannot kill; it and the retry both post. | `README.md:5` "posts one GitHub review per PR head" |
| `pipeline_unchecked` | A shard of blockers that fails at the gate falls through to Phase 2 alone, which publishes. | `worker.py:155` `UncheckedBlockers`: the run fails rather than publish without checking them |
| `rounds_regress` | A regression of a fixed issue was withdrawn. The next finder that restates the fixed issue is matched to that issue, is given the regression's title again, and so opens the withdrawn one, at code that did not change. Any settled issue comes back so when a finding under its title is matched to another one. | `rules.py` "settled:H is dropped unless the code at H's anchor changed since H was closed" |
| `rounds_block` | A blocking finding that looks like a suggestion already posted is folded onto its thread when it is published: the record requests changes, the ledger keeps the issue a suggestion. | `worker.py` `_record_folds`: "listed, judged and withdrawable instead of blocking from nowhere" |
| `rounds_dismiss` | After a dismissal a re-review posts an informational summary; the latest review of ours then reads COMMENTED, and the next re-review moves the verdict. | `worker.py` `_verdict_update`: "A review a maintainer dismissed is left dismissed" |
| `rounds_shown` | The answer stands on the thread and the run dies before the ledger has it. The thread no longer waits, so the retry decides without that reply: the thread says withdrawn, the issue is open. | `publish.py` `answer_thread_lane`: "What counts is what the thread shows, not this run's decision" |
| `converse_stuck` | A run that dies between its answers and the update leaves a block with nothing standing: the retry lifts nothing and posts nothing. | `worker.py:5168` "anything less leaves a ready pull request showing a blocking review that no longer exists" |
| `converse_ci` | A conversation that took over a CI check whose update was posted but not recorded approves. | `worker.py`: after a CI update "only a review that sees that failure may approve the commit again" |
| `outage_hold` | A probe's answer overwrites the hold a lane recorded. | `degraded.py:206` "the mode then stays on for `LANE_HOLD` regardless of what the sentinel probe says" |
| `marks_orphan` | A create whose answer was lost is adopted only while its wish stays: otherwise two checks are open. | `README.md:1317` "adopted on the next pass ... rather than duplicated" |
| `marks_label` | A poll stamps a change with GitHub's time, which the label cursor may have passed. | `README.md:1259` "exactly one of them mirroring the bot's latest verdict on the live head" |
| `gate_close` | A pull request that closes while its head waits or runs keeps its "queued" or "in progress" comment. | `worker.py:795` "an existing gate comment says so instead of a stale "queued" / "in progress" status" |
| `gate_one` | Two writers that find no comment both create one. | `README.md:1438` "a PR never has more than one bot status comment" |
| `audits_late` | A report whose commit failed in a pass that otherwise went through, or that was recorded while the pass ran, waits until another audit finishes. | `audit.py:627` "a failed commit is simply retried on the next pass" |
| `audits_stray` | A retry that finds nothing open does not look for the issue the first attempt opened and could not note. | `audit.py:915` "Idempotent across retries and crashes" |

Seen while modelling, without a cfg: a failed reply of a conversation is never tried again; a
confirmation that fails half-way leaves its lanes on the printed list; a verification left incomplete at
a discarded gate keeps the run from approving; `_review_strength12` does not look at the thread lane's
own failures; with the mode forced off a lane's quota failure still flips its run; a crash after the mode's
transition loses the all-clear; the heartbeat checks that its head runs outside the lock; a box ticked
between a pass's read and its write is lost; a worker killed in its last attempt leaves "in progress";
a retry of an audit leaves the first attempt's comment as it was; a pull request that turns to draft
ends an ask that no review met, with its head; an operator's enqueue between a
pass's read and `_start_run` opens a superseded head again, for a run its worker ends at once.

## Proofs

Every theorem is for all values of the constants under the named assumptions of the modules (null
values are not members, numbers are naturals, sets of pull requests and commits are finite). Three say
in their statement what more they assume: `LadderWalked` that the last rung of the ladder has no
stand-in, without which it would be swapped for one instead of failing; `WorkersAlone` and `PostsOnce`
that no limit allows a crash of the daemon, because both are false with one: `queue_crash.cfg` shows it.

| module | theorems | argument |
|---|---|---|
| `ReviewQueueProofs` | `Invariant`, `Typed`, `OneRunPerPr`, `NoGhosts`, `EndedStay`, `CapKept`, `Refinement`, `AsksAreReviewed`, `CarriesAreSound`, `WorkersAlone`, `PostsOnce` | below |
| `LanePoolProofs` | `TopSlot`, `NoLockLeft` | `MayBelowTop`: what a lane may try later was computed from a size of at most `MaxSlots`; a lane that is about to lock holds nothing |
| `PipelineProofs` | `NoStrayLane`, `OneFlip`, `ApprovalsAreFull`, `ReviewsAreListed`, `LadderWalked` | below |
| `RoundsProofs` | `DecidedOnce`, `ApprovalsPosted`, `ApprovalsAreClear`, `SettledStaysSettled` | below |
| `ConverseProofs` | `FiledOnce`, `UpdatedOnce`, `DeferralsStand`, `ApprovalsRest` | below |
| `AuditsProofs` | `NoMergeMissed`, `ToldOnce` | below |
| `FaceProofs` | `ProgressEnds`, `SuccessKept` | below |
| `OutageProofs` | `NoneStartsStale` | a reading that says dry is no older than the calm, and the calm and what is left of a hold are at most a whole one; no time passes while an answer "dry" waits to be recorded |

The queue. `SingleFlight` is not inductive: `StartRun` looks at `plan`, which was read at the
beginning of the pass, and not at `runs`. `Discipline` closes the gap: during a pass every active run
is of a pull request in `plan.busy`, apart from the run being started. It holds because only
`StartRun` makes a run active, because the claim (`WkClaim`) keeps the status of an ended run, and
because `WritePid` notes the run's pull request as the run stops being the current one. `NoGhostHead`
needs that only `StartRun` sets a head running, and that the end of the run moves on the head it
follows; `SingleFlight` makes that run unique. `Bound` says that what is named exists. A step that
touches neither `runs`, `heads` nor the daemon's reading is quiet and preserves all of it by one
lemma; each of the others has its own. The module begins with what they need of `Heads`: each transaction
returns rows of the type, and none sets a row running. `Refinement` is the safety part of
`ImplementsFlights`. `CapKept` adds `Counted`: what a pass has counted is at least what is active, the
run being started apart, and that one was started below the cap.

Asks and carries. `CarriedIsSound` is inductive as `CarryOf`: a head is carried from one with a smaller
row number, so that a chain of carries ends, and `ingest.py` and `worker._carry` copy only from a commit
with a review on record. `AskedIsReviewed` says nothing of a head that is not done, so `AskHead` follows
an ask from when it is accepted: as long as no review of the commit is on GitHub, its head has no
automatic trigger and is not closed for good. `AskWorker` covers what a worker took up before the ask:
one that is about to finish without a review of its own either carried one or has been told to queue
the head again (`rereview.after_run`).

Workers. `Leashed` ties processes to rows: a live worker's run has its pid or is the one being started;
past its claim its run is active until it ends it itself; about to post it saw a commit that is `Clear`: no
review of its phase, and no final one. The
reaper therefore kills whatever it ends, and a retry starts alone. A daemon that dies between starting
a worker and writing its pid breaks the first part, which is the hypothesis of `WorkersAlone`.

The pipeline. A phase is left only when none of its lanes is live, and lanes are submitted only to the
phase the worker is in (`Stages`: the single stage's Phase 1 may run beside Phase 2 and nothing else);
a hold is recorded only by the step that sets `degraded`. `FullInv` says how each kind of lane may end and
what the worker has in hand at each place, so that an approval finds every lane it needs done and
on the final model. `ListInv` says the printed list is the lanes that answered, less a Phase 1 that was
thrown away, and `WalkInv` what a Phase-1 lane at work has tried: the shared rung is at the end of
the ladder only if it is the last model.

Rounds. A decision is taken only for a reply without a marker, and its marker is written in the same call
(`DecidedOnce`). The others rest on `RoundInv`: rows of the ledger are sound (an issue has a severity, a
settled one knows where it was closed); from its reading to its booking a run's ledger is the one in
the table, one worker at a time; a finding that revives a settled issue saw its lines changed; an approval in hand is over nothing above a nitpick; and a head on record as
approved shows it, or has a full review ahead.

Conversations. An issue is filed only after the record is "pending", and no path leads back from that
but the refusal of a create that made nothing; a CI update is posted only where the commit shows none.
`TalkInv` follows a deferral from the lane to its row: what the lane was told people wrote is still on
the thread; a vetted deferral is a maintainer's, with a link or with one to be filed (`Backed`); nothing
is answered while anything is to be filed; what is answered is on the thread with its words; only that is
booked; and the next full review makes it void by its number. An approval in hand leaves out nothing
that was not given up that way, as long as its commit is the live one.

The sweep. `NothingMissed` relates the cursor to what was decided; it is inductive with `ClockInv` (nobody
merges in the future, the cursor is never ahead of the clock) and `ReadingInv`: a sweep under way began in
the past and reads on from the cursor, and what it found has every merge that was older than the lag when
it began. Moving the cursor back by the overlap, which is at least the lag, then leaves nothing behind.

The audit. `ToldOnce` is inductive per pull request with `Said` (what its row or its worker knows to be
on GitHub is there, once; what is on record was said) and `Underway` (a worker keeps the audit it began
with, and past a call has what the call left). An attempt that dies between a call and its note is
covered because the next one finds what the call left before it calls again.

What people see. A body that says progress is in hand only of a run that is shown live (`Thread`), the main
thread can end that only with the heartbeat out of its edit, and nobody else writes such a body
(`ProgressEnds`). For `SuccessKept`, of commits that carry nothing: a check says success only after a final review
(`Earned`), after which no pending mark is derived; what a pass has in hand, success or pending, is
still due when it is written (`Due`), because reviews and carries only come.

Only model-checked: all liveness (`EveryHeadEnds`, `LiveCommitReviewed`, `ImplementsFairFlights`,
`SidesNeverWait`, `NobodyStarves`, `RunEnds`, `OutageIsPaged`, `ModeRecovers`, `ChecksSettle`, `LabelSettles`,
`GateSettles`, `ReportsSettle`), which is beyond the prover. Every safety property of the passing runs is
a theorem.

## What is left

- the stall clock of `lanepool.py`: the credit of seconds in line to a run's deadline, from several
  threads (a listed hazard without a property);
- reopening a closed pull request, and the notification and reply polls that fill `inbox` with their
  cursors;
- the v11 fresh final pipeline, the shadow rounds, the deploy drain, the watchdog's and drift's alerts.

Not modelled, and why: GitHub's and git's wrappers have no state of their own, and what they return is
modelled where it is used; what the judges decide is an input of `Pipeline` and `Rounds`; prompts,
configuration, exports, replays, comparisons and the site are formatting or offline tools; deployment is
scripts.
