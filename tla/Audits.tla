------------------------------- MODULE Audits -------------------------------
(***************************************************************************)
(* Post-merge audits of one watched repository (audit.py): how merges are  *)
(* found and queued, what an audit says in public, and how its report      *)
(* reaches the report repository.  Five parties: people who merge, the     *)
(* daemon's sweep and index tasks, one worker per audit, the operator      *)
(* (seed, retry), and GitHub, whose calls may fail or lose their answer.   *)
(*                                                                         *)
(*   now      the clock, in units coarse enough that things share one      *)
(*   merged   when a pull request was merged, 0 before                     *)
(*   clean    whether a clean review stands on its head                    *)
(*   cursor   kv audit.sweep_cursor                                        *)
(*   rows     table audits, with the audit head of each                    *)
(*   file     the report on disk, by the run that wrote it; 0 for none     *)
(*   synced   kv audit.synced: the report known to be committed            *)
(*   index    kv audit.index_at and audit.index_pending                    *)
(*   shown    comments and issues under the post-merge marker, on GitHub,  *)
(*            and the report in the report repository                      *)
(*   daemon   what the daemon is in the middle of                          *)
(*   wk       the worker of each audit                                     *)
(*   seeding  merges `audit seed` has fetched and not queued yet           *)
(*   left     what the environment may still do                            *)
(*   from, judged, late   history: where the sweeps began; merges a sweep  *)
(*            has decided about; reports a pass has stamped over           *)
(*                                                                         *)
(* What a review finds is a choice: blockers or none, open or not.         *)
(***************************************************************************)
EXTENDS Integers, FiniteSets

CONSTANTS
  Pulls,         \* the pull requests
  Overlap,       \* SWEEP_OVERLAP
  Lookback,      \* SWEEP_FIRST_LOOKBACK
  Lag,           \* GitHub's: a merge is in the search at most this long after it
  MaxAttempts,   \* max_attempts of scheduler.py
  Scenarios      \* what TLC starts from: what _excluded and mode_for make of each pull request,
                 \* and bounds: how often each thing happens (sweep and index: whether they do)

Kind == {"excluded", "sync", "light", "full"}
Events == {"tick", "merge", "judge", "sweep", "index", "fail", "die", "crash", "seed", "retry", "run"}

ASSUME AuditsAssumption ==
  /\ IsFiniteSet(Pulls)
  /\ Overlap \in Nat /\ Lookback \in Nat /\ Lag \in 0..Overlap
  /\ MaxAttempts \in Nat \ {0}
  /\ Scenarios \subseteq [kind: [Pulls -> Kind], left: [Events -> Nat]]

VARIABLES now, merged, kind, clean, cursor, rows, file, synced, index, shown,
          daemon, wk, seeding, left, from, judged, late

people == <<merged, clean>>
reports == <<file, synced, index, late>>
history == <<from, judged>>
vars == <<now, people, kind, cursor, rows, reports, shown, daemon, wk, seeding, left, history>>

Never == 0

Row == [mode: {"none", "sync", "light", "full"}, live: BOOLEAN, done: Nat,
        open: BOOLEAN, comment: BOOLEAN, issue: BOOLEAN,
        head: {"none", "queued", "running", "done", "failed"}, attempts: Nat]
NoRow == [mode |-> "none", live |-> FALSE, done |-> Never, open |-> FALSE,
          comment |-> FALSE, issue |-> FALSE, head |-> "none", attempts |-> 0]

\* `id`: the run.  `row`: the audit as the worker read it when it started.
Worker == [pc: {"none", "review", "check", "report", "comment", "note", "issue", "noteissue",
                "record", "over", "fails"},
           id: Nat, row: Row, blockers: BOOLEAN, open: BOOLEAN, comment: BOOLEAN, issue: BOOLEAN]
NoWorker == [pc |-> "none", id |-> 0, row |-> NoRow, blockers |-> FALSE, open |-> FALSE,
             comment |-> FALSE, issue |-> FALSE]

Daemon == [at: {"idle", "search", "found", "sync", "stamp"},
           start: Nat, since: Int, found: SUBSET Pulls, ok: BOOLEAN]
Idle == [at |-> "idle", start |-> 0, since |-> 0, found |-> {}, ok |-> FALSE]

Shown == [comments: Nat, issues: Nat, report: Nat]

NoCursor == -1 - Lookback - Overlap

TypeOK ==
  /\ now \in Nat \ {0}
  /\ merged \in [Pulls -> Nat]
  /\ kind \in [Pulls -> Kind]
  /\ clean \in [Pulls -> BOOLEAN]
  /\ cursor \in Int
  /\ rows \in [Pulls -> Row]
  /\ file \in [Pulls -> Nat] /\ synced \in [Pulls -> Nat]
  /\ index \in [at: Nat, pending: BOOLEAN]
  /\ shown \in [Pulls -> Shown]
  /\ daemon \in Daemon
  /\ wk \in [Pulls -> Worker]
  /\ seeding \in SUBSET Pulls
  /\ left \in [Events -> Nat]
  /\ from \in Int /\ judged \in SUBSET Pulls /\ late \in SUBSET Pulls

Init ==
  /\ now = 1
  /\ merged = [p \in Pulls |-> Never]
  /\ clean = [p \in Pulls |-> FALSE]
  /\ cursor = NoCursor
  /\ rows = [p \in Pulls |-> NoRow]
  /\ file = [p \in Pulls |-> 0] /\ synced = [p \in Pulls |-> 0]
  /\ index = [at |-> Never, pending |-> FALSE]
  /\ shown = [p \in Pulls |-> [comments |-> 0, issues |-> 0, report |-> 0]]
  /\ daemon = Idle
  /\ wk = [p \in Pulls |-> NoWorker]
  /\ seeding = {}
  /\ \E s \in Scenarios : kind = s.kind /\ left = s.left
  /\ from = NoCursor /\ judged = {} /\ late = {}

Spend(e) == left[e] > 0 /\ left' = [left EXCEPT ![e] = @ - 1]
\* A call that fails is a fault; one that succeeds is not.
Fails == Spend("fail")

-----------------------------------------------------------------------------
(* Time and people *)

Tick ==
  /\ Spend("tick") /\ now' = now + 1
  /\ UNCHANGED <<people, kind, cursor, rows, reports, shown, daemon, wk, seeding, history>>

MergePull(p) ==
  /\ merged[p] = Never /\ Spend("merge")
  /\ merged' = [merged EXCEPT ![p] = now]
  /\ UNCHANGED <<now, clean, kind, cursor, rows, reports, shown, daemon, wk, seeding, history>>

\* A review, a reply or a dismissal changes what stands on the head.
Judge(p) ==
  /\ Spend("judge")
  /\ clean' = [clean EXCEPT ![p] = ~@]
  /\ UNCHANGED <<now, merged, kind, cursor, rows, reports, shown, daemon, wk, seeding, history>>

-----------------------------------------------------------------------------
(* Queueing *)

\* enqueue, its early returns in order.
Excluded(p) == kind[p] = "excluded"
Exists(p) == rows[p].mode # "none"
Created(p, live) ==
  IF kind[p] = "sync"
  THEN [NoRow EXCEPT !.mode = "sync", !.live = live, !.done = now]
  ELSE [NoRow EXCEPT !.mode = kind[p], !.live = live, !.head = "queued"]

Enqueued(ps, live) ==
  [p \in Pulls |-> IF p \in ps /\ ~Excluded(p) /\ ~Exists(p) /\ ~clean[p]
                   THEN Created(p, live) ELSE rows[p]]

\* What the search may return: all it must know by now, and nothing else.
Search(since) ==
  {ps \in SUBSET {p \in Pulls : merged[p] # Never /\ merged[p] >= since} :
     \A p \in Pulls : merged[p] # Never /\ merged[p] >= since /\ merged[p] + Lag <= now => p \in ps}

Since == IF cursor = NoCursor THEN now - Lookback ELSE cursor

\* The clock and the cursor are read first, then GitHub is asked.
SweepBegin ==
  /\ daemon.at = "idle" /\ left["sweep"] > 0
  /\ daemon' = [Idle EXCEPT !.at = "search", !.start = now, !.since = Since]
  /\ UNCHANGED <<now, people, kind, cursor, rows, reports, shown, wk, seeding, left, history>>

SweepSearch ==
  /\ daemon.at = "search"
  /\ \/ /\ \E ps \in Search(daemon.since) : daemon' = [daemon EXCEPT !.at = "found", !.found = ps]
        /\ UNCHANGED left
     \/ Fails /\ daemon' = Idle
  /\ UNCHANGED <<now, people, kind, cursor, rows, reports, shown, wk, seeding, history>>

\* Mutant: the cursor is the time the sweep began at.
NextCursorTight == daemon.start

\* Merges of the last while are looked at again: the search may not have known them.
NextCursor == daemon.start - Overlap

SweepApply ==
  /\ daemon.at = "found"
  /\ rows' = Enqueued(daemon.found, TRUE)
  /\ cursor' = NextCursor
  /\ daemon' = Idle
  /\ judged' = judged \cup daemon.found
  /\ from' = IF from = NoCursor THEN daemon.since ELSE from
  /\ UNCHANGED <<now, people, kind, reports, shown, wk, seeding, left>>

\* audit seed: what the search returns is queued one transaction each.
SeedFetch ==
  /\ seeding = {} /\ Spend("seed")
  /\ seeding' \in Search(0)
  /\ UNCHANGED <<now, people, kind, cursor, rows, reports, shown, daemon, wk, history>>

SeedOne(p) ==
  /\ p \in seeding /\ seeding' = seeding \ {p}
  /\ rows' = Enqueued({p}, FALSE)
  /\ UNCHANGED <<now, people, kind, cursor, reports, shown, daemon, wk, left, history>>

-----------------------------------------------------------------------------
(* A worker's run of an audit *)

Goto(p, pc) == wk' = [wk EXCEPT ![p].pc = pc]
RunFails(p) == Goto(p, "fails") /\ Fails

Starts(p) ==
  /\ rows[p].head = "queued" /\ wk[p].pc = "none" /\ Spend("run")
  /\ rows' = [rows EXCEPT ![p].head = "running", ![p].attempts = @ + 1]
  /\ wk' = [wk EXCEPT ![p] = [NoWorker EXCEPT !.pc = "review", !.id = left["run"],
                                              !.row = rows[p],
                                              !.comment = rows[p].comment, !.issue = rows[p].issue]]
  /\ UNCHANGED <<now, people, kind, cursor, reports, shown, daemon, seeding, history>>

\* The review finds blockers or none, or fails.
Reviews(p) ==
  /\ wk[p].pc = "review"
  /\ \/ \E b \in BOOLEAN : wk' = [wk EXCEPT ![p].pc = "check", ![p].blockers = b]
        /\ UNCHANGED left
     \/ RunFails(p)
  /\ UNCHANGED <<now, people, kind, cursor, rows, reports, shown, daemon, seeding, history>>

\* A light audit with a blocker runs again as a full one, from the first attempt.
Escalates(p) ==
  /\ wk[p].pc = "check" /\ wk[p].row.mode = "light" /\ wk[p].blockers
  /\ rows' = [rows EXCEPT ![p].mode = "full", ![p].done = Never,
                          ![p].head = "queued", ![p].attempts = 0]
  /\ Goto(p, "over")
  /\ UNCHANGED <<now, people, kind, cursor, reports, shown, daemon, seeding, left, history>>

\* step_persistence: which blockers still apply.  A lane that died ends a live audit's run; any
\* other failed check leaves every blocker open.
Checks(p) ==
  /\ wk[p].pc = "check" /\ ~(wk[p].row.mode = "light" /\ wk[p].blockers)
  /\ \/ \E o \in BOOLEAN : /\ o => wk[p].blockers
                           /\ wk' = [wk EXCEPT ![p].pc = "report", ![p].open = o]
                           /\ UNCHANGED left
     \/ wk[p].blockers /\ wk[p].row.live /\ RunFails(p)
     \/ wk[p].blockers /\ Fails /\ wk' = [wk EXCEPT ![p].pc = "report", ![p].open = TRUE]
  /\ UNCHANGED <<now, people, kind, cursor, rows, reports, shown, daemon, seeding, history>>

Reports(p) ==
  /\ wk[p].pc = "report"
  /\ file' = [file EXCEPT ![p] = wk[p].id]
  /\ Goto(p, IF wk[p].row.live THEN "comment" ELSE "record")
  /\ UNCHANGED <<now, people, kind, cursor, rows, synced, index, late, shown, daemon, seeding, left, history>>

\* Mutant: what GitHub shows is not looked for.
CommentKnownRow(p) == wk[p].comment

\* The row has its URL, or GitHub shows it.
CommentKnown(p) == wk[p].comment \/ shown[p].comments > 0

Posted(p, what) == shown' = [shown EXCEPT ![p][what] = @ + 1]

\* The search or the POST fails, or the POST's answer is lost.
Comments(p) ==
  /\ wk[p].pc = "comment"
  /\ \/ CommentKnown(p) /\ Goto(p, "note") /\ UNCHANGED <<shown, left>>
     \/ ~CommentKnown(p) /\ Posted(p, "comments") /\ ((Goto(p, "note") /\ UNCHANGED left) \/ RunFails(p))
     \/ ~wk[p].comment /\ RunFails(p) /\ UNCHANGED shown
  /\ UNCHANGED <<now, people, kind, cursor, rows, reports, daemon, seeding, history>>

Notes(p) ==
  /\ wk[p].pc = "note"
  /\ rows' = [rows EXCEPT ![p].comment = TRUE]
  /\ wk' = [wk EXCEPT ![p].comment = TRUE,
                      ![p].pc = IF wk[p].open /\ ~wk[p].issue THEN "issue" ELSE "record"]
  /\ UNCHANGED <<now, people, kind, cursor, reports, shown, daemon, seeding, left, history>>

IssueKnown(p) == shown[p].issues > 0

Issues(p) ==
  /\ wk[p].pc = "issue"
  /\ \/ IssueKnown(p) /\ Goto(p, "noteissue") /\ UNCHANGED <<shown, left>>
     \/ ~IssueKnown(p) /\ Posted(p, "issues") /\ ((Goto(p, "noteissue") /\ UNCHANGED left) \/ RunFails(p))
     \/ RunFails(p) /\ UNCHANGED shown
  /\ UNCHANGED <<now, people, kind, cursor, rows, reports, daemon, seeding, history>>

NotesIssue(p) ==
  /\ wk[p].pc = "noteissue"
  /\ rows' = [rows EXCEPT ![p].issue = TRUE]
  /\ wk' = [wk EXCEPT ![p].issue = TRUE, ![p].pc = "record"]
  /\ UNCHANGED <<now, people, kind, cursor, reports, shown, daemon, seeding, left, history>>

\* The outcome replaces what the row says, its URLs included.
Records(p) ==
  /\ wk[p].pc = "record"
  /\ rows' = [rows EXCEPT ![p].done = now, ![p].open = wk[p].open,
                          ![p].comment = wk[p].comment, ![p].issue = wk[p].issue]
  /\ late' = IF now <= index.at /\ ~index.pending /\ daemon.at \notin {"sync", "stamp"}
             THEN late \cup {p} ELSE late
  /\ Goto(p, "over")
  /\ UNCHANGED <<now, people, kind, cursor, file, synced, index, shown, daemon, seeding, left, history>>

\* finish_run: the head follows the run only while it is running; what is not worth a retry fails
\* at once.
Ended(p) == rows' = IF rows[p].head = "running" THEN [rows EXCEPT ![p].head = "done"] ELSE rows
Requeued(p, retries) ==
  rows' = IF rows[p].head # "running" THEN rows
          ELSE [rows EXCEPT ![p].head = IF retries /\ rows[p].attempts < MaxAttempts THEN "queued" ELSE "failed"]

Ends(p) ==
  /\ wk[p].pc \in {"over", "fails"}
  /\ IF wk[p].pc = "over" THEN Ended(p) ELSE \E retries \in BOOLEAN : Requeued(p, retries)
  /\ wk' = [wk EXCEPT ![p] = NoWorker]
  /\ UNCHANGED <<now, people, kind, cursor, reports, shown, daemon, seeding, left, history>>

\* The worker dies anywhere, and the reaper ends its run.
Dies(p) ==
  /\ wk[p].pc # "none" /\ Spend("die")
  /\ Requeued(p, TRUE)
  /\ wk' = [wk EXCEPT ![p] = NoWorker]
  /\ UNCHANGED <<now, people, kind, cursor, reports, shown, daemon, seeding, history>>

\* audit retry: every failed audit head at once.
Retry ==
  /\ \E p \in Pulls : rows[p].head = "failed"
  /\ Spend("retry")
  /\ rows' = [p \in Pulls |-> IF rows[p].head = "failed"
                              THEN [rows[p] EXCEPT !.head = "queued", !.attempts = 0] ELSE rows[p]]
  /\ UNCHANGED <<now, people, kind, cursor, reports, shown, daemon, wk, seeding, history>>

-----------------------------------------------------------------------------
(* The index task: the report repository's only writer *)

Finished == {p \in Pulls : rows[p].done # Never}
Audited == {p \in Finished : rows[p].mode # "sync"}

\* Nothing was finished since the stamp, and the last pass went through.
Unchanged ==
  /\ Finished # {} /\ \A p \in Finished : rows[p].done <= index.at
  /\ ~index.pending

\* The audits to commit are read once.  A repository that is not private, or cannot be read, is
\* refused.
IndexBegin ==
  /\ daemon.at = "idle" /\ ~Unchanged /\ left["index"] > 0
  /\ \/ daemon' = [Idle EXCEPT !.at = "sync", !.found = Audited, !.ok = TRUE] /\ UNCHANGED left
     \/ Fails /\ daemon' = [Idle EXCEPT !.at = "stamp"]
  /\ UNCHANGED <<now, people, kind, cursor, rows, reports, shown, wk, seeding, history>>

IndexSkips == daemon.at = "idle" /\ Unchanged /\ left["index"] > 0 /\ UNCHANGED vars

\* A report the key calls committed is skipped; one whose commit fails is left for later, and the
\* pass goes on.
Sync(p) ==
  /\ daemon.at = "sync" /\ p \in daemon.found
  /\ daemon' = [daemon EXCEPT !.found = @ \ {p}]
  /\ \/ synced[p] = file[p] /\ UNCHANGED <<shown, synced, left>>
     \/ /\ synced[p] # file[p]
        /\ shown' = [shown EXCEPT ![p].report = file[p]]
        /\ \/ synced' = [synced EXCEPT ![p] = file[p]] /\ UNCHANGED left
           \/ Fails /\ UNCHANGED synced
     \/ synced[p] # file[p] /\ Fails /\ UNCHANGED <<shown, synced>>
  /\ UNCHANGED <<now, people, kind, cursor, rows, file, index, late, wk, seeding, history>>

IndexPut ==
  /\ daemon.at = "sync" /\ daemon.found = {}
  /\ \/ daemon' = [daemon EXCEPT !.at = "stamp"] /\ UNCHANGED left
     \/ Fails /\ daemon' = [daemon EXCEPT !.at = "stamp", !.ok = FALSE]
  /\ UNCHANGED <<now, people, kind, cursor, rows, reports, shown, wk, seeding, history>>

\* Mutant: a pass that failed is not tried again.
PendingNever == FALSE

Pending == ~daemon.ok

Stamp ==
  /\ daemon.at = "stamp"
  /\ index' = [at |-> now, pending |-> Pending]
  /\ late' = IF daemon.ok THEN {p \in Audited : shown[p].report # file[p]} ELSE late
  /\ daemon' = Idle
  /\ UNCHANGED <<now, people, kind, cursor, rows, file, synced, shown, wk, seeding, left, history>>

DaemonCrash ==
  /\ daemon.at # "idle" /\ Spend("crash")
  /\ daemon' = Idle
  /\ UNCHANGED <<now, people, kind, cursor, rows, reports, shown, wk, seeding, history>>

-----------------------------------------------------------------------------
Sweeps == SweepBegin \/ SweepSearch \/ SweepApply
Indexes == IndexSkips \/ IndexBegin \/ (\E p \in Pulls : Sync(p)) \/ IndexPut \/ Stamp

WorkerNext(p) ==
  \/ Starts(p) \/ Reviews(p) \/ Escalates(p) \/ Checks(p) \/ Reports(p) \/ Comments(p) \/ Notes(p)
  \/ Issues(p) \/ NotesIssue(p) \/ Records(p) \/ Ends(p) \/ Dies(p)

Next ==
  \/ Tick \/ SeedFetch \/ Retry \/ Sweeps \/ Indexes \/ DaemonCrash
  \/ \E p \in Pulls : MergePull(p) \/ Judge(p) \/ SeedOne(p) \/ WorkerNext(p)

Spec == Init /\ [][Next]_vars

\* The daemon goes on with what it is in the middle of, and between other tasks every task comes
\* round again.
Fairness ==
  /\ WF_vars(SweepSearch \/ SweepApply \/ (\E p \in Pulls : Sync(p)) \/ IndexPut \/ Stamp)
  /\ SF_vars(IndexBegin)

FairSpec == Spec /\ Fairness

-----------------------------------------------------------------------------
(* Properties *)

\* The cursor leaves no merge behind that no sweep has decided about, although the search learns
\* of merges late, sweeps fail or die half-way, and the clock runs on between reading it and the
\* transaction (audit.sweep).
NothingMissed ==
  \A p \in Pulls : merged[p] # Never /\ from <= merged[p] /\ merged[p] < cursor => p \in judged

\* A merge is told at most once that it was reviewed after all, and gets at most one issue,
\* whichever attempt died after which call; an audit on record has said what it found (audit.post_live).
PostedOncePerPull ==
  \A p \in Pulls :
    /\ shown[p].comments <= 1 /\ shown[p].issues <= 1
    /\ rows[p].done # Never /\ rows[p].live /\ rows[p].mode # "sync"
         => shown[p].comments = 1 /\ (rows[p].open => shown[p].issues = 1)
    /\ ~rows[p].live => shown[p].comments + shown[p].issues = 0

\* In the end the report repository has the report of every audit on record, but for those the
\* stamp ran over (audit.publish_index, daemon.t_audit_index).
ReportsSettle == left["index"] > 0 => <>[](\A p \in Audited : shown[p].report = file[p] \/ p \in late)

\* What audit.py says of it: a failed commit is tried again.  The code does not keep it.
ReportsAllSettle == left["index"] > 0 => <>[](\A p \in Audited : shown[p].report = file[p])

\* An audit that is over, without an issue on record, has none.  The code does not keep it.
NoStrayIssue ==
  \A p \in Audited : rows[p].head = "done" /\ ~rows[p].issue => shown[p].issues = 0
=============================================================================
