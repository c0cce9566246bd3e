------------------------------- MODULE Rounds -------------------------------
(***************************************************************************)
(* The review rounds of one pull request under policy v12 (worker.py): a   *)
(* full review of a commit, or a conversation on a reviewed one, from the  *)
(* moment it reads GitHub and the ledger to the moment its verdict is on   *)
(* record.  The models' answers are choices; everything the harness does   *)
(* with them is a step: the thread lane's outcomes go on their threads,    *)
(* then into the ledger, then the verdict is taken from the ledger, posted *)
(* and recorded.                                                           *)
(*                                                                         *)
(*   head, touched   the commits, and the issues whose lines each changed  *)
(*   threads         the newest finding thread of each issue on GitHub     *)
(*   marks           the answer markers the bot's replies carry            *)
(*   shown           the state of the latest review that carries a         *)
(*                   commit's marker, as standing_verdict reads it         *)
(*   says            the state of the latest one meant as a verdict (not   *)
(*                   an informational re-review summary)                   *)
(*   rec, strength   the last reviews.event of each commit, and whether    *)
(*                   the full review behind it could carry an approval     *)
(*   issues          the ledger rows                                       *)
(*   recon           the reconcile record: not done yet, and what waits    *)
(*   silent          the reply each thread met with silence                *)
(*   want            the runs asked for                                    *)
(*   run             the locals of the worker                              *)
(*   twins           do the findings look alike to publish-time dedupe?    *)
(*   events          what the world may still do (a bound)                 *)
(*                                                                         *)
(* One worker at a time: ReviewQueue.  Each step below is one GitHub call  *)
(* with what follows it in the worker, or one database transaction; the    *)
(* world moves between any two.                                            *)
(***************************************************************************)
EXTENDS Ledger, FiniteSets, TLC

CONSTANTS Hashes,        \* the finding hashes
          Titles,        \* those the finders come up with
          Retitle,       \* the hash of such a title with " (regression)"
          Lanes,         \* the thread lane's words
          Sevs,          \* the severities findings are raised with
          MaxHead, MaxReply, MaxEvents,  \* bounds: commits, replies, world events
          World          \* the world's events this instance has

ASSUME RoundsAssumption ==
  /\ Titles \subseteq Hashes /\ Retitle \in [Titles -> Hashes]
  /\ "none" \notin Hashes
  /\ Lanes \subseteq Words
  /\ Sevs \subseteq Severities
  /\ MaxHead \in Nat \ {0} /\ MaxReply \in Nat /\ MaxEvents \in Nat

VARIABLES head, touched, threads, marks, shown, says, rec, strength, issues,
          recon, silent, want, run, twins, events

github == <<threads, marks, shown, says>>
ledger == <<issues, recon>>
books == <<rec, strength, silent>>
vars == <<head, touched, github, ledger, books, want, run, twins, events>>

Commits == 1..MaxHead
None == "none"
States == {None, "APPROVED", "CHANGES_REQUESTED", "COMMENTED", "DISMISSED"}
Events == {None, "APPROVE", "REQUEST_CHANGES", "COMMENT"}

EventState(event) ==
  CASE event = "APPROVE" -> "APPROVED"
    [] event = "REQUEST_CHANGES" -> "CHANGES_REQUESTED"
    [] OTHER -> "COMMENTED"

NoThread == [on |-> FALSE, open |-> FALSE, sev |-> None, waits |-> FALSE,
             reply |-> 0, said |-> {}, last |-> None]
NewThread(sev) == [NoThread EXCEPT !.on = TRUE, !.open = TRUE, !.sev = sev]

\* A finding of this round: `reopens` marks a revival or a regression, which
\* dedupe keeps off the threads of closed issues; `revives` is the settled
\* issue it raises again.
Finding(h, sev, reopens, revives) ==
  [hash |-> h, sev |-> sev, reopens |-> reopens, revives |-> revives]

Idle ==
  [pc |-> "idle", kind |-> None, sha |-> 0,
   issues |-> <<>>, recon |-> [done |-> FALSE, pending |-> {}],
   open |-> {}, waits |-> {}, reply |-> <<>>,
   outs |-> <<>>, todo |-> {}, did |-> <<>>,
   new |-> {}, corr |-> {}, ups |-> {}, kept |-> {}, folds |-> {},
   weak |-> FALSE, failed |-> FALSE, degraded |-> FALSE,
   verdict |-> None, lifted |-> {}, keepsApproval |-> FALSE]

Open(h) == threads[h].on /\ threads[h].open
OpenThreads == {h \in Hashes : Open(h)}
KnownIssues(rows) == {h \in Hashes : Known(rows[h])}

\* The world acts a bounded number of times.
Happens(what) == what \in World /\ events > 0
Spend(what) == Happens(what) /\ events' = events - 1

\* A regression is about the lines its issue was about.
Regressions == {Retitle[t] : t \in Titles}
Lines(titles) == titles \cup {Retitle[t] : t \in titles}

\* A pull request nobody reviewed, or one whose history an earlier policy
\* left in the ledger: an issue of commit 1 still open there, its thread open
\* or resolved by hand, on the second commit.
FreshStart ==
  /\ head = 1
  /\ touched = [c \in Commits |-> {}]
  /\ threads = [h \in Hashes |-> NoThread]
  /\ issues = [h \in Hashes |-> NoIssue]
  /\ rec = [c \in Commits |-> None]
  /\ shown = [c \in Commits |-> None]
  /\ strength = [c \in Commits |-> None]

MigratedStart ==
  /\ "migrated" \in World
  /\ head = 2
  /\ \E h \in Titles, open \in BOOLEAN, moved \in SUBSET Titles :
       /\ touched = [c \in Commits |-> IF c = 2 THEN Lines(moved) ELSE {}]
       /\ threads = [g \in Hashes |->
            IF g = h THEN [NewThread("blocking") EXCEPT !.open = open] ELSE NoThread]
       /\ issues = [g \in Hashes |->
            IF g = h THEN Apply(NoIssue, Posted(1, "blocking")) ELSE NoIssue]
  /\ rec = [c \in Commits |-> IF c = 1 THEN "REQUEST_CHANGES" ELSE None]
  /\ shown = [c \in Commits |-> IF c = 1 THEN "CHANGES_REQUESTED" ELSE None]
  /\ strength = [c \in Commits |-> IF c = 1 THEN "ok" ELSE None]

Init ==
  /\ FreshStart \/ (MaxHead > 1 /\ MigratedStart)
  /\ says = shown
  /\ marks = {}
  /\ recon = [done |-> FALSE, pending |-> {}]
  /\ silent = [h \in Hashes |-> 0]
  /\ want = {"full"}
  /\ run = Idle
  /\ twins \in (IF "twins" \in World THEN BOOLEAN ELSE {FALSE})
  /\ events = MaxEvents

-----------------------------------------------------------------------------
(* The context step: the threads are read and the ledger brought in line.  *)

\* step_context's sync_threads, one write for every thread.
Synced(sha) == [h \in Hashes |-> ApplyIf(issues[h], SyncEvent(issues[h], threads[h], sha))]

Reconciled(rows, sha) ==
  [h \in Hashes |-> IF Vanished(touched, h, rows[h], sha, OpenThreads)
                    THEN Apply(rows[h], Status(sha, "outdated")) ELSE rows[h]]
StillCounting(rows) == {h \in Hashes : Counts(rows[h])}

\* _threads_to_answer, _thread_work
Replied == {h \in OpenThreads : threads[h].waits /\ silent[h] # threads[h].reply}
Work(kind, rows, pending, sha) ==
  Replied \cup
  IF kind = "talk" THEN {}
  ELSE {h \in StillCounting(rows) : h \in pending \/ AnchorMoved(touched, h, rows[h], sha)}

Context(kind) ==
  /\ run.pc = "idle"
  /\ kind = (IF "full" \in want THEN "full" ELSE "talk")
  /\ kind \in want
  /\ want' = want \ {kind}
  /\ LET synced == Synced(head)
         first == ~recon.done
         rows == IF first THEN Reconciled(synced, head) ELSE synced
         record == IF first THEN [done |-> TRUE, pending |-> StillCounting(rows)] ELSE recon
     IN  /\ issues' = rows
         /\ recon' = record
         /\ run' = [Idle EXCEPT
              !.pc = "lanes", !.kind = kind, !.sha = head,
              !.issues = rows, !.recon = record, !.open = OpenThreads,
              !.waits = {h \in OpenThreads : threads[h].waits},
              !.reply = [h \in OpenThreads |-> threads[h].reply],
              !.todo = Work(kind, rows, record.pending, head)]
  /\ UNCHANGED <<head, touched, github, books, twins, events>>

-----------------------------------------------------------------------------
(* The lanes answer.                                                       *)

Obsolete == run.sha # head

\* parse_threads: nothing is FIXED or OUTDATED where the code cannot have
\* changed since the issue was judged; closing an issue needs a reply.
FixPending(h) == run.kind = "talk" \/ (Known(run.issues[h]) /\ run.issues[h].seen = run.sha)
Answers(h) ==
  {[word |-> IF w \in {"FIXED", "OUTDATED"} /\ FixPending(h) THEN "FIX_PENDING" ELSE w,
    reply |-> TRUE] : w \in Lanes}
  \cup {[word |-> "STILL_VALID", reply |-> FALSE]}

\* The comment publish-time dedupe folds a finding onto: its own hash first,
\* else one that looks alike; never, for a revival or a regression, one whose
\* issue does not stand (_fresh_threads, find_duplicate).
Foldable(f) ==
  {h \in Hashes : threads[h].on /\ ~(f.reopens /\ ~Counts(run.issues[h]))}
Duplicate(f) ==
  IF f.hash \in Foldable(f) THEN {f.hash}
  ELSE IF twins /\ Foldable(f) # {} THEN {CHOOSE h \in Foldable(f) : TRUE} ELSE {}

\* apply_rules on the one group a verifier may leave: a candidate matched to
\* a known issue, to nothing, or found under a known title.
Rules(title, target, sev) ==
  LET row == run.issues[target]
      restates == Known(row)
      kind == IF restates THEN IssueKind(row) ELSE "new"
  IN  CASE kind = "open" ->
             [new |-> {}, corr |-> {target},
              ups |-> IF sev = "blocking" /\ row.sev # "blocking" THEN {target} ELSE {}]
        [] kind = "settled" ->
             [new |-> IF ClosedChanged(touched, target, row, run.sha)
                      THEN {Finding(title, sev, TRUE, target)} ELSE {},
              corr |-> {}, ups |-> {}]
        [] kind = "fixed" ->
             [new |-> {Finding(IF title = target THEN Retitle[title] ELSE title,
                               sev, TRUE, None)},
              corr |-> {}, ups |-> {}]
        [] OTHER -> [new |-> {Finding(title, sev, FALSE, None)}, corr |-> {}, ups |-> {}]

NothingFound == [new |-> {}, corr |-> {}, ups |-> {}]
Found ==
  {NothingFound} \cup
  {Rules(t, m, s) : t \in Titles, m \in KnownIssues(run.issues), s \in Sevs} \cup
  {Rules(t, t, s) : t \in Titles, s \in Sevs}

\* _drop_settled_refolds: a finding that would fold onto a settled issue's
\* thread is that issue raised again.
Conceded(outs, h) == h \in DOMAIN outs /\ outs[h].word \in Lifting
RefoldsOnto(f) == {h \in Duplicate(f) : Known(run.issues[h])}
Refolds(new, outs) ==
  {f \in new : \E h \in RefoldsOnto(f) :
      \/ Conceded(outs, h)
      \/ /\ run.issues[h].status \in MatchSettled
         /\ ~ClosedChanged(touched, h, run.issues[h], run.sha)}

\* The lanes of a full review end, the head is live, and the two sides are
\* squared: a concession wins over a finder that restates the issue, and the
\* round cannot approve.
Lanes12(found, outs, failed, degraded) ==
  LET refolds == Refolds(found.new, outs)
      contested == {h \in found.corr : Conceded(outs, h)}
      conceded == {f \in refolds : \E h \in RefoldsOnto(f) : Conceded(outs, h)}
      restated == {h \in DOMAIN outs : outs[h].word \in {"FIXED", "OUTDATED"} /\ h \in found.corr}
  IN  run' = [run EXCEPT
        !.pc = "answer",
        !.outs = outs,
        !.todo = DOMAIN outs \ restated,
        !.new = found.new \ refolds,
        !.corr = found.corr,
        !.ups = found.ups \ contested,
        !.degraded = degraded,
        !.failed = failed,
        !.weak = contested # {} \/ conceded # {}]

Judge ==
  /\ run.pc = "lanes" /\ ~Obsolete
  /\ \E found \in (IF run.kind = "full" THEN Found ELSE {NothingFound}),
        outs \in [run.todo -> UNION {Answers(h) : h \in run.todo}] :
       /\ \A h \in run.todo : outs[h] \in Answers(h)
       /\ Lanes12(found, outs, FALSE, FALSE)
  /\ UNCHANGED <<head, touched, github, ledger, books, want, twins, events>>

\* Every shard of the thread lane failed: a full review goes on without its
\* outcomes.
ThreadLaneFails ==
  /\ run.pc = "lanes" /\ ~Obsolete /\ run.kind = "full" /\ run.todo # {}
  /\ Spend("lane fails")
  /\ \E found \in Found : Lanes12(found, <<>>, TRUE, FALSE)
  /\ UNCHANGED <<head, touched, github, ledger, books, want, twins>>

\* Stand-in models took part.
JudgeDegraded ==
  /\ run.pc = "lanes" /\ ~Obsolete /\ run.todo = {}
  /\ Spend("degraded")
  /\ \E found \in (IF run.kind = "full" THEN Found ELSE {NothingFound}) :
       Lanes12(found, <<>>, FALSE, TRUE)
  /\ UNCHANGED <<head, touched, github, ledger, books, want, twins>>

\* A push landed since: the run ends superseded, its threads wait for the
\* review of the new head.
Superseded ==
  /\ run.pc = "lanes" /\ Obsolete
  /\ run' = Idle
  /\ UNCHANGED <<head, touched, github, ledger, books, want, twins, events>>

-----------------------------------------------------------------------------
(* answer_thread_lane: one thread at a time.                               *)

Mark(h) == {m \in marks : m.hash = h /\ m.sha = run.sha /\ m.reply = run.reply[h]}

\* What becomes of one outcome: the word that counts, and whether it is on
\* the thread.
Delivery(h) ==
  LET o == run.outs[h]
      answered == h \in run.open /\ Mark(h) # {}
      there == h \notin run.open \/ (h \notin run.waits /\ o.word \in threads[h].said)
  IN  IF answered THEN [word |-> (CHOOSE m \in Mark(h) : TRUE).word, ok |-> TRUE]
      ELSE [word |-> o.word, ok |-> there \/ o.reply]

\* Mutant: the marker of an earlier attempt is not looked for.
PostsAgain(h) ==
  /\ h \in run.open
  /\ h \in run.waits \/ run.outs[h].word \notin threads[h].said
  /\ run.outs[h].reply

Posts(h) ==
  /\ h \in run.open
  /\ Mark(h) = {}
  /\ h \in run.waits \/ run.outs[h].word \notin threads[h].said
  /\ run.outs[h].reply

Done(h, delivery) ==
  run' = [run EXCEPT !.todo = @ \ {h}, !.did = (h :> delivery) @@ @]

AnswerQuietly(h) ==
  /\ ~Posts(h)
  /\ Done(h, Delivery(h))
  /\ UNCHANGED <<marks, threads, events>>

\* The reply is posted, then the thread resolved when the word retires the
\* issue; a failed resolve leaves it open.  A post that fails (reply_failed) is left
\* out; an answer with no text left to post is quiet.
AnswerOnThread(h, resolved) ==
  LET word == run.outs[h].word
      thread == threads[h]
  IN  /\ Posts(h)
      /\ IF resolved THEN UNCHANGED events ELSE Spend("resolve fails")
      /\ Done(h, Delivery(h))
      /\ marks' = marks \cup
           {[hash |-> h, sha |-> run.sha, reply |-> run.reply[h], word |-> word]}
      /\ threads' = [threads EXCEPT ![h] =
           [thread EXCEPT !.said = thread.said \cup {word}, !.last = word, !.waits = FALSE,
                          !.open = thread.open /\ ~(word \in Retiring /\ resolved)]]

Answer(h) ==
  /\ run.pc = "answer" /\ h \in run.todo
  /\ AnswerQuietly(h) \/ \E resolved \in BOOLEAN : AnswerOnThread(h, resolved)
  /\ UNCHANGED <<head, touched, shown, says, ledger, books, want, twins>>

-----------------------------------------------------------------------------
(* Booking the outcomes, and the verdict.                                  *)

Delivered == {h \in DOMAIN run.did : run.did[h].ok}
Lifted == {h \in Delivered : OutcomeStatus(run.did[h].word) \in Closed}
Affirmed == {h \in DOMAIN run.outs : run.outs[h].word \in {"STILL_VALID", "FIX_PENDING"}}
NowSilent == {h \in DOMAIN run.did : ~run.outs[h].reply /\ h \in run.waits}

WithOutcome(row, h) == IF h \in Delivered THEN Apply(row, Outcome(run.sha, run.did[h].word)) ELSE row
WithSeen(row, seen) == IF seen THEN Apply(row, Seen(run.sha)) ELSE row
WithUpgrade(row, up) == IF up THEN Apply(row, Severity(run.sha, "blocking")) ELSE row

\* A safe_write that fails is logged and the run goes on.
LostWrites(writes) == {{}} \cup IF Happens("write fails") THEN {{w} : w \in writes} ELSE {}
SpendLost(lost) == IF lost = {} THEN UNCHANGED events ELSE Spend("write fails")

\* _record_thread_answers
Booked(lost) ==
  [h \in Hashes |-> IF "outcomes" \in lost THEN issues[h]
                    ELSE WithSeen(WithOutcome(issues[h], h), h \in Affirmed)]

Doubtful(h) == ~run.recon.done \/ h \in run.recon.pending \ DOMAIN run.outs
Previous ==
  LET earlier == {c \in Commits : c # run.sha /\ rec[c] # None}
  IN  IF earlier = {} THEN 0 ELSE CHOOSE c \in earlier : \A d \in earlier : d <= c
StandIn(rows) ==
  {h \in Hashes : Stands(rows[h], Doubtful(h), h \in run.open, Previous)}

Blocking(rows, stand, new) ==
  (\E h \in stand : rows[h].sev = "blocking") \/ (\E f \in new : f.sev = "blocking")
Suggested(rows, stand, new) ==
  (\E h \in stand : rows[h].sev = "suggestion") \/ (\E f \in new : f.sev = "suggestion")

\* _publish12 up to the verdict: outcomes booked, severities raised, the
\* carried issues read back, the restated ones affirmed.
Decide ==
  /\ run.pc = "answer" /\ run.todo = {} /\ run.kind = "full"
  /\ \E lost \in LostWrites({"outcomes", "severity", "seen"}) :
       LET upgraded == [h \in Hashes |->
             WithUpgrade(Booked(lost)[h], h \in run.ups /\ "severity" \notin lost)]
           stand == StandIn(upgraded)
       IN  /\ SpendLost(lost)
           /\ issues' = [h \in Hashes |->
                WithSeen(upgraded[h], h \in run.corr /\ "seen" \notin lost)]
           /\ recon' = IF "outcomes" \in lost THEN recon
                       ELSE [recon EXCEPT !.pending = @ \ DOMAIN run.outs]
           /\ run' = [run EXCEPT !.pc = "post", !.lifted = Lifted,
                !.verdict = Verdict(Blocking(upgraded, stand, run.new),
                                    Suggested(upgraded, stand, run.new),
                                    ~run.degraded /\ ~run.failed /\ ~run.weak)]
  /\ silent' = [h \in Hashes |-> IF h \in NowSilent THEN run.reply[h] ELSE silent[h]]
  /\ UNCHANGED <<head, touched, github, rec, strength, want, twins>>

-----------------------------------------------------------------------------
(* Publishing a full review.                                               *)

\* Dedupe against the comments on the pull request: what opens a thread, and
\* what folds onto one (a resolved one gets a reply saying so).
Kept == {f \in run.new : Duplicate(f) = {}}
Folded == {[finding |-> f, onto |-> CHOOSE h \in Duplicate(f) : TRUE] : f \in run.new \ Kept}
Comments ==
  threads' = [h \in Hashes |->
    IF \E f \in Kept : f.hash = h
    THEN NewThread((CHOOSE f \in Kept : f.hash = h).sev)
    ELSE [threads[h] EXCEPT !.waits = @ /\ ~(\E s \in Folded : s.onto = h /\ ~threads[h].open)]]

FirstReview ==
  /\ run.pc = "post" /\ run.kind = "full" /\ shown[run.sha] = None
  /\ Comments
  /\ shown' = [shown EXCEPT ![run.sha] = EventState(run.verdict)]
  /\ says' = [says EXCEPT ![run.sha] = EventState(run.verdict)]
  /\ run' = [run EXCEPT !.pc = "record", !.kept = Kept, !.folds = Folded]
  /\ UNCHANGED <<head, touched, marks, ledger, books, want, twins, events>>

\* record_published: new comments open (or re-open) their issues, the rest of
\* the set affirms the issues it carries.
Published(rows, posted, carried) ==
  [h \in Hashes |->
    IF \E f \in posted : f.hash = h
    THEN Apply(rows[h], Posted(run.sha, (CHOOSE f \in posted : f.hash = h).sev))
    ELSE WithSeen(rows[h], h \in carried)]

\* _backfill_posted: a review of this commit is up already, from an earlier
\* attempt or an earlier round; what the ledger never heard of is recorded.
BackfillPosted ==
  /\ run.pc = "post" /\ run.kind = "full" /\ shown[run.sha] # None
  /\ \E lost \in LostWrites({"publication"}) :
       /\ SpendLost(lost)
       /\ issues' = IF lost # {} THEN issues
                    ELSE Published(issues, {f \in run.new : ~Known(issues[f.hash])},
                                   {f.hash : f \in run.new})
  /\ rec' = [rec EXCEPT ![run.sha] =
       IF @ # None THEN @
       ELSE CASE shown[run.sha] = "APPROVED" -> "APPROVE"
              [] shown[run.sha] = "CHANGES_REQUESTED" -> "REQUEST_CHANGES"
              [] OTHER -> "COMMENT"]
  /\ run' = [run EXCEPT !.pc = "update"]
  /\ UNCHANGED <<head, touched, github, recon, strength, silent, want, twins>>

\* _verdict_update: a follow-up when the verdict moved from a state we set.
FollowUp ==
  /\ shown' = [shown EXCEPT ![run.sha] = EventState(run.verdict)]
  /\ says' = [says EXCEPT ![run.sha] = EventState(run.verdict)]

\* Mutant: only a block, or its end, is worth a follow-up.
MovesBlock ==
  /\ shown[run.sha] # "DISMISSED"
  /\ (run.verdict = "REQUEST_CHANGES") # (shown[run.sha] = "CHANGES_REQUESTED")

Moves == /\ shown[run.sha] # "DISMISSED"
         /\ EventState(run.verdict) # shown[run.sha]
KeepsApproval == /\ run.degraded /\ shown[run.sha] = "APPROVED"
                 /\ run.verdict # "REQUEST_CHANGES"

MoveVerdict ==
  /\ run.pc = "update" /\ run.kind = "full"
  /\ Moves /\ ~KeepsApproval
  /\ FollowUp
  /\ run' = [run EXCEPT !.pc = "record", !.kept = {}, !.folds = {}, !.corr = {}, !.new = {}]
  /\ UNCHANGED <<head, touched, threads, marks, ledger, books, want, twins, events>>

\* Otherwise the re-review's summary goes up as an informational COMMENT with
\* its inline comments; it carries the commit's marker like any review.
Summarise ==
  /\ run.pc = "update" /\ run.kind = "full"
  /\ ~Moves \/ KeepsApproval
  /\ Comments
  /\ shown' = [shown EXCEPT ![run.sha] = "COMMENTED"]
  /\ run' = [run EXCEPT !.pc = "record", !.kept = Kept, !.folds = Folded,
                        !.keepsApproval = Moves /\ KeepsApproval]
  /\ UNCHANGED <<head, touched, marks, says, ledger, books, want, twins, events>>

\* Mutant: any closed issue a finding folds onto is opened again.
AttachAny(row, s) ==
  CASE ~Known(row) -> Apply(row, Posted(run.sha, s.finding.sev))
    [] Counts(row) -> Apply(row, Seen(run.sha))
    [] OTHER -> Apply(row, Status(run.sha, "open"))

\* attach_folded: a finding folded onto a comment is that comment's issue.
Attach(row, s) ==
  CASE ~Known(row) -> Apply(row, Posted(run.sha, s.finding.sev))
    [] Counts(row) -> Apply(row, Seen(run.sha))
    [] row.status \in MatchSettled /\ ~ClosedChanged(touched, s.onto, row, run.sha) -> row
    [] OTHER -> Apply(row, Status(run.sha, "open"))
WithFold(row, h) ==
  IF \E s \in run.folds : s.onto = h THEN Attach(row, CHOOSE s \in run.folds : s.onto = h) ELSE row

\* _record_revivals: an issue raised again under its own title.
Revived == {f.hash : f \in {g \in run.new : g.revives = g.hash}}
WithRevival(row, h) ==
  IF h \in Revived /\ Known(row) THEN Apply(row, Status(run.sha, "open")) ELSE row

\* _record_publication, then the folds and the revivals.
Record ==
  /\ run.pc = "record" /\ run.kind = "full"
  /\ \E lost \in LostWrites({"publication", "folds", "revival"}) :
       LET carried == {f.hash : f \in run.new} \cup {s.onto : s \in run.folds}
           published == IF "publication" \in lost THEN issues
                        ELSE Published(issues, run.kept, carried)
           folded == [h \in Hashes |->
                        IF "folds" \in lost THEN published[h] ELSE WithFold(published[h], h)]
       IN  /\ SpendLost(lost)
           /\ issues' = [h \in Hashes |->
                IF "revival" \in lost THEN folded[h] ELSE WithRevival(folded[h], h)]
  /\ rec' = [rec EXCEPT ![run.sha] = IF run.keepsApproval THEN "APPROVE" ELSE run.verdict]
  /\ strength' = [strength EXCEPT ![run.sha] =
                    IF run.degraded \/ run.weak THEN "weak" ELSE "ok"]
  /\ run' = Idle
  /\ UNCHANGED <<head, touched, github, recon, silent, want, twins>>

-----------------------------------------------------------------------------
(* A conversation: the outcomes are booked, and the verdict restated.      *)

\* _decide_conversation12.  A thread lane that failed and a CI update on record, either
\* of which would hold the approval back, are left out: more approves than in the code.
TalkVerdict(rows, stand) ==
  IF (\A h \in stand : rows[h].sev = "nitpick") /\ strength[run.sha] = "ok" /\ ~run.degraded
  THEN "APPROVE" ELSE "COMMENT"

TalkDecide ==
  /\ run.pc = "answer" /\ run.todo = {} /\ run.kind = "talk"
  /\ \E lost \in LostWrites({"outcomes"}) :
       LET rows == Booked(lost)
           stand == StandIn(rows)
           speaks == /\ ~Blocking(rows, stand, {})
                     /\ \E h \in Lifted : Known(issues[h]) /\ issues[h].sev # "nitpick"
       IN  /\ SpendLost(lost)
           /\ issues' = rows
           /\ recon' = IF "outcomes" \in lost THEN recon
                       ELSE [recon EXCEPT !.pending = @ \ DOMAIN run.outs]
           /\ run' = IF speaks
                     THEN [run EXCEPT !.pc = "post", !.lifted = Lifted,
                             !.verdict = TalkVerdict(rows, stand)]
                     ELSE Idle
  /\ silent' = [h \in Hashes |-> IF h \in NowSilent THEN run.reply[h] ELSE silent[h]]
  /\ UNCHANGED <<head, touched, github, rec, strength, want, twins>>

\* _live_verdict_state and _post_conversation_update: the head and the
\* verdict are read again; a dismissed or approved one is left alone.
TalkPost ==
  /\ run.pc = "post" /\ run.kind = "talk"
  /\ IF Obsolete \/ shown[run.sha] \notin {"CHANGES_REQUESTED", "COMMENTED"}
     THEN run' = Idle /\ UNCHANGED <<shown, says>>
     ELSE /\ run' = [run EXCEPT !.pc = "record"]
          /\ IF Moves THEN FollowUp ELSE UNCHANGED <<shown, says>>
  /\ UNCHANGED <<head, touched, threads, marks, ledger, books, want, twins, events>>

TalkRecord ==
  /\ run.pc = "record" /\ run.kind = "talk"
  /\ rec' = [rec EXCEPT ![run.sha] = run.verdict]
  /\ run' = Idle
  /\ UNCHANGED <<head, touched, github, ledger, strength, silent, want, twins, events>>

-----------------------------------------------------------------------------
(* The world.                                                              *)

\* The worker dies; the queue runs the same job again.
Crash ==
  /\ run.pc # "idle" /\ Spend("crash")
  /\ want' = want \cup {run.kind}
  /\ run' = Idle
  /\ UNCHANGED <<head, touched, github, ledger, books, twins>>

Push ==
  /\ head < MaxHead /\ Spend("push")
  /\ head' = head + 1
  /\ \E t \in SUBSET Titles : touched' = [touched EXCEPT ![head + 1] = Lines(t)]
  /\ want' = {"full"}
  /\ UNCHANGED <<github, ledger, books, run, twins>>

\* Someone writes on an open finding thread; on a reviewed commit that asks
\* for a conversation.
Replies == {threads[h].reply : h \in Hashes} \cup {m.reply : m \in marks}
LastReply == CHOOSE r \in Replies : \A q \in Replies : q <= r
Reply(h) ==
  /\ Open(h) /\ LastReply < MaxReply /\ Spend("reply")
  /\ threads' = [threads EXCEPT ![h].waits = TRUE, ![h].reply = LastReply + 1]
  /\ want' = IF shown[head] # None /\ "full" \notin want THEN want \cup {"talk"} ELSE want
  /\ UNCHANGED <<head, touched, marks, shown, says, ledger, books, run, twins>>

Resolve(h) ==
  /\ threads[h].on /\ Spend("resolve")
  /\ threads' = [threads EXCEPT ![h].open = ~@]
  /\ UNCHANGED <<head, touched, marks, shown, says, ledger, books, want, run, twins>>

\* A maintainer dismisses the standing verdict.
Dismiss ==
  /\ says[head] \in {"APPROVED", "CHANGES_REQUESTED"} /\ says[head] = shown[head]
  /\ Spend("dismiss")
  /\ shown' = [shown EXCEPT ![head] = "DISMISSED"]
  /\ says' = [says EXCEPT ![head] = "DISMISSED"]
  /\ UNCHANGED <<head, touched, threads, marks, ledger, books, want, run, twins>>

\* A re-review of a reviewed commit is asked for.
Ask ==
  /\ shown[head] # None /\ "full" \notin want /\ Spend("ask")
  /\ want' = want \cup {"full"}
  /\ UNCHANGED <<head, touched, github, ledger, books, run, twins>>

\* The operator's reconcile (ledger.reconcile_all) before the policy's first
\* round here.
OperatorReconcile ==
  /\ run.pc = "idle" /\ ~recon.done /\ Spend("operator")
  /\ LET rows == Reconciled(Synced(head), head)
     IN  issues' = rows /\ recon' = [done |-> TRUE, pending |-> StillCounting(rows)]
  /\ UNCHANGED <<head, touched, github, books, want, run, twins>>

Rest == run.pc = "idle" /\ want = {} /\ UNCHANGED vars

Worker ==
  \/ \E kind \in {"full", "talk"} : Context(kind)
  \/ Judge \/ ThreadLaneFails \/ JudgeDegraded \/ Superseded
  \/ \E h \in Hashes : Answer(h)
  \/ Decide \/ FirstReview \/ BackfillPosted \/ MoveVerdict \/ Summarise \/ Record
  \/ TalkDecide \/ TalkPost \/ TalkRecord

Next ==
  \/ Worker
  \/ Crash \/ Push \/ Dismiss \/ Ask \/ OperatorReconcile
  \/ \E h \in Hashes : Reply(h) \/ Resolve(h)
  \/ Rest

Spec == Init /\ [][Next]_vars /\ WF_vars(Worker)

-----------------------------------------------------------------------------
(* Properties.                                                             *)

\* Every variable has its type.
TypeOK ==
  /\ head \in Commits
  /\ touched \in [Commits -> SUBSET Hashes]
  /\ \A h \in Hashes :
       /\ issues[h].status \in Statuses \cup {None}
       /\ issues[h].sev \in Severities \cup {None}
       /\ threads[h].last \in Words \cup {None}
       /\ threads[h].reply \in 0..MaxReply
  /\ shown \in [Commits -> States] /\ says \in [Commits -> States]
  /\ rec \in [Commits -> Events]
  /\ want \subseteq {"full", "talk"}
  /\ recon.pending \subseteq Hashes

AtRest == run.pc = "idle" /\ want = {}

\* An issue of the history no round judged yet, and no open thread shows.
Unjudged(h) == h \in recon.pending /\ h \notin run.open

\* An APPROVE never goes up over an issue above a nitpick that counts in the
\* ledger, whatever was lost, retried, resolved or withdrawn in between: not
\* by a review, a follow-up or a conversation's update (_publish12, rules.verdict,
\* _would_post12).  An issue of the backfilled history that still waits for
\* its judgement, its thread lane having failed, is the one exception.
ApprovalIsClear ==
  [][\A c \in Commits : (says'[c] = "APPROVED" /\ says[c] # "APPROVED") =>
       \A h \in Hashes : Counts(issues[h]) /\ ~Unjudged(h) => issues[h].sev = "nitpick"]_vars

\* A finding that goes by the issue's title, though the verifier matched it to
\* another one, or the run's own thread lane closed the issue.
Retitled(h) == \E f \in run.new : f.hash = h /\ (f.revives # h \/ h \in DOMAIN run.did)

\* An issue that was withdrawn, deferred or outdated counts again, though the
\* thread lane did not say so and its lines are those it was closed at.
Reraised(h) ==
  /\ issues[h].status \in MatchSettled /\ Counts(issues'[h])
  /\ ~ClosedChanged(touched, h, issues[h], run.sha)
  /\ ~(h \in DOMAIN run.did /\ OutcomeStatus(run.did[h].word) \in Counting)

\* A withdrawn, deferred or outdated issue is not raised again: a finder that
\* restates it, a dedupe that folds onto it and a retried publication do not
\* bring it back (_drop_settled_refolds, attach_folded, _record_revivals).
\* The one way back is a title: a finding under the issue's own, matched
\* elsewhere or met by the same run's concession.
SettledStays == [][\A h \in Hashes : Reraised(h) => Retitled(h)]_vars

\* "settled:H is dropped unless the code at H's anchor changed since H was
\* closed" (rules.py, apply_rules), an issue that is a regression like any other.
RegressionStays == [][\A h \in Regressions : ~Reraised(h)]_vars

\* A reply of the author is met with one decision per commit, however often
\* the run that took it is retried and whatever the retry's model would say
\* (answer_thread_lane, shown_status).
OneDecision ==
  \A m, n \in marks :
     (m.hash = n.hash /\ m.sha = n.sha /\ m.reply = n.reply) => m = n

\* With nothing left to run, a head on record as approved shows an approval,
\* or the dismissal of one.
ApprovalIsPosted == AtRest /\ rec[head] = "APPROVE" => says[head] \in {"APPROVED", "DISMISSED"}

\* A head on record as blocked has a blocking issue in the ledger that counts:
\* it "is listed, judged and withdrawable instead of blocking from nowhere"
\* (worker.py, _record_folds).
BlockIsListed ==
  AtRest /\ rec[head] = "REQUEST_CHANGES" =>
    \E h \in Hashes : Counts(issues[h]) /\ issues[h].sev = "blocking"

\* "A review a maintainer dismissed is left dismissed: we only ever move from
\* a state we set ourselves" (worker.py, _verdict_update).
DismissedStays ==
  [][\A c \in Commits : says[c] = "DISMISSED" => says'[c] = "DISMISSED"]_vars

\* "What counts is what the thread shows, not this run's decision"
\* (publish.py, answer_thread_lane): with nothing left to run, an issue whose
\* thread says it is withdrawn, fixed or outdated does not count.
ShownIsBooked ==
  AtRest => \A h \in Hashes : threads[h].on /\ threads[h].last \in Retiring => ~Counts(issues[h])
=============================================================================
