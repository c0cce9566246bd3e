------------------------------ MODULE Converse ------------------------------
(***************************************************************************)
(* The conversation path of policy v11 (worker.step_converse): people      *)
(* reply on the finding threads of a reviewed commit, the lane says what   *)
(* becomes of each finding, the harness vets its deferrals, files the      *)
(* tracking issues it was asked for, answers, books what it conceded and   *)
(* moves the verdict.  A full review stands for its outcome; what it does  *)
(* with deferrals nobody tracks, and what it leaves of earlier             *)
(* concessions, is modelled; so is the CI check that takes an approval     *)
(* back.                                                                   *)
(*                                                                         *)
(*   head       the commit                                                 *)
(*   threads    each finding's thread: who wrote since our last answer,    *)
(*              whether a maintainer ever did, and who linked tracking     *)
(*   marks      the markers of the bot's answers, with the publication     *)
(*              that stood (a history variable)                            *)
(*   issues     how many tracking issues the bot filed for a finding       *)
(*   defer      kv defer.issue: nothing, "pending", or its URL             *)
(*   shown      the verdict that stands on the commit (standing_verdict)   *)
(*   pub        its latest full review: number, findings, strength         *)
(*   conceded   the latest `conceded` row of each finding on the commit,   *)
(*              and the publication it was written under                   *)
(*   linked     findings with a conceded row that carries a link           *)
(*   old        findings deferred before deferrals needed tracking         *)
(*   silent     the reply each thread met with silence                     *)
(*   asked      kv converse.fresh_audit of the commit                      *)
(*   ci         CI updates posted on the commit, and kv ci.updated         *)
(*   want       the runs asked for; run: the locals of the worker          *)
(*   events     the scene: what else may happen, and how often still       *)
(*                                                                         *)
(* One worker at a time (ReviewQueue); the world moves between its steps.  *)
(* What belongs to a commit is forgotten when the next one is pushed.      *)
(***************************************************************************)
EXTENDS Integers, FiniteSets, TLC

CONSTANTS Findings, Sev,                 \* the findings and their severity
          MaxHead, MaxReply,  \* bounds: commits, replies on a thread
          Worlds              \* scenes: the findings there are, what else may happen,
                              \* and how often (a bound)

None == "none"

ASSUME ConverseAssumption ==
  /\ None \notin Findings
  /\ Sev \in [Findings -> {"blocking", "suggestion", "nitpick"}]
  /\ MaxHead \in Nat \ {0} /\ MaxReply \in Nat
  /\ \A w \in Worlds : w.left \in Nat /\ w.finds \subseteq Findings

VARIABLES head, threads, marks, issues, defer, shown, pub, conceded, linked, old,
          silent, asked, ci, want, run, events

tracking == <<issues, defer>>
rows == <<pub, conceded, linked, old, silent>>
vars == <<head, threads, marks, tracking, shown, rows, asked, ci, want, run, events>>

Deferred == "INTENTIONALLY_DEFERRED"
Lifting == {"WITHDRAWN", Deferred}
NeedsTracking(h) == Sev[h] # "nitpick"
Notable(hs) == {h \in hs : Sev[h] # "nitpick"}
Blockers(hs) == {h \in hs : Sev[h] = "blocking"}

NoThread == [on |-> FALSE, open |-> FALSE, reply |-> 0, waits |-> FALSE,
             by |-> None, owner |-> FALSE, link |-> None]
NoReview == [n |-> 0, findings |-> {}, strength |-> "weak"]
NoConcession == [n |-> 0, status |-> None]
Idle == [pc |-> "idle", kind |-> None, sha |-> 0, seen |-> <<>>, settled |-> {},
         outs |-> <<>>, todo |-> {}, at |-> None, posted |-> {}, lifted |-> {},
         verdict |-> None, again |-> FALSE]

Spend(what) == what \in events.does /\ events.left > 0 /\ events' = [events EXCEPT !.left = @ - 1]
May(what, happens) == IF happens THEN Spend(what) ELSE UNCHANGED events

Obsolete == run.sha # head
End == run' = Idle /\ want' = IF run.again THEN want \cup {"full"} ELSE want

Init ==
  /\ head = 1
  /\ threads = [h \in Findings |-> NoThread]
  /\ marks = {}
  /\ issues = [h \in Findings |-> 0]
  /\ defer = [h \in Findings |-> None]
  /\ shown = None
  /\ pub = NoReview
  /\ conceded = [h \in Findings |-> NoConcession]
  /\ linked = {}
  /\ events \in Worlds
  /\ old \in IF "old" \in events.does THEN SUBSET Findings ELSE {{}}
  /\ silent = [h \in Findings |-> 0]
  /\ asked = FALSE
  /\ ci = [posted |-> 0, known |-> FALSE]
  /\ want = {"full"}
  /\ run = Idle

-----------------------------------------------------------------------------
(* What stands of the latest full review (_standing_findings).             *)

\* "a later full review of this sha re-adjudicated everything: older
\* concessions are void"
Newer(row) == row.status # None /\ row.n = pub.n

Conceded == {h \in Findings : Newer(conceded[h])}
Lifted == pub.findings \cap (Conceded \cup run.lifted)
Standing == pub.findings \ Lifted

\* _known_tracking: whatever kv holds counts, "pending" too.
KnownTracking(h) == defer[h] # None \/ h \in linked

-----------------------------------------------------------------------------
(* A run begins: a conversation needs a final review of the commit.        *)

OpenThreads == {h \in Findings : threads[h].on /\ threads[h].open}
ToAnswer == {h \in OpenThreads : threads[h].waits /\ silent[h] # threads[h].reply}

Kind == IF "full" \in want \/ (want # {} /\ shown = None) THEN "full"
        ELSE IF "talk" \in want THEN "talk" ELSE "ci"

\* A conversation is told what is settled: lifted on this commit, or deferred
\* before the rule and not part of this commit's review.
Begin ==
  /\ run.pc = "idle" /\ want # {}
  /\ want' = want \ (IF Kind = "full" THEN want ELSE {Kind})
  /\ run' = [Idle EXCEPT
       !.pc = "lanes", !.kind = Kind, !.sha = head,
       !.seen = threads,
       !.todo = IF Kind = "talk" THEN ToAnswer ELSE {},
       !.settled = {h \in ToAnswer : h \in Lifted \/ (h \in old /\ h \notin Standing)}]
  /\ UNCHANGED <<head, threads, marks, tracking, shown, rows, asked, ci, events>>

\* A push landed: nothing is published, the run ends superseded.
Superseded ==
  /\ run.pc \in {"lanes", "decide"} /\ Obsolete
  /\ End
  /\ UNCHANGED <<head, threads, marks, tracking, shown, rows, asked, ci, events>>

-----------------------------------------------------------------------------
(* A full review, from its lanes' answers to its record.                   *)

Prior == {h \in Findings : threads[h].on}
Replied == {h \in Findings : run.seen[h].waits /\ run.seen[h].open}

\* review_deferral_link: what people linked by the time the threads were read;
\* our own answers are no evidence.
PeopleLink(h) == run.seen[h].link = "human"
Grandfathered(h) == h \in old

\* _hold_untracked_deferrals
Held(deferred) ==
  {h \in deferred : NeedsTracking(h) /\ ~PeopleLink(h) /\ ~KnownTracking(h) /\ ~Grandfathered(h)}

LaterRound == pub.n > 0 \/ head > 1
FreshSkipped(findings) == Blockers(findings) # {}

\* _review_strength: weak with Phase 2 missing or stood in for.
Strengths(findings) ==
  {"weak", IF LaterRound /\ FreshSkipped(findings) THEN "needs_fresh" ELSE "ok"}

VerdictEvent(findings, approves, strength) ==
  IF Blockers(findings) # {} THEN "CHANGES_REQUESTED"
  ELSE IF approves /\ strength # "weak" THEN "APPROVED" ELSE "COMMENTED"

\* The verdict moves from a state the bot set itself; else the re-review's
\* summary goes up as a COMMENT, which carries the commit's marker too.
Shows(verdict) ==
  IF shown \in {"DISMISSED", verdict} THEN "COMMENTED" ELSE verdict

\* answer_replied_threads
Reviewed(kept, new, gone) ==
  [h \in Findings |->
    IF h \in new THEN [NoThread EXCEPT !.on = TRUE, !.open = TRUE]
    ELSE LET t == threads[h]
             answered == h \in Replied /\ t.reply = run.seen[h].reply
         IN  [t EXCEPT !.waits = @ /\ ~answered, !.by = IF answered THEN None ELSE @,
                       !.open = @ /\ h \notin gone]]

\* _stood_since: a finding that a review carries again is deferred anew.
NotStood(findings) == old \ findings

\* _record_lifted_reconciliations: what it lifts leaves rows for later heads, a
\* deferral's with the link it was checked against.
LiftedLinks(deferred, findings) == {h \in deferred \ findings : PeopleLink(h)}

\* The prior findings are kept, gone (fixed, withdrawn) or deferred.
FullReview ==
  /\ run.pc = "lanes" /\ run.kind = "full" /\ ~Obsolete
  /\ \E new \in SUBSET (events.finds \ Prior), kept \in SUBSET Prior :
     \E deferred \in SUBSET (Prior \ kept), approves \in BOOLEAN :
       LET findings == kept \cup new \cup Held(deferred)
           gone == Prior \ (kept \cup deferred)
       IN \E strength \in Strengths(findings) :
            /\ shown' = Shows(VerdictEvent(findings, approves /\ Held(deferred) = {}, strength))
            /\ pub' = [n |-> pub.n + 1, findings |-> findings, strength |-> strength]
            /\ threads' = Reviewed(kept, new, gone)
            /\ linked' = linked \cup LiftedLinks(deferred, findings)
            /\ old' = NotStood(findings)
  /\ End
  /\ UNCHANGED <<head, marks, tracking, conceded, silent, asked, ci, events>>

-----------------------------------------------------------------------------
(* The conversation lane answers, and its deferrals are vetted.            *)

Says(word, cites, file) == [word |-> word, cites |-> cites, file |-> file, link |-> None]
Deferrals == {Says(Deferred, cites, file) : cites \in BOOLEAN, file \in BOOLEAN}
Answers == {Says(w, FALSE, FALSE) : w \in {"STILL_VALID", "NO_REPLY", "WITHDRAWN"}} \cup Deferrals

\* Mutant: anyone's word will do.
AnyAsker(h) == run.seen[h].by # None

Asker(h) == run.seen[h].by = "maintainer"

\* tracking_link, cued_link: a reference must be visible to count; one that the
\* maintainer's own reply points to counts without being cited.
VisibleLink(h, o) ==
  IF o.cites \/ (Asker(h) /\ PeopleLink(h)) THEN run.seen[h].link ELSE None

\* accept_deferrals
Vetted(h, o) ==
  LET settled == h \in run.settled
      link == VisibleLink(h, o)
  IN  IF o.word # Deferred THEN o
      ELSE IF ~settled /\ ~Asker(h) THEN Says("DEFERRAL_PENDING", FALSE, FALSE)
      ELSE IF link # None \/ (settled /\ ~(Asker(h) /\ o.file))
      THEN [o EXCEPT !.link = link, !.file = FALSE]
      ELSE IF o.file \/ ~NeedsTracking(h) THEN o
      ELSE Says("DEFERRAL_NEEDS_TRACKING", FALSE, FALSE)

Judge ==
  /\ run.pc = "lanes" /\ run.kind = "talk" /\ run.todo # {} /\ ~Obsolete
  /\ \E outs \in [run.todo -> Answers] :
       run' = [run EXCEPT !.pc = "file", !.outs = [h \in run.todo |-> Vetted(h, outs[h])], !.settled = {}]
  /\ UNCHANGED <<head, threads, marks, tracking, shown, rows, asked, ci, want, events>>

\* Nobody waits for an answer.
NothingToSay ==
  /\ run.pc = "lanes" /\ run.kind = "talk" /\ run.todo = {}
  /\ End
  /\ UNCHANGED <<head, threads, marks, tracking, shown, rows, asked, ci, events>>

-----------------------------------------------------------------------------
(* Filing the tracking issues a maintainer asked for (_tracking_issue).    *)

ToFile == {h \in DOMAIN run.outs : run.outs[h].word = Deferred /\ run.outs[h].file}
Filing(h) == run.pc = "file" /\ run.at = None /\ h \in ToFile

Tracked(h) ==
  run' = [run EXCEPT !.at = None, !.outs[h].file = FALSE, !.outs[h].link = "bot"]
Untracked(h) ==
  run' = [run EXCEPT !.at = None, !.outs[h] = Says("DEFERRAL_NEEDS_TRACKING", FALSE, FALSE)]

\* An earlier attempt may have filed it; a repository the bot may not file
\* in; a search that fails.
CannotFile(h) ==
  /\ Filing(h)
  /\ \/ defer[h] = "pending" /\ UNCHANGED events
     \/ defer[h] = None /\ Spend("no filing")
  /\ Untracked(h)
  /\ UNCHANGED <<head, threads, marks, tracking, shown, rows, asked, ci, want>>

\* It is on record, or an open issue clearly matches.
AlreadyFiled(h) ==
  /\ Filing(h)
  /\ \/ defer[h] = "url" /\ UNCHANGED events
     \/ defer[h] = None /\ Spend("match")
  /\ defer' = [defer EXCEPT ![h] = "url"]
  /\ Tracked(h)
  /\ UNCHANGED <<head, threads, marks, issues, shown, rows, asked, ci, want>>

\* Mutant: nothing is noted before the issue is created.
StartsUnnoted(h) ==
  /\ Filing(h) /\ defer[h] = None
  /\ run' = [run EXCEPT !.at = h]
  /\ UNCHANGED <<head, threads, marks, tracking, shown, rows, asked, ci, want, events>>

StartsFiling(h) ==
  /\ Filing(h) /\ defer[h] = None
  /\ defer' = [defer EXCEPT ![h] = "pending"]
  /\ run' = [run EXCEPT !.at = h]
  /\ UNCHANGED <<head, threads, marks, issues, shown, rows, asked, ci, want, events>>

\* gh issue create: it is created and its URL printed, or its answer is lost.
Creates(h) ==
  /\ run.pc = "file" /\ run.at = h
  /\ issues' = [issues EXCEPT ![h] = @ + 1]
  /\ \/ run' = [run EXCEPT !.pc = "filed"] /\ UNCHANGED events
     \/ Untracked(h) /\ Spend("create fails")
  /\ UNCHANGED <<head, threads, marks, defer, shown, rows, asked, ci, want>>

\* Or not: a refusal clears the note, anything else leaves it.
CreateFails(h) ==
  /\ run.pc = "file" /\ run.at = h /\ Spend("create fails")
  /\ Untracked(h)
  /\ defer' \in {defer, [defer EXCEPT ![h] = None]}
  /\ UNCHANGED <<head, threads, marks, issues, shown, rows, asked, ci, want>>

NotesUrl(h) ==
  /\ run.pc = "filed" /\ run.at = h
  /\ defer' = [defer EXCEPT ![h] = "url"]
  /\ run' = [run EXCEPT !.pc = "file", !.at = None, !.outs[h].file = FALSE, !.outs[h].link = "bot"]
  /\ UNCHANGED <<head, threads, marks, issues, shown, rows, asked, ci, want, events>>

-----------------------------------------------------------------------------
(* answer_conversation: one thread at a time.                              *)

Marked(h) == \E m \in marks : m.hash = h /\ m.sha = run.sha /\ m.reply = run.seen[h].reply
Answering(h) == run.pc = "file" /\ run.at = None /\ ToFile = {} /\ h \in run.todo

\* Answered by an attempt that died, or silence.
SaysNothing(h) ==
  /\ Answering(h)
  /\ Marked(h) \/ run.outs[h].word = "NO_REPLY"
  /\ run' = [run EXCEPT !.todo = @ \ {h}]
  /\ UNCHANGED <<head, threads, marks, tracking, shown, rows, asked, ci, want, events>>

\* The reply is posted, then a withdrawn finding's thread is resolved; the
\* thread still waits if someone wrote while the lane ran.
Replies(h, resolved) ==
  /\ Answering(h) /\ ~Marked(h) /\ run.outs[h].word # "NO_REPLY"
  /\ May("resolve fails", ~resolved)
  /\ LET o == run.outs[h]
         t == threads[h] IN
       /\ marks' = marks \cup {[hash |-> h, sha |-> run.sha, reply |-> run.seen[h].reply,
                                lifts |-> IF o.word \in Lifting THEN o.word ELSE None,
                                n |-> IF Obsolete THEN 0 ELSE pub.n]}
       /\ threads' = [threads EXCEPT ![h] =
            [t EXCEPT !.waits = FALSE, !.by = None,
                      !.link = IF t.link = None THEN o.link ELSE t.link,
                      !.open = t.open /\ ~(o.word = "WITHDRAWN" /\ resolved)]]
  /\ run' = [run EXCEPT !.todo = @ \ {h}, !.posted = @ \cup {h}]
  /\ UNCHANGED <<head, tracking, shown, rows, asked, ci, want>>

ReplyFails(h) ==
  /\ Answering(h) /\ ~Marked(h) /\ run.outs[h].word # "NO_REPLY" /\ Spend("reply fails")
  /\ run' = [run EXCEPT !.todo = @ \ {h}]
  /\ UNCHANGED <<head, threads, marks, tracking, shown, rows, asked, ci, want>>

-----------------------------------------------------------------------------
(* The bookkeeping, and the verdict.                                       *)

\* Mutant: what the lane conceded is booked, on its thread or not.
SaidOrNot == DOMAIN run.outs

\* "only an outcome that actually reached the thread lifts a blocker or counts
\* as silence"
Said == run.posted

Concedes == {h \in Said : run.outs[h].word \in Lifting}
Silences == {h \in DOMAIN run.outs : run.outs[h].word = "NO_REPLY"}

\* _record_conceded, under the run's commit
Book ==
  /\ run.pc = "file" /\ run.at = None /\ ToFile = {} /\ run.outs # <<>> /\ run.todo = {}
  /\ silent' = [h \in Findings |-> IF h \in Silences THEN run.seen[h].reply ELSE silent[h]]
  /\ linked' = linked \cup {h \in Concedes : run.outs[h].link # None}
  /\ conceded' = [h \in Findings |->
       IF h \in Concedes /\ ~Obsolete THEN [n |-> pub.n, status |-> run.outs[h].word]
       ELSE conceded[h]]
  /\ run' = [run EXCEPT !.pc = "decide", !.lifted = Concedes]
  /\ UNCHANGED <<head, threads, marks, tracking, shown, pub, old, asked, ci, want, events>>

\* _live_verdict_state: a dismissal is a human's word, an approval is done.
Movable == shown \in {"CHANGES_REQUESTED", "COMMENTED"}

\* _conversation_verdict_update: something the verdict rests on was lifted,
\* no blocker stands, and the verdict is one the bot may still move.
Speaks ==
  /\ Blockers(Standing) = {} /\ run.lifted # {} /\ Notable(Lifted) # {} /\ Movable
Clear == Notable(Standing) = {}
Approves == Clear /\ pub.strength = "ok" /\ ~ci.known
AsksAudit == Clear /\ pub.strength = "needs_fresh" /\ ~ci.known /\ ~asked

Decide ==
  /\ run.pc = "decide" /\ ~Obsolete
  /\ IF Speaks
     THEN /\ run' = [run EXCEPT !.pc = "post", !.again = AsksAudit,
                                !.verdict = IF Approves THEN "APPROVED" ELSE "COMMENTED"]
          /\ asked' = (asked \/ AsksAudit)
          /\ UNCHANGED want
     ELSE End /\ UNCHANGED asked
  /\ UNCHANGED <<head, threads, marks, tracking, shown, rows, ci, events>>

\* publish_verdict_update: a review of the run's commit.
FollowUp == IF Obsolete THEN shown ELSE run.verdict

\* Nothing is posted when GitHub would show the same; the reviews row after it
\* has no reader here.
Post ==
  /\ run.pc = "post"
  /\ shown' = FollowUp
  /\ End
  /\ UNCHANGED <<head, threads, marks, tracking, rows, asked, ci, events>>

-----------------------------------------------------------------------------
(* The CI check of an approved commit (step_ci_check).                     *)

\* Mutant: only kv is asked, not the reviews on the pull request.
KvOnly == ci.known

\* _ci_held: one update for each head, one this database missed included.
Updated == ci.known \/ ci.posted > 0

CiHeld ==
  /\ run.pc = "lanes" /\ run.kind = "ci" /\ ~Obsolete
  /\ Updated \/ shown # "APPROVED"
  /\ ci' = [ci EXCEPT !.known = Updated]
  /\ End
  /\ UNCHANGED <<head, threads, marks, tracking, shown, rows, asked, events>>

\* _ci_judge: no word of the lane, on the stand-in too, counts as unclear.
CiJudgements == {"no", "yes", "unclear"}
CiWatched == run.pc = "lanes" /\ run.kind = "ci" /\ ~Obsolete /\ ~Updated /\ shown = "APPROVED"
CiJudged(related) == CiWatched /\ related \in CiJudgements

\* _ci_done: not related, or re-run and passed.
CiUnrelated ==
  /\ CiJudged("no")
  /\ End
  /\ UNCHANGED <<head, threads, marks, tracking, shown, rows, asked, ci, events>>

\* publish_ci_update: the approval goes.
CiUpdate ==
  /\ \E related \in CiJudgements \ {"no"} : CiJudged(related)
  /\ shown' = "COMMENTED"
  /\ ci' = [ci EXCEPT !.posted = @ + 1]
  /\ run' = [run EXCEPT !.pc = "ci records"]
  /\ UNCHANGED <<head, threads, marks, tracking, rows, asked, want, events>>

\* _ci_record_update, under the run's commit
CiRecords ==
  /\ run.pc = "ci records"
  /\ ci' = [ci EXCEPT !.known = ~Obsolete]
  /\ End
  /\ UNCHANGED <<head, threads, marks, tracking, shown, rows, asked, events>>

-----------------------------------------------------------------------------
(* The world.                                                              *)

\* On a reviewed commit a reply asks for a conversation, which takes a queued
\* CI check over.
Reply(h, by, links) ==
  /\ h \in OpenThreads /\ threads[h].reply < MaxReply /\ Spend("reply")
  /\ LET t == threads[h] IN
       threads' = [threads EXCEPT ![h] =
         [t EXCEPT !.reply = t.reply + 1, !.waits = TRUE,
                   !.by = IF t.by = "maintainer" THEN t.by ELSE by,
                   !.owner = t.owner \/ by = "maintainer",
                   !.link = IF links THEN "human" ELSE t.link]]
  /\ want' = (want \ {"ci"}) \cup {"talk"}
  /\ UNCHANGED <<head, marks, tracking, shown, rows, asked, ci, run>>

\* A maintainer resolves a thread by hand.
Resolve(h) ==
  /\ h \in OpenThreads /\ Spend("resolve")
  /\ threads' = [threads EXCEPT ![h].open = FALSE]
  /\ UNCHANGED <<head, marks, tracking, shown, rows, asked, ci, want, run>>

Dismiss ==
  /\ shown \in {"APPROVED", "CHANGES_REQUESTED"} /\ Spend("dismiss")
  /\ shown' = "DISMISSED"
  /\ UNCHANGED <<head, threads, marks, tracking, rows, asked, ci, want, run>>

Push ==
  /\ head < MaxHead /\ Spend("push")
  /\ head' = head + 1 /\ shown' = None
  /\ pub' = NoReview /\ conceded' = [h \in Findings |-> NoConcession]
  /\ asked' = FALSE /\ ci' = [posted |-> 0, known |-> FALSE]
  /\ want' = {"full"}
  /\ UNCHANGED <<threads, marks, tracking, linked, old, silent, run>>

Rereview ==
  /\ want = {} /\ run.pc = "idle" /\ Spend("ask")
  /\ want' = {"full"}
  /\ UNCHANGED <<head, threads, marks, tracking, shown, rows, asked, ci, run>>

CiFails ==
  /\ shown = "APPROVED" /\ want = {} /\ run.pc = "idle" /\ Spend("ci")
  /\ want' = {"ci"}
  /\ UNCHANGED <<head, threads, marks, tracking, shown, rows, asked, ci, run>>

\* The worker dies or a call fails it, and the head is queued again.
Dies ==
  /\ run.pc # "idle" /\ Spend("crash")
  /\ want' = IF run.kind = "ci" /\ want # {} THEN want ELSE want \cup {run.kind}
  /\ run' = Idle
  /\ UNCHANGED <<head, threads, marks, tracking, shown, rows, asked, ci>>

Outside ==
  \/ \E h \in Findings : \/ Resolve(h)
                         \/ \E by \in {"outsider", "maintainer"}, links \in BOOLEAN : Reply(h, by, links)
  \/ Dismiss \/ Push \/ Rereview \/ CiFails \/ Dies

Files(h) ==
  \/ CannotFile(h) \/ AlreadyFiled(h) \/ StartsFiling(h)
  \/ Creates(h) \/ CreateFails(h) \/ NotesUrl(h)
Answer(h) == SaysNothing(h) \/ (\E resolved \in BOOLEAN : Replies(h, resolved)) \/ ReplyFails(h)

Worker ==
  \/ Begin \/ Superseded \/ FullReview
  \/ Judge \/ NothingToSay \/ (\E h \in Findings : Files(h) \/ Answer(h))
  \/ Book \/ Decide \/ Post
  \/ CiHeld \/ CiUnrelated \/ CiUpdate \/ CiRecords

Next == Outside \/ Worker
Spec == Init /\ [][Next]_vars

-----------------------------------------------------------------------------
(* Properties.                                                             *)

\* "Never files twice" (_tracking_issue): one tracking issue for each finding,
\* whichever worker dies, whichever answer of GitHub is lost and however often
\* the maintainer asks again.
OneIssue == \A h \in Findings : issues[h] <= 1

\* A deferral that lifts a finding of this commit's review was a maintainer's
\* call, and above a nitpick its follow-up is linked where people can see it; unless
\* the same review's finding had been withdrawn before, or deferred under the old
\* rule (accept_deferrals, _grandfathered).
WithdrawnBefore(h) ==
  \E m \in marks : m.hash = h /\ m.sha = head /\ m.n = pub.n /\ m.lifts = "WITHDRAWN"
DeferralsHold ==
  \A h \in Conceded :
    conceded[h].status = Deferred =>
      \/ threads[h].owner /\ (NeedsTracking(h) => threads[h].link # None)
      \/ WithdrawnBefore(h) \/ h \in old

\* "The verdict is the commit's full review minus what the discussion withdrew or
\* deferred": a conversation approves only where each finding above a nitpick that the
\* latest review of the commit published was given up on its own thread after it.
GivenUp(h) ==
  \E m \in marks : m.hash = h /\ m.sha = head /\ m.n = pub.n /\ m.lifts # None
ApprovalRests ==
  [][run.kind = "talk" /\ shown # "APPROVED" /\ shown' = "APPROVED"
       => \A h \in Notable(pub.findings) : GivenUp(h)]_vars

\* "a head gets one CI update" (_ci_held), whatever dies between the post and its
\* record.
OneCiUpdate == ci.posted <= 1

\* "anything less leaves a ready pull request showing a blocking review that no longer
\* exists" (_conversation_verdict_update): with nothing left to run, the verdict does
\* not block where no blocker stands.
VerdictFollows ==
  run.pc = "idle" /\ want = {} /\ pub.n > 0 /\ Blockers(Standing) = {}
    => shown # "CHANGES_REQUESTED"

\* "only a review that sees that failure may approve the commit again, not a
\* discussion" (_conversation_verdict_update, of a CI update).
CiHoldStands ==
  [][run.kind = "talk" /\ shown # "APPROVED" /\ shown' = "APPROVED" => ci.posted = 0]_vars
=============================================================================
