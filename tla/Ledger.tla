------------------------------- MODULE Ledger -------------------------------
(***************************************************************************)
(* The issue ledger (ledger.py): one row per finding of a pull request,    *)
(* folded from events.  A row never changes but through Apply.             *)
(* The operators here have no state: Rounds keeps the rows of one pull     *)
(* request.                                                                *)
(*                                                                         *)
(* A commit is a number, 0 is "none".  A row keeps what decides            *)
(*   status, sev       the status and severity the verdict counts          *)
(*   anchor            the commit its lines are numbered in                *)
(*   seen, closed      the commit it was last affirmed at, closed at       *)
(* and leaves out the texts, the ids and who recorded it.                  *)
(***************************************************************************)
EXTENDS Naturals

Statuses == {"open", "fixed", "outdated", "withdrawn", "deferred",
             "deferral_pending", "resolved"}
Severities == {"blocking", "suggestion", "nitpick"}

Standing == {"open", "deferral_pending"}
Counting == Standing \cup {"resolved"}
Closed == Statuses \ Standing
MatchSettled == {"withdrawn", "deferred", "outdated"}

Words == {"STILL_VALID", "FIX_PENDING", "FIXED", "OUTDATED", "WITHDRAWN",
          "INTENTIONALLY_DEFERRED", "DEFERRAL_PENDING",
          "DEFERRAL_NEEDS_TRACKING"}

\* An outcome that only asks for a link leaves no status of its own.
OutcomeStatus(word) ==
  CASE word \in {"STILL_VALID", "FIX_PENDING"}  -> "open"
    [] word = "FIXED"                           -> "fixed"
    [] word = "OUTDATED"                        -> "outdated"
    [] word = "WITHDRAWN"                       -> "withdrawn"
    [] word = "INTENTIONALLY_DEFERRED"          -> "deferred"
    [] word = "DEFERRAL_PENDING"                -> "deferral_pending"
    [] OTHER                                    -> "none"

Lifting == {"WITHDRAWN", "INTENTIONALLY_DEFERRED"}
Retiring == {"WITHDRAWN", "FIXED", "OUTDATED"}

NoIssue == [status |-> "none", sev |-> "none", anchor |-> 0, seen |-> 0,
            closed |-> 0]

Known(row) == row.status # "none"
Counts(row) == row.status \in Counting

-----------------------------------------------------------------------------
(* One event.  `sha` is the commit the run that recorded it reviewed.      *)

Posted(sha, sev)       == [kind |-> "posted",   sha |-> sha, arg |-> sev]
Seen(sha)              == [kind |-> "seen",     sha |-> sha, arg |-> "none"]
Thread(sha, what)      == [kind |-> "thread",   sha |-> sha, arg |-> what]
Outcome(sha, word)     == [kind |-> "outcome",  sha |-> sha, arg |-> word]
Status(sha, status)    == [kind |-> "status",   sha |-> sha, arg |-> status]
Severity(sha, sev)     == [kind |-> "severity", sha |-> sha, arg |-> sev]

SetStatus(row, status, sha) ==
  [row EXCEPT !.status = status,
              !.closed = IF status \in Closed THEN sha ELSE 0]

ApplyPosted(e) ==
  [status |-> "open", sev |-> e.arg, anchor |-> e.sha, seen |-> e.sha, closed |-> 0]

\* `arg` of a thread event is "resolved", or the severity its open thread
\* shows: a thread this database never posted becomes an issue without an
\* anchor.
ApplyThread(row, e) ==
  CASE ~Known(row) /\ e.arg # "resolved" ->
         [NoIssue EXCEPT !.status = "open", !.sev = e.arg]
    [] Known(row) /\ e.arg = "resolved" /\ row.status \in Standing ->
         SetStatus(row, "resolved", e.sha)
    [] Known(row) /\ e.arg # "resolved" /\ row.status = "resolved" ->
         SetStatus(row, "open", e.sha)
    [] OTHER -> row

\* What the other events make of the row there is.
ApplyToRow(row, e) ==
  CASE e.kind = "seen" -> [row EXCEPT !.seen = e.sha]
    [] e.kind = "outcome" /\ OutcomeStatus(e.arg) # "none" ->
         SetStatus(row, OutcomeStatus(e.arg), e.sha)
    [] e.kind = "status" /\ e.arg \in Statuses -> SetStatus(row, e.arg, e.sha)
    [] e.kind = "severity" /\ e.arg \in Severities -> [row EXCEPT !.sev = e.arg]
    [] OTHER -> row

\* The row after an event; an event about an issue nobody posted or saw is
\* kept in the history and makes no row.
Apply(row, e) ==
  CASE e.kind = "posted" -> ApplyPosted(e)
    [] e.kind = "thread" -> ApplyThread(row, e)
    [] OTHER -> IF Known(row) THEN ApplyToRow(row, e) ELSE row

-----------------------------------------------------------------------------
(* Did the code an issue points at change?  `touched[c]` are the issues    *)
(* whose lines commit c changed; every issue is in one file.               *)

LinesChanged(touched, h, from, to) == \E c \in (from + 1)..to : h \in touched[c]
FileChanged(touched, from, to) == \E c \in (from + 1)..to : touched[c] # {}

\* anchor_moved: its anchored lines changed, and its file did since the issue
\* was last affirmed.
AnchorMoved(touched, h, row, head) ==
  /\ row.anchor # 0
  /\ row.anchor < head
  /\ row.seen < head
  /\ LinesChanged(touched, h, row.anchor, head)
  /\ row.seen = 0 \/ row.seen = row.anchor \/ FileChanged(touched, row.seen, head)

\* _closed_changed: the anchored lines, re-located where the issue was
\* closed, changed since.  Unknown never revives anything.
ClosedChanged(touched, h, row, head) ==
  LET since == IF row.closed # 0 THEN row.closed ELSE row.seen
  IN  row.anchor # 0 /\ since # 0 /\ since < head
      /\ LinesChanged(touched, h, since, head)

-----------------------------------------------------------------------------
(* The reconcile of a backfilled history, and the verdict's issues.        *)

\* sync_threads: `threads[h]` says whether the newest thread of h is on the
\* pull request, open, its comment's severity and our latest answer there.
SyncEvent(row, t, sha) ==
  CASE t.on /\ t.open /\ (~Known(row) \/ row.status = "resolved") ->
         {Thread(sha, t.sev)}
    [] t.on /\ ~t.open /\ t.last \notin Retiring /\ row.status \in Standing ->
         {Thread(sha, "resolved")}
    [] OTHER -> {}

ApplyIf(row, events) == IF events = {} THEN row ELSE Apply(row, CHOOSE e \in events : TRUE)

\* reconcile: on an open pull request an issue with no open thread whose code
\* moved is outdated; every other counting issue waits for a judgement.
Vanished(touched, h, row, head, open) ==
  Counts(row) /\ h \notin open /\ AnchorMoved(touched, h, row, head)

\* Mutant: a thread resolved by hand takes its issue out of the verdict.
StandsUnresolved(row, doubt, hasThread, previous) ==
  /\ row.status \in Standing
  /\ ~doubt \/ hasThread \/ (previous # 0 /\ row.seen = previous)

\* rules.standing: an issue in doubt counts when it has an open thread or was
\* last seen at the previous reviewed head.
Stands(row, doubt, hasThread, previous) ==
  /\ Counts(row)
  /\ ~doubt \/ hasThread \/ (previous # 0 /\ row.seen = previous)

IssueKind(row) ==
  CASE Counts(row)           -> "open"
    [] row.status = "fixed"  -> "fixed"
    [] OTHER                 -> "settled"

\* rules.verdict
Verdict(blockers, suggestions, strong) ==
  IF blockers THEN "REQUEST_CHANGES"
  ELSE IF suggestions \/ ~strong THEN "COMMENT" ELSE "APPROVE"
=============================================================================
