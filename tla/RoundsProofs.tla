---------------------------- MODULE RoundsProofs ----------------------------
(***************************************************************************)
(* What the rounds of a pull request never do, for any findings, words,    *)
(* commits, deaths and lost writes.                                        *)
(*                                                                         *)
(* OneDecision is inductive as it stands: a marker is keyed by its thread, *)
(* the commit and the reply it answers, and the one step that writes one   *)
(* looked for that key first.  The others rest on RoundInv: the rows are   *)
(* sound, the run's ledger is the one it read until it books, a finding    *)
(* that raises a settled issue saw its lines changed, an approval in hand  *)
(* is over nothing above a nitpick, and a head on record as approved shows *)
(* it or has a full review ahead.                                          *)
(***************************************************************************)
EXTENDS Rounds, TLAPS

\* A step that posts an answer adds one marker, whose key nobody has yet.
LEMMA AnswerAddsAKey ==
  ASSUME NEW h \in Hashes, NEW resolved \in BOOLEAN, AnswerOnThread(h, resolved)
  PROVE  \E m : /\ marks' = marks \cup {m}
                /\ \A n \in marks : ~(m.hash = n.hash /\ m.sha = n.sha /\ m.reply = n.reply)
<1> DEFINE m == [hash |-> h, sha |-> run.sha, reply |-> run.reply[h], word |-> run.outs[h].word]
<1>1. marks' = marks \cup {m} BY DEF AnswerOnThread
<1>2. Mark(h) = {} BY DEF AnswerOnThread, Posts
<1>3. ASSUME NEW n \in marks PROVE ~(m.hash = n.hash /\ m.sha = n.sha /\ m.reply = n.reply)
  BY <1>2 DEF Mark
<1> QED BY <1>1, <1>3

\* Nothing else writes a marker.
LEMMA OnlyAnswersMark ==
  ASSUME [Next]_vars
  PROVE  \/ \E h \in Hashes, resolved \in BOOLEAN : AnswerOnThread(h, resolved)
         \/ marks' = marks
<1>1. ASSUME NEW kind \in {"full", "talk"}, Context(kind) PROVE marks' = marks
  BY <1>1 DEF Context, github
<1>2. CASE Judge BY <1>2 DEF Judge, github
<1>3. CASE ThreadLaneFails BY <1>3 DEF ThreadLaneFails, github
<1>4. CASE JudgeDegraded BY <1>4 DEF JudgeDegraded, github
<1>5. CASE Superseded BY <1>5 DEF Superseded, github
<1>6. ASSUME NEW h \in Hashes, Answer(h)
      PROVE  (\E resolved \in BOOLEAN : AnswerOnThread(h, resolved)) \/ marks' = marks
  BY <1>6 DEF Answer, AnswerQuietly
<1>7. CASE Decide BY <1>7 DEF Decide, github
<1>8. CASE FirstReview BY <1>8 DEF FirstReview
<1>9. CASE BackfillPosted BY <1>9 DEF BackfillPosted, github
<1>10. CASE MoveVerdict BY <1>10 DEF MoveVerdict
<1>11. CASE Summarise BY <1>11 DEF Summarise
<1>12. CASE Record BY <1>12 DEF Record, github
<1>13. CASE TalkDecide BY <1>13 DEF TalkDecide, github
<1>14. CASE TalkPost BY <1>14 DEF TalkPost
<1>15. CASE TalkRecord BY <1>15 DEF TalkRecord, github
<1>16. CASE Crash BY <1>16 DEF Crash, github
<1>17. CASE Push BY <1>17 DEF Push, github
<1>18. CASE Dismiss BY <1>18 DEF Dismiss
<1>19. CASE Ask BY <1>19 DEF Ask, github
<1>20. CASE OperatorReconcile BY <1>20 DEF OperatorReconcile, github
<1>21. ASSUME NEW h \in Hashes, Reply(h) PROVE marks' = marks BY <1>21 DEF Reply
<1>22. ASSUME NEW h \in Hashes, Resolve(h) PROVE marks' = marks BY <1>22 DEF Resolve
<1>23. CASE UNCHANGED vars BY <1>23 DEF vars, github
<1>24. CASE Rest BY <1>24, <1>23 DEF Rest
<1> QED
  BY <1>1, <1>2, <1>3, <1>4, <1>5, <1>6, <1>7, <1>8, <1>9, <1>10, <1>11, <1>12, <1>13,
     <1>14, <1>15, <1>16, <1>17, <1>18, <1>19, <1>20, <1>21, <1>22, <1>23, <1>24
  DEF Next, Worker

\* A reply is met with one decision per commit, whatever dies and is retried.
THEOREM DecidedOnce == Spec => []OneDecision
<1>1. Init => OneDecision
  BY DEF Init, OneDecision
<1>2. OneDecision /\ [Next]_vars => OneDecision'
  <2> SUFFICES ASSUME OneDecision, [Next]_vars PROVE OneDecision' OBVIOUS
  <2>1. CASE marks' = marks BY <2>1 DEF OneDecision
  <2>2. ASSUME NEW h \in Hashes, NEW resolved \in BOOLEAN, AnswerOnThread(h, resolved)
        PROVE  OneDecision'
    <3>1. PICK m : /\ marks' = marks \cup {m}
                   /\ \A n \in marks : ~(m.hash = n.hash /\ m.sha = n.sha /\ m.reply = n.reply)
      BY <2>2, AnswerAddsAKey
    <3> QED BY <3>1 DEF OneDecision
  <2> QED BY <2>1, <2>2, OnlyAnswersMark
<1> QED BY <1>1, <1>2, PTL DEF Spec
-----------------------------------------------------------------------------
(* The rows of the ledger: what each event leaves as it was.               *)

\* A row: once it is an issue it has a severity, and one that is settled
\* knows where it was closed.
Row == [status : Statuses \cup {None}, sev : Severities \cup {None},
        anchor : Nat, seen : Nat, closed : Nat]
Sound == {row \in Row : /\ Known(row) => row.sev \in Severities
                        /\ row.status \in MatchSettled => row.closed # 0}

\* Nothing but the last commit it was seen at, and its severity, differs.
SameStatus(row, new) ==
  new.status = row.status /\ new.closed = row.closed /\ new.anchor = row.anchor

LEMMA SetStatusRow ==
  ASSUME NEW row \in Sound, Known(row), NEW st \in Statuses, NEW sha \in Nat \ {0}
  PROVE  /\ SetStatus(row, st, sha) \in Sound
         /\ SetStatus(row, st, sha).status = st /\ SetStatus(row, st, sha).sev = row.sev
<1> DEFINE n == IF st \in Closed THEN sha ELSE 0
           new == [row EXCEPT !.status = st, !.closed = n]
<1>1. n \in Nat /\ (st \in MatchSettled => n # 0)
  BY DEF Closed, Standing, MatchSettled
<1>2. SetStatus(row, st, sha) = new
  BY DEF SetStatus
<1> HIDE DEF n
<1>3. new \in Row /\ new.status = st /\ new.closed = n /\ new.sev = row.sev
  BY <1>1 DEF Sound, Row
<1> HIDE DEF new
<1> QED BY <1>1, <1>2, <1>3 DEF Sound, Known

LEMMA PostedRow ==
  ASSUME NEW row, NEW sha \in Nat, NEW sev \in Severities
  PROVE  /\ Apply(row, Posted(sha, sev)) \in Sound
         /\ Apply(row, Posted(sha, sev)).status = "open" /\ Apply(row, Posted(sha, sev)).sev = sev
BY DEF Apply, Posted, ApplyPosted, Sound, Row, Statuses, Known, MatchSettled

LEMMA SeenRow ==
  ASSUME NEW row \in Sound, NEW sha \in Nat
  PROVE  /\ Apply(row, Seen(sha)) \in Sound
         /\ SameStatus(row, Apply(row, Seen(sha))) /\ Apply(row, Seen(sha)).sev = row.sev
<1>1. Apply(row, Seen(sha)) \in {row, [row EXCEPT !.seen = sha]}
  BY DEF Apply, ApplyToRow, Seen
<1> DEFINE new == [row EXCEPT !.seen = sha]
<1>2. new \in Row /\ SameStatus(row, new) /\ new.sev = row.sev
  BY DEF Sound, Row, SameStatus
<1> HIDE DEF new
<1>3. new \in Sound
  BY <1>2 DEF Sound, SameStatus, Known
<1> QED BY <1>1, <1>2, <1>3 DEF new, SameStatus

LEMMA SeverityRow ==
  ASSUME NEW row \in Sound, NEW sha, NEW sev \in Severities
  PROVE  /\ Apply(row, Severity(sha, sev)) \in Sound /\ SameStatus(row, Apply(row, Severity(sha, sev)))
<1> DEFINE new == [row EXCEPT !.sev = sev]
<1>1. Apply(row, Severity(sha, sev)) \in {row, new}
  BY DEF Apply, ApplyToRow, Severity
<1>2. new \in Row /\ SameStatus(row, new) /\ new.sev = sev
  BY DEF Sound, Row, SameStatus
<1> HIDE DEF new
<1>3. new \in Sound
  BY <1>2 DEF Sound, SameStatus
<1> QED BY <1>1, <1>2, <1>3 DEF SameStatus

LEMMA OutcomeRow ==
  ASSUME NEW row \in Sound, NEW sha \in Nat \ {0}, NEW word
  PROVE  /\ Apply(row, Outcome(sha, word)) \in Sound /\ Apply(row, Outcome(sha, word)).sev = row.sev
         /\ Apply(row, Outcome(sha, word)).status \in {row.status, OutcomeStatus(word)}
<1>1. \/ Apply(row, Outcome(sha, word)) = row
      \/ /\ Known(row) /\ OutcomeStatus(word) # "none"
         /\ Apply(row, Outcome(sha, word)) = SetStatus(row, OutcomeStatus(word), sha)
  BY DEF Apply, ApplyToRow, Outcome
<1>2. OutcomeStatus(word) \in Statuses \cup {"none"}
  BY DEF OutcomeStatus, Statuses
<1> QED BY <1>1, <1>2, SetStatusRow

LEMMA StatusRow ==
  ASSUME NEW row \in Sound, NEW sha \in Nat \ {0}, NEW st \in Statuses
  PROVE  Apply(row, Status(sha, st)) \in Sound
<1>1. Apply(row, Status(sha, st)) = row \/ (Known(row) /\ Apply(row, Status(sha, st)) = SetStatus(row, st, sha))
  BY DEF Apply, ApplyToRow, Status
<1> QED BY <1>1, SetStatusRow

\* A thread opens a row nobody knew, and moves one that stands or was resolved by hand.
LEMMA ThreadRow ==
  ASSUME NEW row \in Sound, NEW sha \in Nat \ {0}, NEW what \in Severities \cup {"resolved"}
  PROVE  /\ Apply(row, Thread(sha, what)) \in Sound
         /\ row.status \in MatchSettled => Apply(row, Thread(sha, what)) = row
<1> DEFINE new == [NoIssue EXCEPT !.status = "open", !.sev = what]
<1>1. what # "resolved" => new \in Sound
  BY DEF NoIssue, Sound, Row, Statuses, Known, MatchSettled, Severities
<1>2. \/ Apply(row, Thread(sha, what)) = row
      \/ ~Known(row) /\ what # "resolved" /\ Apply(row, Thread(sha, what)) = new
      \/ /\ Known(row) /\ row.status \in Standing \cup {"resolved"}
         /\ \E st \in {"open", "resolved"} : Apply(row, Thread(sha, what)) = SetStatus(row, st, sha)
  BY DEF Apply, Thread, ApplyThread
<1>3. {"open", "resolved"} \subseteq Statuses /\ None \notin MatchSettled
      /\ MatchSettled \cap (Standing \cup {"resolved"}) = {}
  BY DEF Statuses, MatchSettled, Standing, None
<1> HIDE DEF new
<1> QED BY <1>1, <1>2, <1>3, SetStatusRow DEF Known, None

\* Whether the lines of a closed issue changed since does not depend on where it was last seen.
LEMMA SameClosed ==
  ASSUME NEW t, NEW h, NEW row, NEW new, NEW sha,
         new.closed = row.closed, new.anchor = row.anchor, row.closed # 0
  PROVE  ClosedChanged(t, h, new, sha) <=> ClosedChanged(t, h, row, sha)
BY DEF ClosedChanged

-----------------------------------------------------------------------------
(* The invariant: the tables, the worker's locals, the verdict it has in   *)
(* hand, and what the books say of what GitHub shows.                      *)

ThreadFields == {"on", "open", "sev", "waits", "reply", "said", "last"}
RunFields == {"pc", "kind", "sha", "issues", "recon", "open", "waits", "reply", "outs", "todo",
              "did", "new", "corr", "ups", "kept", "folds", "weak", "failed", "degraded",
              "verdict", "lifted", "keepsApproval"}

Tables ==
  /\ head \in Commits /\ DOMAIN touched = Commits
  /\ rec \in [Commits -> Events] /\ shown \in [Commits -> States] /\ says \in [Commits -> States]
  /\ issues \in [Hashes -> Sound]
  /\ recon \in [done : BOOLEAN, pending : SUBSET Hashes]
  /\ DOMAIN threads = Hashes
  /\ \A h \in Hashes : /\ DOMAIN threads[h] = ThreadFields
                       /\ threads[h].on => threads[h].sev \in Severities

Working == run.pc # "idle"

\* What the run is, and what it read at its start: nobody touches the ledger
\* before it books its outcomes.
Job ==
  /\ DOMAIN run = RunFields
  /\ Working =>
       /\ run.pc \in {"lanes", "answer", "post", "update", "record"}
       /\ run.kind \in {"full", "talk"} /\ run.sha \in 1..head
       /\ \A h \in Hashes : run.issues[h] \in Sound
       /\ run.pc \in {"lanes", "answer"} =>
            recon.done /\ run.recon = recon /\ run.issues = issues

\* A finding that raises a settled issue again saw its lines changed.
FromChange(f, rows, sha) ==
  /\ f.sev \in Severities
  /\ f.revives # None =>
       f.revives \in Hashes /\ ClosedChanged(touched, f.revives, rows[f.revives], sha)

Findings ==
  Working =>
    /\ \A f \in run.new : FromChange(f, run.issues, run.sha)
    /\ run.pc = "record" => run.kept \subseteq run.new /\ \A s \in run.folds : s.finding \in run.new
    /\ run.pc # "record" => run.kept = {} /\ run.folds = {}

\* What the thread lane did not touch is closed where the run found it closed.
Untouched ==
  Working => \A h \in Hashes \ DOMAIN run.did : issues[h].status \in MatchSettled =>
    run.issues[h].closed = issues[h].closed /\ run.issues[h].anchor = issues[h].anchor

Clear == \A h \in Hashes : Counts(issues[h]) /\ ~Unjudged(h) => issues[h].sev = "nitpick"

InHand ==
  Working =>
    /\ run.keepsApproval => run.pc = "record"
    /\ run.pc \in {"post", "update", "record"} => run.verdict \in Events \ {None}
    /\ run.pc \in {"post", "record"} /\ run.kind = "talk" => run.verdict \in {"APPROVE", "COMMENT"}
    /\ run.pc \in {"post", "update"} /\ run.verdict = "APPROVE" =>
         Clear /\ (run.kind = "full" => \A f \in run.new : f.sev = "nitpick")

Upheld(c) == says[c] \in {"APPROVED", "DISMISSED"}

OnRecord ==
  /\ \A c \in Commits : shown[c] \in {"APPROVED", "CHANGES_REQUESTED", "DISMISSED"} =>
       says[c] = shown[c]
  /\ run.pc = "record" /\ (run.verdict = "APPROVE" \/ run.keepsApproval) => Upheld(run.sha)
  /\ rec[head] = "APPROVE" /\ ~Upheld(head) =>
       "full" \in want \/ (Working /\ run.kind = "full" /\ run.sha = head)

RoundInv == Tables /\ Job /\ Findings /\ Untouched /\ InHand /\ OnRecord

\* The fields of the run a step leaves alone.
But(fields) == DOMAIN run' = RunFields /\ \A x \in RunFields \ fields : run'[x] = run[x]

LEMMA IdleShape ==
  /\ Idle.pc = "idle" /\ DOMAIN Idle = RunFields /\ Idle.new = {} /\ Idle.kept = {} /\ Idle.folds = {}
  /\ Idle.keepsApproval = FALSE /\ DOMAIN Idle.did = {}
BY DEF Idle, RunFields

LEMMA InitOk == ASSUME RoundsAssumption, Init PROVE RoundInv
<1> USE DEF Commits, States, Events
<1>1. run.pc = "idle" /\ DOMAIN run = RunFields
  BY IdleShape DEF Init
<1>2. head \in Commits /\ DOMAIN touched = Commits /\ rec[head] = None
  BY DEF Init, FreshStart, MigratedStart, RoundsAssumption
<1>3. rec \in [Commits -> Events] /\ shown \in [Commits -> States] /\ says \in [Commits -> States]
      /\ says = shown
  BY DEF Init, FreshStart, MigratedStart
<1>4. NoIssue \in Sound
  BY DEF NoIssue, Sound, Row, Known, MatchSettled, None
<1>5. issues \in [Hashes -> Sound]
  <2>1. CASE FreshStart BY <1>4, <2>1 DEF FreshStart
  <2>2. CASE MigratedStart
    <3>1. Apply(NoIssue, Posted(1, "blocking")) \in Sound BY PostedRow DEF Severities
    <3> QED BY <1>4, <2>2, <3>1 DEF MigratedStart
  <2> QED BY <2>1, <2>2 DEF Init
<1>6. recon \in [done : BOOLEAN, pending : SUBSET Hashes]
  BY DEF Init
<1>7. \A sev \in Severities : DOMAIN NewThread(sev) = ThreadFields /\ NewThread(sev).sev = sev
  BY DEF NewThread, NoThread, ThreadFields
<1>8. DOMAIN NoThread = ThreadFields /\ NoThread.on = FALSE
  BY DEF NoThread, ThreadFields
<1>9. ASSUME NEW open
      PROVE  LET t == [NewThread("blocking") EXCEPT !.open = open]
             IN  DOMAIN t = ThreadFields /\ t.sev \in Severities
  BY <1>7 DEF Severities, ThreadFields
<1>10. /\ DOMAIN threads = Hashes
       /\ \A h \in Hashes : /\ DOMAIN threads[h] = ThreadFields
                            /\ threads[h].on => threads[h].sev \in Severities
  <2>1. CASE FreshStart BY <2>1, <1>8 DEF FreshStart
  <2>2. CASE MigratedStart BY <2>2, <1>8, <1>9 DEF MigratedStart
  <2> QED BY <2>1, <2>2 DEF Init
<1>11. Tables BY <1>2, <1>3, <1>5, <1>6, <1>10, Zenon DEF Tables
<1> QED BY <1>1, <1>2, <1>3, <1>11 DEF RoundInv, Job, Findings, Untouched, InHand, OnRecord, Working, None

-----------------------------------------------------------------------------
(* Steps that leave the run alone, and steps that end it.                  *)

\* The lines a run looks at lie behind its commit: a push does not change them.
LEMMA PastKept ==
  ASSUME NEW h, NEW row, row.closed \in Nat, row.seen \in Nat, NEW sha \in Nat, head \in Nat, sha <= head,
         \A c \in 1..head : touched'[c] = touched[c]
  PROVE  ClosedChanged(touched', h, row, sha) <=> ClosedChanged(touched, h, row, sha)
<1> DEFINE since == IF row.closed # 0 THEN row.closed ELSE row.seen
<1>1. since \in Nat OBVIOUS
<1>2. LinesChanged(touched', h, since, sha) <=> LinesChanged(touched, h, since, sha)
  <2> HIDE DEF since
  <2>1. \A c \in (since + 1)..sha : touched'[c] = touched[c] BY <1>1
  <2> QED BY <2>1 DEF LinesChanged
<1> QED BY <1>2 DEF ClosedChanged

LEMMA LocalsKept ==
  ASSUME RoundsAssumption, Tables, Job, Findings, Untouched, InHand,
         run' = run, issues' = issues, recon' = recon,
         head' \in Commits, head' >= head, \A c \in 1..head : touched'[c] = touched[c]
  PROVE  (Job /\ Findings /\ Untouched /\ InHand)'
<1> USE DEF Working
<1>1. head \in Nat /\ head' \in Nat BY DEF Tables, Commits, RoundsAssumption
<1>2. Job' BY <1>1 DEF Job
<1>3. Findings'
  <2> SUFFICES ASSUME Working, NEW f \in run.new PROVE FromChange(f, run.issues, run.sha)'
    BY DEF Findings
  <2>1. FromChange(f, run.issues, run.sha) BY DEF Findings
  <2>2. CASE f.revives = None BY <2>1, <2>2 DEF FromChange
  <2>3. CASE f.revives # None
    <3>1. f.revives \in Hashes BY <2>1, <2>3 DEF FromChange
    <3>2. run.issues[f.revives] \in Row BY <3>1 DEF Job, Sound
    <3>3. run.sha \in Nat /\ run.sha <= head BY <1>1 DEF Job
    <3>4. ClosedChanged(touched', f.revives, run.issues[f.revives], run.sha)
          <=> ClosedChanged(touched, f.revives, run.issues[f.revives], run.sha)
      BY <1>1, <3>2, <3>3, PastKept DEF Row
    <3> QED BY <2>1, <3>4 DEF FromChange
  <2> QED BY <2>2, <2>3
<1>4. Untouched' BY DEF Untouched
<1>5. InHand' BY DEF InHand, Clear, Unjudged
<1> QED BY <1>2, <1>3, <1>4, <1>5

\* With no run left, the tables and the books are all there is to keep.
LEMMA NoRunLeft ==
  ASSUME run' = Idle PROVE (Job /\ Findings /\ Untouched /\ InHand)' /\ ~Working'
<1>1. run'.pc = "idle" /\ DOMAIN run' = RunFields BY IdleShape
<1> QED BY <1>1 DEF Job, Findings, Untouched, InHand, Working

\* What the world does, with or without a run.
LEMMA WorldStep ==
  ASSUME RoundsAssumption, RoundInv,
         \/ Push \/ Dismiss \/ Ask \/ UNCHANGED vars
         \/ \E h \in Hashes : Reply(h) \/ Resolve(h)
  PROVE  RoundInv'
<1> USE DEF RoundInv
<1>1. CASE Push
  <2>1. /\ head' = head + 1 /\ head < MaxHead /\ want' = {"full"}
        /\ run' = run /\ UNCHANGED <<github, ledger, books>>
    BY <1>1 DEF Push
  <2>6. \E t : touched' = [touched EXCEPT ![head + 1] = t]
    BY <1>1, Zenon DEF Push
  <2>7. head' \in Commits
    BY <2>1 DEF Tables, Commits, RoundsAssumption
  <2>2. DOMAIN touched' = Commits /\ \A c \in 1..head : touched'[c] = touched[c]
    BY <2>1, <2>6 DEF Tables, Commits, RoundsAssumption
  <2>3. Tables' BY <2>1, <2>2, <2>7 DEF Tables, github, ledger, books
  <2>4. (Job /\ Findings /\ Untouched /\ InHand)'
    <3>1. head' >= head BY <2>1 DEF Tables, Commits, RoundsAssumption
    <3> QED BY <2>1, <2>2, <2>7, <3>1, LocalsKept DEF ledger
  <2>5. OnRecord' BY <2>1 DEF OnRecord, Upheld, github, books
  <2> QED BY <2>3, <2>4, <2>5
<1>2. CASE Dismiss
  <2>1. /\ UNCHANGED <<head, touched, threads, ledger, books, want, run>>
        /\ shown' = [shown EXCEPT ![head] = "DISMISSED"] /\ says' = [says EXCEPT ![head] = "DISMISSED"]
    BY <1>2 DEF Dismiss
  <2>2. Tables' BY <2>1 DEF Tables, States, ledger, books
  <2>3. (Job /\ Findings /\ Untouched /\ InHand)'
    <3>1. head' >= head BY <2>1 DEF Tables, Commits
    <3> QED BY <2>1, <2>2, <3>1, LocalsKept DEF ledger, Tables
  <2>4. \A c \in Commits : Upheld(c) => Upheld(c)'
    BY <2>1 DEF Upheld, Tables
  <2>5. Upheld(head)' BY <2>1 DEF Upheld, Tables
  <2>6. run.pc = "record" => run.sha \in Commits
    BY DEF Job, Working, Tables, Commits, RoundsAssumption
  <2>7. \A c \in Commits : shown'[c] \in {"APPROVED", "CHANGES_REQUESTED", "DISMISSED"} =>
          says'[c] = shown'[c]
    BY <2>1 DEF OnRecord, Tables
  <2>8. (run.pc = "record" /\ (run.verdict = "APPROVE" \/ run.keepsApproval) => Upheld(run.sha))'
    BY <2>1, <2>4, <2>6 DEF OnRecord
  <2>9. OnRecord'
    BY <2>1, <2>5, <2>7, <2>8, Zenon DEF OnRecord
  <2> QED BY <2>2, <2>3, <2>9
<1>3. CASE UNCHANGED <<head, touched, shown, says, ledger, books, run>> /\ want \subseteq want'
           /\ DOMAIN threads' = Hashes
           /\ \A h \in Hashes : /\ DOMAIN threads'[h] = ThreadFields
                                /\ threads'[h].on => threads'[h].sev \in Severities
  <2>1. Tables' BY <1>3 DEF Tables, ledger, books
  <2>2. head' >= head BY <1>3 DEF Tables, Commits
  <2>3. (Job /\ Findings /\ Untouched /\ InHand)'
    BY <1>3, <2>1, <2>2, LocalsKept DEF ledger, Tables
  <2>4. OnRecord' BY <1>3 DEF OnRecord, Upheld, Working, books
  <2> QED BY <2>1, <2>3, <2>4
<1>4. CASE Ask
  <2>1. UNCHANGED <<head, touched, github, ledger, books, run>> /\ want \subseteq want'
    BY <1>4 DEF Ask
  <2> QED BY <2>1, <1>3 DEF github, Tables
<1>5. CASE UNCHANGED vars
  BY <1>5, <1>3 DEF vars, github, Tables
<1>6. ASSUME NEW h \in Hashes, Reply(h) PROVE RoundInv'
  <2>1. /\ UNCHANGED <<head, touched, shown, says, ledger, books, run>> /\ want \subseteq want'
        /\ threads' = [threads EXCEPT ![h] = [@ EXCEPT !.waits = TRUE, !.reply = LastReply + 1]]
    BY <1>6 DEF Reply
  <2> DEFINE t == [threads[h] EXCEPT !.waits = TRUE, !.reply = LastReply + 1]
  <2>2. DOMAIN t = ThreadFields /\ t.on = threads[h].on /\ t.sev = threads[h].sev
    BY DEF Tables, ThreadFields
  <2>3. threads' = [threads EXCEPT ![h] = t] BY <2>1
  <2> HIDE DEF t
  <2> QED BY <2>1, <2>2, <2>3, <1>3 DEF Tables
<1>7. ASSUME NEW h \in Hashes, Resolve(h) PROVE RoundInv'
  <2>1. /\ UNCHANGED <<head, touched, shown, says, ledger, books, run>> /\ want \subseteq want'
        /\ threads' = [threads EXCEPT ![h] = [@ EXCEPT !.open = ~threads[h].open]]
    BY <1>7 DEF Resolve
  <2> DEFINE t == [threads[h] EXCEPT !.open = ~threads[h].open]
  <2>2. DOMAIN t = ThreadFields /\ t.on = threads[h].on /\ t.sev = threads[h].sev
    BY DEF Tables, ThreadFields
  <2>3. threads' = [threads EXCEPT ![h] = t] BY <2>1
  <2> HIDE DEF t
  <2> QED BY <2>1, <2>2, <2>3, <1>3 DEF Tables
<1> QED BY <1>1, <1>2, <1>4, <1>5, <1>6, <1>7

\* Steps that end the run with nothing recorded.
LEMMA EndStep ==
  ASSUME RoundsAssumption, RoundInv, Superseded \/ Crash
  PROVE  RoundInv'
<1> USE DEF RoundInv
<1>1. run' = Idle /\ UNCHANGED <<head, touched, github, ledger, books>>
  BY DEF Superseded, Crash
<1>2. Tables' BY <1>1 DEF Tables, github, ledger, books
<1>3. run'.pc = "idle" BY <1>1, IdleShape
<1>4. \/ want' = want /\ run.sha # head
      \/ want' = want \cup {run.kind}
  BY DEF Superseded, Obsolete, Crash
<1>5. OnRecord'
  BY <1>1, <1>3, <1>4 DEF OnRecord, Upheld, Working, github, books
<1> QED BY <1>1, <1>2, <1>5, NoRunLeft
-----------------------------------------------------------------------------
(* The lanes and the thread lane.                                          *)

\* What the finders may leave is of a legal severity, and raises a settled
\* issue again only where its lines changed.
LEMMA FoundSound ==
  ASSUME RoundsAssumption, NEW found \in Found, NEW f \in found.new
  PROVE  FromChange(f, run.issues, run.sha)
<1>1. ASSUME NEW t \in Titles, NEW target \in Hashes, NEW s \in Sevs, found = Rules(t, target, s)
      PROVE  FromChange(f, run.issues, run.sha)
  <2>1. \E title, reopens, revives :
          /\ f = Finding(title, s, reopens, revives)
          /\ revives # None =>
               revives = target /\ ClosedChanged(touched, target, run.issues[target], run.sha)
    <3> DEFINE row == run.issues[target]
               kind == IF Known(row) THEN IssueKind(row) ELSE "new"
               changed == ClosedChanged(touched, target, row, run.sha)
    <3>1. found.new = CASE kind = "open" -> {}
                        [] kind = "settled" -> IF changed THEN {Finding(t, s, TRUE, target)} ELSE {}
                        [] kind = "fixed" ->
                             {Finding(IF t = target THEN Retitle[t] ELSE t, s, TRUE, None)}
                        [] OTHER -> {Finding(t, s, FALSE, None)}
      BY <1>1, Zenon DEF Rules
    <3> HIDE DEF kind, changed
    <3>2. \/ changed /\ f = Finding(t, s, TRUE, target)
          \/ f = Finding(IF t = target THEN Retitle[t] ELSE t, s, TRUE, None)
          \/ f = Finding(t, s, FALSE, None)
      BY <3>1
    <3> QED BY <3>2 DEF changed
  <2> QED BY <2>1, <1>1 DEF FromChange, Finding, RoundsAssumption
<1>2. CASE found = NothingFound BY <1>2 DEF NothingFound
<1>3. Titles \subseteq Hashes BY DEF RoundsAssumption
<1> QED BY <1>1, <1>2, <1>3 DEF Found, KnownIssues

LEMMA LanesStep ==
  ASSUME RoundsAssumption, RoundInv, Judge \/ ThreadLaneFails \/ JudgeDegraded
  PROVE  RoundInv'
<1>1. UNCHANGED <<head, touched, github, ledger, books, want>> /\ run.pc = "lanes"
  BY DEF Judge, ThreadLaneFails, JudgeDegraded
<1>2. PICK found \in Found \cup {NothingFound} :
        \E outs, failed, degraded : Lanes12(found, outs, failed, degraded)
  BY DEF Judge, ThreadLaneFails, JudgeDegraded
<1>3. \A f \in found.new : FromChange(f, run.issues, run.sha)
  BY FoundSound DEF NothingFound
<1>4. But({"pc", "outs", "todo", "new", "corr", "ups", "degraded", "failed", "weak"})
      /\ run'.pc = "answer" /\ run'.new \subseteq found.new
  <2>1. PICK outs, failed, degraded : Lanes12(found, outs, failed, degraded)
    BY <1>2
  <2> DEFINE refolds == Refolds(found.new, outs)
             contested == {h \in found.corr : Conceded(outs, h)}
             conceded == {f \in refolds : \E h \in RefoldsOnto(f) : Conceded(outs, h)}
             restated == {h \in DOMAIN outs : outs[h].word \in {"FIXED", "OUTDATED"} /\ h \in found.corr}
             todo == DOMAIN outs \ restated
             new == found.new \ refolds
             ups == found.ups \ contested
             weak == contested # {} \/ conceded # {}
  <2>2. run' = [run EXCEPT !.pc = "answer", !.outs = outs, !.todo = todo, !.new = new,
                  !.corr = found.corr, !.ups = ups, !.degraded = degraded, !.failed = failed,
                  !.weak = weak]
    BY <2>1, Zenon DEF Lanes12
  <2>3. new \subseteq found.new OBVIOUS
  <2>4. DOMAIN run = RunFields BY DEF RoundInv, Job
  <2> HIDE DEF refolds, contested, conceded, restated, todo, new, ups, weak
  <2>5. run'.new = new /\ run'.pc = "answer" BY <2>2, <2>4 DEF RunFields
  <2> QED BY <2>2, <2>3, <2>4, <2>5 DEF But, RunFields
<1> USE DEF RoundInv
<1>5. /\ run'.pc = "answer" /\ run'.kind = run.kind /\ run'.sha = run.sha
      /\ run'.issues = run.issues /\ run'.recon = run.recon /\ run'.did = run.did
      /\ run'.kept = run.kept /\ run'.folds = run.folds /\ run'.keepsApproval = run.keepsApproval
      /\ run'.new \subseteq found.new /\ DOMAIN run' = RunFields
  BY <1>4 DEF But, RunFields
<1>6. Tables' BY <1>1 DEF Tables, github, ledger, books
<1>7. Job' BY <1>1, <1>5 DEF Job, Working, ledger
<1>8. Findings' BY <1>1, <1>3, <1>5 DEF Findings, Working, FromChange
<1>9. Untouched' BY <1>1, <1>5 DEF Untouched, Working, ledger
<1>10. InHand' BY <1>1, <1>5 DEF InHand, Working
<1>11. OnRecord' BY <1>1, <1>5 DEF OnRecord, Upheld, Working, github, books
<1> QED BY <1>6, <1>7, <1>8, <1>9, <1>10, <1>11

LEMMA AnswerStep ==
  ASSUME RoundInv, NEW h \in Hashes, Answer(h)
  PROVE  RoundInv'
<1> USE DEF RoundInv
<1>1. UNCHANGED <<head, touched, shown, says, ledger, books, want>> /\ run.pc = "answer"
  BY DEF Answer
<1>2. Done(h, Delivery(h))
  BY DEF Answer, AnswerQuietly, AnswerOnThread
<1>3. But({"todo", "did"})
  BY <1>2 DEF Done, But, Job, RunFields
<1>5. /\ run'.pc = run.pc /\ run'.kind = run.kind /\ run'.sha = run.sha
      /\ run'.issues = run.issues /\ run'.recon = run.recon /\ run'.new = run.new
      /\ run'.kept = run.kept /\ run'.folds = run.folds /\ run'.keepsApproval = run.keepsApproval
      /\ DOMAIN run' = RunFields
  BY <1>3 DEF But, RunFields
<1>6. /\ DOMAIN threads' = Hashes
      /\ \A g \in Hashes : DOMAIN threads'[g] = ThreadFields /\ threads'[g].on = threads[g].on
                           /\ threads'[g].sev = threads[g].sev
  <2>1. CASE AnswerQuietly(h) BY <2>1 DEF AnswerQuietly, Tables
  <2>2. ASSUME NEW resolved \in BOOLEAN, AnswerOnThread(h, resolved)
        PROVE  /\ DOMAIN threads' = Hashes
               /\ \A g \in Hashes : DOMAIN threads'[g] = ThreadFields /\ threads'[g].on = threads[g].on
                                    /\ threads'[g].sev = threads[g].sev
    <3> DEFINE word == run.outs[h].word
               t == [threads[h] EXCEPT !.said = threads[h].said \cup {word}, !.last = word,
                                       !.waits = FALSE,
                                       !.open = threads[h].open /\ ~(word \in Retiring /\ resolved)]
    <3>1. threads' = [threads EXCEPT ![h] = t]
      BY <2>2 DEF AnswerOnThread
    <3>2. DOMAIN t = ThreadFields /\ t.on = threads[h].on /\ t.sev = threads[h].sev
      BY DEF Tables, ThreadFields
    <3> HIDE DEF t
    <3> QED BY <3>1, <3>2 DEF Tables
  <2> QED BY <2>1, <2>2 DEF Answer
<1>7. Tables' BY <1>1, <1>6 DEF Tables, ledger, books
<1>8. Job' BY <1>1, <1>5 DEF Job, Working, ledger
<1>9. Findings' BY <1>1, <1>5 DEF Findings, Working, FromChange
<1>10. Untouched' BY <1>1, <1>5 DEF Untouched, Job, Working, ledger
<1>11. InHand' BY <1>1, <1>5 DEF InHand, Working
<1>12. OnRecord' BY <1>1, <1>5 DEF OnRecord, Upheld, Working, books
<1> QED BY <1>7, <1>8, <1>9, <1>10, <1>11, <1>12
-----------------------------------------------------------------------------
(* The context step and the operator's reconcile: the ledger is brought in *)
(* line with the threads, and no settled row moves.                        *)

LEMMA SyncedRow ==
  ASSUME NEW row \in Sound, NEW t, t.on => t.sev \in Severities, NEW sha \in Nat \ {0}
  PROVE  LET new == ApplyIf(row, SyncEvent(row, t, sha))
         IN  new \in Sound /\ (row.status \in MatchSettled => new = row)
<1> DEFINE events_ == SyncEvent(row, t, sha)
<1>1. \/ events_ = {}
      \/ t.on /\ events_ = {Thread(sha, t.sev)}
      \/ events_ = {Thread(sha, "resolved")}
  BY Zenon DEF SyncEvent
<1>2. \A e : (CHOOSE x \in {e} : TRUE) = e OBVIOUS
<1>3. ASSUME NEW what \in Severities \cup {"resolved"}, events_ = {Thread(sha, what)}
      PROVE  ApplyIf(row, events_) = Apply(row, Thread(sha, what))
  BY <1>2, <1>3 DEF ApplyIf
<1>4. events_ = {} => ApplyIf(row, events_) = row
  BY DEF ApplyIf
<1> HIDE DEF events_
<1> QED BY <1>1, <1>3, <1>4, ThreadRow DEF events_

LEMMA ReconciledRows ==
  ASSUME RoundsAssumption, Tables,
         NEW rows \in {Synced(head), Reconciled(Synced(head), head)}
  PROVE  /\ rows \in [Hashes -> Sound]
         /\ \A h \in Hashes : issues[h].status \in MatchSettled => rows[h] = issues[h]
<1> DEFINE synced == Synced(head)
<1>1. head \in Nat \ {0} BY DEF Tables, Commits, RoundsAssumption
<1>2. synced \in [Hashes -> Sound]
      /\ \A h \in Hashes : issues[h].status \in MatchSettled => synced[h] = issues[h]
  BY <1>1, SyncedRow DEF Synced, Tables
<1>3. "outdated" \in Statuses BY DEF Statuses
<1>4. ASSUME NEW h \in Hashes
      PROVE  LET row == Reconciled(synced, head)[h]
             IN  row \in Sound /\ (synced[h].status \in MatchSettled => row = synced[h])
  <2> HIDE DEF synced
  <2>1. synced[h] \in Sound BY <1>2
  <2>2. Reconciled(synced, head)[h] =
          IF Vanished(touched, h, synced[h], head, OpenThreads)
          THEN Apply(synced[h], Status(head, "outdated")) ELSE synced[h]
    BY DEF Reconciled
  <2>3. Vanished(touched, h, synced[h], head, OpenThreads) => synced[h].status \notin MatchSettled
    BY DEF Vanished, Counts, Counting, Standing, MatchSettled
  <2> QED BY <1>1, <1>3, <2>1, <2>2, <2>3, StatusRow
<1>5. DOMAIN Reconciled(synced, head) = Hashes
      /\ Reconciled(synced, head) = [h \in Hashes |-> Reconciled(synced, head)[h]]
  BY DEF Reconciled
<1> HIDE DEF synced
<1>6. Reconciled(synced, head) \in [Hashes -> Sound] BY <1>4, <1>5
<1>7. \A h \in Hashes : issues[h].status \in MatchSettled => Reconciled(synced, head)[h] = issues[h]
  BY <1>2, <1>4
<1> QED BY <1>2, <1>6, <1>7 DEF synced

LEMMA ContextStep ==
  ASSUME RoundsAssumption, RoundInv, NEW kind \in {"full", "talk"}, Context(kind)
  PROVE  RoundInv' /\ \A h \in Hashes : issues[h].status \in MatchSettled => issues'[h] = issues[h]
<1>1. /\ UNCHANGED <<head, touched, github, books>> /\ run.pc = "idle"
      /\ want' = want \ {kind} /\ kind = (IF "full" \in want THEN "full" ELSE "talk")
  BY DEF Context
<1> DEFINE rows == IF ~recon.done THEN Reconciled(Synced(head), head) ELSE Synced(head)
           record == IF ~recon.done THEN [done |-> TRUE, pending |-> StillCounting(rows)] ELSE recon
           open == OpenThreads
           waits == {h \in OpenThreads : threads[h].waits}
           reply == [h \in OpenThreads |-> threads[h].reply]
           todo == Work(kind, rows, record.pending, head)
<1>2. issues' = rows /\ recon' = record
      /\ run' = [Idle EXCEPT !.pc = "lanes", !.kind = kind, !.sha = head,
                   !.issues = rows, !.recon = record, !.open = open, !.waits = waits,
                   !.reply = reply, !.todo = todo]
  BY Zenon DEF Context
<1>3. Tables BY DEF RoundInv
<1>4. rows \in [Hashes -> Sound]
      /\ \A h \in Hashes : issues[h].status \in MatchSettled => rows[h] = issues[h]
  BY <1>3, ReconciledRows
<1>5. record \in [done : BOOLEAN, pending : SUBSET Hashes] /\ record.done
  <2> HIDE DEF rows
  <2>1. StillCounting(rows) \subseteq Hashes BY DEF StillCounting
  <2> QED BY <1>3, <2>1 DEF Tables
<1> HIDE DEF rows, record, open, waits, reply, todo
<1>6. /\ run'.pc = "lanes" /\ run'.kind = kind /\ run'.sha = head /\ run'.issues = rows
      /\ run'.recon = record /\ DOMAIN run' = RunFields /\ run'.new = {} /\ run'.kept = {}
      /\ run'.folds = {} /\ run'.keepsApproval = FALSE
  BY <1>2, IdleShape DEF RunFields
<1>7. Tables' BY <1>1, <1>2, <1>3, <1>4, <1>5 DEF Tables, github, books
<1>8. Job'
  <2>1. head \in 1..head /\ \A h \in Hashes : rows[h] \in Sound
    BY <1>3, <1>4 DEF Tables, Commits, RoundsAssumption
  <2> QED BY <1>1, <1>2, <1>5, <1>6, <2>1 DEF Job, Working
<1>9. Findings' BY <1>6 DEF Findings, Working
<1>10. Untouched' BY <1>2, <1>6 DEF Untouched, Working
<1>11. InHand' BY <1>6 DEF InHand, Working
<1>12. OnRecord'
  BY <1>1, <1>6 DEF RoundInv, OnRecord, Upheld, Working, github, books
<1> QED BY <1>2, <1>4, <1>7, <1>8, <1>9, <1>10, <1>11, <1>12 DEF RoundInv

LEMMA OperatorStep ==
  ASSUME RoundsAssumption, RoundInv, OperatorReconcile
  PROVE  RoundInv' /\ \A h \in Hashes : issues[h].status \in MatchSettled => issues'[h] = issues[h]
<1>1. UNCHANGED <<head, touched, github, books, want, run>> /\ run.pc = "idle"
  BY DEF OperatorReconcile
<1> DEFINE rows == Reconciled(Synced(head), head)
<1>2. issues' = rows /\ recon' = [done |-> TRUE, pending |-> StillCounting(rows)]
  BY DEF OperatorReconcile
<1>3. Tables BY DEF RoundInv
<1>4. rows \in [Hashes -> Sound]
      /\ \A h \in Hashes : issues[h].status \in MatchSettled => rows[h] = issues[h]
  BY <1>3, ReconciledRows
<1> HIDE DEF rows
<1>5. StillCounting(rows) \subseteq Hashes BY DEF StillCounting
<1>6. Tables' BY <1>1, <1>2, <1>3, <1>4, <1>5 DEF Tables, github, books
<1>7. (Job /\ Findings /\ Untouched /\ InHand)'
  BY <1>1 DEF RoundInv, Job, Findings, Untouched, InHand, Working
<1>8. OnRecord' BY <1>1 DEF RoundInv, OnRecord, Upheld, Working, github, books
<1> QED BY <1>2, <1>4, <1>6, <1>7, <1>8 DEF RoundInv
-----------------------------------------------------------------------------
(* Booking the outcomes, and the verdict taken from the ledger.            *)

LEMMA ShaInNat ==
  ASSUME RoundsAssumption, Tables, Job, Working
  PROVE  run.sha \in Nat \ {0} /\ run.sha \in Commits
BY DEF Tables, Job, Commits, RoundsAssumption

\* The rows a decision leaves: a status moves only by the thread lane's outcome.
Moved(h, new) ==
  /\ new \in Sound
  /\ new.status = issues[h].status
     \/ (h \in DOMAIN run.did /\ new.status = OutcomeStatus(run.did[h].word))
  /\ h \notin DOMAIN run.did => SameStatus(issues[h], new)

LEMMA BookedRow ==
  ASSUME RoundsAssumption, Tables, Job, Working, NEW lost, NEW h \in Hashes
  PROVE  Moved(h, Booked(lost)[h])
<1>1. run.sha \in Nat \ {0} BY ShaInNat
<1>2. issues[h] \in Sound BY DEF Tables
<1> DEFINE row == WithOutcome(issues[h], h)
<1>3. Moved(h, issues[h]) BY <1>2 DEF Moved, SameStatus
<1>4. Moved(h, row)
  <2>1. CASE h \in Delivered
    <3>1. row = Apply(issues[h], Outcome(run.sha, run.did[h].word)) BY <2>1 DEF WithOutcome
    <3>2. h \in DOMAIN run.did BY <2>1 DEF Delivered
    <3> QED BY <1>1, <1>2, <3>1, <3>2, OutcomeRow DEF Moved
  <2>2. CASE h \notin Delivered BY <1>3, <2>2 DEF WithOutcome
  <2> QED BY <2>1, <2>2
<1>5. Moved(h, Apply(row, Seen(run.sha)))
  <2> HIDE DEF row
  <2>1. row \in Sound BY <1>4 DEF Moved
  <2> QED BY <1>1, <1>4, <2>1, SeenRow DEF Moved, SameStatus
<1>6. Booked(lost)[h] \in {issues[h], row, Apply(row, Seen(run.sha))}
  BY DEF Booked, WithSeen
<1> HIDE DEF row
<1> QED BY <1>3, <1>4, <1>5, <1>6, Zenon

\* A severity raised, or an affirmation, moves no status.
LEMMA SeenMoved ==
  ASSUME RoundsAssumption, Tables, Job, Working, NEW h \in Hashes, NEW row, Moved(h, row),
         NEW b \in BOOLEAN
  PROVE  /\ Moved(h, WithSeen(row, b)) /\ WithSeen(row, b).status = row.status
         /\ WithSeen(row, b).sev = row.sev /\ Moved(h, WithUpgrade(row, b))
<1>1. run.sha \in Nat \ {0} BY ShaInNat
<1>2. row \in Sound BY DEF Moved
<1>3. CASE ~b BY <1>3 DEF WithSeen, WithUpgrade
<1>4. CASE b
  <2>1. WithSeen(row, b) = Apply(row, Seen(run.sha)) BY <1>4 DEF WithSeen
  <2>2. WithUpgrade(row, b) = Apply(row, Severity(run.sha, "blocking")) BY <1>4 DEF WithUpgrade
  <2>3. "blocking" \in Severities BY DEF Severities
  <2>4. Moved(h, WithSeen(row, b)) /\ WithSeen(row, b).status = row.status
        /\ WithSeen(row, b).sev = row.sev
    BY <1>1, <1>2, <2>1, SeenRow DEF Moved, SameStatus
  <2>5. Moved(h, WithUpgrade(row, b))
    BY <1>1, <1>2, <2>2, <2>3, SeverityRow DEF Moved, SameStatus
  <2> QED BY <2>4, <2>5
<1> QED BY <1>3, <1>4

\* What counts is weighed, unless it waits for a first judgement no open
\* thread shows and the lane did not give.
LEMMA CountsIsWeighed ==
  ASSUME Job, run.pc = "answer", NEW rows, NEW h \in Hashes, Counts(rows[h]),
         h \in run.open \/ h \notin recon.pending \ DOMAIN run.outs
  PROVE  h \in StandIn(rows)
<1>1. run.recon = recon /\ recon.done BY DEF Job, Working
<1>2. h \in run.open \/ ~Doubtful(h) BY <1>1 DEF Doubtful
<1> QED BY <1>2 DEF StandIn, Stands

\* An APPROVE is taken over nothing above a nitpick.
LEMMA ApproveWeighs ==
  ASSUME NEW rows \in [Hashes -> Sound], NEW h \in Hashes, Counts(rows[h]), h \in StandIn(rows),
         NEW new, ~Blocking(rows, StandIn(rows), new), ~Suggested(rows, StandIn(rows), new)
  PROVE  rows[h].sev = "nitpick"
<1>1. rows[h].sev \in Severities
  BY DEF Sound, Counts, Known, Counting, Standing
<1> QED BY <1>1 DEF Blocking, Suggested, Severities

LEMMA DecideStep ==
  ASSUME RoundsAssumption, RoundInv, Decide
  PROVE  RoundInv' /\ \A h \in Hashes : Moved(h, issues'[h])
<1> USE DEF RoundInv
<1>1. UNCHANGED <<head, touched, github, rec, want>> /\ run.pc = "answer" /\ run.kind = "full"
  BY DEF Decide
<1>w. Working BY <1>1 DEF Working
<1>2. PICK lost :
        LET upgraded == [h \in Hashes |->
              WithUpgrade(Booked(lost)[h], h \in run.ups /\ "severity" \notin lost)]
            stand == StandIn(upgraded)
        IN  /\ issues' = [h \in Hashes |->
                 WithSeen(upgraded[h], h \in run.corr /\ "seen" \notin lost)]
            /\ recon' = IF "outcomes" \in lost THEN recon
                        ELSE [recon EXCEPT !.pending = @ \ DOMAIN run.outs]
            /\ run' = [run EXCEPT !.pc = "post", !.lifted = Lifted,
                 !.verdict = Verdict(Blocking(upgraded, stand, run.new),
                                     Suggested(upgraded, stand, run.new),
                                     ~run.degraded /\ ~run.failed /\ ~run.weak)]
  BY Zenon DEF Decide
<1> DEFINE upgraded == [h \in Hashes |->
              WithUpgrade(Booked(lost)[h], h \in run.ups /\ "severity" \notin lost)]
           stand == StandIn(upgraded)
           blocked == Blocking(upgraded, stand, run.new)
           suggested == Suggested(upgraded, stand, run.new)
           strong == ~run.degraded /\ ~run.failed /\ ~run.weak
           verdict == Verdict(blocked, suggested, strong)
<1>3. ASSUME NEW h \in Hashes PROVE Moved(h, upgraded[h])
  <2> DEFINE up == h \in run.ups /\ "severity" \notin lost
  <2>1. upgraded[h] = WithUpgrade(Booked(lost)[h], up) /\ up \in BOOLEAN OBVIOUS
  <2>2. Moved(h, Booked(lost)[h]) BY <1>w, BookedRow
  <2> HIDE DEF upgraded, up
  <2> QED BY <1>w, <2>1, <2>2, SeenMoved
<1>4. ASSUME NEW h \in Hashes
      PROVE  Moved(h, issues'[h]) /\ issues'[h].status = upgraded[h].status
             /\ issues'[h].sev = upgraded[h].sev
  <2> DEFINE seen == h \in run.corr /\ "seen" \notin lost
  <2>1. issues'[h] = WithSeen(upgraded[h], seen) /\ seen \in BOOLEAN
    BY <1>2
  <2>2. Moved(h, upgraded[h]) BY <1>3
  <2> HIDE DEF upgraded, seen
  <2> QED BY <1>w, <2>1, <2>2, SeenMoved
<1>5. DOMAIN issues' = Hashes /\ issues' = [h \in Hashes |-> issues'[h]] BY <1>2
<1>6. run' = [run EXCEPT !.pc = "post", !.lifted = Lifted, !.verdict = verdict]
  BY <1>2, Zenon
<1>7. /\ recon' \in [done : BOOLEAN, pending : SUBSET Hashes]
      /\ recon'.pending = recon.pending \/ recon'.pending = recon.pending \ DOMAIN run.outs
  BY <1>2 DEF Tables
<1>8. verdict \in Events \ {None}
      /\ (verdict = "APPROVE" => ~blocked /\ ~suggested)
  <2> HIDE DEF blocked, suggested, strong
  <2> QED BY DEF Verdict, Events, None
<1>9. upgraded \in [Hashes -> Sound] BY <1>3 DEF Moved
<1> HIDE DEF verdict, upgraded
<1>10. /\ run'.pc = "post" /\ run'.verdict = verdict /\ run'.kind = run.kind /\ run'.sha = run.sha
       /\ run'.issues = run.issues /\ run'.recon = run.recon /\ run'.did = run.did
       /\ run'.kept = run.kept /\ run'.folds = run.folds /\ run'.keepsApproval = run.keepsApproval
       /\ run'.new = run.new /\ run'.open = run.open /\ DOMAIN run' = RunFields
  BY <1>6 DEF Job, RunFields
<1>11. issues' \in [Hashes -> Sound] BY <1>4, <1>5 DEF Moved
<1>12. Tables' BY <1>1, <1>7, <1>11 DEF Tables, github
<1>13. Job' BY <1>1, <1>10, <1>w DEF Job, Working
<1>14. Findings' BY <1>1, <1>10, <1>w DEF Findings, Working, FromChange
<1>15. Untouched'
  <2> SUFFICES ASSUME NEW h \in Hashes \ DOMAIN run.did, issues'[h].status \in MatchSettled
               PROVE  run.issues[h].closed = issues'[h].closed /\ run.issues[h].anchor = issues'[h].anchor
    BY <1>10 DEF Untouched
  <2>1. SameStatus(issues[h], issues'[h]) BY <1>4 DEF Moved
  <2>2. run.issues = issues BY <1>1, <1>w DEF Job
  <2> QED BY <2>1, <2>2 DEF SameStatus
<1>16. InHand'
  <2>1. ASSUME verdict = "APPROVE" PROVE Clear' /\ \A f \in run.new : f.sev = "nitpick"
    <3>1. ~blocked /\ ~suggested BY <1>8, <2>1
    <3>2. \A f \in run.new : f.sev \in Severities BY <1>w DEF Findings, FromChange
    <3>3. \A f \in run.new : f.sev = "nitpick"
      BY <3>1, <3>2 DEF Blocking, Suggested, Severities
    <3>4. ASSUME NEW h \in Hashes, Counts(issues'[h]), ~Unjudged(h)' PROVE issues'[h].sev = "nitpick"
      <4>1. h \in run.open \/ h \notin recon.pending \ DOMAIN run.outs
        BY <1>7, <1>10, <3>4 DEF Unjudged
      <4>2. Counts(upgraded[h]) BY <1>4, <3>4 DEF Counts
      <4>3. h \in stand BY <1>1, <4>1, <4>2, CountsIsWeighed
      <4>4. upgraded[h].sev = "nitpick" BY <1>9, <3>1, <4>2, <4>3, ApproveWeighs
      <4> QED BY <1>4, <4>4
    <3> QED BY <3>3, <3>4 DEF Clear
  <2>2. ~run'.keepsApproval BY <1>1, <1>10, <1>w DEF InHand
  <2> QED BY <1>1, <1>8, <1>10, <2>1, <2>2 DEF InHand
<1>17. OnRecord' BY <1>1, <1>10, <1>w DEF OnRecord, Upheld, Working, github
<1> QED BY <1>4, <1>12, <1>13, <1>14, <1>15, <1>16, <1>17
-----------------------------------------------------------------------------
(* Publishing a full review.                                               *)

\* A verdict is shown as the review state it is.
LEMMA VerdictState ==
  ASSUME NEW verdict \in Events \ {None}
  PROVE  /\ EventState(verdict) \in States \ {None, "DISMISSED"}
         /\ EventState(verdict) = "APPROVED" <=> verdict = "APPROVE"
BY DEF EventState, Events, States, None

\* The comments of a set of findings keep every thread a thread.
LEMMA CommentsOk ==
  ASSUME Tables, Findings, Working, Comments
  PROVE  /\ DOMAIN threads' = Hashes
         /\ \A h \in Hashes : /\ DOMAIN threads'[h] = ThreadFields
                              /\ threads'[h].on => threads'[h].sev \in Severities
<1>1. DOMAIN threads' = Hashes BY DEF Comments
<1> SUFFICES ASSUME NEW h \in Hashes
             PROVE  /\ DOMAIN threads'[h] = ThreadFields
                    /\ threads'[h].on => threads'[h].sev \in Severities
  BY <1>1
<1>2. CASE \E f \in Kept : f.hash = h
  <2> DEFINE f == CHOOSE f \in Kept : f.hash = h
  <2>1. f \in Kept BY <1>2
  <2>2. threads'[h] = NewThread(f.sev) BY <1>2 DEF Comments
  <2>3. f.sev \in Severities BY <2>1 DEF Kept, Findings, FromChange
  <2> HIDE DEF f
  <2>4. DOMAIN NewThread(f.sev) = ThreadFields /\ NewThread(f.sev).sev = f.sev
    BY DEF NewThread, NoThread, ThreadFields
  <2> QED BY <2>2, <2>3, <2>4
<1>3. CASE ~\E f \in Kept : f.hash = h
  <2> DEFINE t == [threads[h] EXCEPT !.waits =
                     threads[h].waits /\ ~(\E s \in Folded : s.onto = h /\ ~threads[h].open)]
  <2>1. threads'[h] = t BY <1>3 DEF Comments
  <2>2. DOMAIN t = ThreadFields /\ t.on = threads[h].on /\ t.sev = threads[h].sev
    BY DEF Tables, ThreadFields
  <2> HIDE DEF t
  <2> QED BY <2>1, <2>2 DEF Tables
<1> QED BY <1>2, <1>3

\* The verdict the worker has in hand goes up, as a review or a follow-up.
LEMMA VerdictGoesUp ==
  ASSUME RoundsAssumption, RoundInv, Working, NEW verdict \in Events \ {None},
         shown' = [shown EXCEPT ![run.sha] = EventState(verdict)],
         says' = [says EXCEPT ![run.sha] = EventState(verdict)]
  PROVE  /\ shown' \in [Commits -> States] /\ says' \in [Commits -> States]
         /\ \A c \in Commits : shown'[c] \in {"APPROVED", "CHANGES_REQUESTED", "DISMISSED"} =>
              says'[c] = shown'[c]
         /\ verdict = "APPROVE" => says'[run.sha] = "APPROVED"
         /\ \A c \in Commits : c # run.sha => says'[c] = says[c]
         /\ \A c \in Commits : says'[c] = "APPROVED" /\ says[c] # "APPROVED" => verdict = "APPROVE"
<1>1. run.sha \in Commits BY ShaInNat DEF RoundInv
<1>2. EventState(verdict) \in States /\ (EventState(verdict) = "APPROVED" <=> verdict = "APPROVE")
  BY VerdictState
<1>3. shown \in [Commits -> States] /\ says \in [Commits -> States] BY DEF RoundInv, Tables
<1>4. \A c \in Commits : shown[c] \in {"APPROVED", "CHANGES_REQUESTED", "DISMISSED"} => says[c] = shown[c]
  BY DEF RoundInv, OnRecord
<1> QED BY <1>1, <1>2, <1>3, <1>4

LEMMA ReviewStep ==
  ASSUME RoundsAssumption, RoundInv, FirstReview \/ MoveVerdict
  PROVE  RoundInv'
<1>1. /\ UNCHANGED <<head, touched, ledger, books, want>> /\ run.pc \in {"post", "update"}
      /\ run.kind = "full"
      /\ shown' = [shown EXCEPT ![run.sha] = EventState(run.verdict)]
      /\ says' = [says EXCEPT ![run.sha] = EventState(run.verdict)]
      /\ Comments \/ threads' = threads
  BY DEF FirstReview, MoveVerdict, FollowUp
<1>w. Working BY <1>1 DEF Working
<1>2. run.verdict \in Events \ {None} /\ ~run.keepsApproval BY <1>1, <1>w DEF RoundInv, InHand
<1> DEFINE Posting(kept, folds, new) ==
             /\ run'.pc = "record" /\ run'.verdict = run.verdict /\ run'.kind = run.kind
             /\ run'.sha = run.sha /\ run'.issues = run.issues /\ run'.did = run.did
             /\ run'.keepsApproval = run.keepsApproval /\ DOMAIN run' = RunFields
             /\ run'.kept = kept /\ run'.folds = folds /\ run'.new = new
<1>d. DOMAIN run = RunFields BY DEF RoundInv, Job
<1>3. Posting(Kept, Folded, run.new) \/ Posting({}, {}, {})
  <2>1. CASE FirstReview
    <3>1. run' = [run EXCEPT !.pc = "record", !.kept = Kept, !.folds = Folded]
      BY <2>1 DEF FirstReview
    <3> QED BY <1>d, <3>1 DEF RunFields
  <2>2. CASE MoveVerdict
    <3>1. run' = [run EXCEPT !.pc = "record", !.kept = {}, !.folds = {}, !.corr = {}, !.new = {}]
      BY <2>2 DEF MoveVerdict
    <3> QED BY <1>d, <3>1 DEF RunFields
  <2> QED BY <2>1, <2>2
<1>k. Kept \subseteq run.new /\ \A s \in Folded : s.finding \in run.new BY DEF Kept, Folded
<1>4. /\ run'.pc = "record" /\ run'.verdict = run.verdict /\ run'.kind = run.kind
      /\ run'.sha = run.sha /\ run'.issues = run.issues /\ run'.did = run.did
      /\ run'.keepsApproval = run.keepsApproval /\ DOMAIN run' = RunFields
      /\ run'.new \subseteq run.new /\ run'.kept \subseteq run'.new
      /\ \A s \in run'.folds : s.finding \in run'.new
  BY <1>3, <1>k
<1>5. Tables'
  <2>1. Tables /\ Findings BY DEF RoundInv
  <2>2. /\ DOMAIN threads' = Hashes
        /\ \A h \in Hashes : /\ DOMAIN threads'[h] = ThreadFields
                             /\ threads'[h].on => threads'[h].sev \in Severities
    BY <1>1, <1>w, <2>1, CommentsOk DEF Tables
  <2>3. shown' \in [Commits -> States] /\ says' \in [Commits -> States]
    BY <1>1, <1>2, <1>w, VerdictGoesUp
  <2> QED BY <1>1, <2>1, <2>2, <2>3 DEF Tables, ledger, books
<1>6. Job' BY <1>1, <1>4, <1>w DEF RoundInv, Job, Working
<1>7. Findings' BY <1>1, <1>4, <1>w DEF RoundInv, Findings, Working, FromChange
<1>8. Untouched' BY <1>1, <1>4, <1>w DEF RoundInv, Untouched, Working, ledger
<1>9. InHand' BY <1>1, <1>2, <1>4 DEF RoundInv, InHand, Working
<1>10. OnRecord'
  <2>1. \A c \in Commits : shown'[c] \in {"APPROVED", "CHANGES_REQUESTED", "DISMISSED"} =>
          says'[c] = shown'[c]
    BY <1>1, <1>2, <1>w, VerdictGoesUp
  <2>2. run.verdict = "APPROVE" => says'[run.sha] = "APPROVED"
    BY <1>1, <1>2, <1>w, VerdictGoesUp
  <2>3. head \in Commits /\ (head # run.sha => says'[head] = says[head])
    <3>1. head \in Commits BY DEF RoundInv, Tables
    <3> QED BY <1>1, <1>2, <1>w, <3>1, VerdictGoesUp
  <2> QED BY <1>1, <1>2, <1>4, <1>w, <2>1, <2>2, <2>3 DEF RoundInv, OnRecord, Upheld, Working, books
<1> QED BY <1>5, <1>6, <1>7, <1>8, <1>9, <1>10 DEF RoundInv

LEMMA SummariseStep ==
  ASSUME RoundsAssumption, RoundInv, Summarise
  PROVE  RoundInv'
<1>1. /\ UNCHANGED <<head, touched, says, ledger, books, want>> /\ run.pc = "update"
      /\ run.kind = "full" /\ Comments /\ (~Moves \/ KeepsApproval)
      /\ shown' = [shown EXCEPT ![run.sha] = "COMMENTED"]
      /\ run' = [run EXCEPT !.pc = "record", !.kept = Kept, !.folds = Folded,
                            !.keepsApproval = Moves /\ KeepsApproval]
  BY DEF Summarise
<1>w. Working BY <1>1 DEF Working
<1>2. run.verdict \in Events \ {None} BY <1>1, <1>w DEF RoundInv, InHand
<1> DEFINE keeps == Moves /\ KeepsApproval
<1>3. run' = [run EXCEPT !.pc = "record", !.kept = Kept, !.folds = Folded, !.keepsApproval = keeps]
  BY <1>1
<1> HIDE DEF keeps
<1>4. /\ run'.pc = "record" /\ run'.verdict = run.verdict /\ run'.kind = run.kind
      /\ run'.sha = run.sha /\ run'.issues = run.issues /\ run'.did = run.did
      /\ run'.kept = Kept /\ run'.folds = Folded /\ run'.keepsApproval = keeps
      /\ run'.new = run.new /\ DOMAIN run' = RunFields
  BY <1>3 DEF RoundInv, Job, RunFields
<1>5. run.sha \in Commits BY <1>w, ShaInNat DEF RoundInv
<1>6. Tables'
  <2>1. Tables /\ Findings BY DEF RoundInv
  <2>2. /\ DOMAIN threads' = Hashes
        /\ \A h \in Hashes : /\ DOMAIN threads'[h] = ThreadFields
                             /\ threads'[h].on => threads'[h].sev \in Severities
    BY <1>1, <1>w, <2>1, CommentsOk
  <2>3. shown' \in [Commits -> States] BY <1>1, <2>1 DEF Tables, States
  <2> QED BY <1>1, <2>1, <2>2, <2>3 DEF Tables, ledger, books
<1>7. Job' BY <1>1, <1>4, <1>w DEF RoundInv, Job, Working
<1>8. Findings'
  <2>1. Kept \subseteq run.new /\ \A s \in Folded : s.finding \in run.new BY DEF Kept, Folded
  <2> QED BY <1>1, <1>4, <1>w, <2>1 DEF RoundInv, Findings, Working, FromChange
<1>9. Untouched' BY <1>1, <1>4, <1>w DEF RoundInv, Untouched, Working, ledger
<1>10. InHand' BY <1>1, <1>2, <1>4 DEF RoundInv, InHand, Working
<1>11. OnRecord'
  <2>1. \A c \in Commits : shown'[c] \in {"APPROVED", "CHANGES_REQUESTED", "DISMISSED"} =>
          says'[c] = shown'[c]
    BY <1>1, <1>5 DEF RoundInv, OnRecord, Tables
  <2>2. shown[run.sha] \in {"APPROVED", "DISMISSED"} => Upheld(run.sha)
    BY <1>5 DEF RoundInv, OnRecord, Upheld
  <2>3. EventState(run.verdict) = "APPROVED" <=> run.verdict = "APPROVE"
    BY <1>2, VerdictState
  <2>4. run.verdict = "APPROVE" \/ keeps => Upheld(run.sha)
    BY <1>1, <2>2, <2>3 DEF keeps, Moves, KeepsApproval
  <2> QED BY <1>1, <1>4, <1>w, <2>1, <2>4 DEF RoundInv, OnRecord, Upheld, Working, books
<1> QED BY <1>6, <1>7, <1>8, <1>9, <1>10, <1>11 DEF RoundInv
\* A finding put on record opens its issue at the finding's severity; what is
\* only carried on is seen again.
PublishedAs(posted, h, row) ==
  /\ row \in Sound
  /\ \/ \E f \in posted : f.hash = h /\ row.status = "open" /\ row.sev = f.sev
     \/ /\ ~\E f \in posted : f.hash = h
        /\ SameStatus(issues[h], row) /\ row.sev = issues[h].sev

LEMMA PublishedRow ==
  ASSUME RoundsAssumption, RoundInv, Working, NEW posted, \A f \in posted : f.sev \in Severities,
         NEW carried, NEW h \in Hashes
  PROVE  PublishedAs(posted, h, Published(issues, posted, carried)[h])
<1>1. run.sha \in Nat BY ShaInNat DEF RoundInv
<1>2. issues[h] \in Sound BY DEF RoundInv, Tables
<1>3. CASE \E f \in posted : f.hash = h
  <2> DEFINE f == CHOOSE g \in posted : g.hash = h
  <2>1. f \in posted /\ f.hash = h BY <1>3
  <2>2. Published(issues, posted, carried)[h] = Apply(issues[h], Posted(run.sha, f.sev))
    BY <1>3 DEF Published
  <2>3. f.sev \in Severities BY <2>1
  <2> HIDE DEF f
  <2> QED BY <1>1, <2>1, <2>2, <2>3, PostedRow DEF PublishedAs
<1>4. CASE ~\E f \in posted : f.hash = h
  <2>1. Published(issues, posted, carried)[h] \in {issues[h], Apply(issues[h], Seen(run.sha))}
    BY <1>4 DEF Published, WithSeen
  <2> QED BY <1>1, <1>2, <1>4, <2>1, SeenRow DEF PublishedAs, SameStatus
<1> QED BY <1>3, <1>4

LEMMA BackfillStep ==
  ASSUME RoundsAssumption, RoundInv, BackfillPosted
  PROVE  /\ RoundInv'
         /\ \A h \in Hashes : Known(issues[h]) => issues'[h].status = issues[h].status
<1>1. /\ UNCHANGED <<head, touched, github, recon, want>> /\ run.pc = "post" /\ run.kind = "full"
      /\ run' = [run EXCEPT !.pc = "update"]
  BY DEF BackfillPosted
<1>w. Working BY <1>1 DEF Working
<1> DEFINE posted == {f \in run.new : ~Known(issues[f.hash])}
           carried == {f.hash : f \in run.new}
           was == rec[run.sha]
           reads == IF was # None THEN was
                    ELSE CASE shown[run.sha] = "APPROVED" -> "APPROVE"
                           [] shown[run.sha] = "CHANGES_REQUESTED" -> "REQUEST_CHANGES"
                           [] OTHER -> "COMMENT"
<1>2. issues' = issues \/ issues' = Published(issues, posted, carried)
  BY Zenon DEF BackfillPosted
<1>3. rec' = [rec EXCEPT ![run.sha] = reads]
  BY DEF BackfillPosted
<1>4. run.sha \in Commits BY <1>w, ShaInNat DEF RoundInv
<1>5. reads \in Events /\ (reads = "APPROVE" => was = "APPROVE" \/ shown[run.sha] = "APPROVED")
  BY <1>4 DEF RoundInv, Tables, Events, None
<1>6. \A f \in posted : f \in run.new /\ f.sev \in Severities
  BY <1>w DEF RoundInv, Findings, FromChange
<1>7. ASSUME NEW h \in Hashes
      PROVE  /\ issues'[h] \in Sound
             /\ \/ /\ ~Known(issues[h]) /\ issues'[h].status = "open"
                   /\ \E f \in run.new : issues'[h].sev = f.sev
                \/ SameStatus(issues[h], issues'[h]) /\ issues'[h].sev = issues[h].sev
  <2>1. CASE issues' = issues BY <2>1 DEF RoundInv, Tables, SameStatus
  <2>2. CASE issues' = Published(issues, posted, carried)
    <3>1. \A f \in posted : f.hash = h => ~Known(issues[h]) OBVIOUS
    <3> DEFINE row == issues'[h]
    <3> HIDE DEF posted, carried
    <3>4. PublishedAs(posted, h, Published(issues, posted, carried)[h])
      BY <1>6, <1>w, PublishedRow
    <3>2. /\ row \in Sound
          /\ \/ \E f \in posted : f.hash = h /\ row.status = "open" /\ row.sev = f.sev
             \/ /\ ~\E f \in posted : f.hash = h
                /\ SameStatus(issues[h], row) /\ row.sev = issues[h].sev
      BY <2>2, <3>4 DEF PublishedAs
    <3> HIDE DEF row
    <3>3. CASE \E f \in posted : f.hash = h /\ row.status = "open" /\ row.sev = f.sev
      BY <1>6, <3>1, <3>2, <3>3 DEF row
    <3> QED BY <3>2, <3>3 DEF row
  <2> QED BY <1>2, <2>1, <2>2
<1>8. DOMAIN issues' = Hashes /\ issues' = [h \in Hashes |-> issues'[h]]
  BY <1>2 DEF Published, RoundInv, Tables
<1> HIDE DEF posted, carried, reads
<1>9. /\ run'.pc = "update" /\ run'.verdict = run.verdict /\ run'.kind = run.kind
      /\ run'.sha = run.sha /\ run'.issues = run.issues /\ run'.did = run.did
      /\ run'.kept = run.kept /\ run'.folds = run.folds /\ run'.keepsApproval = run.keepsApproval
      /\ run'.new = run.new /\ run'.open = run.open /\ DOMAIN run' = RunFields
  BY <1>1 DEF RoundInv, Job, RunFields
<1>10. issues' \in [Hashes -> Sound] BY <1>7, <1>8
<1>11. Tables' BY <1>1, <1>3, <1>4, <1>5, <1>10 DEF RoundInv, Tables, github
<1>12. Job' BY <1>1, <1>9, <1>w DEF RoundInv, Job, Working
<1>13. Findings' BY <1>1, <1>9, <1>w DEF RoundInv, Findings, Working, FromChange
<1>14. "open" \notin MatchSettled BY DEF MatchSettled
<1>15. Untouched'
  BY <1>7, <1>9, <1>14, <1>w DEF RoundInv, Untouched, Working, SameStatus
<1>16. InHand'
  <2>1. ASSUME run.verdict = "APPROVE" PROVE Clear' /\ \A f \in run.new : f.sev = "nitpick"
    <3>1. Clear /\ \A f \in run.new : f.sev = "nitpick"
      BY <1>1, <1>w, <2>1 DEF RoundInv, InHand
    <3> QED BY <1>1, <1>7, <1>9, <3>1 DEF Clear, Counts, Unjudged, SameStatus
  <2> QED BY <1>1, <1>9, <1>w, <2>1 DEF RoundInv, InHand, Working
<1>17. OnRecord'
  <2>1. head = run.sha \/ rec'[head] = rec[head] BY <1>3, <1>4 DEF RoundInv, Tables
  <2> QED BY <1>1, <1>9, <1>w, <2>1 DEF RoundInv, OnRecord, Upheld, Working, github
<1> QED BY <1>7, <1>11, <1>12, <1>13, <1>15, <1>16, <1>17 DEF RoundInv, SameStatus

\* Recording a review ends the run; a settled issue it brings back was raised
\* under its own title.
LEMMA RecordStep ==
  ASSUME RoundsAssumption, RoundInv, Record
  PROVE  RoundInv' /\ \A h \in Hashes : Reraised(h) => Retitled(h)
<1>1. /\ UNCHANGED <<head, touched, github, recon, want>> /\ run.pc = "record" /\ run.kind = "full"
      /\ rec' = [rec EXCEPT ![run.sha] = IF run.keepsApproval THEN "APPROVE" ELSE run.verdict]
      /\ run' = Idle
  BY DEF Record
<1>w. Working BY <1>1 DEF Working
<1> DEFINE carried == {f.hash : f \in run.new} \cup {s.onto : s \in run.folds}
<1>2. PICK lost :
        LET published == IF "publication" \in lost THEN issues
                         ELSE Published(issues, run.kept, carried)
            folded == [h \in Hashes |->
                         IF "folds" \in lost THEN published[h] ELSE WithFold(published[h], h)]
        IN  issues' = [h \in Hashes |->
              IF "revival" \in lost THEN folded[h] ELSE WithRevival(folded[h], h)]
  BY Zenon DEF Record
<1> DEFINE published == IF "publication" \in lost THEN issues
                        ELSE Published(issues, run.kept, carried)
<1>3. ASSUME NEW h \in Hashes
      PROVE  \E folded \in {published[h], WithFold(published[h], h)} :
               issues'[h] \in {folded, WithRevival(folded, h)}
  <2> HIDE DEF published
  <2> QED BY <1>2 DEF published
<1>4. /\ \A f \in run.new : FromChange(f, run.issues, run.sha)
      /\ run.kept \subseteq run.new /\ \A s \in run.folds : s.finding \in run.new
  BY <1>1, <1>w DEF RoundInv, Findings
<1>5. \A f \in run.kept : f.sev \in Severities BY <1>4 DEF FromChange
<1>6. ASSUME NEW h \in Hashes
      PROVE  /\ published[h] \in Sound
             /\ (~\E f \in run.kept : f.hash = h) => SameStatus(issues[h], published[h])
  <2>1. CASE published = issues BY <2>1 DEF RoundInv, Tables, SameStatus
  <2>2. CASE published = Published(issues, run.kept, carried)
    <3> HIDE DEF carried, published
    <3>1. PublishedAs(run.kept, h, Published(issues, run.kept, carried)[h])
      BY <1>5, <1>w, PublishedRow
    <3> QED BY <2>2, <3>1 DEF PublishedAs
  <2> QED BY <2>1, <2>2
<1> HIDE DEF published, carried
<1>7. run.sha \in Nat \ {0} /\ run.sha \in Commits BY <1>w, ShaInNat DEF RoundInv
<1>8. "open" \in Statuses BY DEF Statuses
<1>9. ASSUME NEW row \in Sound, NEW h \in Hashes PROVE WithRevival(row, h) \in Sound
  <2>1. Apply(row, Status(run.sha, "open")) \in Sound BY <1>7, <1>8, StatusRow
  <2> QED BY <2>1 DEF WithRevival
<1>10. ASSUME NEW row \in Sound, NEW h \in Hashes PROVE WithFold(row, h) \in Sound
  <2>1. CASE \E s \in run.folds : s.onto = h
    <3> DEFINE s == CHOOSE t \in run.folds : t.onto = h
    <3>1. s \in run.folds BY <2>1
    <3>2. s.finding.sev \in Severities BY <1>4, <3>1 DEF FromChange
    <3>3. WithFold(row, h) = Attach(row, s) BY <2>1 DEF WithFold
    <3> HIDE DEF s
    <3>4. \/ Attach(row, s) = Apply(row, Posted(run.sha, s.finding.sev))
          \/ Attach(row, s) = Apply(row, Seen(run.sha))
          \/ Attach(row, s) = row
          \/ Attach(row, s) = Apply(row, Status(run.sha, "open"))
      <4> DEFINE posted == Apply(row, Posted(run.sha, s.finding.sev))
                 seen == Apply(row, Seen(run.sha))
                 opened == Apply(row, Status(run.sha, "open"))
                 stays == row.status \in MatchSettled /\ ~ClosedChanged(touched, s.onto, row, run.sha)
      <4>1. Attach(row, s) = CASE ~Known(row) -> posted [] Counts(row) -> seen
                               [] stays -> row [] OTHER -> opened
        BY Zenon DEF Attach
      <4>2. (Counts(row) => Known(row)) /\ (stays => Known(row) /\ ~Counts(row))
        BY DEF Counts, Known, Counting, Standing, MatchSettled
      <4> HIDE DEF posted, seen, opened, stays
      <4> QED BY <4>1, <4>2 DEF posted, seen, opened
    <3> QED BY <1>7, <1>8, <3>2, <3>3, <3>4, PostedRow, SeenRow, StatusRow
  <2>2. CASE ~\E s \in run.folds : s.onto = h BY <2>2 DEF WithFold
  <2> QED BY <2>1, <2>2
<1>11. \A h \in Hashes : issues'[h] \in Sound BY <1>3, <1>6, <1>9, <1>10
<1>12. issues' \in [Hashes -> Sound]
  <2>1. DOMAIN issues' = Hashes /\ issues' = [h \in Hashes |-> issues'[h]] BY <1>2
  <2> QED BY <1>11, <2>1
<1>13. run.verdict \in Events BY <1>1, <1>w DEF RoundInv, InHand
<1>14. Tables' BY <1>1, <1>7, <1>12, <1>13 DEF RoundInv, Tables, Events, github
<1>15. OnRecord'
  <2>1. run'.pc = "idle" BY <1>1, IdleShape
  <2>2. rec'[run.sha] = "APPROVE" => Upheld(run.sha)
    BY <1>1, <1>7 DEF RoundInv, OnRecord, Tables
  <2>3. head = run.sha \/ rec'[head] = rec[head] BY <1>1, <1>7 DEF RoundInv, Tables
  <2> QED BY <1>1, <2>1, <2>2, <2>3 DEF RoundInv, OnRecord, Upheld, Working, github
<1>16. RoundInv' BY <1>1, <1>14, <1>15, NoRunLeft DEF RoundInv
<1>17. ASSUME NEW h \in Hashes, Reraised(h), ~Retitled(h) PROVE FALSE
  <2>1. /\ issues[h].status \in MatchSettled /\ Counts(issues'[h])
        /\ ~ClosedChanged(touched, h, issues[h], run.sha)
    BY <1>17 DEF Reraised
  <2>2. \A f \in run.new : f.hash = h => f.revives = h /\ h \notin DOMAIN run.did
    BY <1>17 DEF Retitled
  <2>3. issues[h].closed # 0 BY <2>1 DEF RoundInv, Tables, Sound
  <2>4. ASSUME NEW f \in run.new, f.hash = h PROVE FALSE
    <3>1. f.revives = h /\ f.revives # None /\ h \notin DOMAIN run.did
      BY <2>2, <2>4 DEF RoundsAssumption, None
    <3>2. ClosedChanged(touched, h, run.issues[h], run.sha) BY <1>4, <3>1 DEF FromChange
    <3>3. run.issues[h].closed = issues[h].closed /\ run.issues[h].anchor = issues[h].anchor
      BY <1>w, <2>1, <3>1 DEF RoundInv, Untouched
    <3> QED BY <2>1, <2>3, <3>2, <3>3, SameClosed
  <2>5. SameStatus(issues[h], published[h]) BY <1>4, <1>6, <2>4
  <2>6. /\ published[h].status \in MatchSettled /\ published[h].closed # 0
        /\ ~ClosedChanged(touched, h, published[h], run.sha)
    BY <2>1, <2>3, <2>5, SameClosed DEF SameStatus
  <2>7. \A st \in MatchSettled : st # "none" /\ st \notin Counting
    BY DEF MatchSettled, Counting, Standing
  <2>8. WithFold(published[h], h) = published[h]
    <3>1. CASE \E s \in run.folds : s.onto = h
      <4> DEFINE s == CHOOSE t \in run.folds : t.onto = h
      <4>1. s.onto = h BY <3>1
      <4>2. WithFold(published[h], h) = Attach(published[h], s) BY <3>1 DEF WithFold
      <4> HIDE DEF s
      <4> QED BY <2>6, <2>7, <4>1, <4>2 DEF Attach, Known, Counts
    <3>2. CASE ~\E s \in run.folds : s.onto = h BY <3>2 DEF WithFold
    <3> QED BY <3>1, <3>2
  <2>9. h \notin Revived BY <2>4 DEF Revived
  <2>10. issues'[h] = published[h] BY <1>3, <2>8, <2>9 DEF WithRevival
  <2> QED BY <2>1, <2>6, <2>7, <2>10 DEF Counts
<1> QED BY <1>16, <1>17
-----------------------------------------------------------------------------
(* A conversation.                                                         *)

LEMMA TalkDecideStep ==
  ASSUME RoundsAssumption, RoundInv, TalkDecide
  PROVE  RoundInv' /\ \A h \in Hashes : Moved(h, issues'[h])
<1>1. UNCHANGED <<head, touched, github, rec, want>> /\ run.pc = "answer" /\ run.kind = "talk"
  BY DEF TalkDecide
<1>w. Working /\ Tables /\ Job BY <1>1 DEF Working, RoundInv
<1>2. PICK lost :
        /\ issues' = Booked(lost)
        /\ recon' = IF "outcomes" \in lost THEN recon
                    ELSE [recon EXCEPT !.pending = @ \ DOMAIN run.outs]
        /\ \/ run' = [run EXCEPT !.pc = "post", !.lifted = Lifted,
                        !.verdict = TalkVerdict(Booked(lost), StandIn(Booked(lost)))]
           \/ run' = Idle
  BY Zenon DEF TalkDecide
<1> DEFINE rows == Booked(lost)
           verdict == TalkVerdict(rows, StandIn(rows))
<1>3. \A h \in Hashes : Moved(h, rows[h]) BY <1>w, BookedRow
<1>4. rows \in [Hashes -> Sound]
  <2>1. rows = [h \in Hashes |-> rows[h]] BY DEF Booked
  <2> HIDE DEF rows
  <2> QED BY <1>3, <2>1 DEF Moved
<1>5. /\ recon' \in [done : BOOLEAN, pending : SUBSET Hashes]
      /\ recon'.pending = recon.pending \/ recon'.pending = recon.pending \ DOMAIN run.outs
  BY <1>2, <1>w DEF Tables
<1>6. verdict \in {"APPROVE", "COMMENT"}
      /\ (verdict = "APPROVE" => \A h \in StandIn(rows) : rows[h].sev = "nitpick")
  BY DEF TalkVerdict
<1>7. issues' = rows /\ (run' = Idle \/ run' = [run EXCEPT !.pc = "post", !.lifted = Lifted,
                                                          !.verdict = verdict])
  BY <1>2, Zenon
<1> HIDE DEF rows, verdict
<1>8. Tables' BY <1>1, <1>4, <1>5, <1>7, <1>w DEF Tables, github
<1>9. CASE run' = Idle
  <2>1. run'.pc = "idle" BY <1>9, IdleShape
  <2>2. OnRecord' BY <1>1, <1>w, <2>1 DEF RoundInv, OnRecord, Upheld, Working, github
  <2> QED BY <1>3, <1>7, <1>8, <1>9, <2>2, NoRunLeft DEF RoundInv
<1>10. CASE run' = [run EXCEPT !.pc = "post", !.lifted = Lifted, !.verdict = verdict]
  <2>1. /\ run'.pc = "post" /\ run'.verdict = verdict /\ run'.kind = run.kind /\ run'.sha = run.sha
        /\ run'.issues = run.issues /\ run'.recon = run.recon /\ run'.did = run.did
        /\ run'.kept = run.kept /\ run'.folds = run.folds /\ run'.keepsApproval = run.keepsApproval
        /\ run'.new = run.new /\ run'.open = run.open /\ DOMAIN run' = RunFields
    BY <1>10, <1>w DEF Job, RunFields
  <2>2. Job' BY <1>1, <2>1, <1>w DEF Job, Working
  <2>3. Findings' BY <1>1, <2>1, <1>w DEF RoundInv, Findings, Working, FromChange
  <2>4. Untouched'
    <3> SUFFICES ASSUME NEW h \in Hashes \ DOMAIN run.did, issues'[h].status \in MatchSettled
                 PROVE  run.issues[h].closed = issues'[h].closed /\ run.issues[h].anchor = issues'[h].anchor
      BY <2>1 DEF Untouched
    <3>1. SameStatus(issues[h], issues'[h]) BY <1>3, <1>7 DEF Moved
    <3>2. run.issues = issues BY <1>1, <1>w DEF Job
    <3> QED BY <3>1, <3>2 DEF SameStatus
  <2>5. ASSUME verdict = "APPROVE" PROVE Clear'
    <3> SUFFICES ASSUME NEW h \in Hashes, Counts(issues'[h]), ~Unjudged(h)'
                 PROVE  issues'[h].sev = "nitpick"
      BY DEF Clear
    <3>1. h \in run.open \/ h \notin recon.pending \ DOMAIN run.outs
      BY <1>5, <2>1 DEF Unjudged
    <3>2. h \in StandIn(rows) BY <1>1, <1>7, <1>w, <3>1, CountsIsWeighed
    <3> QED BY <1>6, <1>7, <2>5, <3>2
  <2>6. InHand'
    <3>1. verdict \in Events \ {None} BY <1>6 DEF Events, None
    <3>2. ~run'.keepsApproval BY <1>1, <2>1, <1>w DEF RoundInv, InHand
    <3> QED BY <1>1, <1>6, <2>1, <2>5, <3>1, <3>2 DEF InHand
  <2>7. OnRecord' BY <1>1, <2>1, <1>w DEF RoundInv, OnRecord, Upheld, Working, github
  <2> QED BY <1>3, <1>7, <1>8, <2>2, <2>3, <2>4, <2>6, <2>7 DEF RoundInv
<1> QED BY <1>7, <1>9, <1>10

LEMMA TalkPostStep ==
  ASSUME RoundsAssumption, RoundInv, TalkPost
  PROVE  RoundInv'
<1>1. UNCHANGED <<head, touched, threads, ledger, books, want>> /\ run.pc = "post" /\ run.kind = "talk"
  BY DEF TalkPost
<1>w. Working /\ Tables /\ Job BY <1>1 DEF Working, RoundInv
<1>2. run.verdict \in {"APPROVE", "COMMENT"} /\ ~run.keepsApproval /\ run.verdict \in Events \ {None}
  BY <1>1, <1>w DEF RoundInv, InHand
<1>3. CASE run' = Idle /\ UNCHANGED <<shown, says>>
  <2>1. run'.pc = "idle" BY <1>3, IdleShape
  <2>2. Tables' BY <1>1, <1>3, <1>w DEF Tables, ledger, books
  <2>3. OnRecord' BY <1>1, <1>3, <1>w, <2>1 DEF RoundInv, OnRecord, Upheld, Working, books
  <2> QED BY <1>3, <2>2, <2>3, NoRunLeft DEF RoundInv
<1>4. CASE /\ run.sha = head /\ shown[run.sha] \in {"CHANGES_REQUESTED", "COMMENTED"}
           /\ run' = [run EXCEPT !.pc = "record"]
           /\ IF Moves THEN FollowUp ELSE UNCHANGED <<shown, says>>
  <2>1. /\ run'.pc = "record" /\ run'.verdict = run.verdict /\ run'.kind = run.kind
        /\ run'.sha = run.sha /\ run'.issues = run.issues /\ run'.did = run.did
        /\ run'.kept = run.kept /\ run'.folds = run.folds /\ run'.keepsApproval = run.keepsApproval
        /\ run'.new = run.new /\ DOMAIN run' = RunFields
    BY <1>4, <1>w DEF Job, RunFields
  <2>2. EventState(run.verdict) = "APPROVED" <=> run.verdict = "APPROVE"
    BY <1>2, VerdictState
  <2>3. Moves <=> EventState(run.verdict) # shown[run.sha]
    BY <1>4 DEF Moves
  <2>4. EventState("COMMENT") = "COMMENTED" BY DEF EventState
  <2>5. /\ shown' \in [Commits -> States] /\ says' \in [Commits -> States]
        /\ \A c \in Commits : shown'[c] \in {"APPROVED", "CHANGES_REQUESTED", "DISMISSED"} =>
             says'[c] = shown'[c]
        /\ run.verdict = "APPROVE" => says'[run.sha] = "APPROVED"
    <3>1. CASE Moves BY <1>2, <1>4, <1>w, <3>1, VerdictGoesUp DEF FollowUp
    <3>2. CASE ~Moves
      <4>1. run.verdict # "APPROVE" BY <1>4, <2>2, <2>3, <3>2
      <4> QED BY <1>4, <1>w, <3>2, <4>1 DEF RoundInv, OnRecord, Tables
    <3> QED BY <3>1, <3>2
  <2>6. Upheld(head) /\ ~Upheld(head)' => rec[head] # "APPROVE" \/ "full" \in want
    <3>1. CASE ~Moves BY <1>4, <3>1, <1>1 DEF Upheld
    <3>2. CASE Moves
      <4>1. run.verdict = "APPROVE" => Upheld(head)' BY <1>1, <1>4, <2>5 DEF Upheld
      <4>2. run.verdict = "COMMENT" => shown[head] = "CHANGES_REQUESTED"
        BY <1>4, <2>3, <2>4, <3>2
      <4>3. shown[head] = "CHANGES_REQUESTED" => ~Upheld(head)
        BY <1>w DEF RoundInv, OnRecord, Tables, Upheld
      <4> QED BY <1>2, <4>1, <4>2, <4>3
    <3> QED BY <3>1, <3>2
  <2>7. Tables' BY <1>1, <1>w, <2>5 DEF Tables, ledger, books
  <2>8. Job' BY <1>1, <1>w, <2>1 DEF Job, Working
  <2>9. Findings'
    <3>1. run.kept = {} /\ run.folds = {} BY <1>1, <1>w DEF RoundInv, Findings
    <3> QED BY <1>1, <1>w, <2>1, <3>1 DEF RoundInv, Findings, Working, FromChange
  <2>10. Untouched' BY <1>1, <1>w, <2>1 DEF RoundInv, Untouched, Working, ledger
  <2>11. InHand' BY <1>1, <1>2, <2>1 DEF InHand, Working
  <2>12. OnRecord'
    <3>1. (rec[head] = "APPROVE" /\ ~Upheld(head) =>
             "full" \in want \/ (Working /\ run.kind = "full" /\ run.sha = head))'
      BY <1>1, <1>w, <2>6 DEF RoundInv, OnRecord, books
    <3>2. (run.pc = "record" /\ (run.verdict = "APPROVE" \/ run.keepsApproval) => Upheld(run.sha))'
      BY <1>2, <2>1, <2>5 DEF Upheld
    <3> QED BY <2>5, <3>1, <3>2 DEF OnRecord
  <2> QED BY <2>7, <2>8, <2>9, <2>10, <2>11, <2>12 DEF RoundInv
<1> QED BY <1>3, <1>4 DEF TalkPost, Obsolete

LEMMA TalkRecordStep ==
  ASSUME RoundsAssumption, RoundInv, TalkRecord
  PROVE  RoundInv'
<1>1. /\ UNCHANGED <<head, touched, github, ledger, want>> /\ run.pc = "record" /\ run.kind = "talk"
      /\ rec' = [rec EXCEPT ![run.sha] = run.verdict] /\ run' = Idle
  BY DEF TalkRecord
<1>w. Working /\ Tables /\ Job BY <1>1 DEF Working, RoundInv
<1>2. run.verdict \in Events BY <1>1, <1>w DEF RoundInv, InHand
<1>3. run.sha \in Commits BY <1>w, ShaInNat
<1>4. Tables' BY <1>1, <1>2, <1>3, <1>w DEF Tables, github, ledger
<1>5. OnRecord'
  <2>1. run'.pc = "idle" BY <1>1, IdleShape
  <2>2. rec'[run.sha] = "APPROVE" => Upheld(run.sha)
    BY <1>1, <1>3, <1>w DEF RoundInv, OnRecord, Tables
  <2>3. head = run.sha \/ rec'[head] = rec[head] BY <1>1, <1>3, <1>w DEF Tables
  <2> QED BY <1>1, <2>1, <2>2, <2>3 DEF RoundInv, OnRecord, Upheld, Working, github
<1> QED BY <1>1, <1>4, <1>5, NoRunLeft DEF RoundInv
-----------------------------------------------------------------------------
(* The theorems.                                                           *)

LEMMA RoundStep ==
  ASSUME RoundsAssumption, RoundInv, [Next]_vars PROVE RoundInv'
<1>1. ASSUME NEW kind \in {"full", "talk"}, Context(kind) PROVE RoundInv' BY <1>1, ContextStep
<1>2. CASE Judge \/ ThreadLaneFails \/ JudgeDegraded BY <1>2, LanesStep
<1>3. CASE Superseded \/ Crash BY <1>3, EndStep
<1>4. ASSUME NEW h \in Hashes, Answer(h) PROVE RoundInv' BY <1>4, AnswerStep
<1>5. CASE Decide BY <1>5, DecideStep
<1>6. CASE FirstReview \/ MoveVerdict BY <1>6, ReviewStep
<1>7. CASE BackfillPosted BY <1>7, BackfillStep
<1>8. CASE Summarise BY <1>8, SummariseStep
<1>9. CASE Record BY <1>9, RecordStep
<1>10. CASE TalkDecide BY <1>10, TalkDecideStep
<1>11. CASE TalkPost BY <1>11, TalkPostStep
<1>12. CASE TalkRecord BY <1>12, TalkRecordStep
<1>13. CASE OperatorReconcile BY <1>13, OperatorStep
<1>14. CASE \/ Push \/ Dismiss \/ Ask \/ UNCHANGED vars
            \/ \E h \in Hashes : Reply(h) \/ Resolve(h)
  BY <1>14, WorldStep
<1>15. CASE Rest BY <1>15, <1>14 DEF Rest
<1> QED
  BY <1>1, <1>2, <1>3, <1>4, <1>5, <1>6, <1>7, <1>8, <1>9, <1>10, <1>11, <1>12, <1>13, <1>14,
     <1>15
  DEF Next, Worker

\* The inductive invariant of a pull request's rounds.
THEOREM RoundsKept == Spec => []RoundInv
<1>1. Init => RoundInv BY InitOk, RoundsAssumption
<1>2. RoundInv /\ [Next]_vars => RoundInv' BY RoundStep, RoundsAssumption
<1> QED BY <1>1, <1>2, PTL DEF Spec

\* With nothing left to run, a head on record as approved shows an approval, or the dismissal
\* of one, whatever was lost, retried, pushed or dismissed on the way.
THEOREM ApprovalsPosted == Spec => []ApprovalIsPosted
<1>1. RoundInv => ApprovalIsPosted
  BY DEF RoundInv, OnRecord, Upheld, Working, ApprovalIsPosted, AtRest
<1> QED BY <1>1, RoundsKept, PTL

\* The steps that put a verdict on the pull request.
LEMMA WhoSays ==
  ASSUME [Next]_vars
  PROVE  says' = says \/ FirstReview \/ MoveVerdict \/ TalkPost \/ Dismiss
<1>1. ASSUME NEW kind \in {"full", "talk"}, Context(kind) PROVE says' = says
  BY <1>1 DEF Context, github
<1>2. CASE Judge BY <1>2 DEF Judge, github
<1>3. CASE ThreadLaneFails BY <1>3 DEF ThreadLaneFails, github
<1>4. CASE JudgeDegraded BY <1>4 DEF JudgeDegraded, github
<1>5. CASE Superseded BY <1>5 DEF Superseded, github
<1>6. ASSUME NEW h \in Hashes, Answer(h) PROVE says' = says BY <1>6 DEF Answer
<1>7. CASE Decide BY <1>7 DEF Decide, github
<1>8. CASE BackfillPosted BY <1>8 DEF BackfillPosted, github
<1>9. CASE Summarise BY <1>9 DEF Summarise
<1>10. CASE Record BY <1>10 DEF Record, github
<1>11. CASE TalkDecide BY <1>11 DEF TalkDecide, github
<1>12. CASE TalkRecord BY <1>12 DEF TalkRecord, github
<1>13. CASE Crash BY <1>13 DEF Crash, github
<1>14. CASE Push BY <1>14 DEF Push, github
<1>15. CASE Ask BY <1>15 DEF Ask, github
<1>16. CASE OperatorReconcile BY <1>16 DEF OperatorReconcile, github
<1>17. ASSUME NEW h \in Hashes, Reply(h) PROVE says' = says BY <1>17 DEF Reply
<1>18. ASSUME NEW h \in Hashes, Resolve(h) PROVE says' = says BY <1>18 DEF Resolve
<1>19. CASE UNCHANGED vars BY <1>19 DEF vars, github
<1>20. CASE Rest BY <1>20, <1>19 DEF Rest
<1> QED
  BY <1>1, <1>2, <1>3, <1>4, <1>5, <1>6, <1>7, <1>8, <1>9, <1>10, <1>11, <1>12, <1>13, <1>14,
     <1>15, <1>16, <1>17, <1>18, <1>19, <1>20
  DEF Next, Worker

\* No step puts an approval up over an issue above a nitpick that counts and was judged.
THEOREM ApprovalsAreClear == Spec => ApprovalIsClear
<1> DEFINE Cleared ==
      \A c \in Commits : (says'[c] = "APPROVED" /\ says[c] # "APPROVED") =>
        \A h \in Hashes : Counts(issues[h]) /\ ~Unjudged(h) => issues[h].sev = "nitpick"
<1>1. RoundInv /\ [Next]_vars => Cleared
  <2> SUFFICES ASSUME RoundInv, [Next]_vars,
                      NEW c \in Commits, says'[c] = "APPROVED", says[c] # "APPROVED"
               PROVE  Clear
    BY DEF Clear
  <2>1. CASE FirstReview \/ MoveVerdict \/ TalkPost
    <3>1. run.pc \in {"post", "update"} /\ Working
      BY <2>1 DEF FirstReview, MoveVerdict, TalkPost, Working
    <3>2. run.verdict \in Events \ {None} BY <3>1 DEF RoundInv, InHand
    <3>3. \/ says' = says
          \/ /\ shown' = [shown EXCEPT ![run.sha] = EventState(run.verdict)]
             /\ says' = [says EXCEPT ![run.sha] = EventState(run.verdict)]
      BY <2>1 DEF FirstReview, MoveVerdict, TalkPost, FollowUp
    <3>4. run.verdict = "APPROVE" BY <3>1, <3>2, <3>3, VerdictGoesUp, RoundsAssumption
    <3> QED BY <3>1, <3>4 DEF RoundInv, InHand
  <2>2. CASE Dismiss BY <2>2 DEF Dismiss, RoundInv, Tables
  <2> QED BY <2>1, <2>2, WhoSays
<1>2. RoundInv /\ [Next]_vars => [Cleared]_vars BY <1>1
<1> HIDE DEF Cleared
<1>3. Spec => [][Cleared]_vars BY <1>2, RoundsKept, PTL DEF Spec
<1> QED BY <1>3 DEF Cleared, ApprovalIsClear

\* The steps that write the ledger.
LEMMA WhoBooks ==
  ASSUME [Next]_vars
  PROVE  \/ issues' = issues
         \/ (\E kind \in {"full", "talk"} : Context(kind)) \/ OperatorReconcile
         \/ Decide \/ TalkDecide \/ BackfillPosted \/ Record
<1>2. CASE Judge BY <1>2 DEF Judge, ledger
<1>3. CASE ThreadLaneFails BY <1>3 DEF ThreadLaneFails, ledger
<1>4. CASE JudgeDegraded BY <1>4 DEF JudgeDegraded, ledger
<1>5. CASE Superseded BY <1>5 DEF Superseded, ledger
<1>6. ASSUME NEW h \in Hashes, Answer(h) PROVE issues' = issues BY <1>6 DEF Answer, ledger
<1>7. CASE FirstReview BY <1>7 DEF FirstReview, ledger
<1>8. CASE MoveVerdict BY <1>8 DEF MoveVerdict, ledger
<1>9. CASE Summarise BY <1>9 DEF Summarise, ledger
<1>10. CASE TalkPost BY <1>10 DEF TalkPost, ledger
<1>11. CASE TalkRecord BY <1>11 DEF TalkRecord, ledger
<1>12. CASE Crash BY <1>12 DEF Crash, ledger
<1>13. CASE Push BY <1>13 DEF Push, ledger
<1>14. CASE Dismiss BY <1>14 DEF Dismiss, ledger
<1>15. CASE Ask BY <1>15 DEF Ask, ledger
<1>16. ASSUME NEW h \in Hashes, Reply(h) PROVE issues' = issues BY <1>16 DEF Reply, ledger
<1>17. ASSUME NEW h \in Hashes, Resolve(h) PROVE issues' = issues BY <1>17 DEF Resolve, ledger
<1>18. CASE UNCHANGED vars BY <1>18 DEF vars, ledger
<1>19. CASE Rest BY <1>19, <1>18 DEF Rest
<1> QED
  BY <1>2, <1>3, <1>4, <1>5, <1>6, <1>7, <1>8, <1>9, <1>10, <1>11, <1>12, <1>13, <1>14,
     <1>15, <1>16, <1>17, <1>18, <1>19
  DEF Next, Worker

\* A withdrawn, deferred or outdated issue counts again only where its lines changed, where
\* the thread lane said so, or where a finding goes by its title.
THEOREM SettledStaysSettled == Spec => SettledStays
<1> DEFINE Stays == \A h \in Hashes : Reraised(h) => Retitled(h)
<1>1. RoundInv /\ [Next]_vars => Stays
  <2> SUFFICES ASSUME RoundInv, [Next]_vars, NEW h \in Hashes, Reraised(h) PROVE Retitled(h)
    OBVIOUS
  <2>1. /\ issues[h].status \in MatchSettled /\ Counts(issues'[h])
        /\ ~(h \in DOMAIN run.did /\ OutcomeStatus(run.did[h].word) \in Counting)
    BY DEF Reraised
  <2>2. ~Counts(issues[h]) /\ Known(issues[h])
    BY <2>1 DEF Counts, Known, Counting, Standing, MatchSettled
  <2>3. CASE issues' = issues BY <2>1, <2>2, <2>3
  <2>4. ASSUME NEW kind \in {"full", "talk"}, Context(kind) PROVE FALSE
    BY <2>1, <2>2, <2>4, ContextStep, RoundsAssumption
  <2>5. CASE OperatorReconcile BY <2>1, <2>2, <2>5, OperatorStep, RoundsAssumption
  <2>6. CASE Decide \/ TalkDecide
    <3>1. Moved(h, issues'[h]) BY <2>6, DecideStep, TalkDecideStep, RoundsAssumption
    <3> QED BY <2>1, <2>2, <3>1 DEF Moved, Counts
  <2>7. CASE BackfillPosted
    BY <2>1, <2>2, <2>7, BackfillStep, RoundsAssumption DEF Counts
  <2>8. CASE Record BY <2>8, RecordStep, RoundsAssumption
  <2> QED BY <2>3, <2>4, <2>5, <2>6, <2>7, <2>8, WhoBooks
<1>2. RoundInv /\ [Next]_vars => [Stays]_vars BY <1>1
<1> HIDE DEF Stays
<1>3. Spec => [][Stays]_vars BY <1>2, RoundsKept, PTL DEF Spec
<1> QED BY <1>3 DEF Stays, SettledStays
=============================================================================
