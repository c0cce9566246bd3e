------------------------------- MODULE Marks -------------------------------
(***************************************************************************)
(* What a pull request shows of its review besides the review itself: a    *)
(* check run on each commit (checks.py) and one verdict label (labels.py). *)
(* Both are reconciled by tasks of the daemon: a pass derives from the     *)
(* tables what GitHub should show and writes the difference.  Checks have  *)
(* a row per commit with what was last written; labels have a cursor, and  *)
(* visit only what was stamped since.                                      *)
(*                                                                         *)
(*   scene      what is configured, and what people do                     *)
(*   gh, prs    the pull request on GitHub, and as the last poll saw it    *)
(*   heads, newest, carried, reviews   the tables the marks are read from: *)
(*              a commit's review is its newest final one and its newest   *)
(*   work       what the worker of each commit is doing                    *)
(*   checks     the check runs on each commit, in the order they came      *)
(*   row        table check_runs: which of them, and what it was told      *)
(*   fresh      a review was recorded since the row was written: before or *)
(*              after the check that is written now was derived            *)
(*   refused    what GitHub refused for good, until the daemon restarts    *)
(*   blind      GitHub took a write of the check that is not on record     *)
(*   chk        the pass over the checks                                   *)
(*   label      the verdict labels on GitHub                               *)
(*   dirty      a stamp the cursor has not passed; `next`: nor will when   *)
(*              the pass that runs is over; `missed` (history): the cursor *)
(*              is past a change, and no pass has looked at the label      *)
(*   lab        the pass over the labels                                   *)
(*   off        the repository's labels are off until the daemon restarts  *)
(*   changes, starts, posts, faults   what may still happen (bounds)       *)
(*                                                                         *)
(* The daemon is one thread: a pass of a task is interleaved with people,  *)
(* workers and GitHub, never with the daemon's other tasks.  The writers   *)
(* of the tables are cut down to what a mark can tell apart; ReviewQueue   *)
(* has them in full.                                                       *)
(***************************************************************************)
EXTENDS Naturals, Sequences, SequencesExt

CONSTANTS Commits,
          First,      \* the commit the pull request starts at
          Scenes,     \* what may happen: see below
          MaxWrites   \* MAX_WRITES_PER_PASS

\* A scene: the mark that is configured (checks are the operator's choice, labels
\* the repository's), what people do to the pull request, and how often things
\* may happen (bounds).
Scene == [uses : {"checks", "labels"}, people : SUBSET {"push", "label", "draft", "close"},
          changes : Nat, starts : Nat, posts : Nat, faults : Nat]

ASSUME MarksAssumption ==
  /\ First \in Commits /\ MaxWrites \in Nat \ {0}
  /\ \A scene \in Scenes : scene \in Scene

VARIABLES scene, gh, prs, heads, newest, carried, reviews, work,
          checks, row, fresh, refused, blind, chk, label, dirty, lab, off,
          changes, starts, posts, faults

tables == <<prs, heads, newest, carried, reviews>>
shown == <<checks, row, fresh, refused, blind>>
bounds == <<changes, starts, posts, faults>>
vars == <<scene, gh, tables, work, shown, chk, label, dirty, lab, off, bounds>>

None == "none"
Verdicts == {"success", "failure"}
Open(status) == status \in {"queued", "running"}
Pending(mark) == mark \in {"queued", "in_progress"}

NoCheck == [id |-> 0, says |-> None]
NoReview == [final |-> None, last |-> None]
ChkIdle == [at |-> "idle", todo |-> {}, commit |-> First, says |-> None, writes |-> 0, id |-> 0]
LabIdle == [at |-> "idle", want |-> {}]
Stamped == [now |-> TRUE, next |-> TRUE, missed |-> FALSE]
DaemonIdle == chk.at = "idle" /\ lab.at = "idle"

Init ==
  /\ scene \in Scenes
  /\ gh = [open |-> TRUE, head |-> First, away |-> "no"] /\ prs = gh
  /\ heads = [c \in Commits |-> IF c = First THEN "queued" ELSE None]
  /\ newest = First
  /\ carried = [c \in Commits |-> None]
  /\ reviews = [c \in Commits |-> NoReview]
  /\ work = [c \in Commits |-> "no"]
  /\ checks = [c \in Commits |-> << >>]
  /\ row = [c \in Commits |-> NoCheck]
  /\ fresh = [c \in Commits |-> "no"]
  /\ refused = [c \in Commits |-> None]
  /\ blind = [c \in Commits |-> FALSE]
  /\ chk = ChkIdle
  /\ label = {} /\ dirty = Stamped /\ lab = LabIdle /\ off = FALSE
  /\ changes = scene.changes /\ starts = scene.starts
  /\ posts = scene.posts /\ faults = scene.faults

-----------------------------------------------------------------------------
(* What the tables say a commit's check and the label should show.         *)

\* reviewed_sha: a review of the commit itself takes over from a carried one.
Reviewed(c) == IF carried[c] # None /\ reviews[c].last = None THEN carried[c] ELSE c

\* Mutant: a review only stands on a finished head.
VerdictWhenDone(c) == IF heads[c] = "done" THEN reviews[Reviewed(c)].last ELSE None

\* The newest final review; with none, the newest review of a finished head.
Verdict(c) ==
  LET review == reviews[Reviewed(c)]
  IN  IF review.final # None THEN review.final
      ELSE IF heads[c] = "done" THEN review.last ELSE None

Live(c) == prs.open /\ prs.head = c

\* checks.wanted
Wanted(c) ==
  CASE Verdict(c) # None -> Verdict(c)
    [] Verdict(c) = None /\ ~Live(c) -> "cancelled"
    [] Verdict(c) = None /\ Live(c) /\ prs.away = "label" /\ heads[c] \in {None, "closed"} -> "skipped"
    [] OTHER ->
         CASE heads[c] = "queued" -> "queued"
           [] heads[c] = "running" -> "in_progress"
           [] heads[c] \in {"failed", "done"} -> "action_required"
           [] OTHER -> None

\* _target: an open check is closed out; none is opened to say "cancelled".
Target(c) ==
  IF Wanted(c) = None /\ Pending(row[c].says) THEN "cancelled"
  ELSE IF Wanted(c) = "cancelled" /\ row[c] = NoCheck THEN None
  ELSE Wanted(c)

\* Open checks, cancelled ones whose commit got a review after all, commits in
\* review, and the live commit.
Candidates ==
  {c \in Commits : \/ Pending(row[c].says)
                   \/ row[c].says = "cancelled" /\ fresh[c] # "no"
                   \/ Open(heads[c])
                   \/ Live(c)}

\* labels.wanted: the newest review of the newest head, if that is the live one.
WantedLabel ==
  IF prs.open /\ prs.head = newest
  THEN {reviews[Reviewed(newest)].last} \ {None} ELSE {}

-----------------------------------------------------------------------------
(* The pull request and the tables.                                        *)

Marking == <<scene, shown, chk, label, lab, off>>

Change(field, value) ==
  /\ changes > 0 /\ gh[field] # value
  /\ gh' = [gh EXCEPT ![field] = value] /\ changes' = changes - 1
  /\ UNCHANGED <<tables, work, Marking, dirty, starts, posts, faults>>

Push(c) == "push" \in scene.people /\ gh.open /\ Change("head", c)
Close == "close" \in scene.people /\ Change("open", ~gh.open)
Away(how) == how \in scene.people \cup {"no"} /\ gh.open /\ Change("away", how)

Superseded(except) ==
  [x \in Commits |-> IF x # except /\ Open(heads[x]) THEN "superseded" ELSE heads[x]]

\* What a poll makes of the heads.  A head that was asked for outlives a draft
\* or a label, one an operator closed stays closed.
Polled ==
  LET c == gh.head IN
  IF ~gh.open THEN {[x \in Commits |-> IF Open(heads[x]) THEN "closed" ELSE heads[x]]}
  ELSE IF gh.away # "no"
    THEN {heads} \cup {[Superseded(c) EXCEPT ![c] = IF Open(@) THEN "closed" ELSE @]}
  ELSE IF heads[c] = None THEN {[Superseded(c) EXCEPT ![c] = "queued"]}
  ELSE IF heads[c] = "closed" THEN {heads, [Superseded(c) EXCEPT ![c] = "queued"]}
  ELSE {heads}

\* prs.updated_at is GitHub's time of the change, and the label cursor may be past
\* it; a head is stamped with the poll's, and so is a pull request that closed.
Poll ==
  /\ DaemonIdle /\ prs # gh
  /\ prs' = gh
  /\ heads' \in Polled
  /\ newest' = IF heads[gh.head] = None /\ heads'[gh.head] # None THEN gh.head ELSE newest
  /\ LET queued == heads'[gh.head] = "queued" /\ heads[gh.head] # "queued"
     IN  \/ dirty' = Stamped
         \/ gh.open /\ ~queued /\ dirty' = [dirty EXCEPT !.missed = @ \/ ~dirty.now]
  /\ UNCHANGED <<gh, carried, reviews, work, Marking, bounds>>

\* A mention or the operator asks for GitHub's live commit.
Ask ==
  /\ DaemonIdle /\ gh.open /\ starts > 0
  /\ heads[gh.head] \in {None, "done", "failed", "closed"}
  /\ heads' = [Superseded(IF heads[gh.head] = None THEN gh.head ELSE None) EXCEPT ![gh.head] = "queued"]
  /\ newest' = IF heads[gh.head] = None THEN gh.head ELSE newest
  /\ dirty' = Stamped
  /\ UNCHANGED <<gh, prs, carried, reviews, work, Marking, bounds>>

Start(c) ==
  /\ DaemonIdle /\ heads[c] = "queued" /\ work[c] = "no" /\ starts > 0
  /\ heads' = [heads EXCEPT ![c] = "running"] /\ work' = [work EXCEPT ![c] = "on"]
  /\ starts' = starts - 1
  /\ UNCHANGED <<gh, prs, newest, carried, reviews, Marking, dirty, changes, posts, faults>>

\* The worker of a commit, superseded or not, posts its review: posted_at is
\* taken before the row is in the table.
Post(c) ==
  /\ work[c] = "on" /\ posts > 0
  /\ work' = [work EXCEPT ![c] = "posts"] /\ posts' = posts - 1
  /\ UNCHANGED <<gh, tables, Marking, dirty, changes, starts, faults>>

\* Mutant: the cursor is the start of a pass, and a pass began meanwhile.
TrailNot == IF lab.at = "idle" THEN dirty ELSE [dirty EXCEPT !.now = TRUE]

\* The cursor trails the start of a pass by longer than a row is on its way.
Trail == Stamped

Recorded(c, final, verdict) ==
  /\ work[c] = "posts" /\ (final \/ verdict = "failure")
  /\ work' = [work EXCEPT ![c] = "on"]
  /\ reviews' = [reviews EXCEPT ![c] = [final |-> IF final THEN verdict ELSE @.final, last |-> verdict]]
  /\ fresh' = [fresh EXCEPT ![c] = "after"]
  /\ dirty' = Trail
  /\ UNCHANGED <<gh, prs, heads, newest, carried, checks, row, refused, blind, scene, chk, label, lab, off, bounds>>

\* worker._carry: the commit's head is the newest, and automatic.
Carry(c) ==
  /\ work[c] = "on" /\ heads[c] = "running" /\ c = newest
  /\ reviews[c] = NoReview /\ carried[c] = None
  /\ \E f \in Commits \ {c} :
       /\ reviews[Reviewed(f)].final # None
       /\ carried' = [carried EXCEPT ![c] = Reviewed(f)]
  /\ UNCHANGED <<gh, prs, heads, newest, reviews, work, Marking, dirty, bounds>>

\* finished_at counts for the labels where the review is a carried one.
Finished(c) == dirty' = IF carried[c] # None /\ heads[c] = "running" THEN Stamped ELSE dirty

\* A run ends, or is ended; only a running head follows it.
End(c, status) ==
  /\ work[c] # "no"
  /\ work' = [work EXCEPT ![c] = "no"]
  /\ heads' = [heads EXCEPT ![c] = IF @ = "running" THEN status ELSE @]
  /\ IF status = "queued" THEN UNCHANGED dirty ELSE Finished(c)
  /\ UNCHANGED <<gh, prs, newest, carried, reviews, Marking, bounds>>

\* retire_obsolete_head: the worker found that its commit is not the live one.
Retire(c) ==
  /\ work[c] = "on" /\ (gh.head # c \/ ~gh.open)
  /\ work' = [work EXCEPT ![c] = "no"]
  /\ heads' = [heads EXCEPT ![c] = IF @ # "running" THEN @
                                   ELSE IF gh.open THEN "superseded" ELSE "closed"]
  /\ Finished(c)
  /\ UNCHANGED <<gh, prs, newest, carried, reviews, Marking, bounds>>

-----------------------------------------------------------------------------
(* A pass over the checks (checks.Reconciler.reconcile).                   *)

Elsewhere == <<scene, gh, tables, work, label, dirty, lab, off, changes, starts, posts>>
Drop(c) == chk' = [chk EXCEPT !.at = "walk", !.todo = @ \ {c}]
Fault == faults > 0 /\ faults' = faults - 1

\* A pass that finds nothing to write changes nothing.
ChkStart ==
  /\ DaemonIdle /\ scene.uses = "checks"
  /\ \E c \in Candidates : Target(c) \notin {None, row[c].says, refused[c]}
  /\ chk' = [ChkIdle EXCEPT !.at = "walk", !.todo = Candidates]
  /\ UNCHANGED <<Elsewhere, shown, faults>>

\* Nothing to say, nothing new, refused before, or no write left in this pass.
Passes(c) ==
  Target(c) \in {None, row[c].says, refused[c]} \/ chk.writes = MaxWrites

ChkTake(c) ==
  /\ chk.at = "walk" /\ c \in chk.todo
  /\ IF Passes(c) THEN Drop(c) /\ UNCHANGED shown
     ELSE /\ chk' = [chk EXCEPT !.at = "write", !.commit = c, !.says = Target(c), !.writes = @ + 1]
          /\ fresh' = [fresh EXCEPT ![c] = IF @ = "no" THEN @ ELSE "before"]
          /\ UNCHANGED <<checks, row, refused, blind>>
  /\ UNCHANGED <<Elsewhere, faults>>

\* Which check is written, the last + 1 to create one: the row's, or with no row
\* the newest on the commit; never a completed one that is to be pending again.
Writes(c, says) ==
  LET known == IF row[c] # NoCheck THEN row[c].id ELSE Len(checks[c])
      was == IF row[c] # NoCheck THEN row[c].says
             ELSE IF known > 0 THEN checks[c][known] ELSE None
  IN  IF known = 0 \/ (~Pending(was) /\ Pending(says)) THEN Len(checks[c]) + 1 ELSE known

Says(c, id, says) ==
  checks' = IF id > Len(checks[c]) THEN [checks EXCEPT ![c] = Append(@, says)]
            ELSE [checks EXCEPT ![c][id] = says]

\* GitHub answers; or it does what it is asked and the answer is lost; or it is
\* down: the pass ends, and the next waits.
ChkWrite ==
  /\ chk.at = "write"
  /\ LET id == Writes(chk.commit, chk.says) IN
       \/ /\ Says(chk.commit, id, chk.says)
          /\ chk' = [chk EXCEPT !.at = "record", !.id = id]
          /\ UNCHANGED <<blind, faults>>
       \/ /\ Fault /\ Says(chk.commit, id, chk.says)
          /\ blind' = [blind EXCEPT ![chk.commit] = TRUE]
          /\ chk' = ChkIdle
       \/ Fault /\ chk' = ChkIdle /\ UNCHANGED <<checks, blind>>
  /\ UNCHANGED <<Elsewhere, row, fresh, refused>>

\* GitHub refuses the check for good; the pass goes on.
ChkRefused ==
  /\ chk.at = "write" /\ Fault
  /\ refused' = [refused EXCEPT ![chk.commit] = chk.says]
  /\ Drop(chk.commit)
  /\ UNCHANGED <<Elsewhere, checks, row, fresh, blind>>

\* Mutant: a review counts as fresh from when the check is on record.
FreshSinceRecord(c) == [fresh EXCEPT ![c] = "no"]

\* updated_at is later than a review recorded during the write, by less than
\* the overlap.
FreshAfter(c) == [fresh EXCEPT ![c] = IF @ = "before" THEN "no" ELSE @]

ChkRecord ==
  /\ chk.at = "record"
  /\ row' = [row EXCEPT ![chk.commit] = [id |-> chk.id, says |-> chk.says]]
  /\ fresh' = FreshAfter(chk.commit)
  /\ blind' = [blind EXCEPT ![chk.commit] = FALSE]
  /\ Drop(chk.commit)
  /\ UNCHANGED <<Elsewhere, checks, refused, faults>>

ChkEnd ==
  /\ chk.at = "walk" /\ chk.todo = {}
  /\ chk' = ChkIdle
  /\ UNCHANGED <<Elsewhere, shown, faults>>

-----------------------------------------------------------------------------
(* A pass over the labels (labels.reconcile, labels.sync).                 *)

Others == <<scene, gh, tables, work, shown, chk, changes, starts, posts>>

LabStart ==
  /\ DaemonIdle /\ dirty.now /\ scene.uses = "labels"
  /\ lab' = [at |-> "want", want |-> {}]
  /\ dirty' = [dirty EXCEPT !.next = FALSE]
  /\ UNCHANGED <<Others, label, off, faults>>

LabWant ==
  /\ lab.at = "want" /\ ~off
  /\ lab' = [at |-> IF label = WantedLabel THEN "end" ELSE "delete", want |-> WantedLabel]
  /\ UNCHANGED <<Others, label, dirty, off, faults>>

\* A repository that is off is passed over.
LabSkip ==
  /\ lab.at = "want" /\ off
  /\ lab' = [lab EXCEPT !.at = "end"]
  /\ UNCHANGED <<Others, label, dirty, off, faults>>

LabDelete ==
  /\ lab.at = "delete"
  /\ label' = label \cap lab.want
  /\ lab' = [lab EXCEPT !.at = "add"]
  /\ UNCHANGED <<Others, dirty, off, faults>>

LabAdd ==
  /\ lab.at = "add"
  /\ label' = label \cup lab.want
  /\ lab' = [lab EXCEPT !.at = "end"]
  /\ UNCHANGED <<Others, dirty, off, faults>>

\* The cursor moves, whether or not the label was looked at.
LabEnd ==
  /\ lab.at = "end"
  /\ lab' = LabIdle /\ dirty' = [now |-> dirty.next, next |-> FALSE, missed |-> off]
  /\ UNCHANGED <<Others, label, off, faults>>

LabCalls == lab.at \in {"want", "delete", "add"} /\ ~off

\* GitHub is down in the middle of it: the cursor is held.
LabFails ==
  /\ LabCalls /\ Fault
  /\ lab' = LabIdle /\ dirty' = [dirty EXCEPT !.next = FALSE]
  /\ UNCHANGED <<Others, label, off>>

\* GitHub refuses a label, its deletion or its like: the repository is off, and the
\* pass goes on.
LabRefused ==
  /\ LabCalls /\ Fault
  /\ off' = TRUE /\ lab' = [lab EXCEPT !.at = "end"]
  /\ UNCHANGED <<Others, label, dirty>>

\* The daemon dies, in a pass or with a refusal in mind (otherwise it has nothing to
\* lose): what it knew is gone, the tables stay.
Crash ==
  /\ ~DaemonIdle \/ off \/ (\E c \in Commits : refused[c] # None)
  /\ Fault
  /\ chk' = ChkIdle /\ lab' = LabIdle /\ off' = FALSE
  /\ refused' = [c \in Commits |-> None]
  /\ dirty' = [dirty EXCEPT !.next = FALSE]
  /\ blind' = [c \in Commits |-> blind[c] \/ (chk.at = "record" /\ c = chk.commit)]
  /\ UNCHANGED <<scene, gh, tables, work, checks, row, fresh, label, changes, starts, posts>>

-----------------------------------------------------------------------------
People == (\E c \in Commits : Push(c)) \/ Close \/ (\E how \in {"no", "label", "draft"} : Away(how))
Worker(c) ==
  \/ Post(c)
  \/ \E final \in BOOLEAN, verdict \in Verdicts : Recorded(c, final, verdict)
  \/ Carry(c) \/ Retire(c)
  \/ \E status \in {"done", "failed", "queued"} : End(c, status)
ChkPass ==
  ChkStart \/ (\E c \in Commits : ChkTake(c)) \/ ChkWrite \/ ChkRefused \/ ChkRecord \/ ChkEnd
LabPass ==
  LabStart \/ LabWant \/ LabSkip \/ LabDelete \/ LabAdd \/ LabEnd \/ LabFails \/ LabRefused

Next ==
  \/ People \/ Poll \/ Ask
  \/ \E c \in Commits : Start(c) \/ Worker(c)
  \/ ChkPass \/ LabPass \/ Crash

\* Every task of the daemon has its turn, and runs end.
Spec ==
  /\ Init /\ [][Next]_vars
  /\ WF_vars(Poll) /\ WF_vars(ChkPass) /\ WF_vars(LabPass)
  /\ \A c \in Commits : WF_vars(Worker(c))

-----------------------------------------------------------------------------
(* Properties.                                                             *)

\* What GitHub shows on a commit: its newest check run.
Shown(c) == IF checks[c] = << >> THEN None ELSE Last(checks[c])

\* The check of the live commit says what is wanted of it, no check is left open
\* that should be closed, and a review that came after all is not left
\* "cancelled" (checks.py: "Missing an event, a restart or a failed write is
\* repaired by the next pass").  A write that GitHub took and nobody recorded is
\* repaired unless the wish goes back to what is on record meanwhile.
CheckIsRight(c) ==
  LET says == row[c].says IN
  \/ scene.uses # "checks" \/ refused[c] = Target(c)
  \/ /\ blind[c] \/ row[c] = NoCheck \/ checks[c][row[c].id] = says
     /\ Live(c) /\ Wanted(c) # None => says = Wanted(c)
     /\ Pending(says) => says = Wanted(c)
     /\ says = "cancelled" => reviews[Reviewed(c)].final = None
ChecksSettle == <>[](\A c \in Commits : CheckIsRight(c))

\* "a check that said success never goes back to pending without a push"
\* (checks.py), of commits with a review of their own.
SuccessStays ==
  [][\A c \in Commits : (Shown(c) = "success" /\ carried[c] = None) => ~Pending(Shown(c)')]_vars

\* A carried verdict is mirrored when its run is over: a run that dies first is
\* tried again.
Retried == carried[newest] # None /\ heads[newest] = "queued"
Mirrors == scene.uses = "labels" => label = WantedLabel \/ Retried

\* The label comes to mirror "the bot's latest verdict on the live head, and none
\* while no verdict stands" (labels.py), with reviews recorded in the middle of a
\* pass, passes that fail and are tried again and daemons that die, unless the
\* cursor went past a change for good: one a poll saw late, or one that was passed
\* over because GitHub had refused a write.  The next pass that looks repairs both.
LabelSettles == <>[](dirty.missed \/ Mirrors)

\* "Running that on a daemon tick covers every path that can change either side"
\* (labels.py): the label settles without exception.  A poll that sees a push late
\* is enough to break it.
LabelMirrors == <>[]Mirrors

\* "A create whose response was lost is adopted on the next pass rather than
\* duplicated" (README): no commit is left with two open checks.
OneOpenCheck ==
  \A c \in Commits : \A i, j \in DOMAIN checks[c] :
    Pending(checks[c][i]) /\ Pending(checks[c][j]) => i = j
=============================================================================
