---------------------------- MODULE AuditsProofs ----------------------------
(* Theorems of Audits: whatever the overlap and the search's lag under it, and however sweeps *)
(* interleave with merges, failures, backfills and crashes, the cursor leaves no merge behind; *)
(* and whichever call an attempt of an audit dies after, a merge is told once what it found.   *)
EXTENDS Audits, TLAPS

\* The variables the sweep lives on, and what the other steps leave of them.
sweepVars == <<now, merged, cursor, from, judged>>

SweepTypes ==
  /\ now \in Nat \ {0}
  /\ merged \in [Pulls -> Nat]
  /\ cursor \in Int /\ from \in Int
  /\ daemon \in Daemon

\* Nobody merges in the future, the cursor is never ahead of the clock, and the cursor and the
\* start of the sweeps are set together.
ClockInv ==
  /\ \A p \in Pulls : merged[p] <= now
  /\ cursor <= now
  /\ cursor = NoCursor <=> from = NoCursor

Sweeping == daemon.at \in {"search", "found"}

\* A sweep under way began in the past and reads on from the cursor; what it found is all that
\* had a chance to be in the search when it began.
ReadingInv ==
  /\ Sweeping => /\ daemon.start \in 1..now
                 /\ IF cursor = NoCursor THEN daemon.since > NoCursor ELSE daemon.since = cursor
  /\ daemon.at = "found" =>
       \A p \in Pulls : /\ merged[p] # Never /\ daemon.since <= merged[p]
                        /\ merged[p] + Lag < daemon.start
                        => p \in daemon.found

SweepInv == SweepTypes /\ ClockInv /\ ReadingInv /\ NothingMissed

LEMMA Numbers == NoCursor \in Int /\ NoCursor < -Lookback /\ NoCursor < -Overlap
                 /\ Lookback \in Nat /\ Overlap \in Nat /\ Lag \in Nat /\ Lag <= Overlap
  BY AuditsAssumption DEF NoCursor

LEMMA IdleType == Idle \in Daemon
  BY DEF Idle, Daemon

LEMMA SweepInit == Init => SweepInv
  BY Numbers, IdleType DEF Init, SweepInv, SweepTypes, ClockInv, ReadingInv, Sweeping, NothingMissed, Idle, Never

\* A step that leaves the sweep's variables alone, and the daemon out of a sweep unless it was in
\* this one, keeps the invariant.
LEMMA Quiet ==
  ASSUME SweepInv, UNCHANGED sweepVars,
         daemon' = daemon \/ (daemon' \in Daemon /\ daemon'.at \notin {"search", "found"})
  PROVE  SweepInv'
  BY DEF SweepInv, SweepTypes, Daemon, ClockInv, ReadingInv, Sweeping, NothingMissed, sweepVars

LEMMA TickStep == ASSUME SweepInv, Tick PROVE SweepInv'
<1>1. UNCHANGED <<merged, cursor, from, judged, daemon>> /\ now' = now + 1
  BY DEF Tick, people, history
<1>2. SweepTypes'
  BY <1>1 DEF SweepInv, SweepTypes
<1>3. ClockInv'
  BY <1>1, Numbers DEF SweepInv, SweepTypes, ClockInv
<1>4. ReadingInv'
  BY <1>1 DEF SweepInv, SweepTypes, ReadingInv, Sweeping
<1>5. NothingMissed'
  BY <1>1 DEF SweepInv, NothingMissed
<1> QED
  BY <1>2, <1>3, <1>4, <1>5 DEF SweepInv

\* A merge is of now: no sweep under way had to find it, and the cursor is not past it.
LEMMA MergeStep == ASSUME SweepInv, NEW p \in Pulls, MergePull(p) PROVE SweepInv'
<1>1. UNCHANGED <<now, cursor, from, judged, daemon>> /\ merged' = [merged EXCEPT ![p] = now]
  BY DEF MergePull, history
<1>2. /\ merged' \in [Pulls -> Nat] /\ merged'[p] = now
      /\ \A q \in Pulls : q # p => merged'[q] = merged[q]
  BY <1>1 DEF SweepInv, SweepTypes
<1>3. SweepTypes'
  BY <1>1, <1>2 DEF SweepInv, SweepTypes
<1>4. ClockInv'
  BY <1>1, <1>2, Numbers DEF SweepInv, SweepTypes, ClockInv
<1>5. ReadingInv'
  <2>1. daemon.at = "found" => ~(now + Lag < daemon.start)
    BY Numbers DEF SweepInv, SweepTypes, ReadingInv, Sweeping
  <2> QED
    BY <1>1, <1>2, <2>1 DEF SweepInv, ReadingInv, Sweeping
<1>6. NothingMissed'
  <2>1. ~(now < cursor)
    BY DEF SweepInv, SweepTypes, ClockInv
  <2> QED
    BY <1>1, <1>2, <2>1 DEF SweepInv, NothingMissed
<1> QED
  BY <1>3, <1>4, <1>5, <1>6 DEF SweepInv

\* A sweep begins at the cursor, or a while back when there is none.
LEMMA BeginStep == ASSUME SweepInv, SweepBegin PROVE SweepInv'
<1>1. UNCHANGED sweepVars
  BY DEF SweepBegin, people, history, sweepVars
<1>2. /\ daemon'.at = "search" /\ daemon'.start = now /\ daemon'.since = Since
      /\ Since \in Int => daemon' \in Daemon
  BY DEF SweepBegin, SweepInv, SweepTypes, Idle, Daemon
<1>3. Since \in Int /\ (IF cursor = NoCursor THEN Since > NoCursor ELSE Since = cursor)
  BY Numbers DEF SweepInv, SweepTypes, Since
<1>4. SweepTypes' /\ ClockInv' /\ NothingMissed'
  BY <1>1, <1>2, <1>3 DEF SweepInv, SweepTypes, ClockInv, NothingMissed, sweepVars
<1>5. ReadingInv'
  BY <1>1, <1>2, <1>3 DEF SweepInv, SweepTypes, ReadingInv, Sweeping, sweepVars
<1> QED
  BY <1>4, <1>5 DEF SweepInv

\* What the search returns has every merge that is older than its lag by then.
LEMMA SearchStep == ASSUME SweepInv, SweepSearch PROVE SweepInv'
<1>1. UNCHANGED sweepVars
  BY DEF SweepSearch, people, history, sweepVars
<1>2. CASE daemon' = Idle
  BY <1>1, <1>2, Quiet, IdleType DEF Idle
<1>3. ASSUME NEW ps \in Search(daemon.since), daemon' = [daemon EXCEPT !.at = "found", !.found = ps],
             daemon.at = "search"
      PROVE  SweepInv'
  <2>1. /\ daemon'.at = "found" /\ daemon'.found = ps
        /\ daemon'.start = daemon.start /\ daemon'.since = daemon.since /\ daemon' \in Daemon
    BY <1>3 DEF SweepInv, SweepTypes, Daemon, Search
  <2>2. \A p \in Pulls : merged[p] # Never /\ merged[p] >= daemon.since /\ merged[p] + Lag <= now => p \in ps
    BY <1>3 DEF Search
  <2>3. daemon.start \in 1..now
    BY <1>3 DEF SweepInv, ReadingInv, Sweeping
  <2>4. SweepTypes' /\ ClockInv' /\ NothingMissed'
    BY <1>1, <2>1 DEF SweepInv, SweepTypes, ClockInv, NothingMissed, sweepVars
  <2>5. ReadingInv'
    BY <1>1, <1>3, <2>1, <2>2, <2>3, Numbers
    DEF SweepInv, SweepTypes, ReadingInv, Sweeping, sweepVars
  <2> QED
    BY <2>4, <2>5 DEF SweepInv
<1> QED
  BY <1>2, <1>3 DEF SweepSearch

\* The cursor moves to where the sweep began, less the overlap: merges before that were in its
\* search, or behind the cursor it began at.
LEMMA ApplyStep == ASSUME SweepInv, SweepApply PROVE SweepInv'
<1>1. /\ UNCHANGED <<now, merged>> /\ daemon' = Idle /\ cursor' = daemon.start - Overlap
      /\ judged' = judged \cup daemon.found
      /\ from' = (IF from = NoCursor THEN daemon.since ELSE from)
  BY DEF SweepApply, NextCursor, people
<1>2. /\ daemon.start \in 1..now
      /\ IF cursor = NoCursor THEN daemon.since > NoCursor ELSE daemon.since = cursor
      /\ \A p \in Pulls : merged[p] # Never /\ daemon.since <= merged[p]
                          /\ merged[p] + Lag < daemon.start => p \in daemon.found
  BY DEF SweepInv, ReadingInv, Sweeping, SweepApply
<1>3. SweepTypes'
  BY <1>1, <1>2, Numbers, IdleType DEF SweepInv, SweepTypes, Daemon
<1>4. cursor' # NoCursor /\ from' # NoCursor
  BY <1>1, <1>2, Numbers DEF SweepInv, SweepTypes, ClockInv, NoCursor
<1>5. ClockInv'
  BY <1>1, <1>2, <1>4, Numbers DEF SweepInv, SweepTypes, ClockInv
<1>6. ReadingInv'
  BY <1>1 DEF ReadingInv, Sweeping, Idle
<1>7. ASSUME NEW p \in Pulls, merged[p] # Never, from' <= merged[p], merged[p] < cursor'
      PROVE  p \in judged'
  <2>1. merged[p] + Lag < daemon.start
    BY <1>1, <1>2, <1>7, Numbers DEF SweepInv, SweepTypes
  <2>2. CASE daemon.since <= merged[p]
    BY <1>1, <1>2, <1>7, <2>1, <2>2
  <2>3. CASE ~(daemon.since <= merged[p])
    BY <1>1, <1>2, <1>7, <2>3, Numbers DEF SweepInv, SweepTypes, ClockInv, NothingMissed
  <2> QED BY <2>2, <2>3
<1>8. NothingMissed'
  BY <1>1, <1>7 DEF NothingMissed
<1> QED
  BY <1>3, <1>5, <1>6, <1>8 DEF SweepInv

-----------------------------------------------------------------------------
(* Every step keeps the invariant: all but those of the sweep leave it alone *)

LEMMA SweepStep ==
  ASSUME SweepInv, [Next]_vars
  PROVE  SweepInv'
<1>1. CASE Tick BY <1>1, TickStep
<1>2. ASSUME NEW p \in Pulls, MergePull(p) PROVE SweepInv' BY <1>2, MergeStep
<1>3. CASE Sweeps BY <1>3, BeginStep, SearchStep, ApplyStep DEF Sweeps
<1>4. CASE SeedFetch \/ Retry
  BY <1>4, Quiet DEF SeedFetch, Retry, people, history, sweepVars
<1>5. ASSUME NEW p \in Pulls, Judge(p) \/ SeedOne(p) PROVE SweepInv'
  BY <1>5, Quiet DEF Judge, SeedOne, history, people, sweepVars
<1>6. ASSUME NEW p \in Pulls, WorkerNext(p) PROVE SweepInv'
  <2>1. UNCHANGED sweepVars /\ daemon' = daemon
    BY <1>6 DEF WorkerNext, Starts, Reviews, Escalates, Checks, Reports, Comments, Notes, Issues,
                NotesIssue, Records, Ends, Dies, people, history, sweepVars
  <2> QED BY <2>1, Quiet
<1>7. CASE Indexes
  <2>1. ASSUME NEW p \in Pulls, Sync(p) PROVE SweepInv'
    <3>1. UNCHANGED sweepVars
      BY <2>1 DEF Sync, people, history, sweepVars
    <3>2. daemon' \in Daemon /\ daemon'.at \notin {"search", "found"}
      BY <2>1 DEF Sync, SweepInv, SweepTypes, Daemon
    <3> QED BY <3>1, <3>2, Quiet
  <2>2. CASE IndexPut
    <3>1. UNCHANGED sweepVars
      BY <2>2 DEF IndexPut, people, history, sweepVars
    <3>2. daemon' \in Daemon /\ daemon'.at \notin {"search", "found"}
      <4>1. \A row \in Daemon : [row EXCEPT !.at = "stamp"] \in Daemon
                               /\ [row EXCEPT !.at = "stamp", !.ok = FALSE] \in Daemon
        BY DEF Daemon
      <4>2. daemon \in Daemon
        BY DEF SweepInv, SweepTypes
      <4>3. daemon' \in Daemon /\ daemon'.at = "stamp"
        BY <2>2, <4>1, <4>2 DEF IndexPut, Daemon
      <4> QED BY <4>3
    <3> QED BY <3>1, <3>2, Quiet
  <2>3. CASE IndexBegin
    <3>1. UNCHANGED sweepVars
      BY <2>3 DEF IndexBegin, people, history, sweepVars
    <3>2. daemon' \in Daemon /\ daemon'.at \notin {"search", "found"}
      <4>1. \A row \in Daemon, ps \in SUBSET Pulls :
               /\ [row EXCEPT !.at = "stamp"] \in Daemon
               /\ [row EXCEPT !.at = "stamp"].at = "stamp"
               /\ [row EXCEPT !.at = "sync", !.found = ps, !.ok = TRUE] \in Daemon
               /\ [row EXCEPT !.at = "sync", !.found = ps, !.ok = TRUE].at = "sync"
        BY DEF Daemon
      <4>2. Audited \in SUBSET Pulls
        BY DEF Audited, Finished
      <4>3. CASE daemon' = [Idle EXCEPT !.at = "sync", !.found = Audited, !.ok = TRUE]
        BY <4>1, <4>2, <4>3, IdleType
      <4>4. CASE daemon' = [Idle EXCEPT !.at = "stamp"]
        BY <4>1, <4>4, IdleType
      <4> QED BY <2>3, <4>3, <4>4 DEF IndexBegin
    <3> QED BY <3>1, <3>2, Quiet
  <2>4. CASE IndexSkips
    BY <2>4, Quiet DEF IndexSkips, vars, people, history, sweepVars
  <2>5. CASE Stamp
    BY <2>5, Quiet, IdleType DEF Stamp, Idle, people, history, sweepVars
  <2> QED BY <1>7, <2>1, <2>2, <2>3, <2>4, <2>5 DEF Indexes
<1>8. CASE DaemonCrash
  BY <1>8, Quiet, IdleType DEF DaemonCrash, Idle, people, history, sweepVars
<1>9. CASE UNCHANGED vars
  BY <1>9, Quiet DEF vars, people, history, sweepVars
<1> QED
  BY <1>1, <1>2, <1>3, <1>4, <1>5, <1>6, <1>7, <1>8, <1>9 DEF Next

-----------------------------------------------------------------------------
\* No merge is ever left behind by the cursor of the sweeps (audit.sweep, SWEEP_OVERLAP), for any
\* overlap, any search that learns of a merge within it, and any pull requests.
THEOREM NoMergeMissed == Spec => []NothingMissed
<1>1. Init => SweepInv
  BY SweepInit
<1>2. SweepInv /\ [Next]_vars => SweepInv'
  BY SweepStep
<1>3. SweepInv => NothingMissed
  BY DEF SweepInv
<1> QED
  BY <1>1, <1>2, <1>3, PTL DEF Spec

-----------------------------------------------------------------------------
(* What an audit says in public *)

ReportTypes ==
  /\ now \in Nat \ {0} /\ kind \in [Pulls -> Kind] /\ left \in [Events -> Nat]
  /\ file \in [Pulls -> Nat]
  /\ rows \in [Pulls -> Row] /\ wk \in [Pulls -> Worker] /\ shown \in [Pulls -> Shown]

\* What the row and the worker know to be on GitHub is there, and what is on record was said.
Said(row, w, s) ==
  /\ s.comments <= 1 /\ s.issues <= 1
  /\ row.comment \/ w.comment => s.comments = 1
  /\ row.issue \/ w.issue => s.issues = 1
  /\ row.done # Never /\ row.live /\ row.mode # "sync" =>
       s.comments = 1 /\ (row.open => s.issues = 1)
  /\ ~row.live => s.comments = 0 /\ s.issues = 0

\* A worker has the audit it started with, and past a call, what the call left.
Speaking == {"comment", "note", "issue", "noteissue"}
Underway(row, w, s) ==
  /\ row.mode = "none" => row.head = "none" /\ ~row.live
  /\ w.pc # "none" => row.mode # "none" /\ w.row.live = row.live
  /\ w.pc \in Speaking => row.live
  /\ w.pc \in Speaking \ {"comment"} => s.comments = 1
  /\ w.pc = "noteissue" => s.issues = 1
  /\ w.pc = "record" /\ row.live => s.comments = 1 /\ (w.open => s.issues = 1)

Told(row, w, s) == Said(row, w, s) /\ Underway(row, w, s)
ReportInv == ReportTypes /\ \A p \in Pulls : Told(rows[p], wk[p], shown[p])

LEMMA RowTypes ==
  /\ NoRow \in Row /\ NoWorker \in Worker
  /\ [comments |-> 0, issues |-> 0, report |-> 0] \in Shown
  /\ "none" = NoRow.mode /\ NoWorker.pc = "none"
  BY DEF NoRow, NoWorker, Row, Worker, Shown, Never

\* Rows and workers stay of their types, field by field.
LEMMA RowUpdates ==
  \A r \in Row :
    /\ \A n \in Nat : [r EXCEPT !.head = "running", !.attempts = n] \in Row
    /\ [r EXCEPT !.mode = "full", !.done = Never, !.head = "queued", !.attempts = 0] \in Row
    /\ [r EXCEPT !.comment = TRUE] \in Row /\ [r EXCEPT !.issue = TRUE] \in Row
    /\ \A n \in Nat, o, c, i \in BOOLEAN :
         [r EXCEPT !.done = n, !.open = o, !.comment = c, !.issue = i] \in Row
    /\ \A h \in {"queued", "done", "failed"} : [r EXCEPT !.head = h] \in Row
    /\ [r EXCEPT !.head = "queued", !.attempts = 0] \in Row
  BY DEF Row, Never

LEMMA WorkerUpdates ==
  \A w \in Worker :
    /\ \A n \in Nat, r \in Row, c, i \in BOOLEAN :
         [w EXCEPT !.pc = "review", !.id = n, !.row = r, !.comment = c, !.issue = i] \in Worker
    /\ \A pc \in {"comment", "note", "issue", "noteissue", "record", "over", "fails"} :
         [w EXCEPT !.pc = pc] \in Worker
    /\ \A pc \in {"issue", "record"} : [w EXCEPT !.comment = TRUE, !.pc = pc] \in Worker
    /\ [w EXCEPT !.issue = TRUE, !.pc = "record"] \in Worker
    /\ w.open \in BOOLEAN /\ w.comment \in BOOLEAN /\ w.issue \in BOOLEAN
  BY DEF Worker

LEMMA ReportInit == Init => ReportInv
<1> SUFFICES ASSUME Init PROVE ReportInv
  OBVIOUS
<1>1. kind \in [Pulls -> Kind] /\ left \in [Events -> Nat]
  BY AuditsAssumption DEF Init
<1>2. ReportTypes
  BY <1>1, RowTypes DEF Init, ReportTypes
<1>3. \A p \in Pulls : Told(rows[p], wk[p], shown[p])
  BY DEF Init, Told, Said, Underway, Speaking, NoRow, NoWorker, Never
<1> QED
  BY <1>2, <1>3 DEF ReportInv

LEMMA Spent == ASSUME ReportTypes, NEW e \in Events, Spend(e) PROVE left' \in [Events -> Nat]
  BY DEF ReportTypes, Spend

\* A step that leaves rows, workers and GitHub alone, but for committed reports.
LEMMA Silent ==
  ASSUME ReportInv, UNCHANGED <<kind, file, rows, wk>>, now' \in Nat \ {0}, left' \in [Events -> Nat],
         shown' \in [Pulls -> Shown],
         \A p \in Pulls : shown'[p].comments = shown[p].comments /\ shown'[p].issues = shown[p].issues
  PROVE  ReportInv'
  BY DEF ReportInv, ReportTypes, Told, Said, Underway, Speaking, Never

\* A step of one pull request's audit.
LEMMA OnePull ==
  ASSUME ReportInv, NEW p \in Pulls, UNCHANGED <<kind, now>>, file' \in [Pulls -> Nat], left' \in [Events -> Nat],
         rows' \in [Pulls -> Row], wk' \in [Pulls -> Worker], shown' \in [Pulls -> Shown],
         \A q \in Pulls \ {p} : rows'[q] = rows[q] /\ wk'[q] = wk[q] /\ shown'[q] = shown[q],
         Told(rows'[p], wk'[p], shown'[p])
  PROVE  ReportInv'
<1>1. \A q \in Pulls : Told(rows'[q], wk'[q], shown'[q])
  BY DEF ReportInv
<1> QED
  BY <1>1 DEF ReportInv, ReportTypes

\* A row is created only where there is none, and a row that is not there was told nothing.
LEMMA EnqueuedStep ==
  ASSUME ReportInv, NEW ps \in SUBSET Pulls, NEW l \in BOOLEAN, rows' = Enqueued(ps, l),
         UNCHANGED <<now, kind, file, wk, shown>>, left' \in [Events -> Nat]
  PROVE  ReportInv'
<1>1. \A q \in Pulls : ~Excluded(q) => Created(q, l) \in Row
  BY DEF Excluded, ReportInv, ReportTypes, Created, NoRow, Row, Kind, Never
<1>2. ASSUME NEW q \in Pulls PROVE rows'[q] \in Row /\ Told(rows'[q], wk'[q], shown'[q])
  <2>1. rows'[q] \in {rows[q], Created(q, l)} /\ (rows'[q] # rows[q] => ~Exists(q) /\ ~Excluded(q))
    BY <1>2 DEF Enqueued
  <2>2. CASE rows'[q] = rows[q]
    BY <2>2 DEF ReportInv, ReportTypes
  <2>3. CASE rows'[q] = Created(q, l) /\ ~Exists(q) /\ ~Excluded(q)
    <3>1. shown[q].comments = 0 /\ shown[q].issues = 0 /\ wk[q].pc = "none"
      BY <2>3 DEF Exists, ReportInv, Told, Said, Underway
    <3>2. ~wk[q].comment /\ ~wk[q].issue
      BY <3>1 DEF ReportInv, Told, Said
    <3>3. /\ Created(q, l).mode = kind[q] /\ kind[q] # "none"
          /\ ~Created(q, l).comment /\ ~Created(q, l).issue
          /\ kind[q] # "sync" => Created(q, l).done = Never
      BY <2>3 DEF ReportInv, ReportTypes, Created, NoRow, Kind, Excluded
    <3> QED
      BY <1>1, <2>3, <3>1, <3>2, <3>3 DEF Told, Said, Underway, Speaking
  <2> QED
    BY <2>1, <2>2, <2>3
<1>3. rows' \in [Pulls -> Row]
  BY <1>2 DEF Enqueued
<1> QED
  BY <1>2, <1>3 DEF ReportInv, ReportTypes

LEMMA StartsTells == ASSUME ReportInv, NEW p \in Pulls, Starts(p) PROVE ReportInv'
<1>1. UNCHANGED <<kind, now, file, shown>> /\ left' \in [Events -> Nat] /\ left["run"] \in Nat
  BY Spent DEF reports, Starts, ReportInv, ReportTypes, Events
<1> DEFINE r == [rows[p] EXCEPT !.head = "running", !.attempts = @ + 1]
           w == [NoWorker EXCEPT !.pc = "review", !.id = left["run"], !.row = rows[p],
                                 !.comment = rows[p].comment, !.issue = rows[p].issue]
<1>2. rows' = [rows EXCEPT ![p] = r] /\ wk' = [wk EXCEPT ![p] = w] /\ rows[p].head = "queued"
  BY DEF Starts, ReportInv, ReportTypes, Row
<1>3. r \in Row /\ w \in Worker
  <2>1. rows[p] \in Row
    BY DEF ReportInv, ReportTypes
  <2>2. rows[p].attempts + 1 \in Nat /\ rows[p].comment \in BOOLEAN /\ rows[p].issue \in BOOLEAN
    BY <2>1 DEF Row
  <2> QED
    BY <1>1, <2>1, <2>2, RowTypes, RowUpdates, WorkerUpdates
<1>4. Told(rows[p], wk[p], shown[p]) /\ rows[p].mode # "none"
  BY <1>2 DEF ReportInv, Told, Underway
<1>5. /\ r.mode = rows[p].mode /\ r.live = rows[p].live /\ r.done = rows[p].done /\ r.open = rows[p].open
      /\ r.comment = rows[p].comment /\ r.issue = rows[p].issue
      /\ w.pc = "review" /\ w.row = rows[p] /\ w.comment = rows[p].comment /\ w.issue = rows[p].issue
  BY DEF NoWorker, ReportInv, ReportTypes, Row
<1>6. Told(r, w, shown[p])
  BY <1>4, <1>5 DEF Told, Said, Underway, Speaking
<1> HIDE DEF r, w
<1> QED
  BY <1>1, <1>2, <1>3, <1>6, OnePull DEF ReportInv, ReportTypes

\* A step of a worker that changes its own record, and what it knows only with GitHub.
LEMMA WorkerOnly ==
  ASSUME ReportInv, NEW p \in Pulls, UNCHANGED <<kind, now, file, rows, shown>>, left' \in [Events -> Nat],
         NEW w \in Worker, wk' = [wk EXCEPT ![p] = w], Told(rows[p], w, shown[p])
  PROVE  ReportInv'
  BY OnePull DEF ReportInv, ReportTypes

\* Until an audit's report is out, its run can be moved on or failed without a word said.
LEMMA Moves ==
  ASSUME ReportInv, NEW p \in Pulls, UNCHANGED <<kind, now, file, rows, shown>>, left' \in [Events -> Nat],
         NEW pc \in {"check", "over", "fails"}, Goto(p, pc), wk[p].pc # "none"
  PROVE  ReportInv'
<1>1. [wk[p] EXCEPT !.pc = pc] \in Worker /\ wk' = [wk EXCEPT ![p] = [wk[p] EXCEPT !.pc = pc]]
  BY DEF Goto, ReportInv, ReportTypes, Worker
<1>2. Told(rows[p], [wk[p] EXCEPT !.pc = pc], shown[p])
  BY DEF ReportInv, ReportTypes, Worker, Told, Said, Underway, Speaking
<1> QED
  BY <1>1, <1>2, WorkerOnly

LEMMA RunFailsTells ==
  ASSUME ReportInv, NEW p \in Pulls, UNCHANGED <<kind, now, file, rows, shown>>, RunFails(p), wk[p].pc # "none"
  PROVE  ReportInv'
<1>1. left' \in [Events -> Nat]
  BY Spent DEF RunFails, Fails, ReportInv, Events
<1> QED
  BY <1>1, Moves DEF RunFails

LEMMA ReviewsTells == ASSUME ReportInv, NEW p \in Pulls, Reviews(p) PROVE ReportInv'
<1>1. UNCHANGED <<kind, now, file, rows, shown>> /\ wk[p].pc = "review"
  BY DEF reports, Reviews
<1>2. ASSUME NEW b \in BOOLEAN, wk' = [wk EXCEPT ![p].pc = "check", ![p].blockers = b], UNCHANGED left
      PROVE  ReportInv'
  <2> DEFINE w == [wk[p] EXCEPT !.pc = "check", !.blockers = b]
  <2>1. w \in Worker /\ wk' = [wk EXCEPT ![p] = w]
    BY <1>2 DEF ReportInv, ReportTypes, Worker
  <2>2. Told(rows[p], w, shown[p])
    BY <1>1 DEF ReportInv, ReportTypes, Worker, Told, Said, Underway, Speaking
  <2> HIDE DEF w
  <2> QED
    BY <1>1, <1>2, <2>1, <2>2, WorkerOnly DEF ReportInv, ReportTypes
<1>3. CASE RunFails(p)
  BY <1>1, <1>3, RunFailsTells
<1> QED
  BY <1>2, <1>3 DEF Reviews

LEMMA EscalatesTells == ASSUME ReportInv, NEW p \in Pulls, Escalates(p) PROVE ReportInv'
<1> DEFINE r == [rows[p] EXCEPT !.mode = "full", !.done = Never, !.head = "queued", !.attempts = 0]
           w == [wk[p] EXCEPT !.pc = "over"]
<1>1. /\ UNCHANGED <<kind, now, file, shown, left>> /\ wk[p].pc = "check"
      /\ rows' = [rows EXCEPT ![p] = r] /\ wk' = [wk EXCEPT ![p] = w]
  BY DEF reports, Escalates, Goto, ReportInv, ReportTypes, Row, Worker
<1>2. r \in Row /\ w \in Worker
  BY RowUpdates, WorkerUpdates DEF ReportInv, ReportTypes
<1>3. Told(r, w, shown[p])
  <2>1. rows[p] \in Row /\ wk[p] \in Worker /\ Told(rows[p], wk[p], shown[p])
    BY DEF ReportInv, ReportTypes
  <2>2. /\ r.mode = "full" /\ r.live = rows[p].live /\ r.done = Never
        /\ r.comment = rows[p].comment /\ r.issue = rows[p].issue
    BY <2>1 DEF Row, Never
  <2>3. /\ w.pc = "over" /\ w.row = wk[p].row
        /\ w.comment = wk[p].comment /\ w.issue = wk[p].issue
    BY <2>1 DEF Worker
  <2> HIDE DEF r, w
  <2> QED
    BY <1>1, <1>2, <2>1, <2>2, <2>3 DEF Told, Said, Underway, Speaking
<1> HIDE DEF r, w
<1> QED
  BY <1>1, <1>2, <1>3, OnePull DEF ReportInv, ReportTypes

LEMMA ChecksTells == ASSUME ReportInv, NEW p \in Pulls, Checks(p) PROVE ReportInv'
<1>1. UNCHANGED <<kind, now, file, rows, shown>> /\ wk[p].pc = "check"
  BY DEF reports, Checks
<1>2. ASSUME NEW o \in BOOLEAN, wk' = [wk EXCEPT ![p].pc = "report", ![p].open = o],
             left' \in [Events -> Nat]
      PROVE  ReportInv'
  <2> DEFINE w == [wk[p] EXCEPT !.pc = "report", !.open = o]
  <2>1. w \in Worker /\ wk' = [wk EXCEPT ![p] = w]
    BY <1>2 DEF ReportInv, ReportTypes, Worker
  <2>2. Told(rows[p], w, shown[p])
    BY <1>1 DEF ReportInv, ReportTypes, Worker, Told, Said, Underway, Speaking
  <2> HIDE DEF w
  <2> QED
    BY <1>1, <1>2, <2>1, <2>2, WorkerOnly
<1>3. CASE RunFails(p)
  BY <1>1, <1>3, RunFailsTells
<1>4. left' \in [Events -> Nat]
  BY Spent DEF Checks, RunFails, Fails, ReportInv, ReportTypes, Events
<1> QED
  BY <1>2, <1>3, <1>4 DEF Checks

\* An audit of a backfill says nothing: its run goes from the report to the record.
LEMMA ReportsTells == ASSUME ReportInv, NEW p \in Pulls, Reports(p) PROVE ReportInv'
<1> DEFINE pc == IF wk[p].row.live THEN "comment" ELSE "record"
           w == [wk[p] EXCEPT !.pc = pc]
<1>1. /\ UNCHANGED <<kind, now, rows, shown, left>> /\ wk[p].pc = "report" /\ wk' = [wk EXCEPT ![p] = w]
      /\ file' = [file EXCEPT ![p] = wk[p].id]
  BY DEF Reports, Goto
<1>2. wk[p] \in Worker /\ pc \in {"comment", "record"} /\ Told(rows[p], wk[p], shown[p])
      /\ wk[p].row.live = rows[p].live
  BY <1>1 DEF ReportInv, ReportTypes, Told, Underway
<1>3. w \in Worker /\ wk[p].id \in Nat
  BY <1>2 DEF Worker
<1>4. Told(rows[p], w, shown[p])
  BY <1>1, <1>2 DEF Worker, Told, Said, Underway, Speaking
<1>5. file' \in [Pulls -> Nat]
  BY <1>1, <1>3 DEF ReportInv, ReportTypes
<1> HIDE DEF w
<1> QED
  BY <1>1, <1>3, <1>4, <1>5, OnePull DEF ReportInv, ReportTypes

LEMMA NotesTells == ASSUME ReportInv, NEW p \in Pulls, Notes(p) PROVE ReportInv'
<1> DEFINE r == [rows[p] EXCEPT !.comment = TRUE]
           pc == IF wk[p].open /\ ~wk[p].issue THEN "issue" ELSE "record"
           w == [wk[p] EXCEPT !.comment = TRUE, !.pc = pc]
<1>1. /\ UNCHANGED <<kind, now, file, shown, left>> /\ wk[p].pc = "note"
      /\ rows' = [rows EXCEPT ![p] = r] /\ wk' = [wk EXCEPT ![p] = w]
  BY DEF reports, Notes, ReportInv, ReportTypes, Row, Worker
<1>2. pc \in {"issue", "record"} /\ r \in Row /\ w \in Worker
  BY RowUpdates, WorkerUpdates DEF ReportInv, ReportTypes
<1>3. Told(r, w, shown[p])
  <2>1. rows[p] \in Row /\ wk[p] \in Worker /\ Told(rows[p], wk[p], shown[p])
    BY DEF ReportInv, ReportTypes
  <2>2. /\ r.mode = rows[p].mode /\ r.live = rows[p].live /\ r.head = rows[p].head
        /\ r.done = rows[p].done /\ r.open = rows[p].open
        /\ r.comment /\ r.issue = rows[p].issue
    BY <2>1 DEF Row, Never
  <2>3. /\ w.pc = pc /\ w.row = wk[p].row /\ w.open = wk[p].open
        /\ w.comment /\ w.issue = wk[p].issue
    BY <2>1 DEF Worker
  <2> HIDE DEF r, w
  <2> QED
    BY <1>1, <1>2, <2>1, <2>2, <2>3 DEF Told, Said, Underway, Speaking
<1> HIDE DEF r, w
<1> QED
  BY <1>1, <1>2, <1>3, OnePull DEF ReportInv, ReportTypes

LEMMA NotesIssueTells == ASSUME ReportInv, NEW p \in Pulls, NotesIssue(p) PROVE ReportInv'
<1> DEFINE r == [rows[p] EXCEPT !.issue = TRUE]
           w == [wk[p] EXCEPT !.issue = TRUE, !.pc = "record"]
<1>1. /\ UNCHANGED <<kind, now, file, shown, left>> /\ wk[p].pc = "noteissue"
      /\ rows' = [rows EXCEPT ![p] = r] /\ wk' = [wk EXCEPT ![p] = w]
  BY DEF reports, NotesIssue, ReportInv, ReportTypes, Row, Worker
<1>2. r \in Row /\ w \in Worker
  BY RowUpdates, WorkerUpdates DEF ReportInv, ReportTypes
<1>3. Told(r, w, shown[p])
  <2>1. rows[p] \in Row /\ wk[p] \in Worker /\ Told(rows[p], wk[p], shown[p])
    BY DEF ReportInv, ReportTypes
  <2>2. /\ r.mode = rows[p].mode /\ r.live = rows[p].live /\ r.head = rows[p].head
        /\ r.done = rows[p].done /\ r.open = rows[p].open
        /\ r.comment = rows[p].comment /\ r.issue
    BY <2>1 DEF Row, Never
  <2>3. /\ w.pc = "record" /\ w.row = wk[p].row /\ w.open = wk[p].open
        /\ w.comment = wk[p].comment /\ w.issue
    BY <2>1 DEF Worker
  <2> HIDE DEF r, w
  <2> QED
    BY <1>1, <1>2, <2>1, <2>2, <2>3 DEF Told, Said, Underway, Speaking
<1> HIDE DEF r, w
<1> QED
  BY <1>1, <1>2, <1>3, OnePull DEF ReportInv, ReportTypes

\* The outcome goes on record when the comment, and the issue it calls for, are out.
LEMMA RecordsTells == ASSUME ReportInv, NEW p \in Pulls, Records(p) PROVE ReportInv'
<1> DEFINE r == [rows[p] EXCEPT !.done = now, !.open = wk[p].open,
                                !.comment = wk[p].comment, !.issue = wk[p].issue]
           w == [wk[p] EXCEPT !.pc = "over"]
<1>1. /\ UNCHANGED <<kind, now, file, shown, left>> /\ wk[p].pc = "record"
      /\ rows' = [rows EXCEPT ![p] = r] /\ wk' = [wk EXCEPT ![p] = w]
  BY DEF reports, Records, Goto, ReportInv, ReportTypes, Row, Worker
<1>2. r \in Row /\ w \in Worker
  BY RowUpdates, WorkerUpdates DEF ReportInv, ReportTypes
<1>3. Told(r, w, shown[p])
  <2>1. rows[p] \in Row /\ wk[p] \in Worker /\ Told(rows[p], wk[p], shown[p])
    BY DEF ReportInv, ReportTypes
  <2>2. /\ r.mode = rows[p].mode /\ r.live = rows[p].live /\ r.head = rows[p].head
        /\ r.open = wk[p].open /\ r.comment = wk[p].comment /\ r.issue = wk[p].issue
    BY <2>1 DEF Row
  <2>3. /\ w.pc = "over" /\ w.row = wk[p].row
        /\ w.comment = wk[p].comment /\ w.issue = wk[p].issue
    BY <2>1 DEF Worker
  <2> HIDE DEF r, w
  <2> QED
    BY <1>1, <2>1, <2>2, <2>3 DEF Told, Said, Underway, Speaking
<1> HIDE DEF r, w
<1> QED
  BY <1>1, <1>2, <1>3, OnePull DEF ReportInv, ReportTypes

\* A call that posts, or finds what was posted: the worker goes on or fails, GitHub has it.
LEMMA CallStep ==
  ASSUME ReportInv, NEW p \in Pulls, UNCHANGED <<kind, now, file, rows>>, left' \in [Events -> Nat],
         NEW s \in Shown, shown' = [shown EXCEPT ![p] = s],
         NEW pc \in {"note", "noteissue", "fails"}, Goto(p, pc),
         wk[p].pc \in {"comment", "issue"},
         s.comments \in {shown[p].comments, 1} /\ s.issues \in {shown[p].issues, 1},
         wk[p].pc = "comment" => s.issues = shown[p].issues,
         pc \in {"note", "noteissue"} => s.comments = 1,
         pc = "noteissue" => s.issues = 1
  PROVE  ReportInv'
<1> DEFINE w == [wk[p] EXCEPT !.pc = pc]
<1>1. w \in Worker /\ wk' = [wk EXCEPT ![p] = w]
  BY WorkerUpdates DEF Goto, ReportInv, ReportTypes
<1>2. Told(rows[p], wk[p], shown[p]) /\ wk[p] \in Worker
  BY DEF ReportInv, ReportTypes
<1>3. /\ w.pc = pc /\ w.comment = wk[p].comment /\ w.issue = wk[p].issue
      /\ w.row = wk[p].row /\ w.open = wk[p].open
  BY <1>2 DEF Worker
<1>4. Told(rows[p], w, s)
  BY <1>2, <1>3 DEF Told, Said, Underway, Speaking
<1> HIDE DEF w
<1> QED
  BY <1>1, <1>4, OnePull DEF ReportInv, ReportTypes

LEMMA PostedOnce ==
  ASSUME ReportInv, NEW p \in Pulls
  PROVE  /\ shown[p] \in Shown /\ shown[p].comments \in {0, 1} /\ shown[p].issues \in {0, 1}
         /\ Posted(p, "comments") /\ shown[p].comments = 0 =>
              \E s \in Shown : /\ shown' = [shown EXCEPT ![p] = s]
                              /\ s.comments = 1 /\ s.issues = shown[p].issues
         /\ Posted(p, "issues") /\ shown[p].issues = 0 =>
              \E s \in Shown : /\ shown' = [shown EXCEPT ![p] = s]
                              /\ s.issues = 1 /\ s.comments = shown[p].comments
<1>1. shown[p] \in Shown /\ shown[p].comments <= 1 /\ shown[p].issues <= 1
  BY DEF ReportInv, ReportTypes, Told, Said
<1>2. shown[p].comments \in {0, 1} /\ shown[p].issues \in {0, 1}
  BY <1>1 DEF Shown
<1>3. \A s \in Shown : /\ [s EXCEPT !.comments = 1] \in Shown /\ [s EXCEPT !.issues = 1] \in Shown
                       /\ [s EXCEPT !.comments = 1].comments = 1 /\ [s EXCEPT !.issues = 1].issues = 1
                       /\ [s EXCEPT !.comments = 1].issues = s.issues
                       /\ [s EXCEPT !.issues = 1].comments = s.comments
  BY DEF Shown
<1>4. ASSUME Posted(p, "comments"), shown[p].comments = 0
      PROVE  shown' = [shown EXCEPT ![p] = [shown[p] EXCEPT !.comments = 1]]
  <2>1. shown[p].comments + 1 = 1
    BY <1>4
  <2>2. shown' = [shown EXCEPT ![p] = [shown[p] EXCEPT !.comments = shown[p].comments + 1]]
    BY <1>4 DEF Posted
  <2> QED
    BY <2>1, <2>2
<1>5. ASSUME Posted(p, "issues"), shown[p].issues = 0
      PROVE  shown' = [shown EXCEPT ![p] = [shown[p] EXCEPT !.issues = 1]]
  <2>1. shown[p].issues + 1 = 1
    BY <1>5
  <2>2. shown' = [shown EXCEPT ![p] = [shown[p] EXCEPT !.issues = shown[p].issues + 1]]
    BY <1>5 DEF Posted
  <2> QED
    BY <2>1, <2>2
<1> QED
  BY <1>1, <1>2, <1>3, <1>4, <1>5

LEMMA CommentsTells == ASSUME ReportInv, NEW p \in Pulls, Comments(p) PROVE ReportInv'
<1>1. UNCHANGED <<kind, now, file, rows>> /\ wk[p].pc = "comment"
  BY DEF reports, Comments
<1>2. left' \in [Events -> Nat]
  BY Spent DEF Comments, RunFails, Fails, Events, ReportInv, ReportTypes
<1>3. CASE CommentKnown(p) /\ Goto(p, "note") /\ UNCHANGED shown
  <2>1. shown[p].comments = 1
    BY <1>3, PostedOnce DEF CommentKnown, ReportInv, Told, Said
  <2>2. shown' = [shown EXCEPT ![p] = shown[p]]
    BY <1>3 DEF ReportInv, ReportTypes
  <2> QED
    BY <1>1, <1>2, <1>3, <2>1, <2>2, PostedOnce, CallStep
<1>4. CASE ~CommentKnown(p) /\ Posted(p, "comments") /\ (Goto(p, "note") \/ Goto(p, "fails"))
  <2>1. shown[p].comments = 0
    BY <1>4, PostedOnce DEF CommentKnown
  <2>2. PICK s \in Shown : /\ shown' = [shown EXCEPT ![p] = s]
                           /\ s.comments = 1 /\ s.issues = shown[p].issues
    BY <1>4, <2>1, PostedOnce
  <2> QED
    BY <1>1, <1>2, <1>4, <2>2, CallStep
<1>5. CASE RunFails(p) /\ UNCHANGED shown
  BY <1>1, <1>5, RunFailsTells
<1> QED
  BY <1>3, <1>4, <1>5 DEF Comments, RunFails

LEMMA IssuesTells == ASSUME ReportInv, NEW p \in Pulls, Issues(p) PROVE ReportInv'
<1>1. UNCHANGED <<kind, now, file, rows>> /\ wk[p].pc = "issue" /\ shown[p].comments = 1
  BY DEF reports, Issues, ReportInv, Told, Underway, Speaking
<1>2. left' \in [Events -> Nat]
  BY Spent DEF Issues, RunFails, Fails, Events, ReportInv, ReportTypes
<1>3. CASE IssueKnown(p) /\ Goto(p, "noteissue") /\ UNCHANGED shown
  <2>1. shown[p].issues = 1
    BY <1>3, PostedOnce DEF IssueKnown
  <2>2. shown' = [shown EXCEPT ![p] = shown[p]]
    BY <1>3 DEF ReportInv, ReportTypes
  <2> QED
    BY <1>1, <1>2, <1>3, <2>1, <2>2, PostedOnce, CallStep
<1>4. CASE ~IssueKnown(p) /\ Posted(p, "issues") /\ (Goto(p, "noteissue") \/ Goto(p, "fails"))
  <2>1. shown[p].issues = 0
    BY <1>4, PostedOnce DEF IssueKnown
  <2>2. PICK s \in Shown : /\ shown' = [shown EXCEPT ![p] = s]
                           /\ s.issues = 1 /\ s.comments = shown[p].comments
    BY <1>4, <2>1, PostedOnce
  <2> QED
    BY <1>1, <1>2, <1>4, <2>2, CallStep
<1>5. CASE RunFails(p) /\ UNCHANGED shown
  BY <1>1, <1>5, RunFailsTells
<1> QED
  BY <1>3, <1>4, <1>5 DEF Issues, RunFails

\* The head moves on with its run, which says nothing.
LEMMA HeadMoves ==
  ASSUME ReportInv, NEW p \in Pulls, UNCHANGED <<kind, now, file, shown>>, left' \in [Events -> Nat],
         wk' = [wk EXCEPT ![p] = NoWorker],
         rows' = rows \/ (/\ rows[p].head = "running"
                          /\ \E h \in {"queued", "done", "failed"} : rows' = [rows EXCEPT ![p].head = h])
  PROVE  ReportInv'
<1>1. Told(rows[p], wk[p], shown[p]) /\ rows[p] \in Row
  BY DEF ReportInv, ReportTypes
<1>2. Told(rows[p], NoWorker, shown[p])
  BY <1>1 DEF Told, Said, Underway, Speaking, NoWorker
<1>3. CASE rows' = rows
  BY <1>2, <1>3, RowTypes, OnePull DEF ReportInv, ReportTypes
<1>4. ASSUME rows[p].head = "running", NEW h \in {"queued", "done", "failed"},
             rows' = [rows EXCEPT ![p].head = h]
      PROVE  ReportInv'
  <2> DEFINE r == [rows[p] EXCEPT !.head = h]
  <2>1. r \in Row /\ rows' = [rows EXCEPT ![p] = r]
    BY <1>1, <1>4, RowUpdates
  <2>2. Told(r, NoWorker, shown[p])
    BY <1>1, <1>2, <1>4 DEF Row, Told, Said, Underway, Speaking, NoWorker
  <2> HIDE DEF r
  <2> QED
    BY <2>1, <2>2, RowTypes, OnePull DEF ReportInv, ReportTypes
<1> QED
  BY <1>3, <1>4

LEMMA EndsTells == ASSUME ReportInv, NEW p \in Pulls, Ends(p) \/ Dies(p) PROVE ReportInv'
<1>1. UNCHANGED <<kind, now, file, shown>> /\ wk' = [wk EXCEPT ![p] = NoWorker]
  BY DEF Ends, Dies, reports
<1>2. left' \in [Events -> Nat]
  BY Spent DEF Ends, Dies, Events, ReportInv, ReportTypes
<1>3. Ended(p) \/ \E retries \in BOOLEAN : Requeued(p, retries)
  BY DEF Ends, Dies
<1> QED
  BY <1>1, <1>2, <1>3, HeadMoves DEF Ended, Requeued

LEMMA RetryTells == ASSUME ReportInv, Retry PROVE ReportInv'
<1>1. UNCHANGED <<kind, now, file, shown, wk>> /\ left' \in [Events -> Nat]
  BY Spent DEF reports, Retry, Events, ReportInv, ReportTypes
<1>2. ASSUME NEW q \in Pulls PROVE rows'[q] \in Row /\ Told(rows'[q], wk'[q], shown'[q])
  <2> DEFINE r == [rows[q] EXCEPT !.head = "queued", !.attempts = 0]
  <2>1. rows[q] \in Row /\ Told(rows[q], wk[q], shown[q]) /\ r \in Row
    BY RowUpdates DEF ReportInv, ReportTypes
  <2>2. rows'[q] = IF rows[q].head = "failed" THEN r ELSE rows[q]
    BY DEF Retry
  <2>3. rows[q].head = "failed" => Told(r, wk[q], shown[q])
    BY <2>1 DEF Row, Told, Said, Underway, Speaking
  <2> HIDE DEF r
  <2> QED
    BY <1>1, <2>1, <2>2, <2>3
<1>3. rows' \in [Pulls -> Row]
  BY <1>2 DEF Retry
<1> QED
  BY <1>1, <1>2, <1>3 DEF ReportInv, ReportTypes

\* A pass of the index moves committed reports, nothing that a pull request shows.
LEMMA SyncTells == ASSUME ReportInv, NEW p \in Pulls, Sync(p) PROVE ReportInv'
<1>1. UNCHANGED <<now, kind, file, rows, wk>> /\ left' \in [Events -> Nat]
  BY Spent DEF reports, Sync, Fails, Events, ReportInv, ReportTypes
<1>2. CASE UNCHANGED shown
  BY <1>1, <1>2, Silent DEF ReportInv, ReportTypes
<1>3. CASE shown' = [shown EXCEPT ![p].report = file[p]]
  <2>1. \A s \in Shown : /\ [s EXCEPT !.report = file[p]] \in Shown
                         /\ [s EXCEPT !.report = file[p]].comments = s.comments
                         /\ [s EXCEPT !.report = file[p]].issues = s.issues
    BY DEF ReportInv, ReportTypes, Shown
  <2>2. \A q \in Pulls : /\ shown'[q] \in Shown
                         /\ shown'[q].comments = shown[q].comments /\ shown'[q].issues = shown[q].issues
    BY <1>3, <2>1 DEF ReportInv, ReportTypes
  <2>3. shown' \in [Pulls -> Shown]
    BY <1>3, <2>2 DEF ReportInv, ReportTypes
  <2> QED
    BY <1>1, <2>2, <2>3, Silent DEF ReportInv, ReportTypes
<1> QED
  BY <1>2, <1>3 DEF Sync

LEMMA ReportStep ==
  ASSUME ReportInv, [Next]_vars
  PROVE  ReportInv'
<1>1. ASSUME NEW p \in Pulls, WorkerNext(p) PROVE ReportInv'
  BY <1>1, StartsTells, ReviewsTells, EscalatesTells, ChecksTells, ReportsTells, CommentsTells, NotesTells,
     IssuesTells, NotesIssueTells, RecordsTells, EndsTells DEF WorkerNext
<1>2. ASSUME NEW p \in Pulls, Sync(p) PROVE ReportInv'
  BY <1>2, SyncTells
<1>3. CASE Retry
  BY <1>3, RetryTells
<1>4. CASE SweepApply
  <2>1. UNCHANGED <<now, kind, file, wk, shown, left>> /\ rows' = Enqueued(daemon.found, TRUE)
    BY <1>4 DEF SweepApply, reports
  <2>2. rows' = Enqueued(daemon.found \cap Pulls, TRUE)
    BY <2>1 DEF Enqueued
  <2> QED
    BY <2>1, <2>2, EnqueuedStep DEF ReportInv, ReportTypes
<1>5. ASSUME NEW p \in Pulls, SeedOne(p) PROVE ReportInv'
  BY <1>5, EnqueuedStep DEF SeedOne, reports, ReportInv, ReportTypes
<1>6. CASE Tick
  <2>1. UNCHANGED <<kind, file, rows, wk, shown>> /\ left' \in [Events -> Nat] /\ now' = now + 1
    BY <1>6, Spent DEF Tick, reports, Events, ReportInv
  <2> QED
    BY <2>1, Silent DEF ReportInv, ReportTypes
<1>7. ASSUME UNCHANGED <<now, kind, file, rows, wk, shown>>, left' \in [Events -> Nat] PROVE ReportInv'
  BY <1>7, Silent DEF ReportInv, ReportTypes
<1>8. ASSUME NEW p \in Pulls, MergePull(p) \/ Judge(p) PROVE ReportInv'
  BY <1>7, <1>8, Spent DEF MergePull, Judge, reports, Events, ReportInv
<1>9. CASE SeedFetch \/ SweepBegin \/ SweepSearch \/ DaemonCrash
  BY <1>7, <1>9, Spent DEF SeedFetch, SweepBegin, SweepSearch, DaemonCrash, Fails, reports, Events,
                           ReportInv, ReportTypes
<1>10. CASE IndexBegin \/ IndexSkips \/ IndexPut \/ Stamp
  BY <1>7, <1>10, Spent DEF IndexBegin, IndexSkips, IndexPut, Stamp, Fails, vars, reports, Events,
                            ReportInv, ReportTypes
<1>11. CASE UNCHANGED vars
  BY <1>7, <1>11 DEF vars, reports, ReportInv, ReportTypes
<1> QED
  BY <1>1, <1>2, <1>3, <1>4, <1>5, <1>6, <1>8, <1>9, <1>10, <1>11 DEF Next, Sweeps, Indexes

-----------------------------------------------------------------------------
\* A merge is told at most once, and has at most one issue, for any number of attempts that fail or
\* die after any call, and what is on record was said (audit.post_live).
THEOREM ToldOnce == Spec => []PostedOncePerPull
<1>1. Init => ReportInv
  BY ReportInit
<1>2. ReportInv /\ [Next]_vars => ReportInv'
  BY ReportStep
<1>3. ReportInv => PostedOncePerPull
  BY DEF ReportInv, ReportTypes, Shown, Told, Said, PostedOncePerPull
<1> QED
  BY <1>1, <1>2, <1>3, PTL DEF Spec
=============================================================================
