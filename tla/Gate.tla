-------------------------------- MODULE Gate --------------------------------
(***************************************************************************)
(* The gate comment: the one comment of a pull request that says where its *)
(* review is.  The daemon's pass writes it for heads that wait, and reads  *)
(* the boxes people tick on it (queue_status.py); a worker writes it from  *)
(* its main thread when its status changes, and from its heartbeat thread  *)
(* while it works (worker.py).  Nothing but the comment says what is on    *)
(* it: every writer reads it back, or writes over what it does not know.   *)
(*                                                                         *)
(*   gh, prs    the pull request on GitHub, and as the last poll saw it    *)
(*   heads      its head rows (Heads)                                      *)
(*   comments   the gate comments on it, in the order they came            *)
(*   cached     kv queue.comment_id: the one the daemon knows, 0 for none  *)
(*   noted      kv queue.skip_noted: the commit that got the label's note  *)
(*   pass       the daemon's pass: the head it read the comment for, which *)
(*              comment and what was on it, and if the first part writes   *)
(*   worker     per commit: where the main thread is, what it says and to  *)
(*              which comment, how it ends; gate_live_kw, gate_comment_id; *)
(*              and where the heartbeat thread is                          *)
(*   changes, ticks, starts, updates, faults   what may still happen       *)
(*                                                                         *)
(* One pull request: a pass reads the comments of all before it writes     *)
(* the first, so anything of Next that is no task of the daemon may happen *)
(* between its parts.  Place in line, times, the steps and bar of a run in *)
(* progress, and the cap on writes per pass are left out.                  *)
(***************************************************************************)
EXTENDS Heads

S == INSTANCE Sequences   \* its Head is a row's type in Heads

CONSTANTS First,     \* the commit the pull request starts at
          Scenes     \* what people do, and how often: see below

\* A scene: the pull request starts as a draft or not; what people do to it; how
\* often things may happen (bounds).
Scene == [draft : BOOLEAN, people : SUBSET {"head", "open", "draft", "skip", "delete", "ask"},
          changes : Nat, ticks : Nat, starts : Nat, updates : Nat, faults : Nat]

ASSUME GateAssumption == First \in Shas /\ \A scene \in Scenes : scene \in Scene

VARIABLES people, gh, prs, heads, comments, cached, noted, pass, worker,
          changes, ticks, starts, updates, faults

bounds == <<changes, ticks, starts, updates, faults>>
vars == <<people, gh, prs, heads, comments, cached, noted, pass, worker, bounds>>

\* What a comment says, of which commit; a queue body says if the head has priority.
Body(says, c, prio) == [says |-> says, of |-> c, prio |-> prio, box |-> "no"]
Gone == Body("gone", NoSha, FALSE)
Progress(c) == Body("progress", c, FALSE)

PassIdle == [at |-> "idle", row |-> NoSha, id |-> 0, saw |-> Gone, aside |-> FALSE]
WkIdle == [at |-> "no", says |-> Gone, to |-> 0, ends |-> "none",
           live |-> FALSE, id |-> 0, beat |-> "idle"]
DaemonIdle == pass.at = "idle"

Init ==
  \E scene \in Scenes :
    /\ people = scene.people
    /\ gh = [open |-> TRUE, head |-> First, draft |-> scene.draft, skip |-> FALSE] /\ prs = gh
    /\ heads = [s \in Shas |->
         IF s = First /\ ~scene.draft THEN [NewHead([x \in Shas |-> NoHead], "new") EXCEPT !.id = 1] ELSE NoHead]
    /\ comments = << >> /\ cached = 0 /\ noted = NoSha
    /\ pass = PassIdle /\ worker = [s \in Shas |-> WkIdle]
    /\ changes = scene.changes /\ ticks = scene.ticks /\ starts = scene.starts
    /\ updates = scene.updates /\ faults = scene.faults

-----------------------------------------------------------------------------
(* People, the poll, and the tasks that move heads.                        *)

Elsewhere == <<people, comments, cached, pass, worker>>
Fault == faults > 0 /\ faults' = faults - 1

Change(field, value) ==
  /\ field \in people /\ changes > 0 /\ gh[field] # value
  /\ gh' = [gh EXCEPT ![field] = value] /\ changes' = changes - 1
  /\ UNCHANGED <<prs, heads, noted, Elsewhere, ticks, starts, updates, faults>>

Push(c) == gh.open /\ Change("head", c)
Toggle(field) == (gh.open \/ field = "open") /\ Change(field, ~gh[field])

\* The boxes a body offers.
Boxes(body) ==
  CASE body.says \in {"draft", "debounce"} -> {"normal", "priority"}
    [] body.says = "queued" /\ ~body.prio -> {"priority"}
    [] OTHER -> {}

Tick(i, box) ==
  /\ ticks > 0 /\ gh.open /\ comments[i].box = "no" /\ box \in Boxes(comments[i])
  /\ comments' = [comments EXCEPT ![i].box = box] /\ ticks' = ticks - 1
  /\ UNCHANGED <<people, gh, prs, heads, cached, noted, pass, worker, changes, starts, updates, faults>>

Delete(i) ==
  /\ "delete" \in people /\ changes > 0 /\ comments[i] # Gone
  /\ comments' = [comments EXCEPT ![i] = Gone] /\ changes' = changes - 1
  /\ UNCHANGED <<people, gh, prs, heads, cached, noted, pass, worker, ticks, starts, updates, faults>>

Active == {s \in Shas : worker[s].at # "no"}
Enqueued(c, trigger) ==
  Enqueue(heads, c, trigger, [label |-> prs.skip, reviewed |-> {}, active |-> Active])

\* ingest_repo: a label that goes takes the note with it.
Poll ==
  /\ DaemonIdle /\ prs # gh
  /\ prs' = gh
  /\ heads' = IF ~gh.open THEN CloseHeads(heads, NoSha, FALSE)
              ELSE IF gh.skip THEN SkipHeads(heads, gh.head)
              ELSE IF gh.draft THEN CloseHeads(heads, gh.head, TRUE)
              ELSE Enqueue(heads, gh.head, "new", [label |-> FALSE, reviewed |-> {}, active |-> Active]).hs
  /\ noted' = IF gh.open /\ ~gh.skip /\ prs.skip THEN NoSha ELSE noted
  /\ UNCHANGED <<gh, Elsewhere, bounds>>

\* Someone mentions the bot.
Ask ==
  /\ DaemonIdle /\ "ask" \in people /\ changes > 0 /\ gh.open
  /\ heads' = Enqueued(gh.head, "mention").hs /\ changes' = changes - 1
  /\ UNCHANGED <<gh, prs, noted, Elsewhere, ticks, starts, updates, faults>>

\* The push debounce, or a retry's backoff, is over.
Elapse(c) ==
  /\ DaemonIdle /\ heads[c].status = "queued" /\ ~heads[c].due
  /\ heads' = [heads EXCEPT ![c].due = TRUE]
  /\ UNCHANGED <<gh, prs, noted, Elsewhere, bounds>>

Start(c) ==
  /\ DaemonIdle /\ heads[c].status = "queued" /\ heads[c].due /\ starts > 0 /\ Active = {}
  /\ heads' = [heads EXCEPT ![c] = StartHead(@, @.attempts)] /\ starts' = starts - 1
  /\ worker' = [worker EXCEPT ![c] = [WkIdle EXCEPT !.at = "boot"]]
  /\ UNCHANGED <<people, gh, prs, noted, comments, cached, pass, changes, ticks, updates, faults>>

-----------------------------------------------------------------------------
(* The comment on GitHub.                                                  *)

\* github.find_gate_comment: the first one.
There == {i \in DOMAIN comments : comments[i] # Gone}
FirstOf(ids) == IF ids = {} THEN 0 ELSE CHOOSE i \in ids : \A j \in ids : i <= j

\* PATCH id, or POST with no id; an edit of a deleted comment fails.
Writes(id, body) ==
  IF id = 0 THEN comments' = S!Append(comments, body)
  ELSE comments' = IF id \in There THEN [comments EXCEPT ![id] = body] ELSE comments

-----------------------------------------------------------------------------
(* The daemon's pass (queue_status.update_queue_comments).                 *)

Daemon == <<people, gh, prs, worker, changes, ticks, starts, updates>>

\* _read_comment: the cached one, else the first, which is cached then.
Reads == IF cached \in There THEN cached ELSE FirstOf(There)
Saw(id) == IF id = 0 THEN Gone ELSE comments[id]

Promote(c) == [heads EXCEPT ![c].prio = TRUE, ![c].trig = "manual", ![c].due = TRUE]

\* The queued head, if any, is the row of the pull request; a priority box that is
\* ticked moves it to the front.  A read that fails leaves the row out.
PassStart ==
  /\ DaemonIdle
  /\ LET rows == {s \in Shas : heads[s].status = "queued"}
         saw == Saw(Reads)
     IN  IF rows = {}
         THEN /\ pass' = [PassIdle EXCEPT !.at = "deferred"]
              /\ UNCHANGED <<heads, cached, faults>>
         ELSE \E c \in rows :
                \/ /\ pass' = [PassIdle EXCEPT !.at = "deferred", !.row = c, !.id = Reads, !.saw = saw]
                   /\ heads' = IF saw.box = "priority" /\ ~heads[c].prio THEN Promote(c) ELSE heads
                   /\ cached' = Reads /\ UNCHANGED faults
                \/ Fault /\ pass' = [PassIdle EXCEPT !.at = "deferred"] /\ UNCHANGED <<heads, cached>>
  /\ UNCHANGED <<Daemon, noted, comments>>

\* A head in its push debounce; a draft whose commit is not in line.
Debounced(c) == heads[c].status = "queued" /\ ~heads[c].due /\ ~heads[c].prio /\ heads[c].attempts = 0
Deferred ==
  /\ prs.open /\ ~prs.skip
  /\ (prs.draft /\ heads[prs.head].status # "queued") \/ Debounced(prs.head)

Trigger(box) == IF box = "priority" THEN "manual" ELSE "normal"
Go(at) == pass' = [pass EXCEPT !.at = at, !.aside = (pass.aside \/ pass.row = prs.head)]

\* The deferred part: a box is a request, else the body says why nothing started.
PassDeferred ==
  /\ pass.at = "deferred" /\ Deferred
  /\ LET body == Body(IF prs.draft THEN "draft" ELSE "debounce", prs.head, FALSE)
         saw == Saw(Reads)
     IN  \/ /\ saw.box # "no"
            /\ heads' = Enqueued(prs.head, Trigger(saw.box)).hs
            /\ cached' = Reads /\ Go("skip") /\ UNCHANGED <<faults, comments>>
         \/ /\ saw.box = "no"
            /\ heads[prs.head].status \in {"running", "done"} \/ saw = body
            /\ cached' = Reads /\ Go("skip") /\ UNCHANGED <<faults, heads, comments>>
         \/ /\ saw.box = "no" /\ saw # body /\ heads[prs.head].status \notin {"running", "done"}
            /\ cached' = Reads /\ Go("defers") /\ UNCHANGED <<faults, heads, comments>>
         \/ Fault /\ Go("skip") /\ UNCHANGED <<heads, comments, cached>>
  /\ UNCHANGED <<Daemon, noted>>

PassDefers ==
  /\ pass.at = "defers"
  /\ \/ /\ Writes(cached, Body(IF prs.draft THEN "draft" ELSE "debounce", prs.head, FALSE))
        /\ cached' = IF cached = 0 THEN S!Len(comments') ELSE cached
        /\ UNCHANGED faults
     \/ Fault /\ UNCHANGED <<comments, cached>>
  /\ Go("skip")
  /\ UNCHANGED <<Daemon, heads, noted>>

PassGoes ==
  /\ pass.at = "deferred" /\ ~Deferred
  /\ pass' = [pass EXCEPT !.at = "skip"]
  /\ UNCHANGED <<Daemon, heads, noted, comments, cached, faults>>

\* A labelled pull request that nobody asked a review of, once per commit.
Quiet ==
  /\ prs.open /\ prs.skip /\ Active = {} /\ noted # prs.head
  /\ \A s \in Shas : heads[s].status \notin {"queued", "running"}
  /\ heads[prs.head].status \notin {"done", "failed"}

\* _note_skip_labels: a box that was ticked before is a request, where it opens
\* anything; else the comment says that nothing is reviewed.
PassSkip ==
  /\ pass.at = "skip" /\ Quiet
  /\ LET saw == Saw(Reads)
         asked == Enqueued(prs.head, Trigger(saw.box))
     IN  \/ /\ saw.box # "no" /\ asked.res # "noop"
            /\ heads' = asked.hs /\ pass' = [pass EXCEPT !.at = "queue"]
            /\ cached' = Reads /\ UNCHANGED faults
         \/ /\ saw.box = "no" \/ asked.res = "noop"
            /\ pass' = [pass EXCEPT !.at = "notes"]
            /\ cached' = Reads /\ UNCHANGED <<heads, faults>>
         \/ Fault /\ pass' = [pass EXCEPT !.at = "queue"] /\ UNCHANGED <<heads, cached>>
  /\ UNCHANGED <<Daemon, noted, comments>>

PassNotes ==
  /\ pass.at = "notes"
  /\ \/ /\ IF cached = 0 THEN UNCHANGED comments ELSE Writes(cached, Body("closed", prs.head, FALSE))
        /\ noted' = IF cached \in There \cup {0} THEN prs.head ELSE noted
        /\ UNCHANGED faults
     \/ Fault /\ UNCHANGED <<comments, noted>>
  /\ pass' = [pass EXCEPT !.at = "queue"]
  /\ UNCHANGED <<Daemon, heads, cached>>

PassSkips ==
  /\ pass.at = "skip" /\ ~Quiet
  /\ pass' = [pass EXCEPT !.at = "queue"]
  /\ UNCHANGED <<Daemon, heads, noted, comments, cached, faults>>

\* Mutant: both parts render a debounced head.
InLineToo == pass.row # NoSha

\* The queue part writes what the first part left to it.
InLine == pass.row # NoSha /\ ~pass.aside

\* The body is compared with what was read at the start of the pass, and written
\* over what is there now.
Line == Body("queued", pass.row, heads[pass.row].prio)
PassQueue ==
  /\ pass.at = "queue"
  /\ IF InLine /\ pass.saw # Line
     THEN \/ /\ Writes(pass.id, Line)
             /\ cached' = IF pass.id = 0 THEN S!Len(comments') ELSE cached
             /\ UNCHANGED faults
          \/ Fault /\ UNCHANGED <<comments, cached>>
     ELSE UNCHANGED <<comments, cached, faults>>
  /\ pass' = PassIdle
  /\ UNCHANGED <<Daemon, heads, noted>>

\* The daemon dies in a pass.
Crash ==
  /\ ~DaemonIdle /\ Fault
  /\ pass' = PassIdle
  /\ UNCHANGED <<Daemon, heads, noted, comments, cached>>

-----------------------------------------------------------------------------
(* A worker: its main thread.                                              *)

Outside == <<people, gh, prs, noted, cached, pass, changes, ticks, starts>>
Is(c, at) == worker[c].at = at
Does(c, w) == worker' = [worker EXCEPT ![c] = w]
Locked(c) == worker[c].at \in {"find", "write"} \/ worker[c].beat = "edits"

\* _gate_comment takes the lock; only while a run is in progress does the
\* heartbeat have something to refresh.
Says(c, says, ends) ==
  /\ ~Locked(c)
  /\ Does(c, [worker[c] EXCEPT !.at = "find", !.says = Body(says, c, FALSE), !.ends = ends,
                               !.live = (says = "progress")])

\* HeadObsolete: the head is retired; where the pull request closed, its comment
\* says so.
Obsolete(c) ==
  /\ worker[c].at \in {"boot", "works"} /\ (~gh.open \/ gh.head # c)
  /\ heads' = RetireHead(heads, c, IF gh.open THEN "superseded" ELSE "closed")
  /\ IF gh.open THEN Does(c, [worker[c] EXCEPT !.at = "over", !.ends = "cancelled"])
     ELSE Says(c, "closed", "cancelled")
  /\ UNCHANGED <<Outside, comments, updates, faults>>

Begin(c) ==
  /\ Is(c, "boot") /\ gh.open /\ gh.head = c
  /\ Says(c, "progress", "none")
  /\ UNCHANGED <<Outside, heads, comments, updates, faults>>

\* The tier is known, or Phase 1 is dropped.
Update(c) ==
  /\ Is(c, "works") /\ updates > 0 /\ updates' = updates - 1
  /\ Says(c, "progress", "none")
  /\ UNCHANGED <<Outside, heads, comments, faults>>

\* The review is out or carried, or it failed.
Final(c, ends) ==
  /\ Is(c, "works") /\ Says(c, "final", ends)
  /\ UNCHANGED <<Outside, heads, comments, updates, faults>>

\* A run fails before its head was found to be live, too.
Fails(c) ==
  /\ Is(c, "boot") /\ Fault /\ Says(c, "final", "failed")
  /\ UNCHANGED <<Outside, heads, comments, updates>>

\* The head was superseded or closed, and the run told so: it just ends.
Cancelled(c) ==
  /\ Is(c, "works") /\ heads[c].status # "running"
  /\ Does(c, [worker[c] EXCEPT !.at = "over", !.ends = "cancelled"])
  /\ UNCHANGED <<Outside, heads, comments, updates, faults>>

Next_(w) == IF w.ends = "none" THEN "works" ELSE "over"

\* Nothing is created to say that a pull request closed.
Find(c) ==
  /\ Is(c, "find")
  /\ LET id == FirstOf(There) w == worker[c] IN
       Does(c, IF id = 0 /\ w.says.says = "closed" THEN [w EXCEPT !.at = "over"]
               ELSE [w EXCEPT !.at = "write", !.to = id])
  /\ UNCHANGED <<Outside, heads, comments, updates, faults>>

\* The write fails and is logged; or it is done.
Write(c) ==
  /\ Is(c, "write")
  /\ LET w == worker[c] IN
       \/ /\ Writes(w.to, w.says)
          /\ Does(c, [w EXCEPT !.at = Next_(w), !.id = IF w.to = 0 THEN S!Len(comments')
                                                      ELSE IF w.to \in There THEN w.to ELSE @])
          /\ UNCHANGED faults
       \/ Fault /\ Does(c, [w EXCEPT !.at = Next_(w)]) /\ UNCHANGED comments
  /\ UNCHANGED <<Outside, heads, updates>>

\* main's `finally`: the lock, gate_live_kw, finish_run.
Ended(c, ends) ==
  heads' = FinishHead(heads, c, ends, "infra", FALSE, [label |-> prs.skip, reviewed |-> {}, active |-> Active])

Over(c) ==
  /\ Is(c, "over") /\ ~Locked(c)
  /\ Ended(c, worker[c].ends) /\ Does(c, WkIdle)
  /\ UNCHANGED <<Outside, comments, updates, faults>>

\* It dies, and the reaper ends its run.
Dies(c) ==
  /\ worker[c].at # "no" /\ Fault
  /\ Ended(c, "failed") /\ Does(c, WkIdle)
  /\ UNCHANGED <<Outside, comments, updates>>

-----------------------------------------------------------------------------
(* A worker: its heartbeat thread (_refresh_gate_progress).                *)

\* Before the lock it looks at what the main thread shows and at the head.
BeatSees(c) ==
  /\ worker[c].beat = "idle" /\ worker[c].live /\ worker[c].id # 0
  /\ heads[c].status = "running"
  /\ Does(c, [worker[c] EXCEPT !.beat = "due"])
  /\ UNCHANGED <<Outside, heads, comments, updates, faults>>

\* Mutant: what it saw before the lock.
StillLiveThen(c) == TRUE

\* A final status landed meanwhile, or the worker is shutting down.
StillLive(c) == worker[c].live

\* It never waits for the lock.
BeatLocks(c) ==
  /\ worker[c].beat = "due"
  /\ Does(c, [worker[c] EXCEPT !.beat = IF ~Locked(c) /\ StillLive(c) THEN "edits" ELSE "idle"])
  /\ UNCHANGED <<Outside, heads, comments, updates, faults>>

BeatEdits(c) ==
  /\ worker[c].beat = "edits"
  /\ Does(c, [worker[c] EXCEPT !.beat = "idle"])
  /\ \/ Writes(worker[c].id, Progress(c)) /\ UNCHANGED faults
     \/ Fault /\ UNCHANGED comments
  /\ UNCHANGED <<Outside, heads, updates>>

-----------------------------------------------------------------------------
People ==
  \/ \E c \in Shas : Push(c)
  \/ \E field \in {"open", "draft", "skip"} : Toggle(field)
  \/ \E i \in DOMAIN comments : Delete(i) \/ (\E box \in {"normal", "priority"} : Tick(i, box))
Pass ==
  PassStart \/ PassDeferred \/ PassDefers \/ PassGoes \/ PassSkip \/ PassNotes \/ PassSkips \/ PassQueue
Main(c) ==
  \/ Obsolete(c) \/ Begin(c) \/ Cancelled(c) \/ Find(c) \/ Write(c) \/ Over(c)
  \/ \E ends \in {"done", "failed"} : Final(c, ends)
Beat(c) == BeatLocks(c) \/ BeatEdits(c)

Next ==
  \/ People \/ Poll \/ Ask \/ Pass \/ Crash
  \/ \E c \in Shas : \/ Elapse(c) \/ Start(c) \/ Main(c) \/ Update(c) \/ Fails(c) \/ Dies(c)
                     \/ BeatSees(c) \/ Beat(c)

\* The daemon's tasks have their turns (a poll between passes), and both threads
\* of a worker go on.  A head may stay queued for ever.
Spec ==
  /\ Init /\ [][Next]_vars
  /\ SF_vars(Poll) /\ WF_vars(Pass)
  /\ \A c \in Shas : WF_vars(Main(c)) /\ WF_vars(Beat(c))

-----------------------------------------------------------------------------
(* Properties.                                                             *)

\* "No progress edit may follow the run's end" (worker.py), nor its final status:
\* whichever thread wrote last, a run that is over does not read "in progress".
ProgressStops ==
  [][\A c \in Shas : \A i \in DOMAIN comments' :
       /\ comments'[i].says = "progress" /\ comments'[i].of = c
       /\ i \notin DOMAIN comments \/ comments[i] # comments'[i]
       => worker[c].live]_vars

\* What the comment comes to say of the pull request as the tables have it.
Wanted ==
  LET rows == {s \in Shas : heads[s].status = "queued"} IN
  IF Deferred
  THEN IF heads[prs.head].status \in {"running", "done"} THEN {}
       ELSE {Body(IF prs.draft THEN "draft" ELSE "debounce", prs.head, FALSE)}
  ELSE {Body("queued", s, heads[s].prio) : s \in rows}

\* A head that stays in line is shown in line at its priority, a draft or debounced
\* one with its boxes, and a labelled pull request as not reviewed, whoever wrote
\* last, whatever was deleted, and however writes and passes fail (queue_status.py:
\* "a worker-written body on a requeued head is always replaced").  Not where a draft
\* that went back to a superseded commit has its box ticked, which opens nothing.
Unheard == Saw(Reads).box # "no" /\ prs.draft /\ heads[prs.head].status = "superseded"
GateSettles ==
  <>[](/\ \A body \in Wanted : Saw(Reads) = body \/ Unheard
       /\ prs.open /\ prs.skip /\ Active = {} /\ noted = prs.head
          => Saw(Reads).says \notin {"draft", "debounce", "progress"})

\* "A PR never has more than one bot status comment" (README).
OneComment == \A i, j \in There : i = j

\* "The PR closed or merged before this run could review it: an existing gate
\* comment says so instead of a stale "queued" / "in progress" status" (worker.py).
ClosedIsSaid ==
  <>[](~gh.open /\ ~prs.open /\ Active = {} => \A i \in There : comments[i].says \notin {"queued", "progress"})
=============================================================================
