----------------------------- MODULE FaceProofs -----------------------------
(***************************************************************************)
(* What people see of a review goes forward: the gate comment of a run     *)
(* that is over does not read "in progress" again (Gate), and a commit     *)
(* that showed success does not go back to pending (Marks).  For any       *)
(* number of commits and comments, whatever people do, whatever fails.     *)
(*                                                                         *)
(* Gate is extended.  Marks is an instance over the same commits and with  *)
(* scenes and tables of its own: each theorem is about one of the two      *)
(* specifications and uses nothing of the other.                           *)
(***************************************************************************)
EXTENDS Gate, TLAPS

-----------------------------------------------------------------------------
(* The gate comment. *)

\* The fields of a body.
Fields == {"says", "of", "prio", "box"}

\* The comments on the pull request are a list of bodies.
ListOk ==
  /\ \E T : comments \in S!Seq(T)
  /\ \A i \in DOMAIN comments : DOMAIN comments[i] = Fields

\* What a thread of the run is about to write is of its commit, and a progress body only
\* while the run is shown in progress.
Thread(c, w) ==
  /\ DOMAIN w = DOMAIN WkIdle
  /\ w.at \in {"find", "write"} =>
       DOMAIN w.says = Fields /\ w.says.of = c /\ (w.says.says = "progress" => w.live)
  /\ w.beat = "edits" => w.live

ThreadsOk == DOMAIN worker = Shas /\ \A c \in Shas : Thread(c, worker[c])

GateInv == ListOk /\ ThreadsOk

\* A body that may be written by this step.
Fair(body) ==
  DOMAIN body = Fields /\ (body.says = "progress" => body.of \notin Shas \/ worker[body.of].live)

\* ProgressStops, of one step: what comes to say "progress" is of a run shown in progress.
Stops ==
  \A c \in Shas : \A i \in DOMAIN comments' :
       /\ comments'[i].says = "progress" /\ comments'[i].of = c
       /\ i \notin DOMAIN comments \/ comments[i] # comments'[i]
       => worker[c].live

\* A comment is created.
LEMMA AppendOk ==
  ASSUME ListOk, NEW body, Fair(body), comments' = S!Append(comments, body)
  PROVE  ListOk' /\ Stops
<1>1. PICK T : comments \in S!Seq(T) BY DEF ListOk
<1>2. comments \in S!Seq(T \cup {body}) BY <1>1
<1>3. /\ comments' \in S!Seq(T \cup {body})
      /\ DOMAIN comments' = 1..S!Len(comments) + 1
      /\ \A i \in DOMAIN comments : comments'[i] = comments[i]
      /\ comments'[S!Len(comments) + 1] = body
      /\ DOMAIN comments = 1..S!Len(comments) /\ S!Len(comments) \in Nat
  BY <1>2
<1>4. \A i \in DOMAIN comments' : i \in DOMAIN comments \/ comments'[i] = body BY <1>3
<1>5. ListOk' BY <1>3, <1>4 DEF ListOk, Fair
<1>6. Stops BY <1>3, <1>4 DEF Stops, Fair
<1> QED BY <1>5, <1>6

\* A comment is edited, or deleted by its author.
LEMMA EditOk ==
  ASSUME ListOk, NEW id \in DOMAIN comments, NEW body, Fair(body), comments' = [comments EXCEPT ![id] = body]
  PROVE  ListOk' /\ Stops
<1>1. PICK T : comments \in S!Seq(T) BY DEF ListOk
<1>2. comments \in S!Seq(T \cup {body}) BY <1>1
<1>3. comments' \in S!Seq(T \cup {body})
  <2>1. /\ S!Len(comments) \in Nat /\ DOMAIN comments = 1..S!Len(comments)
        /\ \A i \in DOMAIN comments : comments[i] \in T \cup {body}
    BY <1>2
  <2>2. comments' \in [1..S!Len(comments) -> T \cup {body}] BY <2>1
  <2> QED BY <2>1, <2>2
<1>4. /\ DOMAIN comments' = DOMAIN comments
      /\ \A i \in DOMAIN comments : comments'[i] = IF i = id THEN body ELSE comments[i]
  OBVIOUS
<1>5. ListOk' BY <1>3, <1>4 DEF ListOk, Fair
<1>6. Stops BY <1>4 DEF Stops, Fair
<1> QED BY <1>5, <1>6

\* The step writes no comment.
LEMMA SameOk == ASSUME ListOk, comments' = comments PROVE ListOk' /\ Stops
BY DEF ListOk, Stops

\* A write to a comment that may be gone.
LEMMA WritesOk == ASSUME ListOk, NEW id, NEW body, Fair(body), Writes(id, body) PROVE ListOk' /\ Stops
BY AppendOk, EditOk, SameOk DEF Writes, There

\* One thread of one worker moves.
LEMMA DoesOk ==
  ASSUME ThreadsOk, NEW c \in Shas, NEW w, Thread(c, w), Does(c, w) PROVE ThreadsOk'
BY DEF ThreadsOk, Does

\* A worker that is over holds nothing to write.
LEMMA IdleThread == ASSUME NEW c PROVE Thread(c, WkIdle)
BY DEF Thread, WkIdle

\* _gate_comment takes the lock, and sets what the heartbeat looks at.
LEMMA SaysOk ==
  ASSUME ThreadsOk, NEW c \in Shas, NEW says, NEW ends, Says(c, says, ends) PROVE ThreadsOk'
<1> DEFINE w == [worker[c] EXCEPT !.at = "find", !.says = Body(says, c, FALSE), !.ends = ends,
                                  !.live = (says = "progress")]
<1>1. Does(c, w) /\ worker[c].beat # "edits" BY DEF Says, Locked
<1>2. /\ DOMAIN w = DOMAIN WkIdle /\ w.beat = worker[c].beat
      /\ w.says = Body(says, c, FALSE) /\ w.live = (says = "progress")
  BY DEF ThreadsOk, Thread, WkIdle
<1> HIDE DEF w
<1>3. w.says.says = says /\ w.says.of = c /\ DOMAIN w.says = Fields BY <1>2 DEF Body, Fields
<1>4. w.says.says = "progress" => w.live BY <1>2, <1>3, Zenon
<1>5. Thread(c, w) BY <1>1, <1>2, <1>3, <1>4 DEF Thread
<1> QED BY <1>1, <1>5, DoesOk

\* Anything but progress may be written at any time.
LEMMA BodyFair == ASSUME NEW says, NEW c, NEW prio, says # "progress" PROVE Fair(Body(says, c, prio))
BY DEF Fair, Body, Fields

\* What every step keeps.
Step == ThreadsOk' /\ ListOk' /\ Stops

\* The step is of neither a worker nor a comment.
LEMMA Apart == ASSUME GateInv, UNCHANGED <<worker, comments>> PROVE Step
BY SameOk DEF GateInv, Step, ThreadsOk, Thread

-----------------------------------------------------------------------------

\* People write no progress body: they push, delete a comment, or tick a box on one that has it.
LEMMA PeopleStep == ASSUME GateInv, People \/ Poll \/ Ask PROVE Step
<1>1. CASE \E c \in Shas : Push(c) BY <1>1, Apart DEF Push, Change, Elsewhere
<1>2. CASE \E field \in {"open", "draft", "skip"} : Toggle(field)
  BY <1>2, Apart DEF Toggle, Change, Elsewhere
<1>3. ASSUME NEW i \in DOMAIN comments, Delete(i) PROVE Step
  <2>1. Fair(Gone) BY BodyFair DEF Gone
  <2>2. ListOk' /\ Stops BY <1>3, <2>1, EditOk DEF Delete, GateInv
  <2> QED BY <1>3, <2>2 DEF Delete, Step, GateInv, ThreadsOk
<1>4. ASSUME NEW i \in DOMAIN comments, NEW box \in {"normal", "priority"}, Tick(i, box) PROVE Step
  <2> DEFINE body == [comments[i] EXCEPT !.box = box]
  <2>1. DOMAIN comments[i] = Fields BY DEF GateInv, ListOk
  <2>2. comments[i].says # "progress" BY <1>4 DEF Tick, Boxes
  <2>3. Fair(body) BY <2>1, <2>2 DEF Fair, Fields
  <2>4. comments' = [comments EXCEPT ![i] = body] BY <1>4 DEF Tick
  <2> HIDE DEF body
  <2>5. ListOk' /\ Stops BY <2>3, <2>4, EditOk DEF GateInv
  <2> QED BY <1>4, <2>5 DEF Tick, Step, GateInv, ThreadsOk
<1>5. CASE Poll BY <1>5, Apart DEF Poll, Elsewhere
<1>6. CASE Ask BY <1>6, Apart DEF Ask, Elsewhere
<1> QED BY <1>1, <1>2, <1>3, <1>4, <1>5, <1>6 DEF People

\* The daemon's pass writes no progress body.
LEMMA PassStep == ASSUME GateInv, Pass \/ Crash PROVE Step
<1>1. worker' = worker
  BY DEF Pass, Crash, PassStart, PassDeferred, PassDefers, PassGoes, PassSkip, PassNotes, PassSkips, PassQueue,
         Daemon
<1>2. ThreadsOk' BY <1>1 DEF GateInv, ThreadsOk
<1>3. CASE PassStart \/ PassDeferred \/ PassGoes \/ PassSkip \/ PassSkips \/ Crash
  BY <1>1, <1>3, Apart DEF PassStart, PassDeferred, PassGoes, PassSkip, PassSkips, Crash
<1>4. CASE PassDefers
  <2>1. Fair(Body(IF prs.draft THEN "draft" ELSE "debounce", prs.head, FALSE)) BY BodyFair
  <2> QED BY <1>2, <1>4, <2>1, WritesOk, SameOk DEF PassDefers, Step, GateInv
<1>5. CASE PassNotes
  <2>1. Fair(Body("closed", prs.head, FALSE)) BY BodyFair
  <2> QED BY <1>2, <1>5, <2>1, WritesOk, SameOk DEF PassNotes, Step, GateInv
<1>6. CASE PassQueue
  <2>1. Fair(Line) BY BodyFair DEF Line
  <2> QED BY <1>2, <1>6, <2>1, WritesOk, SameOk DEF PassQueue, Step, GateInv
<1> QED BY <1>3, <1>4, <1>5, <1>6 DEF Pass

\* A worker's main thread: it says progress when it sets `live`, finds the comment, and writes it
\* with the heartbeat locked out.
LEMMA MainStep ==
  ASSUME GateInv, NEW c \in Shas, Elapse(c) \/ Start(c) \/ Main(c) \/ Update(c) \/ Fails(c) \/ Dies(c)
  PROVE  Step
<1>1. ASSUME comments' = comments, ThreadsOk' PROVE Step BY <1>1, SameOk DEF Step, GateInv
<1>2. CASE Elapse(c) BY <1>2, Apart DEF Elapse, Elsewhere
<1>3. CASE Start(c)
  <2>1. Thread(c, [WkIdle EXCEPT !.at = "boot"]) BY DEF Thread, WkIdle
  <2>2. ThreadsOk' BY <1>3, <2>1, DoesOk DEF Start, Does, GateInv
  <2> QED BY <1>1, <1>3, <2>2 DEF Start
<1>4. CASE Update(c) \/ Fails(c) \/ Begin(c) \/ \E ends \in {"done", "failed"} : Final(c, ends)
  BY <1>1, <1>4, SaysOk DEF Update, Fails, Begin, Final, GateInv
<1>5. ASSUME Does(c, [worker[c] EXCEPT !.at = "over", !.ends = "cancelled"]) PROVE ThreadsOk'
  <2> DEFINE w == [worker[c] EXCEPT !.at = "over", !.ends = "cancelled"]
  <2>1. DOMAIN w = DOMAIN WkIdle /\ w.at = "over" /\ w.beat = worker[c].beat /\ w.live = worker[c].live
    BY DEF GateInv, ThreadsOk, Thread, WkIdle
  <2> HIDE DEF w
  <2>2. Thread(c, w) BY <2>1 DEF Thread, ThreadsOk, GateInv
  <2> QED BY <1>5, <2>2, DoesOk DEF w, GateInv
<1>6. CASE Cancelled(c) BY <1>1, <1>5, <1>6 DEF Cancelled
<1>7. CASE Obsolete(c)
  <2>1. comments' = comments BY <1>7 DEF Obsolete
  <2> QED BY <1>1, <1>5, <1>7, <2>1, SaysOk DEF Obsolete, GateInv
<1>8. CASE Over(c) \/ Dies(c)
  BY <1>1, <1>8, DoesOk, IdleThread DEF Over, Dies, GateInv
<1>9. CASE Find(c)
  <2> DEFINE a == [worker[c] EXCEPT !.at = "over"]
             b == [worker[c] EXCEPT !.at = "write", !.to = FirstOf(There)]
  <2>1. Thread(c, worker[c]) /\ worker[c].at = "find" BY <1>9 DEF Find, Is, GateInv, ThreadsOk
  <2>2. /\ DOMAIN a = DOMAIN WkIdle /\ a.at = "over" /\ a.beat = worker[c].beat /\ a.live = worker[c].live
        /\ DOMAIN b = DOMAIN WkIdle /\ b.says = worker[c].says /\ b.beat = worker[c].beat
        /\ b.live = worker[c].live
    BY <2>1 DEF Thread, WkIdle
  <2>3. Does(c, a) \/ Does(c, b) BY <1>9 DEF Find
  <2> HIDE DEF a, b
  <2>4. Thread(c, a) /\ Thread(c, b) BY <2>1, <2>2 DEF Thread
  <2>5. ThreadsOk' BY <2>3, <2>4, DoesOk DEF GateInv
  <2> QED BY <1>1, <1>9, <2>5 DEF Find
<1>10. CASE Write(c)
  <2>1. Thread(c, worker[c]) /\ worker[c].at = "write" BY <1>10 DEF Write, Is, GateInv, ThreadsOk
  <2>2. Fair(worker[c].says) BY <2>1 DEF Thread, Fair
  <2>3. ListOk' /\ Stops BY <1>10, <2>2, WritesOk, SameOk DEF Write, GateInv
  <2>4. PICK id : Does(c, [worker[c] EXCEPT !.at = Next_(worker[c]), !.id = id])
    <3>1. CASE Does(c, [worker[c] EXCEPT !.at = Next_(worker[c])])
      <4>1. [worker[c] EXCEPT !.at = Next_(worker[c])]
              = [worker[c] EXCEPT !.at = Next_(worker[c]), !.id = worker[c].id]
        BY <2>1 DEF Thread, WkIdle
      <4> QED BY <3>1, <4>1
    <3>2. CASE ~Does(c, [worker[c] EXCEPT !.at = Next_(worker[c])]) BY <1>10, <3>2 DEF Write
    <3> QED BY <3>1, <3>2
  <2>5. ThreadsOk'
    <3> DEFINE w == [worker[c] EXCEPT !.at = Next_(worker[c]), !.id = id]
    <3>1. /\ DOMAIN w = DOMAIN WkIdle /\ w.at = Next_(worker[c]) /\ w.beat = worker[c].beat
          /\ w.live = worker[c].live
      BY <2>1 DEF Thread, WkIdle
    <3> HIDE DEF w
    <3>2. Thread(c, w) BY <2>1, <3>1 DEF Thread, Next_
    <3> QED BY <2>4, <3>2, DoesOk DEF w, GateInv
  <2> QED BY <2>3, <2>5 DEF Step
<1> QED
  BY <1>2, <1>3, <1>4, <1>6, <1>7, <1>8, <1>9, <1>10 DEF Main

\* Its heartbeat thread edits only a comment of a run it found live, which the main thread cannot end
\* before the edit is over.
LEMMA BeatStep == ASSUME GateInv, NEW c \in Shas, BeatSees(c) \/ Beat(c) PROVE Step
<1>1. ASSUME NEW to, to = "edits" => worker[c].live, Does(c, [worker[c] EXCEPT !.beat = to])
      PROVE  ThreadsOk'
  <2> DEFINE w == [worker[c] EXCEPT !.beat = to]
  <2>1. Thread(c, worker[c]) BY DEF GateInv, ThreadsOk
  <2>2. /\ DOMAIN w = DOMAIN WkIdle /\ w.at = worker[c].at /\ w.says = worker[c].says /\ w.beat = to
        /\ w.live = worker[c].live
    BY <2>1 DEF Thread, WkIdle
  <2> HIDE DEF w
  <2>3. Thread(c, w) BY <1>1, <2>1, <2>2 DEF Thread
  <2> QED BY <1>1, <2>3, DoesOk DEF w, GateInv
<1>2. CASE BeatSees(c) \/ BeatLocks(c)
  <2>1. ThreadsOk' BY <1>1, <1>2 DEF BeatSees, BeatLocks, StillLive
  <2> QED BY <1>2, <2>1, SameOk DEF BeatSees, BeatLocks, Step, GateInv
<1>3. CASE BeatEdits(c)
  <2>1. worker[c].live BY <1>3 DEF BeatEdits, GateInv, ThreadsOk, Thread
  <2>2. Fair(Progress(c)) BY <2>1 DEF Fair, Progress, Body, Fields
  <2>3. ThreadsOk' BY <1>1, <1>3 DEF BeatEdits
  <2> QED BY <1>3, <2>2, <2>3, WritesOk, SameOk DEF BeatEdits, Step, GateInv
<1> QED BY <1>2, <1>3 DEF Beat

\* No comment, no worker.
LEMMA GateInit == Init => GateInv
<1> SUFFICES ASSUME Init PROVE GateInv OBVIOUS
<1>1. comments = << >> /\ worker = [s \in Shas |-> WkIdle] BY DEF Init
<1>2. comments \in S!Seq({}) /\ DOMAIN comments = {} BY <1>1
<1>3. ListOk BY <1>2 DEF ListOk
<1> QED BY <1>1, <1>3, IdleThread DEF GateInv, ThreadsOk

\* Every step of the specification.
LEMMA GateStep == GateInv /\ [Next]_vars => Step
<1> SUFFICES ASSUME GateInv, [Next]_vars PROVE Step OBVIOUS
<1>1. CASE People \/ Poll \/ Ask BY <1>1, PeopleStep
<1>2. CASE Pass \/ Crash BY <1>2, PassStep
<1>3. CASE \E c \in Shas : Elapse(c) \/ Start(c) \/ Main(c) \/ Update(c) \/ Fails(c) \/ Dies(c)
  BY <1>3, MainStep
<1>4. CASE \E c \in Shas : BeatSees(c) \/ Beat(c) BY <1>4, BeatStep
<1>5. CASE UNCHANGED vars BY <1>5, Apart DEF vars
<1> QED BY <1>1, <1>2, <1>3, <1>4, <1>5 DEF Next

\* Whichever thread of a worker writes last, none writes "in progress" for a run that is not shown so any
\* more (worker.py's heartbeat under the comment's lock), however the daemon's pass, people's edits and
\* failures fall between.
THEOREM ProgressEnds == Spec => ProgressStops
<1>1. GateInv /\ [Next]_vars => GateInv' BY GateStep DEF Step, GateInv
<1>2. GateInv /\ [Next]_vars
        => [\A c \in Shas : \A i \in DOMAIN comments' :
              /\ comments'[i].says = "progress" /\ comments'[i].of = c
              /\ i \notin DOMAIN comments \/ comments[i] # comments'[i]
              => worker[c].live]_vars
  BY GateStep DEF Step, Stops
<1> QED BY <1>1, <1>2, GateInit, PTL DEF Spec, ProgressStops

-----------------------------------------------------------------------------
(* The check runs of Marks. *)

CONSTANTS MarkScenes, MaxWrites
VARIABLES scene, newest, carried, reviews, work, checks, row, fresh, refused, blind, chk,
          label, dirty, lab, off, posts

M == INSTANCE Marks WITH Commits <- Shas, Scenes <- MarkScenes

\* The reviews of a commit: one that says success is final, so that a final one stands from then on.
ReviewsOk ==
  /\ DOMAIN carried = Shas /\ DOMAIN reviews = Shas
  /\ \A c \in Shas : /\ DOMAIN reviews[c] = {"final", "last"}
                     /\ reviews[c].final \in M!Verdicts \cup {M!None}
                     /\ reviews[c].last \in M!Verdicts \cup {M!None}
                     /\ reviews[c].last = "success" => reviews[c].final # M!None

\* A commit that carries nothing and shows success has a final review of its own.
Reviewed(c) == reviews[c].final # M!None
Earned(c) ==
  carried[c] = M!None => \A i \in DOMAIN checks[c] : checks[c][i] = "success" => Reviewed(c)

\* The check runs of a commit are a list of what they say.
ChecksAre == DOMAIN checks = Shas /\ \E T : \A c \in Shas : checks[c] \in S!Seq(T)
ChecksOk == ChecksAre /\ \A c \in Shas : Earned(c)

\* What a pass is about to say was so of the commit: nothing is pending again.
Due(c, says) ==
  carried[c] = M!None =>
    /\ says = "success" => Reviewed(c)
    /\ M!Pending(says) => \A i \in DOMAIN checks[c] : checks[c][i] # "success"

\* What the pass over the checks has in hand.
PassOk ==
  /\ DOMAIN chk = DOMAIN M!ChkIdle
  /\ chk.at = "write" => chk.commit \in Shas /\ Due(chk.commit, chk.says)

MarksInv == ReviewsOk /\ ChecksOk /\ PassOk

\* The reviews of a commit stay, and so does what it carries.
Grows ==
  \A c \in Shas : /\ carried'[c] = M!None => carried[c] = M!None
                  /\ Reviewed(c) => Reviewed(c)'

\* The step keeps the promise of SuccessStays to a commit.
Stays(c) ==
  M!Shown(c) = "success" /\ carried[c] = M!None => ~M!Pending(M!Shown(c)')

\* The step writes no check.
LEMMA StaysStill == ASSUME checks' = checks PROVE \A c \in Shas : Stays(c)
BY DEF Stays, M!Shown, M!Pending

\* The step records a review or a carry.
LEMMA GrowsOk ==
  ASSUME MarksInv, ReviewsOk', Grows, UNCHANGED <<checks, chk>> PROVE MarksInv'
<1>1. ASSUME NEW c \in Shas PROVE Earned(c)'
  BY <1>1 DEF MarksInv, ChecksOk, Earned, Grows
<1>2. ChecksOk' BY <1>1 DEF MarksInv, ChecksOk, ChecksAre
<1>3. PassOk'
  <2>1. ASSUME NEW c \in Shas, NEW says, Due(c, says) PROVE Due(c, says)'
    BY <2>1 DEF Due, Grows
  <2> QED BY <2>1 DEF MarksInv, PassOk, Due
<1> QED BY <1>2, <1>3 DEF MarksInv

\* The step does neither, and leaves the checks alone.
LEMMA TablesApart ==
  ASSUME MarksInv, UNCHANGED <<carried, reviews, checks, chk>> PROVE MarksInv'
<1>1. ReviewsOk' /\ Grows BY DEF MarksInv, ReviewsOk, Grows, Reviewed
<1> QED BY <1>1, GrowsOk

\* The pass goes on to something else, or starts anew.
LEMMA PassMoves ==
  ASSUME MarksInv, UNCHANGED <<carried, reviews, checks>>,
         DOMAIN chk' = DOMAIN M!ChkIdle, chk'.at # "write"
  PROVE  MarksInv'
<1>1. ReviewsOk' BY DEF MarksInv, ReviewsOk
<1>2. ChecksOk' BY DEF MarksInv, ChecksOk, ChecksAre, Earned, Reviewed
<1>3. PassOk' BY DEF PassOk
<1> QED BY <1>1, <1>2, <1>3 DEF MarksInv

\* The pass is done with a commit.
LEMMA Dropped ==
  ASSUME PassOk, NEW c, M!Drop(c) PROVE DOMAIN chk' = DOMAIN M!ChkIdle /\ chk'.at = "walk"
BY DEF PassOk, M!Drop, M!ChkIdle

\* People, the poll and the workers touch no check; reviews and carries only come.
LEMMA WorldMarks ==
  ASSUME MarksInv, M!People \/ M!Poll \/ M!Ask \/ \E c \in Shas : M!Start(c) \/ M!Worker(c)
  PROVE  MarksInv' /\ checks' = checks
<1>1. CASE M!People
  BY <1>1, TablesApart DEF M!People, M!Push, M!Close, M!Away, M!Change, M!tables, M!Marking, M!shown
<1>2. CASE M!Poll \/ M!Ask
  BY <1>2, TablesApart DEF M!Poll, M!Ask, M!Marking, M!shown
<1>3. ASSUME NEW c \in Shas,
             M!Start(c) \/ M!Post(c) \/ M!Retire(c) \/ \E status \in {"done", "failed", "queued"} : M!End(c, status)
      PROVE  MarksInv' /\ checks' = checks
  BY <1>3, TablesApart DEF M!Start, M!Post, M!Retire, M!End, M!tables, M!Marking, M!shown
<1>4. ASSUME NEW c \in Shas, NEW final \in BOOLEAN, NEW verdict \in M!Verdicts, M!Recorded(c, final, verdict)
      PROVE  MarksInv' /\ checks' = checks
  <2>1. UNCHANGED <<carried, checks, chk>> /\ (final \/ verdict = "failure") BY <1>4 DEF M!Recorded
  <2>2. /\ DOMAIN reviews' = Shas /\ \A x \in Shas \ {c} : reviews'[x] = reviews[x]
        /\ reviews'[c] = [final |-> IF final THEN verdict ELSE reviews[c].final, last |-> verdict]
    BY <1>4 DEF M!Recorded, MarksInv, ReviewsOk
  <2>3. /\ DOMAIN reviews'[c] = {"final", "last"} /\ reviews'[c].last = verdict
        /\ reviews'[c].final = IF final THEN verdict ELSE reviews[c].final
    BY <2>2
  <2>4. ReviewsOk' BY <2>1, <2>2, <2>3 DEF MarksInv, ReviewsOk, M!Verdicts, M!None
  <2>5. Grows BY <2>1, <2>2, <2>3 DEF Grows, Reviewed, M!Verdicts, M!None
  <2> QED BY <2>1, <2>4, <2>5, GrowsOk
<1>5. ASSUME NEW c \in Shas, M!Carry(c) PROVE MarksInv' /\ checks' = checks
  <2>1. UNCHANGED <<reviews, checks, chk>> /\ carried[c] = M!None
    BY <1>5 DEF M!Carry, M!Marking, M!shown
  <2>2. DOMAIN carried' = Shas /\ \A x \in Shas \ {c} : carried'[x] = carried[x]
    BY <1>5 DEF M!Carry, MarksInv, ReviewsOk
  <2>3. ReviewsOk' /\ Grows BY <2>1, <2>2 DEF MarksInv, ReviewsOk, Grows, Reviewed
  <2> QED BY <2>1, <2>3, GrowsOk
<1> QED BY <1>1, <1>2, <1>3, <1>4, <1>5 DEF M!Worker

\* Nor does the pass over the labels.
LEMMA LabelMarks == ASSUME MarksInv, M!LabPass PROVE MarksInv' /\ checks' = checks
BY TablesApart DEF M!LabPass, M!LabStart, M!LabWant, M!LabSkip, M!LabDelete, M!LabAdd, M!LabEnd,
   M!LabFails, M!LabRefused, M!Others, M!tables, M!shown

\* Success is wanted of a review, and nothing is pending where one stands.
LEMMA WantedOk ==
  ASSUME MarksInv, NEW c \in Shas PROVE Due(c, M!Target(c))
<1> SUFFICES ASSUME carried[c] = M!None
             PROVE  /\ M!Target(c) = "success" => Reviewed(c)
                    /\ M!Pending(M!Target(c)) => \A i \in DOMAIN checks[c] : checks[c][i] # "success"
  BY DEF Due
<1>1. M!Reviewed(c) = c BY DEF M!Reviewed
<1>2. /\ M!Verdict(c) \in M!Verdicts \cup {M!None}
      /\ M!Verdict(c) = "success" => Reviewed(c)
      /\ M!Verdict(c) = M!None => ~Reviewed(c)
  BY <1>1 DEF M!Verdict, MarksInv, ReviewsOk, Reviewed, M!Verdicts, M!None
<1>3. /\ M!Wanted(c) = "success" => M!Verdict(c) = "success"
      /\ M!Pending(M!Wanted(c)) => M!Verdict(c) = M!None
  <2>1. CASE M!Verdict(c) # M!None BY <2>1, <1>2 DEF M!Wanted, M!Verdicts, M!Pending
  <2>2. CASE M!Verdict(c) = M!None
    <3>1. M!Wanted(c) # "success" BY <2>2 DEF M!Wanted, M!None
    <3> QED BY <2>2, <3>1
  <2> QED BY <2>1, <2>2
<1>4. M!Target(c) \in {"cancelled", M!None, M!Wanted(c)} BY DEF M!Target
<1>5. M!Target(c) = "success" => Reviewed(c) BY <1>2, <1>3, <1>4 DEF M!None
<1>6. ASSUME M!Pending(M!Target(c)), NEW i \in DOMAIN checks[c] PROVE checks[c][i] # "success"
  <2>1. ~Reviewed(c) BY <1>2, <1>3, <1>4, <1>6 DEF M!None, M!Pending
  <2> QED BY <2>1 DEF MarksInv, ChecksOk, Earned
<1> QED BY <1>5, <1>6

\* One check is written or added.
Written(c, says) ==
  /\ DOMAIN checks' = Shas /\ \A x \in Shas \ {c} : checks'[x] = checks[x]
  /\ \E T : checks[c] \in S!Seq(T) /\ checks'[c] \in S!Seq(T)
  /\ \A i \in DOMAIN checks'[c] : checks'[c][i] = says \/ (i \in DOMAIN checks[c] /\ checks'[c][i] = checks[c][i])
  /\ \/ S!Len(checks'[c]) = S!Len(checks[c])
     \/ S!Len(checks'[c]) = S!Len(checks[c]) + 1 /\ checks'[c][S!Len(checks'[c])] = says

\* GitHub's part of a write, the create or the update.
LEMMA SaysWritten ==
  ASSUME ChecksAre, NEW c \in Shas, NEW id, NEW says, M!Says(c, id, says)
  PROVE  Written(c, says) /\ ChecksAre'
<1>1. PICK T : \A x \in Shas : checks[x] \in S!Seq(T) BY DEF ChecksAre
<1>2. \A x \in Shas : checks[x] \in S!Seq(T \cup {says}) BY <1>1
<1>3. CASE checks' = [checks EXCEPT ![c] = S!Append(checks[c], says)]
  <2>1. /\ DOMAIN checks' = Shas /\ \A x \in Shas \ {c} : checks'[x] = checks[x]
        /\ checks'[c] = S!Append(checks[c], says)
    BY <1>3 DEF ChecksAre
  <2>2. /\ checks'[c] \in S!Seq(T \cup {says}) /\ S!Len(checks'[c]) = S!Len(checks[c]) + 1
        /\ checks'[c][S!Len(checks'[c])] = says
        /\ \A i \in DOMAIN checks'[c] :
             checks'[c][i] = says \/ (i \in DOMAIN checks[c] /\ checks'[c][i] = checks[c][i])
    BY <1>2, <2>1
  <2>3. Written(c, says) BY <1>2, <2>1, <2>2 DEF Written
  <2>4. \A x \in Shas : checks'[x] \in S!Seq(T \cup {says}) BY <1>2, <2>1, <2>2
  <2> QED BY <2>1, <2>3, <2>4 DEF ChecksAre
<1>4. CASE checks' = [checks EXCEPT ![c][id] = says]
  <2>1. /\ DOMAIN checks' = Shas /\ \A x \in Shas \ {c} : checks'[x] = checks[x]
        /\ checks'[c] = [checks[c] EXCEPT ![id] = says]
    BY <1>4 DEF ChecksAre
  <2>2. /\ S!Len(checks[c]) \in Nat /\ DOMAIN checks[c] = 1..S!Len(checks[c])
        /\ \A i \in DOMAIN checks[c] : checks[c][i] \in T \cup {says}
    BY <1>2
  <2>3. checks'[c] \in [1..S!Len(checks[c]) -> T \cup {says}] BY <2>1, <2>2
  <2>4. checks'[c] \in S!Seq(T \cup {says}) /\ S!Len(checks'[c]) = S!Len(checks[c]) BY <2>2, <2>3
  <2>5. \A i \in DOMAIN checks'[c] :
          checks'[c][i] = says \/ (i \in DOMAIN checks[c] /\ checks'[c][i] = checks[c][i])
    BY <2>1
  <2>6. Written(c, says) BY <1>2, <2>1, <2>4, <2>5 DEF Written
  <2>7. \A x \in Shas : checks'[x] \in S!Seq(T \cup {says}) BY <1>2, <2>1, <2>4
  <2> QED BY <2>1, <2>6, <2>7 DEF ChecksAre
<1> QED BY <1>3, <1>4 DEF M!Says

\* The check that is written keeps both parts of the invariant, and the newest
\* check of an earned success stays out of pending.
LEMMA WriteMarks ==
  ASSUME MarksInv, NEW c \in Shas, NEW says, Due(c, says), Written(c, says), ChecksAre',
         UNCHANGED <<carried, reviews>>
  PROVE  /\ \A x \in Shas : Earned(x)'
         /\ \A x \in Shas : Stays(x)
<1>1. ASSUME NEW x \in Shas \ {c} PROVE Earned(x)' /\ Stays(x)
  <2>1. checks'[x] = checks[x] BY <1>1 DEF Written
  <2> QED BY <1>1, <2>1 DEF MarksInv, ChecksOk, Earned, Reviewed, Stays, M!Shown, M!Last, M!Pending, M!None
<1>2. Earned(c)' BY DEF MarksInv, ChecksOk, Earned, Reviewed, Written, Due
<1>3. ASSUME M!Shown(c) = "success", carried[c] = M!None, M!Pending(M!Shown(c)') PROVE FALSE
  <2>1. PICK T : checks[c] \in S!Seq(T) /\ checks'[c] \in S!Seq(T) BY DEF Written
  <2>2. /\ checks[c] # << >> /\ checks[c][S!Len(checks[c])] = "success"
        /\ S!Len(checks[c]) \in DOMAIN checks[c]
    BY <2>1, <1>3 DEF M!Shown, M!Last, M!None
  <2>3. ~M!Pending(says) BY <2>2, <1>3 DEF Due
  <2>4. /\ checks'[c] # << >> /\ M!Pending(checks'[c][S!Len(checks'[c])])
        /\ S!Len(checks'[c]) \in DOMAIN checks'[c]
    BY <2>1, <1>3 DEF M!Shown, M!Last, M!None, M!Pending
  <2>5. checks'[c][S!Len(checks'[c])] = says \/ checks'[c][S!Len(checks'[c])] = "success"
    BY <2>1, <2>2, <2>4 DEF Written
  <2> QED BY <2>3, <2>4, <2>5 DEF M!Pending
<1> QED BY <1>1, <1>2, <1>3 DEF Stays

\* The pass over the checks, and a crash in it.
LEMMA ChecksMarks ==
  ASSUME MarksInv, M!ChkPass \/ M!Crash PROVE MarksInv' /\ \A x \in Shas : Stays(x)
<1> USE DEF M!Elsewhere, M!tables
<1>1. CASE M!ChkStart \/ M!ChkEnd \/ M!Crash \/ M!ChkRefused \/ M!ChkRecord
  <2>1. UNCHANGED <<carried, reviews, checks>>
    BY <1>1 DEF M!ChkStart, M!ChkEnd, M!Crash, M!ChkRefused, M!ChkRecord, M!shown
  <2>2. DOMAIN chk' = DOMAIN M!ChkIdle /\ chk'.at # "write"
    <3>1. CASE M!ChkEnd \/ M!Crash BY <3>1 DEF M!ChkEnd, M!Crash, M!ChkIdle
    <3>2. CASE M!ChkStart BY <3>2 DEF M!ChkStart, M!ChkIdle
    <3>3. CASE M!ChkRefused \/ M!ChkRecord
      <4>1. M!Drop(chk.commit) BY <3>3 DEF M!ChkRefused, M!ChkRecord
      <4> QED BY <4>1, Dropped DEF MarksInv
    <3> QED BY <1>1, <3>1, <3>2, <3>3
  <2> QED BY <2>1, <2>2, PassMoves, StaysStill
<1>2. ASSUME NEW c \in Shas, M!ChkTake(c) PROVE MarksInv' /\ \A x \in Shas : Stays(x)
  <2>1. UNCHANGED <<carried, reviews, checks>> BY <1>2 DEF M!ChkTake, M!shown
  <2>2. CASE M!Passes(c)
    <3>1. M!Drop(c) BY <1>2, <2>2 DEF M!ChkTake
    <3> QED BY <2>1, <3>1, Dropped, PassMoves, StaysStill DEF MarksInv
  <2>3. CASE ~M!Passes(c)
    <3>1. chk' = [chk EXCEPT !.at = "write", !.commit = c, !.says = M!Target(c), !.writes = @ + 1]
      BY <1>2, <2>3 DEF M!ChkTake
    <3>2. DOMAIN chk' = DOMAIN M!ChkIdle /\ chk'.commit = c /\ chk'.says = M!Target(c)
      BY <3>1 DEF MarksInv, PassOk, M!ChkIdle
    <3>3. PassOk' BY <2>1, <3>2, WantedOk DEF PassOk, Due, Reviewed
    <3> QED BY <2>1, <3>3, StaysStill DEF MarksInv, ReviewsOk, ChecksOk, ChecksAre, Earned, Reviewed
  <2> QED BY <2>2, <2>3
<1>3. CASE M!ChkWrite
  <2>1. UNCHANGED <<carried, reviews>> /\ chk.at = "write" BY <1>3 DEF M!ChkWrite
  <2>2. DOMAIN chk' = DOMAIN M!ChkIdle /\ chk'.at # "write"
    <3>1. DOMAIN chk = DOMAIN M!ChkIdle BY DEF MarksInv, PassOk
    <3>2. \/ \E id : chk' = [chk EXCEPT !.at = "record", !.id = id]
          \/ chk' = M!ChkIdle
      BY <1>3 DEF M!ChkWrite
    <3>3. ASSUME NEW id, chk' = [chk EXCEPT !.at = "record", !.id = id]
          PROVE  DOMAIN chk' = DOMAIN chk /\ chk'.at = "record"
      <4>1. "at" \in DOMAIN chk BY <3>1 DEF M!ChkIdle
      <4> QED BY <3>3, <4>1
    <3>4. M!ChkIdle.at = "idle" BY DEF M!ChkIdle
    <3> QED BY <3>1, <3>2, <3>3, <3>4
  <2>3. \/ M!Says(chk.commit, M!Writes(chk.commit, chk.says), chk.says)
        \/ checks' = checks
    BY <1>3 DEF M!ChkWrite
  <2>4. CASE checks' = checks BY <2>1, <2>2, <2>4, PassMoves, StaysStill
  <2>5. CASE M!Says(chk.commit, M!Writes(chk.commit, chk.says), chk.says)
    <3>1. chk.commit \in Shas /\ Due(chk.commit, chk.says) BY <2>1 DEF MarksInv, PassOk
    <3>2. Written(chk.commit, chk.says) /\ ChecksAre' BY <3>1, <2>5, SaysWritten DEF MarksInv, ChecksOk
    <3>3. (\A x \in Shas : Earned(x)') /\ \A x \in Shas : Stays(x)
      BY <2>1, <3>1, <3>2, WriteMarks
    <3>4. ReviewsOk' /\ PassOk' BY <2>1, <2>2 DEF MarksInv, ReviewsOk, PassOk
    <3> QED BY <3>2, <3>3, <3>4 DEF MarksInv, ChecksOk
  <2> QED BY <2>3, <2>4, <2>5
<1> QED BY <1>1, <1>2, <1>3 DEF M!ChkPass

\* No check, no review.
LEMMA MarksInit == M!Init => MarksInv
<1> SUFFICES ASSUME M!Init PROVE MarksInv OBVIOUS
<1>1. ReviewsOk BY DEF M!Init, ReviewsOk, M!NoReview, M!None
<1>2. ChecksAre
  <2>1. \A c \in Shas : checks[c] \in S!Seq({}) BY DEF M!Init
  <2> QED BY <2>1 DEF M!Init, ChecksAre
<1>3. \A c \in Shas : Earned(c) BY DEF M!Init, Earned
<1>4. PassOk BY DEF M!Init, M!ChkIdle, PassOk
<1> QED BY <1>1, <1>2, <1>3, <1>4 DEF MarksInv, ChecksOk

\* Every step of the specification.
LEMMA MarksStep ==
  ASSUME MarksInv, [M!Next]_M!vars PROVE MarksInv' /\ \A x \in Shas : Stays(x)
<1>1. CASE UNCHANGED M!vars
  BY <1>1, TablesApart, StaysStill DEF M!vars, M!tables, M!shown
<1>2. CASE M!People \/ M!Poll \/ M!Ask \/ \E c \in Shas : M!Start(c) \/ M!Worker(c)
  BY <1>2, WorldMarks, StaysStill
<1>3. CASE M!LabPass BY <1>3, LabelMarks, StaysStill
<1>4. CASE M!ChkPass \/ M!Crash BY <1>4, ChecksMarks
<1> QED BY <1>1, <1>2, <1>3, <1>4 DEF M!Next

\* A check that said success does not go back to pending (checks.py), however a review's recording, a
\* push, a lost answer or a crash falls into the pass that writes it.
THEOREM SuccessKept == M!Spec => M!SuccessStays
<1>1. MarksInv /\ [M!Next]_M!vars =>
        [\A c \in Shas : (M!Shown(c) = "success" /\ carried[c] = M!None) => ~M!Pending(M!Shown(c)')]_M!vars
  BY MarksStep DEF Stays
<1>2. MarksInv /\ [M!Next]_M!vars => MarksInv' BY MarksStep
<1> QED BY <1>1, <1>2, MarksInit, PTL DEF M!Spec, M!SuccessStays
=============================================================================
