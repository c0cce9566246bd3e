--------------------------- MODULE ConverseProofs ---------------------------
(***************************************************************************)
(* Nothing is filed or posted twice, for any findings, scenes and faults:  *)
(* at most one tracking issue for a finding, and one CI update for a       *)
(* commit.  An issue exists only where kv has a note of it, and the note   *)
(* is taken back only by the refusal of a create that had made none.       *)
(* A deferral that lifts a finding was a maintainer's and is tracked, and  *)
(* a conversation approves only what was given up on the threads: what is  *)
(* booked was said there, and it is void under the next full review.       *)
(***************************************************************************)
EXTENDS Converse, TLAPS

\* What the proofs need of the worker's locals.
Shaped == {"pc", "at"} \subseteq DOMAIN run

\* Between the note and the issue.
Started(h) == run.pc = "file" /\ run.at = h

Filed(h) == issues[h] = 1 => defer[h] # None /\ ~Started(h)
Noted(h) == Started(h) => defer[h] # None

FilingInv ==
  /\ Shaped
  /\ issues \in [Findings -> {0, 1}] /\ DOMAIN defer = Findings
  /\ run.pc = "lanes" => run.at = None
  /\ \A h \in Findings : Filed(h) /\ Noted(h)

\* A step that leaves the notes alone and starts no filing.
Idles ==
  /\ UNCHANGED tracking /\ Shaped'
  /\ run'.pc = "lanes" => run'.at = None
  /\ \A h \in Findings : Started(h)' => Started(h)

LEMMA IdlesSafe == ASSUME FilingInv, Idles PROVE FilingInv'
BY DEF FilingInv, Idles, Filed, Noted, tracking

-----------------------------------------------------------------------------
(* Steps that file nothing.                                                *)

LEMMA EndShape == ASSUME End PROVE run' = Idle
BY DEF End

LEMMA ToIdle == ASSUME FilingInv, run' = Idle, UNCHANGED tracking PROVE FilingInv'
<1>1. Idles
  BY ConverseAssumption DEF Idles, Idle, Shaped, Started
<1> QED BY <1>1, IdlesSafe

LEMMA WorldSafe == ASSUME FilingInv, Outside PROVE FilingInv'
<1>1. ASSUME UNCHANGED <<run, tracking>> PROVE FilingInv'
  BY <1>1 DEF FilingInv, Shaped, Filed, Noted, Started, tracking
<1>2. CASE \E h \in Findings : Resolve(h) BY <1>1, <1>2 DEF Resolve
<1>3. CASE \E h \in Findings : \E by \in {"outsider", "maintainer"}, links \in BOOLEAN : Reply(h, by, links)
  BY <1>1, <1>3 DEF Reply
<1>4. CASE Dismiss BY <1>1, <1>4 DEF Dismiss
<1>5. CASE Push BY <1>1, <1>5 DEF Push
<1>6. CASE Rereview BY <1>1, <1>6 DEF Rereview
<1>7. CASE CiFails BY <1>1, <1>7 DEF CiFails
<1>8. CASE Dies BY <1>8, ToIdle DEF Dies
<1> QED BY <1>2, <1>3, <1>4, <1>5, <1>6, <1>7, <1>8 DEF Outside

LEMMA RunSafe ==
  ASSUME FilingInv,
         \/ Begin \/ Superseded \/ FullReview \/ Judge \/ NothingToSay
         \/ Book \/ Decide \/ Post
         \/ CiHeld \/ CiUnrelated \/ CiUpdate \/ CiRecords
  PROVE  FilingInv'
<1>1. CASE Begin
  <2>1. Idles BY <1>1, ConverseAssumption DEF Begin, Idles, Idle, Shaped, Started
  <2> QED BY <2>1, IdlesSafe
<1>2. CASE Superseded BY <1>2, EndShape, ToIdle DEF Superseded
<1>3. CASE FullReview BY <1>3, EndShape, ToIdle DEF FullReview
<1>4. CASE NothingToSay BY <1>4, EndShape, ToIdle DEF NothingToSay
<1>5. CASE Judge
  <2>1. PICK outs \in [run.todo -> Answers] :
          run' = [run EXCEPT !.pc = "file", !.outs = [h \in run.todo |-> Vetted(h, outs[h])], !.settled = {}]
    BY <1>5 DEF Judge
  <2>2. run'.pc = "file" /\ run'.at = None /\ Shaped'
    BY <2>1, <1>5 DEF Judge, FilingInv, Shaped
  <2>3. Idles BY <1>5, <2>2, ConverseAssumption DEF Idles, Judge, Started
  <2> QED BY <2>3, IdlesSafe
<1>6. CASE Book
  <2>1. run'.pc = "decide" /\ Shaped' BY <1>6 DEF Book, FilingInv, Shaped
  <2>2. Idles BY <1>6, <2>1 DEF Idles, Book, Started
  <2> QED BY <2>2, IdlesSafe
<1>7. CASE Decide
  <2>1. CASE Speaks
    <3>1. run'.pc = "post" /\ Shaped' BY <1>7, <2>1 DEF Decide, FilingInv, Shaped
    <3>2. Idles BY <1>7, <3>1 DEF Idles, Decide, Started
    <3> QED BY <3>2, IdlesSafe
  <2>2. CASE ~Speaks BY <1>7, <2>2, EndShape, ToIdle DEF Decide
  <2> QED BY <2>1, <2>2
<1>8. CASE Post BY <1>8, EndShape, ToIdle DEF Post
<1>9. CASE CiHeld BY <1>9, EndShape, ToIdle DEF CiHeld
<1>10. CASE CiUnrelated BY <1>10, EndShape, ToIdle DEF CiUnrelated
<1>11. CASE CiUpdate
  <2>1. run'.pc = "ci records" /\ Shaped' BY <1>11 DEF CiUpdate, FilingInv, Shaped
  <2>2. Idles BY <1>11, <2>1 DEF Idles, CiUpdate, Started
  <2> QED BY <2>2, IdlesSafe
<1>12. CASE CiRecords BY <1>12, EndShape, ToIdle DEF CiRecords
<1> QED BY <1>1, <1>2, <1>3, <1>4, <1>5, <1>6, <1>7, <1>8, <1>9, <1>10, <1>11, <1>12

LEMMA AnswerSafe == ASSUME FilingInv, NEW h \in Findings, Answer(h) PROVE FilingInv'
<1>1. run'.pc = run.pc /\ run'.at = run.at /\ Shaped'
  BY DEF Answer, SaysNothing, Replies, ReplyFails, FilingInv, Shaped
<1>2. UNCHANGED tracking
  BY DEF Answer, SaysNothing, Replies, ReplyFails
<1>3. Idles BY <1>1, <1>2 DEF Idles, Started, FilingInv
<1> QED BY <1>3, IdlesSafe

-----------------------------------------------------------------------------
(* Steps that file.                                                        *)

\* A filing that comes to an end, or never starts, leaves nothing started.
LEMMA FilesSafe == ASSUME FilingInv, NEW h \in Findings, Files(h) PROVE FilingInv'
<1>1. CASE CannotFile(h)
  <2>1. run'.pc = run.pc /\ run'.at = None /\ Shaped'
    BY <1>1 DEF CannotFile, Untracked, FilingInv, Shaped
  <2>2. Idles BY <1>1, <2>1, ConverseAssumption DEF Idles, CannotFile, Started
  <2> QED BY <2>2, IdlesSafe
<1>2. CASE AlreadyFiled(h)
  <2>1. run'.at = None /\ Shaped'
    BY <1>2 DEF AlreadyFiled, Tracked, FilingInv, Shaped
  <2>2. DOMAIN defer' = Findings /\ issues' = issues
    BY <1>2 DEF AlreadyFiled, FilingInv
  <2>3. \A g \in Findings : defer'[g] = (IF g = h THEN "url" ELSE defer[g])
    BY <1>2 DEF AlreadyFiled, FilingInv
  <2>4. \A g \in Findings : Filed(g)' /\ Noted(g)'
    BY <2>1, <2>2, <2>3, ConverseAssumption DEF FilingInv, Filed, Noted, Started, None
  <2> QED BY <2>1, <2>2, <2>4 DEF FilingInv
<1>3. CASE StartsFiling(h)
  <2>1. run'.pc = "file" /\ run'.at = h /\ Shaped'
    BY <1>3 DEF StartsFiling, Filing, FilingInv, Shaped
  <2>2. DOMAIN defer' = Findings /\ issues' = issues /\ defer[h] = None
    BY <1>3 DEF StartsFiling, FilingInv
  <2>3. \A g \in Findings : defer'[g] = (IF g = h THEN "pending" ELSE defer[g])
    BY <1>3 DEF StartsFiling, FilingInv
  <2>4. \A g \in Findings : Filed(g)' /\ Noted(g)'
    BY <2>1, <2>2, <2>3 DEF FilingInv, Filed, Noted, Started, None
  <2> QED BY <2>1, <2>2, <2>4 DEF FilingInv
<1>4. CASE Creates(h)
  <2>1. Started(h) /\ issues[h] = 0 /\ defer[h] # None
    BY <1>4 DEF Creates, Started, FilingInv, Filed, Noted
  <2>2. Shaped' /\ run'.pc # "lanes" /\ \A g \in Findings : ~Started(g)'
    BY <1>4, ConverseAssumption DEF Creates, Untracked, FilingInv, Shaped, Started
  <2>3. issues' = [issues EXCEPT ![h] = 1] /\ defer' = defer
    <3>1. issues[h] + 1 = 1 BY <2>1
    <3> QED BY <1>4, <3>1, Zenon DEF Creates
  <2>4. /\ issues' \in [Findings -> {0, 1}]
        /\ \A g \in Findings : g # h => issues'[g] = issues[g]
    BY <2>3 DEF FilingInv
  <2>5. \A g \in Findings : Filed(g)' /\ Noted(g)'
    BY <2>1, <2>2, <2>3, <2>4 DEF FilingInv, Filed, Noted
  <2> QED BY <2>2, <2>3, <2>4, <2>5 DEF FilingInv
<1>5. CASE CreateFails(h)
  <2>1. issues[h] = 0
    BY <1>5 DEF CreateFails, Started, FilingInv, Filed
  <2>2. run'.pc = "file" /\ run'.at = None /\ Shaped'
    BY <1>5 DEF CreateFails, Untracked, FilingInv, Shaped
  <2>3. DOMAIN defer' = Findings /\ issues' = issues /\ \A g \in Findings : g # h => defer'[g] = defer[g]
    BY <1>5 DEF CreateFails, FilingInv
  <2>4. \A g \in Findings : Filed(g)' /\ Noted(g)'
    BY <2>1, <2>2, <2>3, ConverseAssumption DEF FilingInv, Filed, Noted, Started
  <2> QED BY <2>2, <2>3, <2>4 DEF FilingInv
<1>6. CASE NotesUrl(h)
  <2>1. run'.pc = "file" /\ run'.at = None /\ Shaped'
    BY <1>6 DEF NotesUrl, FilingInv, Shaped
  <2>2. DOMAIN defer' = Findings /\ issues' = issues
    BY <1>6 DEF NotesUrl, FilingInv
  <2>3. \A g \in Findings : defer'[g] = (IF g = h THEN "url" ELSE defer[g])
    BY <1>6 DEF NotesUrl, FilingInv
  <2>4. \A g \in Findings : Filed(g)' /\ Noted(g)'
    BY <2>1, <2>2, <2>3, ConverseAssumption DEF FilingInv, Filed, Noted, Started, None
  <2> QED BY <2>1, <2>2, <2>4 DEF FilingInv
<1> QED BY <1>1, <1>2, <1>3, <1>4, <1>5, <1>6 DEF Files

LEMMA FilingInit == Init => FilingInv
BY ConverseAssumption DEF Init, FilingInv, Shaped, Filed, Noted, Started, Idle

LEMMA FilingStep == FilingInv /\ [Next]_vars => FilingInv'
<1> SUFFICES ASSUME FilingInv, [Next]_vars PROVE FilingInv' OBVIOUS
<1>1. CASE Outside BY <1>1, WorldSafe
<1>2. CASE Worker
  <2>1. CASE \E h \in Findings : Files(h) BY <2>1, FilesSafe
  <2>2. CASE \E h \in Findings : Answer(h) BY <2>2, AnswerSafe
  <2> QED BY <1>2, <2>1, <2>2, RunSafe DEF Worker
<1>3. CASE UNCHANGED vars
  BY <1>3 DEF vars, FilingInv, Shaped, Filed, Noted, Started, tracking
<1> QED BY <1>1, <1>2, <1>3 DEF Next

\* One tracking issue for a finding, for any findings, scenes and faults.
THEOREM FiledOnce == Spec => []OneIssue
<1>1. FilingInv => OneIssue BY DEF FilingInv, OneIssue
<1> QED BY <1>1, FilingInit, FilingStep, PTL DEF Spec

-----------------------------------------------------------------------------
(* CI updates.                                                             *)

UpdatesInv == "posted" \in DOMAIN ci /\ ci.posted \in {0, 1}

LEMMA UpdatesStep == UpdatesInv /\ [Next]_vars => UpdatesInv'
<1> SUFFICES ASSUME UpdatesInv, [Next]_vars PROVE UpdatesInv' OBVIOUS
<1>1. ASSUME UNCHANGED ci PROVE UpdatesInv' BY <1>1 DEF UpdatesInv
<1>2. CASE Outside
  <2>1. CASE Push BY <2>1 DEF Push, UpdatesInv
  <2> QED BY <1>1, <1>2, <2>1 DEF Outside, Resolve, Reply, Dismiss, Rereview, CiFails, Dies
<1>3. CASE Worker
  <2>1. CASE \E h \in Findings : Files(h) \/ Answer(h)
    BY <1>1, <2>1 DEF Files, CannotFile, AlreadyFiled, StartsFiling, Creates, CreateFails, NotesUrl,
                      Answer, SaysNothing, Replies, ReplyFails
  <2>2. CASE Begin \/ Superseded \/ FullReview \/ Judge \/ NothingToSay \/ Book \/ Decide \/ Post
    BY <1>1, <2>2 DEF Begin, Superseded, FullReview, Judge, NothingToSay, Book, Decide, Post
  <2>3. CASE CiHeld BY <2>3 DEF CiHeld, UpdatesInv
  <2>4. CASE CiUnrelated BY <1>1, <2>4 DEF CiUnrelated
  <2>5. CASE CiUpdate
    <3>1. ~Updated BY <2>5 DEF CiUpdate, CiJudged, CiWatched
    <3>2. ci.posted = 0 BY <3>1 DEF Updated, UpdatesInv
    <3>3. ci.posted + 1 = 1 BY <3>2
    <3>4. ci' = [ci EXCEPT !.posted = 1] BY <2>5, <3>3, Zenon DEF CiUpdate
    <3> QED BY <3>4 DEF UpdatesInv
  <2>6. CASE CiRecords BY <2>6 DEF CiRecords, UpdatesInv
  <2> QED BY <1>3, <2>1, <2>2, <2>3, <2>4, <2>5, <2>6 DEF Worker
<1>4. CASE UNCHANGED vars BY <1>1, <1>4 DEF vars
<1> QED BY <1>2, <1>3, <1>4 DEF Next

\* One CI update for a commit, whatever dies between its post and its record.
THEOREM UpdatedOnce == Spec => []OneCiUpdate
<1>1. Init => UpdatesInv BY DEF Init, UpdatesInv
<1>2. UpdatesInv => OneCiUpdate BY DEF UpdatesInv, OneCiUpdate
<1> QED BY <1>1, <1>2, UpdatesStep, PTL DEF Spec

-----------------------------------------------------------------------------
(* Deferrals and approvals of a conversation.                              *)

\* The bot's answer on the thread said so, under the review that stands.
Told(h, word) == \E m \in marks : m.hash = h /\ m.sha = head /\ m.n = pub.n /\ m.lifts = word

\* What a deferral may rest on.
Excused(h) ==
  \/ threads[h].owner /\ (NeedsTracking(h) => threads[h].link # None)
  \/ WithdrawnBefore(h) \/ h \in old

ThreadsOk ==
  /\ DOMAIN threads = Findings
  /\ \A h \in Findings : /\ DOMAIN threads[h] = DOMAIN NoThread
                         /\ threads[h].by = "maintainer" => threads[h].owner

RowsOk ==
  /\ head \in Nat /\ pub.n \in Nat
  /\ DOMAIN conceded = Findings
  /\ \A h \in Findings : conceded[h].n \in 0..pub.n /\ conceded[h].status \in {None} \cup Lifting

\* What is booked was said.
BookedOk ==
  \A h \in Conceded : /\ Told(h, conceded[h].status)
                      /\ conceded[h].status = Deferred => Excused(h)

\* What a conversation was told: what people wrote before it began still stands.
LanesOk ==
  run.pc = "lanes" =>
    /\ run.posted = {} /\ run.at = None /\ run.todo \cup run.settled \subseteq Findings
    /\ run.kind = "talk" =>
         /\ \A h \in Findings : /\ run.seen[h].by = "maintainer" => threads[h].owner
                                /\ run.seen[h].link # None => threads[h].link # None
         /\ ~Obsolete => \A h \in run.settled : Excused(h)

\* A vetted deferral is excused, or a maintainer's and tracked once it is filed.
Backed(h) ==
  \/ Excused(h)
  \/ threads[h].owner /\ (NeedsTracking(h) => run.outs[h].link # None \/ run.outs[h].file)

SaysWell(h) == Told(h, run.outs[h].word) /\ (run.outs[h].word = Deferred => Excused(h))

FileOk ==
  run.pc \in {"file", "filed"} =>
    /\ DOMAIN run.outs \subseteq Findings /\ run.todo \subseteq DOMAIN run.outs
    /\ run.posted \subseteq DOMAIN run.outs
    /\ \A h \in DOMAIN run.outs : DOMAIN run.outs[h] = {"word", "cites", "file", "link"}
    /\ run.posted # {} => ToFile = {} /\ run.at = None
    /\ ~Obsolete => \A h \in DOMAIN run.outs : run.outs[h].word = Deferred => Backed(h)
    /\ ~Obsolete => \A h \in run.posted : run.outs[h].word \in Lifting => SaysWell(h)

DecideOk == run.pc = "decide" /\ ~Obsolete => \A h \in run.lifted : h \in Findings /\ GivenUp(h)

PostOk ==
  run.pc = "post" /\ ~Obsolete /\ run.verdict = "APPROVED"
    => \A h \in Notable(pub.findings) : GivenUp(h)

RunOk ==
  /\ DOMAIN run = DOMAIN Idle
  /\ run.pc = "idle" => run.lifted = {}
  /\ run.pc # "idle" => run.sha \in 0..head

TalkInv ==
  /\ ThreadsOk /\ RowsOk /\ RunOk
  /\ BookedOk /\ LanesOk /\ FileOk /\ DecideOk /\ PostOk

-----------------------------------------------------------------------------
(* What was said and written stays so while the review stands.             *)

Steady ==
  /\ head' = head /\ pub' = pub /\ old' = old /\ marks \subseteq marks'
  /\ \A h \in Findings : /\ threads[h].owner => threads'[h].owner
                         /\ threads[h].link # None => threads'[h].link # None

LEMMA SteadyTold == ASSUME Steady, NEW h, NEW word, Told(h, word) PROVE Told(h, word)'
BY DEF Steady, Told

LEMMA SteadyGivenUp == ASSUME Steady, NEW h, GivenUp(h) PROVE GivenUp(h)'
BY DEF Steady, GivenUp

LEMMA SteadyExcused == ASSUME Steady, NEW h \in Findings, Excused(h) PROVE Excused(h)'
<1>1. WithdrawnBefore(h) => WithdrawnBefore(h)' BY DEF Steady, WithdrawnBefore
<1> QED BY <1>1 DEF Steady, Excused

LEMMA ToldGivesUp == ASSUME NEW h, NEW word \in Lifting, Told(h, word) PROVE GivenUp(h)
BY DEF Told, GivenUp, Lifting, Deferred, None

LEMMA SteadyBooked == ASSUME BookedOk, Steady, conceded' = conceded PROVE BookedOk'
<1> SUFFICES ASSUME NEW h \in Conceded'
             PROVE  /\ Told(h, conceded[h].status)'
                    /\ conceded[h].status = Deferred => Excused(h)'
  BY DEF BookedOk
<1>1. h \in Conceded /\ h \in Findings BY DEF Conceded, Newer, Steady
<1>2. Told(h, conceded[h].status) /\ (conceded[h].status = Deferred => Excused(h))
  BY <1>1 DEF BookedOk
<1>3. Told(h, conceded[h].status)' BY <1>2, SteadyTold DEF Told
<1> QED BY <1>1, <1>2, <1>3, SteadyExcused

\* A step of the world or of the CI check: the worker's locals stay.
LEMMA KeptSafe ==
  ASSUME TalkInv, Steady, ThreadsOk', run' = run, conceded' = conceded
  PROVE  TalkInv'
<1>1. RowsOk' /\ RunOk' BY DEF TalkInv, RowsOk, RunOk, Steady
<1>2. BookedOk' BY SteadyBooked DEF TalkInv
<1>3. Obsolete' = Obsolete BY DEF Obsolete, Steady
<1>4. LanesOk'
  <2> SUFFICES ASSUME run.pc = "lanes"
               PROVE  /\ run.posted = {} /\ run.at = None /\ run.todo \cup run.settled \subseteq Findings
                      /\ run.kind = "talk" =>
                           /\ \A h \in Findings : /\ run.seen[h].by = "maintainer" => threads'[h].owner
                                                  /\ run.seen[h].link # None => threads'[h].link # None
                           /\ ~Obsolete => \A h \in run.settled : Excused(h)'
    BY <1>3 DEF LanesOk
  <2> QED BY SteadyExcused DEF TalkInv, LanesOk, Steady
<1>5. FileOk'
  <2>1. ASSUME NEW h \in Findings, Backed(h) PROVE Backed(h)'
    BY <2>1, SteadyExcused DEF Backed, Steady
  <2>2. ASSUME NEW h \in Findings, SaysWell(h) PROVE SaysWell(h)'
    <3>1. Told(h, run.outs[h].word)' BY <2>2, SteadyTold DEF SaysWell, Told
    <3> QED BY <2>2, <3>1, SteadyExcused DEF SaysWell
  <2>3. ToFile' = ToFile BY DEF ToFile
  <2> SUFFICES ASSUME run.pc \in {"file", "filed"}
               PROVE  /\ ~Obsolete => \A h \in DOMAIN run.outs : run.outs[h].word = Deferred => Backed(h)'
                      /\ ~Obsolete => \A h \in run.posted : run.outs[h].word \in Lifting => SaysWell(h)'
    BY <1>3, <2>3 DEF TalkInv, FileOk
  <2>4. DOMAIN run.outs \subseteq Findings /\ run.posted \subseteq DOMAIN run.outs BY DEF TalkInv, FileOk
  <2> QED BY <2>1, <2>2, <2>4 DEF TalkInv, FileOk
<1>6. DecideOk' BY <1>3, SteadyGivenUp DEF TalkInv, DecideOk
<1>7. PostOk' BY <1>3, SteadyGivenUp DEF TalkInv, PostOk, Steady, Notable
<1> QED BY <1>1, <1>2, <1>4, <1>5, <1>6, <1>7 DEF TalkInv

LEMMA EndSafe ==
  ASSUME RowsOk', ThreadsOk', BookedOk', run' = Idle PROVE TalkInv'
BY DEF TalkInv, RunOk, LanesOk, FileOk, DecideOk, PostOk, Idle

\* A step of the worker that writes on no thread and books nothing.
Still == UNCHANGED <<head, threads, marks, pub, conceded, old>>

LEMMA StillSteady == ASSUME TalkInv, Still PROVE Steady /\ ThreadsOk' /\ RowsOk' /\ BookedOk'
<1>1. Steady BY DEF Still, Steady
<1>2. ThreadsOk' /\ RowsOk' BY DEF Still, TalkInv, ThreadsOk, RowsOk
<1> QED BY <1>1, <1>2, SteadyBooked DEF Still, TalkInv

LEMMA StillKeeps == ASSUME TalkInv, Still, run' = run PROVE TalkInv'
BY StillSteady, KeptSafe DEF Still

LEMMA StillEnds == ASSUME TalkInv, Still, run' = Idle PROVE TalkInv'
BY StillSteady, EndSafe

-----------------------------------------------------------------------------
(* The world, the CI check and the full review.                            *)

LEMMA PushTalks == ASSUME TalkInv, Push PROVE TalkInv'
<1>1. head' = head + 1 /\ head \in Nat /\ run' = run /\ threads' = threads
  BY DEF Push, TalkInv, RowsOk
<1>2. /\ pub'.n = 0
      /\ \A h \in Findings : conceded'[h] = NoConcession
      /\ DOMAIN conceded' = Findings
  BY DEF Push, NoReview
<1>3. RowsOk' BY <1>1, <1>2 DEF RowsOk, NoConcession
<1>4. Conceded' = {} BY <1>2 DEF Conceded, Newer, NoConcession
<1>5. RunOk' BY <1>1 DEF TalkInv, RunOk
<1>6. run.pc # "idle" => Obsolete' BY <1>1 DEF TalkInv, RunOk, Obsolete
<1>7. ThreadsOk' /\ BookedOk' BY <1>1, <1>4 DEF TalkInv, ThreadsOk, BookedOk
<1>8. LanesOk' BY <1>1, <1>6 DEF TalkInv, LanesOk
<1>9. FileOk' BY <1>1, <1>6 DEF TalkInv, FileOk, ToFile
<1>10. DecideOk' /\ PostOk' BY <1>1, <1>6 DEF DecideOk, PostOk
<1> QED BY <1>3, <1>5, <1>7, <1>8, <1>9, <1>10 DEF TalkInv

LEMMA ReplyTalks ==
  ASSUME TalkInv, NEW h \in Findings, NEW by \in {"outsider", "maintainer"}, NEW links \in BOOLEAN,
         Reply(h, by, links)
  PROVE  TalkInv'
<1>1. /\ threads[h].owner => threads'[h].owner
      /\ threads[h].link # None => threads'[h].link # None
      /\ DOMAIN threads'[h] = DOMAIN NoThread
      /\ threads'[h].by = "maintainer" => threads'[h].owner
  BY DEF Reply, TalkInv, ThreadsOk, NoThread, None
<1>2. DOMAIN threads' = Findings /\ \A g \in Findings : g # h => threads'[g] = threads[g]
  BY DEF Reply, TalkInv, ThreadsOk
<1>3. ThreadsOk' BY <1>1, <1>2 DEF TalkInv, ThreadsOk
<1>4. Steady BY <1>1, <1>2 DEF Reply, Steady, rows
<1> QED BY <1>3, <1>4, KeptSafe DEF Reply, rows

LEMMA WorldTalks == ASSUME TalkInv, Outside PROVE TalkInv'
<1>1. CASE \E h \in Findings : Resolve(h)
  <2>1. PICK h \in Findings : Resolve(h) BY <1>1
  <2>2. threads' = [threads EXCEPT ![h].open = FALSE] /\ run' = run BY <2>1 DEF Resolve
  <2>3. ThreadsOk' BY <2>2 DEF TalkInv, ThreadsOk, NoThread
  <2>4. Steady BY <2>1, <2>2 DEF Steady, Resolve, rows, TalkInv, ThreadsOk, NoThread
  <2> QED BY <2>1, <2>3, <2>4, KeptSafe DEF Resolve, rows
<1>2. CASE \E h \in Findings : \E by \in {"outsider", "maintainer"}, links \in BOOLEAN : Reply(h, by, links)
  BY <1>2, ReplyTalks
<1>3. CASE Dismiss BY <1>3, StillKeeps DEF Dismiss, Still, rows
<1>4. CASE Push BY <1>4, PushTalks
<1>5. CASE Rereview BY <1>5, StillKeeps DEF Rereview, Still, rows
<1>6. CASE CiFails BY <1>6, StillKeeps DEF CiFails, Still, rows
<1>7. CASE Dies BY <1>7, StillEnds DEF Dies, Still, rows
<1> QED BY <1>1, <1>2, <1>3, <1>4, <1>5, <1>6, <1>7 DEF Outside

\* A full review makes what was conceded before it void.
LEMMA ReviewTalks == ASSUME TalkInv, FullReview PROVE TalkInv'
<1>1. pub'.n = pub.n + 1 /\ run' = Idle /\ head' = head /\ conceded' = conceded
  BY DEF FullReview, End
<1>2. RowsOk' BY <1>1 DEF TalkInv, RowsOk
<1>3. BookedOk'
  <2>1. \A h \in Findings : conceded[h].n # pub'.n BY <1>1 DEF TalkInv, RowsOk
  <2>2. Conceded' = {} BY <1>1, <2>1 DEF Conceded, Newer
  <2> QED BY <2>2 DEF BookedOk
<1>4. ThreadsOk'
  <2>1. PICK kept, new, gone : threads' = Reviewed(kept, new, gone) BY DEF FullReview
  <2>2. DOMAIN threads' = Findings BY <2>1 DEF Reviewed
  <2>3. ASSUME NEW h \in Findings
        PROVE  /\ DOMAIN threads'[h] = DOMAIN NoThread
               /\ threads'[h].by = "maintainer" => threads'[h].owner
    <3>1. CASE h \in new BY <2>1, <3>1 DEF Reviewed, NoThread, None
    <3>2. CASE h \notin new BY <2>1, <3>2 DEF Reviewed, TalkInv, ThreadsOk, NoThread, None
    <3> QED BY <3>1, <3>2
  <2> QED BY <2>2, <2>3 DEF ThreadsOk
<1> QED BY <1>1, <1>2, <1>3, <1>4, EndSafe

\* What a conversation is told is settled was withdrawn or excused.
LEMMA BeginTalks == ASSUME TalkInv, Begin PROVE TalkInv'
<1>1. Still BY DEF Begin, Still, rows
<1>2. /\ run.lifted = {} /\ run'.pc = "lanes" /\ run'.at = None /\ run'.posted = {} /\ run'.sha = head
      /\ run'.seen = threads /\ DOMAIN run' = DOMAIN Idle
      /\ run'.todo = IF Kind = "talk" THEN ToAnswer ELSE {}
      /\ run'.settled = {h \in ToAnswer : h \in Lifted \/ (h \in old /\ h \notin Standing)}
  BY DEF Begin, Idle, TalkInv, RunOk
<1>3. ToAnswer \subseteq Findings BY DEF ToAnswer, OpenThreads
<1>4. ASSUME NEW h \in run'.settled PROVE Excused(h)'
  <2>1. h \in Findings /\ (h \in Conceded \/ h \in old) BY <1>2, <1>3 DEF Lifted
  <2>2. CASE h \in old BY <1>1, <2>2 DEF Still, Excused
  <2>3. CASE h \in Conceded
    <3>1. conceded[h].status \in Lifting BY <2>3 DEF Conceded, Newer, TalkInv, RowsOk
    <3>2. Excused(h) BY <2>3, <3>1 DEF TalkInv, BookedOk, Lifting, Told, Excused, WithdrawnBefore
    <3> QED BY <1>1, <2>1, <3>2, StillSteady, SteadyExcused
  <2> QED BY <2>1, <2>2, <2>3
<1>5. LanesOk'
  <2>1. run'.todo \cup run'.settled \subseteq Findings BY <1>2, <1>3
  <2>2. \A h \in Findings : run'.seen[h].by = "maintainer" => threads'[h].owner
    BY <1>1, <1>2 DEF Still, TalkInv, ThreadsOk
  <2> QED BY <1>1, <1>2, <1>4, <2>1, <2>2 DEF LanesOk, Still
<1>6. RunOk' BY <1>1, <1>2 DEF RunOk, Still, TalkInv, RowsOk
<1>7. FileOk' /\ DecideOk' /\ PostOk' BY <1>2 DEF FileOk, DecideOk, PostOk
<1> QED BY <1>1, <1>5, <1>6, <1>7, StillSteady DEF TalkInv

LEMMA CiTalks ==
  ASSUME TalkInv, CiHeld \/ CiUnrelated \/ CiUpdate \/ CiRecords PROVE TalkInv'
<1>1. Still BY DEF CiHeld, CiUnrelated, CiUpdate, CiRecords, Still, rows
<1>2. CASE CiHeld \/ CiUnrelated \/ CiRecords
  BY <1>1, <1>2, EndShape, StillEnds DEF CiHeld, CiUnrelated, CiRecords
<1>3. CASE CiUpdate
  <2>1. /\ run'.pc = "ci records" /\ run'.sha = run.sha /\ run.pc = "lanes"
        /\ DOMAIN run' = DOMAIN Idle
    BY <1>3 DEF CiUpdate, CiJudged, CiWatched, TalkInv, RunOk, Idle
  <2>2. RunOk' BY <1>1, <2>1 DEF RunOk, Still, TalkInv
  <2>3. LanesOk' /\ FileOk' /\ DecideOk' /\ PostOk' BY <2>1 DEF LanesOk, FileOk, DecideOk, PostOk
  <2> QED BY <1>1, <2>2, <2>3, StillSteady DEF TalkInv
<1> QED BY <1>2, <1>3

-----------------------------------------------------------------------------
(* The conversation's own steps.                                           *)

Fields == {"word", "cites", "file", "link"}

\* A deferral that passes is settled or a maintainer's, and tracked or to be.
LEMMA VettedBacked ==
  ASSUME NEW h, NEW o \in Answers
  PROVE  /\ DOMAIN Vetted(h, o) = Fields
         /\ Vetted(h, o).word = Deferred =>
              \/ h \in run.settled
              \/ /\ Asker(h)
                 /\ NeedsTracking(h) =>
                      Vetted(h, o).file \/ (Vetted(h, o).link # None /\ run.seen[h].link # None)
<1>1. DOMAIN o = Fields BY DEF Answers, Deferrals, Says, Fields
<1> DEFINE link == VisibleLink(h, o)
<1>2. link # None => link = run.seen[h].link BY DEF VisibleLink
<1> HIDE DEF link
<1>3. CASE o.word # Deferred BY <1>1, <1>3 DEF Vetted
<1>4. CASE o.word = Deferred /\ h \notin run.settled /\ ~Asker(h)
  BY <1>4 DEF Vetted, Says, Fields, Deferred
<1>5. CASE /\ o.word = Deferred /\ (h \in run.settled \/ Asker(h))
           /\ link # None \/ (h \in run.settled /\ ~(Asker(h) /\ o.file))
  <2>1. Vetted(h, o) = [o EXCEPT !.link = link, !.file = FALSE] BY <1>5 DEF Vetted, link
  <2>2. DOMAIN Vetted(h, o) = Fields /\ Vetted(h, o).link = link BY <1>1, <2>1 DEF Fields
  <2> QED BY <1>2, <1>5, <2>2
<1>6. CASE /\ o.word = Deferred /\ (h \in run.settled \/ Asker(h))
           /\ ~(link # None \/ (h \in run.settled /\ ~(Asker(h) /\ o.file)))
  <2>1. CASE o.file \/ ~NeedsTracking(h)
    <3>1. Vetted(h, o) = o BY <1>6, <2>1 DEF Vetted, link
    <3> QED BY <1>1, <1>6, <2>1, <3>1
  <2>2. CASE ~(o.file \/ ~NeedsTracking(h))
    <3>1. Vetted(h, o) = Says("DEFERRAL_NEEDS_TRACKING", FALSE, FALSE) BY <1>6, <2>2 DEF Vetted, link
    <3> QED BY <3>1 DEF Says, Fields, Deferred
  <2> QED BY <2>1, <2>2
<1> QED BY <1>3, <1>4, <1>5, <1>6

LEMMA JudgeTalks == ASSUME TalkInv, Judge PROVE TalkInv'
<1>1. Still BY DEF Judge, Still, rows
<1>2. PICK outs \in [run.todo -> Answers] :
        run' = [run EXCEPT !.pc = "file", !.outs = [h \in run.todo |-> Vetted(h, outs[h])], !.settled = {}]
  BY DEF Judge
<1>3. /\ run'.pc = "file" /\ run'.sha = run.sha /\ run'.at = run.at /\ run'.posted = run.posted
      /\ run'.todo = run.todo /\ DOMAIN run' = DOMAIN Idle
      /\ run'.outs = [h \in run.todo |-> Vetted(h, outs[h])]
  BY <1>2 DEF TalkInv, RunOk, Idle
<1>4. run.posted = {} /\ run.at = None /\ run.todo \subseteq Findings /\ run.pc = "lanes"
  BY DEF Judge, TalkInv, LanesOk
<1>5. \A h \in Findings : /\ run.seen[h].by = "maintainer" => threads[h].owner
                          /\ run.seen[h].link # None => threads[h].link # None
  BY DEF Judge, TalkInv, LanesOk
<1>6. \A h \in run.settled : h \in Findings /\ Excused(h) BY DEF Judge, TalkInv, LanesOk
<1>7. ASSUME NEW h \in run.todo
      PROVE  DOMAIN run'.outs[h] = Fields /\ (run'.outs[h].word = Deferred => Backed(h)')
  <2>1. run'.outs[h] = Vetted(h, outs[h]) /\ outs[h] \in Answers BY <1>3
  <2>2. CASE h \in run.settled
    <3>1. Excused(h)' BY <1>1, <1>6, <2>2, StillSteady, SteadyExcused
    <3> QED BY <2>1, <3>1, VettedBacked DEF Backed
  <2>3. CASE h \notin run.settled
    <3>1. h \in Findings BY <1>4
    <3>2. Asker(h) => threads'[h].owner BY <1>1, <1>5, <3>1 DEF Asker, Still
    <3> QED BY <2>1, <2>3, <3>1, <3>2, VettedBacked DEF Backed
  <2> QED BY <2>2, <2>3
<1>8. DOMAIN run'.outs = run.todo BY <1>3
<1>9. FileOk' BY <1>3, <1>4, <1>7, <1>8 DEF FileOk, Fields
<1>10. RunOk' BY <1>1, <1>3, <1>4 DEF RunOk, Still, TalkInv
<1>11. LanesOk' /\ DecideOk' /\ PostOk' BY <1>3 DEF LanesOk, DecideOk, PostOk
<1> QED BY <1>1, <1>9, <1>10, <1>11, StillSteady DEF TalkInv

\* Before anything is posted: what is to be filed may be, or is no deferral now.
Redrafts ==
  /\ run.posted = {} /\ run.pc \in {"file", "filed"} /\ run'.pc \in {"file", "filed"}
  /\ run'.sha = run.sha /\ run'.posted = {} /\ run'.todo = run.todo
  /\ DOMAIN run' = DOMAIN Idle /\ DOMAIN run'.outs = DOMAIN run.outs
  /\ \A h \in DOMAIN run.outs :
       /\ DOMAIN run'.outs[h] = Fields
       /\ run'.outs[h].word = Deferred =>
            /\ run.outs[h].word = Deferred
            /\ run.outs[h].link # None \/ run.outs[h].file => run'.outs[h].link # None \/ run'.outs[h].file

LEMMA RedraftTalks == ASSUME TalkInv, Still, Redrafts PROVE TalkInv'
<1>1. RunOk' BY DEF TalkInv, RunOk, Redrafts, Still
<1>2. LanesOk' /\ DecideOk' /\ PostOk' BY DEF Redrafts, LanesOk, DecideOk, PostOk
<1>3. ASSUME NEW h \in DOMAIN run.outs, run'.outs[h].word = Deferred, ~Obsolete PROVE Backed(h)'
  <2>1. h \in Findings /\ Backed(h) BY <1>3 DEF TalkInv, FileOk, Redrafts
  <2>2. Excused(h) => Excused(h)' BY <2>1, StillSteady, SteadyExcused
  <2> QED BY <1>3, <2>1, <2>2 DEF Backed, Redrafts, Still
<1>4. Obsolete' = Obsolete BY DEF Obsolete, Redrafts, Still
<1>5. FileOk' BY <1>3, <1>4 DEF FileOk, Redrafts, TalkInv, Fields
<1> QED BY <1>1, <1>2, <1>5, StillSteady DEF TalkInv

\* A finding's tracking is noted in the worker's locals.
Linked(r, h) == [r EXCEPT !.outs[h].file = FALSE, !.outs[h].link = "bot"]

LinkedFrom(r, s, h) ==
  /\ DOMAIN s = DOMAIN Idle /\ s.sha = r.sha /\ s.posted = r.posted /\ s.todo = r.todo
  /\ DOMAIN s.outs = DOMAIN r.outs
  /\ \A g \in DOMAIN r.outs : g # h => s.outs[g] = r.outs[g]
  /\ h \in DOMAIN r.outs /\ DOMAIN r.outs[h] = Fields =>
       /\ DOMAIN s.outs[h] = Fields /\ s.outs[h].word = r.outs[h].word /\ s.outs[h].link = "bot"

LEMMA LinkedOuts ==
  ASSUME NEW r, NEW s, NEW h, DOMAIN r = DOMAIN Idle, s = Linked(r, h)
  PROVE  LinkedFrom(r, s, h) /\ s.pc = r.pc
<1> DEFINE r1 == [r EXCEPT !.outs[h].file = FALSE]
<1>1. s = [r1 EXCEPT !.outs[h].link = "bot"] BY DEF Linked
<1>2. /\ DOMAIN r1 = DOMAIN Idle /\ r1.sha = r.sha /\ r1.posted = r.posted /\ r1.todo = r.todo
      /\ r1.pc = r.pc /\ r1.outs = [r.outs EXCEPT ![h] = [r.outs[h] EXCEPT !.file = FALSE]]
  BY DEF Idle
<1> HIDE DEF r1
<1>3. /\ DOMAIN s = DOMAIN Idle /\ s.sha = r1.sha /\ s.posted = r1.posted /\ s.todo = r1.todo
      /\ s.pc = r1.pc /\ s.outs = [r1.outs EXCEPT ![h] = [r1.outs[h] EXCEPT !.link = "bot"]]
  BY <1>1, <1>2 DEF Idle
<1> QED BY <1>2, <1>3 DEF LinkedFrom, Fields

LEMMA FilesTalk == ASSUME TalkInv, NEW h \in Findings, Files(h) PROVE TalkInv'
<1>1. Still
  BY DEF Files, CannotFile, AlreadyFiled, StartsFiling, Creates, CreateFails, NotesUrl, Still, rows
<1>2. /\ run.pc \in {"file", "filed"} /\ run.posted = {} /\ DOMAIN run = DOMAIN Idle
      /\ \A g \in DOMAIN run.outs : DOMAIN run.outs[g] = Fields
  <2>1. run.pc \in {"file", "filed"} /\ (run.at = h \/ h \in ToFile)
    BY DEF Files, CannotFile, AlreadyFiled, StartsFiling, Creates, CreateFails, NotesUrl, Filing
  <2> QED BY <2>1, ConverseAssumption DEF TalkInv, RunOk, FileOk, Fields
<1>3. CASE run' = [run EXCEPT !.at = h] \/ run' = [run EXCEPT !.pc = "filed"]
  BY <1>1, <1>2, <1>3, RedraftTalks DEF Redrafts, Idle
<1>4. CASE Untracked(h)
  <2> DEFINE out == Says("DEFERRAL_NEEDS_TRACKING", FALSE, FALSE)
  <2>1. DOMAIN out = Fields /\ out.word # Deferred BY DEF Says, Fields, Deferred
  <2> HIDE DEF out
  <2>2. run' = [run EXCEPT !.at = None, !.outs[h] = out] BY <1>4 DEF Untracked, out
  <2>3. /\ run'.pc = run.pc /\ run'.sha = run.sha /\ run'.posted = {} /\ run'.todo = run.todo
        /\ DOMAIN run' = DOMAIN Idle /\ run'.outs = [run.outs EXCEPT ![h] = out]
    BY <1>2, <2>2 DEF Idle
  <2> QED BY <1>1, <1>2, <2>1, <2>3, RedraftTalks DEF Redrafts
<1>5. CASE Tracked(h)
  <2> DEFINE r == [run EXCEPT !.at = None]
  <2>1. /\ DOMAIN r = DOMAIN Idle /\ r.sha = run.sha /\ r.posted = run.posted
        /\ r.todo = run.todo /\ r.outs = run.outs /\ r.pc = run.pc
    BY <1>2 DEF Idle
  <2>2. run' = Linked(r, h) BY <1>5 DEF Tracked, Linked
  <2> HIDE DEF r
  <2>3. LinkedFrom(r, run', h) /\ run'.pc = r.pc BY <2>1, <2>2, LinkedOuts
  <2>4. LinkedFrom(run, run', h) BY <2>1, <2>3 DEF LinkedFrom
  <2> QED BY <1>1, <1>2, <2>1, <2>3, <2>4, RedraftTalks DEF Redrafts, LinkedFrom, Fields, None
<1>6. CASE NotesUrl(h)
  <2> DEFINE r == [run EXCEPT !.pc = "file", !.at = None]
  <2>1. /\ DOMAIN r = DOMAIN Idle /\ r.sha = run.sha /\ r.posted = run.posted
        /\ r.todo = run.todo /\ r.outs = run.outs /\ r.pc = "file"
    BY <1>2 DEF Idle
  <2>2. run' = Linked(r, h) BY <1>6 DEF NotesUrl, Linked
  <2> HIDE DEF r
  <2>3. LinkedFrom(r, run', h) /\ run'.pc = r.pc BY <2>1, <2>2, LinkedOuts
  <2>4. LinkedFrom(run, run', h) BY <2>1, <2>3 DEF LinkedFrom
  <2> QED BY <1>1, <1>2, <2>1, <2>3, <2>4, RedraftTalks DEF Redrafts, LinkedFrom, Fields, None
<1> QED
  BY <1>3, <1>4, <1>5, <1>6 DEF Files, CannotFile, AlreadyFiled, StartsFiling, Creates, CreateFails

\* One thread fewer to answer.
LEMMA SkipTalks ==
  ASSUME TalkInv, NEW h, run.pc = "file", Still, run' = [run EXCEPT !.todo = @ \ {h}]
  PROVE  TalkInv'
<1>1. /\ run'.pc = "file" /\ run'.sha = run.sha /\ run'.posted = run.posted /\ run'.outs = run.outs
      /\ run'.at = run.at /\ run'.todo = run.todo \ {h} /\ DOMAIN run' = DOMAIN Idle
  BY DEF TalkInv, RunOk, Idle
<1>2. RunOk' BY <1>1 DEF TalkInv, RunOk, Still
<1>3. LanesOk' /\ DecideOk' /\ PostOk' BY <1>1 DEF LanesOk, DecideOk, PostOk
<1>4. Obsolete' = Obsolete /\ ToFile' = ToFile BY <1>1 DEF Obsolete, Still, ToFile
<1>5. ASSUME NEW g \in Findings, Backed(g) PROVE Backed(g)'
  <2>1. Excused(g) => Excused(g)' BY StillSteady, SteadyExcused
  <2> QED BY <1>1, <1>5, <2>1 DEF Backed, Still
<1>6. ASSUME NEW g \in Findings, SaysWell(g) PROVE SaysWell(g)'
  <2>1. Told(g, run.outs[g].word)' BY <1>1, <1>6, StillSteady, SteadyTold DEF SaysWell, Told
  <2>2. Excused(g) => Excused(g)' BY StillSteady, SteadyExcused
  <2> QED BY <1>1, <1>6, <2>1, <2>2 DEF SaysWell
<1>7. FileOk' BY <1>1, <1>4, <1>5, <1>6 DEF FileOk, TalkInv
<1> QED BY <1>2, <1>3, <1>7, StillSteady DEF TalkInv

\* What is posted is on record with its words; a deferral carries its link there.
LEMMA RepliesTalks ==
  ASSUME TalkInv, NEW h \in Findings, NEW resolved \in BOOLEAN, Replies(h, resolved)
  PROVE  TalkInv'
<1> DEFINE o == run.outs[h]
           mark == [hash |-> h, sha |-> run.sha, reply |-> run.seen[h].reply,
                    lifts |-> IF o.word \in Lifting THEN o.word ELSE None,
                    n |-> IF Obsolete THEN 0 ELSE pub.n]
<1>1. /\ run.pc = "file" /\ run.at = None /\ ToFile = {} /\ h \in run.todo
      /\ marks' = marks \cup {mark} /\ run' = [run EXCEPT !.todo = @ \ {h}, !.posted = @ \cup {h}]
      /\ head' = head /\ pub' = pub /\ old' = old /\ conceded' = conceded
  BY DEF Replies, Answering, rows
<1>2. /\ run'.pc = "file" /\ run'.sha = run.sha /\ run'.posted = run.posted \cup {h}
      /\ run'.outs = run.outs /\ run'.at = None /\ run'.todo = run.todo \ {h}
      /\ DOMAIN run' = DOMAIN Idle
  BY <1>1 DEF TalkInv, RunOk, Idle
<1>3. /\ DOMAIN threads' = Findings /\ \A g \in Findings : g # h => threads'[g] = threads[g]
      /\ DOMAIN threads'[h] = DOMAIN NoThread /\ threads'[h].owner = threads[h].owner
      /\ threads'[h].by = None
      /\ threads'[h].link = IF threads[h].link = None THEN o.link ELSE threads[h].link
  BY DEF Replies, TalkInv, ThreadsOk, NoThread
<1> HIDE DEF mark
<1>4. Steady /\ ThreadsOk'
  BY <1>1, <1>3 DEF Steady, TalkInv, ThreadsOk, None
<1>5. RowsOk' /\ BookedOk' BY <1>1, <1>4, SteadyBooked DEF TalkInv, RowsOk
<1>6. Obsolete' = Obsolete /\ ToFile' = ToFile BY <1>1, <1>2 DEF Obsolete, ToFile
<1>7. RunOk' BY <1>1, <1>2 DEF TalkInv, RunOk
<1>8. LanesOk' /\ DecideOk' /\ PostOk' BY <1>2 DEF LanesOk, DecideOk, PostOk
<1>9. ASSUME NEW g \in Findings, Backed(g) PROVE Backed(g)'
  <2>1. Excused(g) => Excused(g)' BY <1>4, SteadyExcused
  <2> QED BY <1>2, <1>4, <1>9, <2>1 DEF Backed, Steady
<1>10. ASSUME NEW g \in Findings, SaysWell(g) PROVE SaysWell(g)'
  <2>1. Told(g, run.outs[g].word)' BY <1>2, <1>4, <1>10, SteadyTold DEF SaysWell, Told
  <2>2. Excused(g) => Excused(g)' BY <1>4, SteadyExcused
  <2> QED BY <1>2, <1>10, <2>1, <2>2 DEF SaysWell
<1>11. ASSUME ~Obsolete, o.word \in Lifting PROVE SaysWell(h)'
  <2>1. mark.hash = h /\ mark.sha = head /\ mark.n = pub.n /\ mark.lifts = o.word
    BY <1>11 DEF mark, Obsolete
  <2>2. Told(h, o.word)' BY <1>1, <1>2, <2>1 DEF Told
  <2>3. ASSUME o.word = Deferred PROVE Excused(h)'
    <3>1. h \in DOMAIN run.outs /\ ~o.file /\ Backed(h)
      BY <1>1, <1>11, <2>3 DEF TalkInv, FileOk, ToFile
    <3>2. CASE Excused(h) BY <1>4, <3>2, SteadyExcused
    <3>3. CASE ~Excused(h) BY <1>3, <3>1, <3>3 DEF Backed, Excused, None
    <3> QED BY <3>2, <3>3
  <2> QED BY <1>2, <2>2, <2>3 DEF SaysWell
<1>12. FileOk' BY <1>1, <1>2, <1>6, <1>9, <1>10, <1>11 DEF FileOk, TalkInv
<1> QED BY <1>4, <1>5, <1>7, <1>8, <1>12 DEF TalkInv

LEMMA AnswerTalks == ASSUME TalkInv, NEW h \in Findings, Answer(h) PROVE TalkInv'
<1>1. CASE SaysNothing(h)
  BY <1>1, SkipTalks DEF SaysNothing, Answering, Still, rows
<1>2. CASE ReplyFails(h)
  BY <1>2, SkipTalks DEF ReplyFails, Answering, Still, rows
<1>3. CASE \E resolved \in BOOLEAN : Replies(h, resolved) BY <1>3, RepliesTalks
<1> QED BY <1>1, <1>2, <1>3 DEF Answer

\* Only what reached its thread is booked.
LEMMA BookTalks == ASSUME TalkInv, Book PROVE TalkInv'
<1>1. /\ run.pc = "file" /\ head' = head /\ threads' = threads /\ marks' = marks
      /\ pub' = pub /\ old' = old
      /\ conceded' = [h \in Findings |->
           IF h \in Concedes /\ ~Obsolete THEN [n |-> pub.n, status |-> run.outs[h].word]
           ELSE conceded[h]]
  BY DEF Book
<1>2. /\ run'.pc = "decide" /\ run'.sha = run.sha /\ run'.lifted = Concedes
      /\ DOMAIN run' = DOMAIN Idle
  BY DEF Book, TalkInv, RunOk, Idle
<1>3. \A h \in Concedes : h \in Findings /\ run.outs[h].word \in Lifting /\ (~Obsolete => SaysWell(h))
  BY <1>1 DEF Concedes, Said, TalkInv, FileOk
<1>4. Steady /\ ThreadsOk' BY <1>1 DEF Steady, TalkInv, ThreadsOk
<1>5. RowsOk' BY <1>1, <1>3 DEF TalkInv, RowsOk
<1>6. BookedOk'
  <2> SUFFICES ASSUME NEW h \in Conceded'
               PROVE  /\ Told(h, conceded[h].status)'
                      /\ conceded'[h].status = Deferred => Excused(h)'
    BY DEF BookedOk
  <2>1. h \in Findings /\ conceded'[h].status # None /\ conceded'[h].n = pub.n
    BY <1>1 DEF Conceded, Newer
  <2>2. /\ Told(h, conceded'[h].status)
        /\ conceded'[h].status = Deferred => Excused(h)
    <3>1. CASE h \in Concedes /\ ~Obsolete
      <4>1. conceded'[h].status = run.outs[h].word BY <1>1, <2>1, <3>1
      <4> QED BY <1>3, <3>1, <4>1 DEF SaysWell
    <3>2. CASE ~(h \in Concedes /\ ~Obsolete)
      <4>1. conceded'[h] = conceded[h] BY <1>1, <2>1, <3>2
      <4>2. h \in Conceded BY <2>1, <4>1 DEF Conceded, Newer
      <4> QED BY <4>1, <4>2 DEF TalkInv, BookedOk
    <3> QED BY <3>1, <3>2
  <2>3. Told(h, conceded[h].status)' BY <1>1, <2>2 DEF Told
  <2> QED BY <1>4, <2>1, <2>2, <2>3, SteadyExcused
<1>7. RunOk' BY <1>1, <1>2 DEF TalkInv, RunOk
<1>8. LanesOk' /\ FileOk' /\ PostOk' BY <1>2 DEF LanesOk, FileOk, PostOk
<1>9. DecideOk'
  <2> SUFFICES ASSUME ~Obsolete, NEW h \in Concedes PROVE h \in Findings /\ GivenUp(h)'
    BY <1>1, <1>2 DEF DecideOk, Obsolete
  <2>1. Told(h, run.outs[h].word) BY <1>3 DEF SaysWell
  <2> QED BY <1>3, <1>4, <2>1, ToldGivesUp, SteadyGivenUp
<1> QED BY <1>4, <1>5, <1>6, <1>7, <1>8, <1>9 DEF TalkInv

\* An approval leaves nothing above a nitpick that was not given up.
LEMMA DecideTalks == ASSUME TalkInv, Decide PROVE TalkInv'
<1>1. Still BY DEF Decide, Still, rows
<1>2. CASE Speaks
  <2>1. /\ run'.pc = "post" /\ run'.sha = run.sha /\ DOMAIN run' = DOMAIN Idle
        /\ run'.verdict = IF Approves THEN "APPROVED" ELSE "COMMENTED"
    BY <1>2 DEF Decide, TalkInv, RunOk, Idle
  <2>2. run.pc = "decide" /\ ~Obsolete BY DEF Decide
  <2>3. RunOk' BY <1>1, <2>1, <2>2 DEF TalkInv, RunOk, Still
  <2>4. ASSUME run'.verdict = "APPROVED", NEW h \in Notable(pub.findings) PROVE GivenUp(h)'
    <3>1. Approves BY <2>1, <2>4
    <3>2. h \in pub.findings /\ h \in Lifted
      BY <2>4, <3>1 DEF Approves, Clear, Notable, Standing
    <3>3. CASE h \in run.lifted BY <1>1, <2>2, <3>3, StillSteady, SteadyGivenUp DEF TalkInv, DecideOk
    <3>4. CASE h \in Conceded
      <4>1. conceded[h].status \in Lifting BY <3>4 DEF Conceded, Newer, TalkInv, RowsOk
      <4>2. Told(h, conceded[h].status) BY <3>4 DEF TalkInv, BookedOk
      <4> QED BY <1>1, <4>1, <4>2, ToldGivesUp, StillSteady, SteadyGivenUp
    <3> QED BY <3>2, <3>3, <3>4 DEF Lifted
  <2>5. PostOk' BY <1>1, <2>4 DEF PostOk, Still, Notable
  <2>6. LanesOk' /\ FileOk' /\ DecideOk' BY <2>1 DEF LanesOk, FileOk, DecideOk
  <2> QED BY <1>1, <2>3, <2>5, <2>6, StillSteady DEF TalkInv
<1>3. CASE ~Speaks BY <1>1, <1>3, EndShape, StillEnds DEF Decide
<1> QED BY <1>2, <1>3

LEMMA EndsTalk == ASSUME TalkInv, Superseded \/ NothingToSay \/ Post PROVE TalkInv'
<1>1. Still /\ run' = Idle BY EndShape DEF Superseded, NothingToSay, Post, Still, rows
<1> QED BY <1>1, StillEnds

LEMMA TalkInit == Init => TalkInv
<1> SUFFICES ASSUME Init PROVE TalkInv OBVIOUS
<1>1. ThreadsOk BY DEF Init, ThreadsOk, NoThread, None
<1>2. RowsOk BY DEF Init, RowsOk, NoReview, NoConcession
<1>3. Conceded = {} BY DEF Init, Conceded, Newer, NoConcession
<1>4. RunOk /\ LanesOk /\ FileOk /\ DecideOk /\ PostOk
  BY DEF Init, RunOk, LanesOk, FileOk, DecideOk, PostOk, Idle
<1> QED BY <1>1, <1>2, <1>3, <1>4 DEF TalkInv, BookedOk

LEMMA TalkStep == TalkInv /\ [Next]_vars => TalkInv'
<1> SUFFICES ASSUME TalkInv, [Next]_vars PROVE TalkInv' OBVIOUS
<1>1. CASE Outside BY <1>1, WorldTalks
<1>2. CASE Worker
  BY <1>2, BeginTalks, ReviewTalks, JudgeTalks, FilesTalk, AnswerTalks, BookTalks, DecideTalks, EndsTalk,
     CiTalks DEF Worker
<1>3. CASE UNCHANGED vars BY <1>3, StillKeeps DEF vars, Still, rows
<1> QED BY <1>1, <1>2, <1>3 DEF Next

\* A deferral that lifts a finding of the standing review was a maintainer's call with its
\* tracking in the open, or its finding had been withdrawn or deferred before, for any
\* findings, people and faults.
THEOREM DeferralsStand == Spec => []DeferralsHold
<1>1. TalkInv => DeferralsHold BY DEF TalkInv, BookedOk, DeferralsHold, Excused
<1> QED BY <1>1, TalkInit, TalkStep, PTL DEF Spec

\* A conversation approves only what was given up finding by finding on the threads, for
\* any findings, people and faults.
THEOREM ApprovalsRest == Spec => ApprovalRests
<1>1. ASSUME TalkInv, Next, run.kind = "talk", shown # "APPROVED", shown' = "APPROVED"
      PROVE  \A h \in Notable(pub.findings) : GivenUp(h)
  <2>1. CASE Post BY <1>1, <2>1 DEF Post, FollowUp, TalkInv, PostOk
  <2>2. CASE Outside
    BY <1>1, <2>2 DEF Outside, Resolve, Reply, Dismiss, Push, Rereview, CiFails, Dies, None
  <2>3. CASE FullReview BY <1>1, <2>3 DEF FullReview
  <2>4. CASE \E h \in Findings : Files(h) \/ Answer(h)
    BY <1>1, <2>4 DEF Files, CannotFile, AlreadyFiled, StartsFiling, Creates, CreateFails, NotesUrl,
                      Answer, SaysNothing, Replies, ReplyFails
  <2>5. CASE Begin \/ Superseded \/ Judge \/ NothingToSay \/ Book \/ Decide
    BY <1>1, <2>5 DEF Begin, Superseded, Judge, NothingToSay, Book, Decide
  <2>6. CASE CiHeld \/ CiUnrelated \/ CiUpdate \/ CiRecords
    BY <1>1, <2>6 DEF CiHeld, CiUnrelated, CiUpdate, CiRecords
  <2> QED BY <1>1, <2>1, <2>2, <2>3, <2>4, <2>5, <2>6 DEF Next, Worker
<1>2. ASSUME TalkInv, [Next]_vars
      PROVE  [run.kind = "talk" /\ shown # "APPROVED" /\ shown' = "APPROVED"
                => \A h \in Notable(pub.findings) : GivenUp(h)]_vars
  BY <1>1, <1>2
<1> QED BY <1>2, TalkInit, TalkStep, PTL DEF Spec, ApprovalRests
=============================================================================
