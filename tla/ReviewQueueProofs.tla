------------------------- MODULE ReviewQueueProofs -------------------------
(***************************************************************************)
(* Single flight and what rests on it, for any number of pull requests,    *)
(* commits and runs, any failures and any number of crashes.               *)
(*                                                                         *)
(* First come the transactions of Heads: what each returns and preserves.  *)
(* Every action but StartRun is Quiet: it starts no run and no head, keeps *)
(* every run with its head, and ends a run only together with its head.    *)
(* From that SingleFlight, NoGhostHead and the discipline of the schedule  *)
(* pass are preserved at once; StartRun is the one case that needs it.     *)
(* AskInv follows what was asked for and what is carried from head to      *)
(* head; Leashed ties worker processes to their rows, as long as the       *)
(* daemon does not die.                                                    *)
(***************************************************************************)
EXTENDS ReviewQueue, FiniteSetTheorems, TLAPS

-----------------------------------------------------------------------------
(* The head rows: what the transactions of Heads return and preserve. *)

Rows == [Shas -> Head]

\* The row identifiers are numbers (heads.id).
LEMMA NextIdType ==
  ASSUME NEW hs \in Rows
  PROVE  NextId(hs) \in Nat
<1>1. IsFiniteSet({s \in Shas : hs[s].status # "none"})
  BY HeadsAssumption, FS_Subset
<1>2. Cardinality({s \in Shas : hs[s].status # "none"}) \in Nat
  BY <1>1, FS_CardinalityType
<1> QED BY <1>2 DEF NextId

\* A row carried_from is a commit or none.
LEMMA CarriedType ==
  ASSUME NEW hs \in Rows, NEW s \in Shas, NEW rev
  PROVE  CarriedFrom(hs, s, rev) \in Shas \cup {NoSha} /\ ReviewedSha(hs, s, rev) \in Shas \cup {NoSha}
BY DEF CarriedFrom, ReviewedSha, Rows, Head

\* supersede_other_heads keeps the rows well formed and starts nothing.
LEMMA SupersedeRows ==
  ASSUME NEW hs \in Rows, NEW s, NEW trigs
  PROVE  /\ SupersedeOthers(hs, s, trigs) \in Rows
         /\ \A x \in Shas : SupersedeOthers(hs, s, trigs)[x].status = "running" => hs[x].status = "running"
<1>1. \A x \in Shas : [hs[x] EXCEPT !.status = "superseded", !.barred = FALSE] \in Head
  BY DEF Rows, Head, HeadStatus
<1>2. \A x \in Shas : hs[x] \in Head
  BY DEF Rows
<1>3. \A x \in Shas : [hs[x] EXCEPT !.status = "superseded", !.barred = FALSE].status # "running"
  BY <1>2 DEF Head
<1> QED BY <1>1, <1>2, <1>3 DEF SupersedeOthers, Rows

\* close_pr_heads likewise.
LEMMA CloseRows ==
  ASSUME NEW hs \in Rows, NEW keep, NEW barred \in BOOLEAN
  PROVE  /\ CloseHeads(hs, keep, barred) \in Rows
         /\ \A x \in Shas : CloseHeads(hs, keep, barred)[x].status = "running" => hs[x].status = "running"
<1>1. \A x \in Shas : [hs[x] EXCEPT !.status = "closed", !.barred = barred] \in Head
  BY DEF Rows, Head, HeadStatus
<1>2. \A x \in Shas : hs[x] \in Head
  BY DEF Rows
<1>3. \A x \in Shas : [hs[x] EXCEPT !.status = "closed", !.barred = barred].status # "running"
  BY <1>2 DEF Head
<1> QED BY <1>1, <1>2, <1>3 DEF CloseHeads, Rows

\* skip_pr_heads likewise.
LEMMA SkipRows ==
  ASSUME NEW hs \in Rows, NEW s \in Shas
  PROVE  /\ SkipHeads(hs, s) \in Rows
         /\ \A x \in Shas : SkipHeads(hs, s)[x].status = "running" => hs[x].status = "running"
<1> DEFINE rest == SupersedeOthers(hs, s, Skippable)
<1>1. /\ rest \in Rows
      /\ \A x \in Shas : rest[x].status = "running" => hs[x].status = "running"
  BY SupersedeRows
<1> HIDE DEF rest
<1>2. rest[s] \in Head
  BY <1>1 DEF Rows
<1>3. /\ [rest EXCEPT ![s].status = "done"] \in Rows
      /\ [rest EXCEPT ![s].status = "closed", ![s].barred = TRUE] \in Rows
  BY <1>1, <1>2 DEF Rows, Head, HeadStatus
<1>4. \A x \in Shas : /\ [rest EXCEPT ![s].status = "done"][x].status = "running" => rest[x].status = "running"
                      /\ [rest EXCEPT ![s].status = "closed", ![s].barred = TRUE][x].status = "running"
                           => rest[x].status = "running"
  BY <1>1, <1>2 DEF Rows, Head
<1>5. SkipHeads(hs, s) \in {rest, [rest EXCEPT ![s].status = "done"],
                            [rest EXCEPT ![s].status = "closed", ![s].barred = TRUE]}
  BY DEF SkipHeads, rest
<1> QED BY <1>1, <1>3, <1>4, <1>5

\* enqueue_head keeps the rows well formed, and starts no head: only the scheduler does.
LEMMA EnqueueRows ==
  ASSUME NEW hs \in Rows, NEW s \in Shas, NEW t \in Triggers, NEW e
  PROVE  /\ Enqueue(hs, s, t, e).hs \in Rows
         /\ \A x \in Shas : Enqueue(hs, s, t, e).hs[x].status = "running" => hs[x].status = "running"
<1> DEFINE h == hs[s]
           sup == SupersedeOthers(hs, s, Triggers)
           Puts(rows, row) == [rows EXCEPT ![s] = row]
<1>1. h \in Head /\ sup \in Rows /\ (\A x \in Shas : sup[x].status = "running" => hs[x].status = "running")
  BY SupersedeRows DEF Rows
<1>2. NewHead(hs, t) \in Head /\ NewHead(hs, t).status = "queued"
  <2> DEFINE New(prio, due) == [NoHead EXCEPT !.status = "queued", !.trig = t, !.prio = prio,
                                             !.due = due, !.id = NextId(hs)]
  <2>1. \A prio, due \in BOOLEAN : New(prio, due) \in Head /\ New(prio, due).status = "queued"
    BY NextIdType DEF NoHead, Head, HeadStatus
  <2>2. NewHead(hs, t) = New(t \in Priority, t \in Priority \cup {"normal"})
    BY DEF NewHead
  <2>3. (t \in Priority) \in BOOLEAN /\ (t \in Priority \cup {"normal"}) \in BOOLEAN
    OBVIOUS
  <2> HIDE DEF New
  <2> QED BY <2>1, <2>2, <2>3
<1>3. \A prio, due \in BOOLEAN : Requeue(h, t, prio, due) \in Head /\ Requeue(h, t, prio, due).status = "queued"
  BY <1>1 DEF Requeue, Head, HeadStatus
<1>10. \A due \in BOOLEAN : /\ Requeue(h, t, t \in Priority, due) \in Head
                           /\ Requeue(h, t, t \in Priority, due).status = "queued"
  <2>1. (t \in Priority) \in BOOLEAN
    OBVIOUS
  <2> HIDE DEF h
  <2> QED BY <1>3, <2>1, Zenon
<1>11. /\ Requeue(h, t, t \in Priority, t \in Priority \cup {"normal"}) \in Head
       /\ Requeue(h, t, t \in Priority, t \in Priority \cup {"normal"}).status = "queued"
  <2>1. (t \in Priority \cup {"normal"}) \in BOOLEAN
    OBVIOUS
  <2> HIDE DEF h
  <2> QED BY <1>10, <2>1, Zenon
<1>4. /\ [h EXCEPT !.trig = t, !.due = @ \/ h.status = "queued"] \in Head
      /\ [h EXCEPT !.trig = t, !.due = @ \/ h.status = "queued"].status = h.status
  BY <1>1 DEF Head
<1>5. /\ [h EXCEPT !.prio = TRUE, !.trig = t, !.due = TRUE] \in Head
      /\ [h EXCEPT !.prio = TRUE, !.trig = t, !.due = TRUE].status = h.status
      /\ [h EXCEPT !.trig = t, !.due = TRUE] \in Head
      /\ [h EXCEPT !.trig = t, !.due = TRUE].status = h.status
  BY <1>1 DEF Head
<1>6. \A rows \in {hs, sup}, row \in Head :
         row.status \in {"queued", h.status} =>
           /\ Puts(rows, row) \in Rows
           /\ \A x \in Shas : Puts(rows, row)[x].status = "running" => hs[x].status = "running"
  BY <1>1 DEF Rows
<1>7. \E rows \in {hs, sup}, row \in Head :
         /\ row.status \in {"queued", h.status}
         /\ Enqueue(hs, s, t, e).hs \in {hs, Puts(rows, row)}
  <2> DEFINE q == Enqueue(hs, s, t, e).hs
  <2>1. CASE q = hs
    BY <1>1, <2>1
  <2>2. CASE q = Puts(sup, NewHead(hs, t))
    BY <1>2, <2>2
  <2>3. CASE q = Puts(hs, Requeue(h, t, TRUE, TRUE))
    BY <1>3, <2>3
  <2>4. CASE q = Puts(sup, Requeue(h, t, t \in Priority, t \in Priority \cup {"normal"}))
    <3> DEFINE row == Requeue(h, t, t \in Priority, t \in Priority \cup {"normal"})
    <3>1. row \in Head /\ row.status \in {"queued", h.status} /\ q \in {hs, Puts(sup, row)}
      BY <1>11, <2>4
    <3> HIDE DEF row, Puts, h, sup
    <3> QED BY <3>1
  <2>5. CASE q = Puts(hs, [h EXCEPT !.trig = t, !.due = @ \/ h.status = "queued"])
    BY <1>4, <2>5
  <2>6. CASE q = Puts(hs, [h EXCEPT !.prio = TRUE, !.trig = t, !.due = TRUE])
    BY <1>5, <2>6
  <2>7. CASE q = Puts(hs, [h EXCEPT !.trig = t, !.due = TRUE])
    BY <1>5, <2>7
  <2>8. CASE q = Puts(hs, Requeue(h, t, t \in Priority, TRUE))
    <3> DEFINE row == Requeue(h, t, t \in Priority, TRUE)
    <3>1. row \in Head /\ row.status \in {"queued", h.status} /\ q \in {hs, Puts(hs, row)}
      BY <1>10, <2>8
    <3> HIDE DEF row, Puts, h, sup
    <3> QED BY <3>1
  <2> QED
    BY <2>1, <2>2, <2>3, <2>4, <2>5, <2>6, <2>7, <2>8 DEF Enqueue, Result
<1>8. PICK rows \in {hs, sup}, row \in Head :
         /\ row.status \in {"queued", h.status}
         /\ Enqueue(hs, s, t, e).hs \in {hs, Puts(rows, row)}
  BY <1>7
<1>9. /\ Puts(rows, row) \in Rows
      /\ \A x \in Shas : Puts(rows, row)[x].status = "running" => hs[x].status = "running"
  BY <1>6, <1>8
<1> HIDE DEF Puts, h, sup
<1> QED BY <1>8, <1>9

\* A result's again flag is a truth value.
LEMMA EnqueueAgain ==
  ASSUME NEW hs, NEW s, NEW t, NEW e
  PROVE  Enqueue(hs, s, t, e).again \in BOOLEAN
BY DEF Enqueue, Result

\* _requeue_or_fail always takes the head out of "running".
LEMMA RequeueOrFailRow ==
  ASSUME NEW h \in Head, NEW kind
  PROVE  RequeueOrFail(h, kind) \in Head /\ RequeueOrFail(h, kind).status # "running"
<1>1. \A due \in BOOLEAN : /\ [h EXCEPT !.status = "queued", !.due = due] \in Head
                          /\ [h EXCEPT !.status = "queued", !.due = due].status = "queued"
  BY DEF Head, HeadStatus
<1>2. \A end \in {"done", "failed"} : /\ [h EXCEPT !.status = end] \in Head
                                     /\ [h EXCEPT !.status = end].status = end
  BY DEF Head, HeadStatus
<1> QED BY <1>1, <1>2 DEF RequeueOrFail

\* The end of a run takes its head out of "running", however it ends, and starts no other:
\* no head is left behind by the run that was to move it on.
LEMMA FinishRows ==
  ASSUME NEW hs \in Rows, NEW s \in Shas, NEW end, NEW kind, NEW again, NEW e
  PROVE  /\ FinishHead(hs, s, end, kind, again, e) \in Rows
         /\ FinishHead(hs, s, end, kind, again, e)[s].status # "running"
         /\ \A x \in Shas : FinishHead(hs, s, end, kind, again, e)[x].status = "running" =>
                              hs[x].status = "running"
<1> DEFINE Puts(row) == [hs EXCEPT ![s] = row]
           q == FinishHead(hs, s, end, kind, again, e)
           over == [hs[s] EXCEPT !.status = "done"]
<1>1. \A row \in Head : row.status # "running" =>
         /\ Puts(row) \in Rows
         /\ Puts(row)[s].status # "running"
         /\ \A x \in Shas : Puts(row)[x].status = "running" => hs[x].status = "running"
  BY DEF Rows
<1>2. hs[s] \in Head
  BY DEF Rows
<1>3. over \in Head /\ over.status # "running"
  BY <1>2 DEF Head, HeadStatus
<1>4. CASE q = hs /\ hs[s].status # "running"
  BY <1>4
<1>5. CASE q = Puts(over)
  <2> HIDE DEF Puts, over
  <2> QED BY <1>1, <1>3, <1>5
<1>6. CASE q = Enqueue(Puts(over), s, "manual", e).hs
  <2> HIDE DEF Puts, over
  <2>1. /\ Puts(over) \in Rows /\ Puts(over)[s].status # "running"
        /\ \A x \in Shas : Puts(over)[x].status = "running" => hs[x].status = "running"
    BY <1>1, <1>3
  <2>2. "manual" \in Triggers
    BY DEF Triggers
  <2>3. /\ Enqueue(Puts(over), s, "manual", e).hs \in Rows
        /\ \A x \in Shas : Enqueue(Puts(over), s, "manual", e).hs[x].status = "running" =>
                             Puts(over)[x].status = "running"
    BY <2>1, <2>2, EnqueueRows
  <2> QED BY <1>6, <2>1, <2>3
<1>7. CASE q = Puts([hs[s] EXCEPT !.status = "queued", !.due = TRUE])
  <2>1. /\ [hs[s] EXCEPT !.status = "queued", !.due = TRUE] \in Head
        /\ [hs[s] EXCEPT !.status = "queued", !.due = TRUE].status # "running"
    BY <1>2 DEF Head, HeadStatus
  <2> HIDE DEF Puts
  <2> QED BY <1>1, <1>7, <2>1
<1>8. CASE q = Puts(RequeueOrFail(hs[s], kind))
  <2> HIDE DEF Puts
  <2> QED BY <1>1, <1>2, <1>8, RequeueOrFailRow
<1>9. Puts(over) = [hs EXCEPT ![s].status = "done"]
  OBVIOUS
<1>10. Puts([hs[s] EXCEPT !.status = "queued", !.due = TRUE])
         = [hs EXCEPT ![s].status = "queued", ![s].due = TRUE]
  BY <1>2 DEF Rows, Head
<1> QED
  BY <1>4, <1>5, <1>6, <1>7, <1>8, <1>9, <1>10 DEF FinishHead

\* retire_obsolete_head ends a running head, and leaves any other as it is.
LEMMA RetireRows ==
  ASSUME NEW hs \in Rows, NEW s \in Shas, NEW status \in HeadStatus \ {"running"}
  PROVE  /\ RetireHead(hs, s, status) \in Rows
         /\ \A x \in Shas : RetireHead(hs, s, status)[x].status = "running" => hs[x].status = "running"
<1>1. /\ [hs[s] EXCEPT !.status = status, !.barred = FALSE] \in Head
      /\ [hs[s] EXCEPT !.status = status, !.barred = FALSE].status # "running"
  BY DEF Rows, Head
<1>2. [hs EXCEPT ![s].status = status, ![s].barred = FALSE]
        = [hs EXCEPT ![s] = [hs[s] EXCEPT !.status = status, !.barred = FALSE]]
  BY DEF Rows, Head
<1> QED BY <1>1, <1>2 DEF RetireHead, Rows

\* _start_run marks the head it was given, whatever became of it meanwhile.
LEMMA StartRow ==
  ASSUME NEW h \in Head, NEW n \in Nat
  PROVE  StartHead(h, n) \in Head
<1>1. n + 1 \in Nat
  OBVIOUS
<1>2. \A m \in Nat : [h EXCEPT !.status = "running", !.attempts = m] \in Head
  BY DEF Head, HeadStatus
<1> QED BY <1>1, <1>2 DEF StartHead
-----------------------------------------------------------------------------
(* What becomes of each row *)

\* No transaction undoes a row, its place in line or the review it carries, nor gives the head
\* of an audit back.
Kept(h, g) ==
  /\ h.status # "none" => g.status # "none" /\ g.id = h.id /\ g.carried = h.carried
  /\ g.carried \in {h.carried, NoSha}
  /\ h.audit => g.audit

\* Nobody asks anything of a row, and no run is started for it.
Unasked(h, g) == Kept(h, g) /\ g.trig = h.trig /\ (g.status = "running" => h.status = "running")

\* A row that is taken out of line, at most.
Rests(h, g) ==
  /\ Unasked(h, g)
  /\ g.audit = h.audit
  /\ g.status \in {"none", "done"} => g.status = h.status
  /\ Lifted(g) => Lifted(h)

\* A row that is not touched rests.
LEMMA RestsItself ==
  ASSUME NEW h
  PROVE  Rests(h, h)
BY DEF Rests, Unasked, Kept

To(h, status, barred) == [h EXCEPT !.status = status, !.barred = barred]

\* A row given another status, and maybe barred.
LEMMA ToRow ==
  ASSUME NEW h \in Head, NEW status \in HeadStatus \ {"none"}, NEW barred \in BOOLEAN
  PROVE  /\ To(h, status, barred).status = status /\ To(h, status, barred).barred = barred
         /\ To(h, status, barred).trig = h.trig /\ To(h, status, barred).audit = h.audit
         /\ Kept(h, To(h, status, barred))
<1>1. /\ To(h, status, barred).status = status /\ To(h, status, barred).barred = barred
      /\ To(h, status, barred).trig = h.trig /\ To(h, status, barred).audit = h.audit
      /\ To(h, status, barred).id = h.id /\ To(h, status, barred).carried = h.carried
  BY DEF To, Head
<1> QED BY <1>1 DEF Kept

\* supersede_other_heads takes rows out of line, and leaves the commit's own.
LEMMA SupersedeRests ==
  ASSUME NEW hs \in Rows, NEW s, NEW trigs
  PROVE  /\ \A x \in Shas : Rests(hs[x], SupersedeOthers(hs, s, trigs)[x])
         /\ s \in Shas => SupersedeOthers(hs, s, trigs)[s] = hs[s]
<1>1. ASSUME NEW h \in Head
      PROVE  Rests(h, To(h, "superseded", FALSE))
  <2>1. "superseded" \in HeadStatus \ {"none"}
    BY DEF HeadStatus
  <2> QED BY <2>1, ToRow DEF Rests, Unasked, Lifted
<1>2. \A x \in Shas : hs[x] \in Head /\ Rests(hs[x], hs[x])
  BY RestsItself DEF Rows
<1>3. /\ \A x \in Shas : SupersedeOthers(hs, s, trigs)[x] \in {hs[x], To(hs[x], "superseded", FALSE)}
      /\ s \in Shas => SupersedeOthers(hs, s, trigs)[s] = hs[s]
  BY DEF SupersedeOthers, To
<1> QED BY <1>1, <1>2, <1>3

\* close_pr_heads takes rows out of line; only a label or a draft closes them for a time.
LEMMA CloseRests ==
  ASSUME NEW hs \in Rows, NEW keep, NEW barred \in BOOLEAN, NEW x \in Shas
  PROVE  /\ Unasked(hs[x], CloseHeads(hs, keep, barred)[x])
         /\ Rests(hs[x], CloseHeads(hs, keep, barred)[x])
              \/ (barred /\ CloseHeads(hs, keep, barred)[x].status = "closed")
<1> DEFINE Fine(h, g) == Unasked(h, g) /\ (Rests(h, g) \/ (barred /\ g.status = "closed"))
<1>1. ASSUME NEW h \in Head
      PROVE  Fine(h, To(h, "closed", barred))
  <2>1. "closed" \in HeadStatus \ {"none"}
    BY DEF HeadStatus
  <2> QED BY <2>1, ToRow DEF Rests, Unasked, Lifted
<1>2. hs[x] \in Head /\ Fine(hs[x], hs[x])
  BY RestsItself DEF Rows, Rests
<1>3. CloseHeads(hs, keep, barred)[x] \in {hs[x], To(hs[x], "closed", barred)}
  BY DEF CloseHeads, To
<1>4. Fine(hs[x], CloseHeads(hs, keep, barred)[x])
  <2> HIDE DEF Fine
  <2> QED BY <1>1, <1>2, <1>3
<1> QED BY <1>4

\* skip_pr_heads takes rows out of line; it ends the commit's own if nobody asked for it.
LEMMA SkipRests ==
  ASSUME NEW hs \in Rows, NEW s \in Shas, NEW x \in Shas
  PROVE  /\ Unasked(hs[x], SkipHeads(hs, s)[x])
         /\ Rests(hs[x], SkipHeads(hs, s)[x]) \/ hs[x].trig \in Skippable
<1> DEFINE rest == SupersedeOthers(hs, s, Skippable)
           over == [rest EXCEPT ![s].status = "done"]
           shut == [rest EXCEPT ![s].status = "closed", ![s].barred = TRUE]
           Fine(h, g) == Unasked(h, g) /\ (Rests(h, g) \/ h.trig \in Skippable)
<1>1. /\ rest \in Rows /\ rest[s] = hs[s] /\ hs[s] \in Head
      /\ Rests(hs[x], rest[x])
  BY SupersedeRests, SupersedeRows DEF Rows
<1> HIDE DEF rest
<1>2. Fine(hs[x], rest[x])
  BY <1>1 DEF Rests
<1>3. /\ over[s] = To(hs[s], "done", hs[s].barred) /\ (x # s => over[x] = rest[x])
      /\ shut[s] = To(hs[s], "closed", TRUE)
      /\ x # s => shut[x] = rest[x]
  BY <1>1 DEF Rows, Head, To
<1>4. ASSUME NEW h \in Head, h.trig \in Skippable
      PROVE  Fine(h, To(h, "done", h.barred)) /\ Fine(h, To(h, "closed", TRUE))
  <2>1. {"closed", "done"} \subseteq HeadStatus \ {"none"} /\ h.barred \in BOOLEAN
    BY DEF HeadStatus, Head
  <2>2. ASSUME NEW status \in {"closed", "done"}, NEW barred \in BOOLEAN
        PROVE  Fine(h, To(h, status, barred))
    <3>1. /\ Kept(h, To(h, status, barred)) /\ To(h, status, barred).trig = h.trig
          /\ To(h, status, barred).status = status
      BY <2>1, ToRow
    <3> QED BY <1>4, <3>1 DEF Unasked
  <2> HIDE DEF Fine
  <2> QED BY <2>1, <2>2
<1>5. \/ SkipHeads(hs, s) = rest
      \/ hs[s].trig \in Skippable /\ (SkipHeads(hs, s) = over \/ SkipHeads(hs, s) = shut)
  BY DEF SkipHeads, rest, Skippable
<1>6. Fine(hs[x], SkipHeads(hs, s)[x])
  <2> HIDE DEF over, shut, Fine
  <2>1. CASE x # s
    BY <1>2, <1>3, <1>5, <2>1
  <2>2. CASE x = s
    BY <1>1, <1>2, <1>3, <1>4, <1>5, <2>2
  <2> QED BY <2>1, <2>2
<1> QED BY <1>6

\* What an accepted ask makes of the commit's row: it is in line for it, and an automatic
\* trigger only opens a row that is new or was barred.
Asked(h, g, t) ==
  /\ Kept(h, g) /\ ~h.audit /\ ~g.audit
  /\ g.trig = t /\ Open(g)
  /\ g.status = "running" => h.status = "running"
  /\ t = "ci" => h.status = "done"
  /\ t = "new" => h.status = "none" \/ Lifted(h)

\* A row put in line again, and one asked for while it is in line.
LEMMA AskedRow ==
  ASSUME NEW h \in Head, ~h.audit, NEW t, t = "ci" => h.status = "done", NEW prio, NEW due
  PROVE  /\ (t = "new" => h.status = "none" \/ Lifted(h)) =>
              Asked(h, Requeue(h, t, prio, due), t) /\ Requeue(h, t, prio, due).status = "queued"
         /\ Open(h) /\ t \notin {"new", "ci"} =>
              /\ Asked(h, [h EXCEPT !.trig = t, !.due = due], t)
              /\ Asked(h, [h EXCEPT !.prio = prio, !.trig = t, !.due = due], t)
<1>1. ASSUME NEW g, g = Requeue(h, t, prio, due)
      PROVE  g.status = "queued" /\ g.trig = t /\ g.audit = h.audit /\ g.id = h.id /\ g.carried = h.carried
  BY <1>1 DEF Requeue, Head
<1>2. ASSUME NEW g, \/ g = [h EXCEPT !.trig = t, !.due = due]
                    \/ g = [h EXCEPT !.prio = prio, !.trig = t, !.due = due]
      PROVE  g.status = h.status /\ g.trig = t /\ g.audit = h.audit /\ g.id = h.id /\ g.carried = h.carried
  BY <1>2 DEF Head
<1>3. (t = "new" => h.status = "none" \/ Lifted(h)) =>
        Asked(h, Requeue(h, t, prio, due), t) /\ Requeue(h, t, prio, due).status = "queued"
  BY <1>1 DEF Asked, Kept, Open
<1>4. ASSUME Open(h), t \notin {"new", "ci"}, NEW g,
             g.status = h.status, g.trig = t, g.audit = h.audit, g.id = h.id, g.carried = h.carried
      PROVE  Asked(h, g, t)
  BY <1>4 DEF Asked, Kept, Open
<1>5. Open(h) /\ t \notin {"new", "ci"} =>
        /\ Asked(h, [h EXCEPT !.trig = t, !.due = due], t)
        /\ Asked(h, [h EXCEPT !.prio = prio, !.trig = t, !.due = due], t)
  BY <1>2, <1>4
<1> QED BY <1>3, <1>5

\* A new head is in line for what it was made for.
LEMMA NewRow ==
  ASSUME NEW hs \in Rows, NEW s \in Shas, NEW t, hs[s].status = "none", ~hs[s].audit, t # "ci"
  PROVE  Asked(hs[s], NewHead(hs, t), t) /\ NewHead(hs, t).status = "queued"
<1>1. ASSUME NEW g, g = NewHead(hs, t)
      PROVE  g.status = "queued" /\ g.trig = t /\ ~g.audit /\ g.carried = NoSha
  BY <1>1 DEF NewHead, NoHead
<1> QED BY <1>1 DEF Asked, Kept, Open

\* enqueue_head: other commits' rows rest; an ask it takes is on the commit's own row, and one
\* on a running row that had a review to carry is noted for the end of its run.
LEMMA EnqueueEffect ==
  ASSUME NEW hs \in Rows, NEW s \in Shas, NEW t \in Triggers, NEW e
  PROVE  /\ \A x \in Shas \ {s} : Rests(hs[x], Enqueue(hs, s, t, e).hs[x])
         /\ Enqueue(hs, s, t, e).res = "noop" => Enqueue(hs, s, t, e).hs = hs
         /\ Enqueue(hs, s, t, e).res # "noop" =>
              /\ Asked(hs[s], Enqueue(hs, s, t, e).hs[s], t)
              /\ \/ Enqueue(hs, s, t, e).hs[s].status # "running" \/ hs[s].trig = "ci"
                 \/ CarriedFrom(hs, s, e.reviewed) = NoSha \/ s \notin e.active
                 \/ Enqueue(hs, s, t, e).again
<1> DEFINE h == hs[s]
           sup == SupersedeOthers(hs, s, Triggers)
           Put(rows, row) == [rows EXCEPT ![s] = row]
           Noted(g, again) == \/ g.status # "running" \/ hs[s].trig = "ci"
                              \/ CarriedFrom(hs, s, e.reviewed) = NoSha \/ s \notin e.active
                              \/ again
           Fine(q) == /\ \A x \in Shas \ {s} : Rests(hs[x], q.hs[x])
                      /\ q.res = "noop" => q.hs = hs
                      /\ q.res # "noop" => Asked(hs[s], q.hs[s], t) /\ Noted(q.hs[s], q.again)
           q == Enqueue(hs, s, t, e)
<1> SUFFICES Fine(q)
  OBVIOUS
<1>1. ASSUME NEW rows \in {hs, sup}, NEW row, NEW res, res # "noop", NEW again,
             Asked(h, row, t), Noted(row, again)
      PROVE  Fine(Result(res, Put(rows, row), again))
  <2>1. rows \in [Shas -> Head] /\ \A x \in Shas : Rests(hs[x], rows[x])
    BY RestsItself, SupersedeRests, SupersedeRows DEF Rows
  <2>2. Put(rows, row)[s] = row /\ \A x \in Shas \ {s} : Put(rows, row)[x] = rows[x]
    BY <2>1
  <2> HIDE DEF Put, Noted, sup
  <2>3. \A x \in Shas \ {s} : Rests(hs[x], Put(rows, row)[x])
    BY <2>1, <2>2
  <2> QED BY <1>1, <2>2, <2>3 DEF Result
<1>2. Fine(Result("noop", hs, FALSE))
  BY RestsItself DEF Result
<1>3. h \in Head
  BY DEF Rows
<1>4. CASE Refuses(h, t, e.label)
  <2>1. q = Result("noop", hs, FALSE)
    BY <1>4 DEF Enqueue
  <2> HIDE DEF Fine, q
  <2> QED BY <1>2, <2>1
<1>5. CASE ~Refuses(h, t, e.label) /\ h.status = "none"
  <2>1. ~h.audit /\ t # "ci"
    BY <1>5 DEF Refuses
  <2>2. q = Result("created", Put(sup, NewHead(hs, t)), FALSE)
    BY <1>5 DEF Enqueue
  <2>3. Asked(h, NewHead(hs, t), t) /\ Noted(NewHead(hs, t), FALSE)
    BY <1>5, <2>1, NewRow
  <2> HIDE DEF Fine, q, Put, Noted, sup, h
  <2> QED BY <1>1, <2>2, <2>3
<1> DEFINE Free == ~Refuses(h, t, e.label) /\ h.status # "none"
<1>6. Free => ~h.audit /\ (t = "ci" => h.status = "done")
  BY DEF Refuses
<1>7. CASE Free /\ t = "ci"
  <2>1. q = Result("requeued", Put(hs, Requeue(h, t, TRUE, TRUE)), FALSE)
    BY <1>7 DEF Enqueue
  <2>2. Asked(h, Requeue(h, t, TRUE, TRUE), t) /\ Noted(Requeue(h, t, TRUE, TRUE), FALSE)
    BY <1>3, <1>6, <1>7, AskedRow
  <2> HIDE DEF Fine, q, Put, Noted, sup, h
  <2> QED BY <1>1, <2>1, <2>2
<1>8. CASE Free /\ t # "ci" /\ Lifted(h)
  <2> DEFINE row == Requeue(h, t, t \in Priority, t \in Priority \cup {"normal"})
  <2>1. q = Result("requeued", Put(sup, row), FALSE)
    BY <1>8 DEF Enqueue
  <2>2. Asked(h, row, t) /\ Noted(row, FALSE)
    BY <1>3, <1>6, <1>8, AskedRow
  <2> HIDE DEF Fine, q, Put, Noted, sup, h, row
  <2> QED BY <1>1, <2>1, <2>2
<1> DEFINE Rest == Free /\ t # "ci" /\ ~Lifted(h)
<1>9. CASE Rest /\ TakesOverCheck(h, t, s \in e.active)
  <2> DEFINE row == [h EXCEPT !.trig = t, !.due = h.due \/ h.status = "queued"]
  <2>1. q = Result("promoted", Put(hs, row), h.status = "running")
    BY <1>9 DEF Enqueue
  <2>2. Open(h) /\ t \notin {"new", "ci"} /\ hs[s].trig = "ci"
    BY <1>9 DEF TakesOverCheck, Open, Reopening
  <2>3. Asked(h, row, t) /\ Noted(row, h.status = "running")
    <3> HIDE DEF h
    <3> QED BY <1>3, <1>6, <1>9, <2>2, AskedRow
  <2>4. (h.status = "running") \in BOOLEAN
    OBVIOUS
  <2> HIDE DEF Fine, q, Put, Noted, sup, h, row
  <2> QED BY <1>1, <2>1, <2>3
<1> DEFINE Over == Rest /\ ~TakesOverCheck(h, t, s \in e.active)
<1>10. CASE Over /\ Promotes(h, t)
  <2> DEFINE row == [h EXCEPT !.prio = TRUE, !.trig = t, !.due = TRUE]
             again == h.status = "running" /\ CarriedFrom(hs, s, e.reviewed) # NoSha /\ s \in e.active
  <2>1. q = Result("promoted", Put(hs, row), again)
    BY <1>10 DEF Enqueue
  <2>2. Open(h) /\ t \notin {"new", "ci"}
    BY <1>10 DEF Promotes, Priority
  <2>3. Asked(h, row, t)
    BY <1>3, <1>6, <1>10, <2>2, AskedRow
  <2>4. Noted(row, again)
    <3>1. row.status = h.status
      BY <1>3 DEF Head
    <3> QED BY <3>1
  <2> HIDE DEF Fine, q, Put, Noted, sup, h, row, again
  <2> QED BY <1>1, <2>1, <2>3, <2>4
<1>11. CASE Over /\ ~Promotes(h, t) /\ AsksQueued(h, t)
  <2> DEFINE row == [h EXCEPT !.trig = t, !.due = TRUE]
  <2>1. q = Result("promoted", Put(hs, row), FALSE)
    BY <1>11 DEF Enqueue
  <2>2. Open(h) /\ t \notin {"new", "ci"} /\ h.status = "queued"
    BY <1>11 DEF AsksQueued, Open
  <2>3. Asked(h, row, t) /\ row.status = "queued"
    <3>1. row.status = "queued"
      BY <1>3, <2>2 DEF Head
    <3> QED BY <1>3, <1>6, <1>11, <2>2, <3>1, AskedRow
  <2>4. Noted(row, FALSE)
    BY <2>3
  <2> HIDE DEF Fine, q, Put, Noted, sup, h, row
  <2> QED BY <1>1, <2>1, <2>3, <2>4
<1> DEFINE Last == Over /\ ~Promotes(h, t) /\ ~AsksQueued(h, t)
<1>12. CASE Last /\ Reopens(hs, s, t, e.reviewed)
  <2> DEFINE row == Requeue(h, t, t \in Priority, TRUE)
  <2>1. q = Result("requeued", Put(hs, row), FALSE)
    BY <1>12 DEF Enqueue
  <2>2. t # "new"
    BY <1>12 DEF Reopens, Reopening, Asking
  <2>3. Asked(h, row, t) /\ Noted(row, FALSE)
    BY <1>3, <1>6, <1>12, <2>2, AskedRow
  <2> HIDE DEF Fine, q, Put, Noted, sup, h, row
  <2> QED BY <1>1, <2>1, <2>3
<1>13. CASE Last /\ ~Reopens(hs, s, t, e.reviewed)
  <2>1. q = Result("noop", hs, FALSE)
    BY <1>13 DEF Enqueue
  <2> HIDE DEF Fine, q
  <2> QED BY <1>2, <2>1
<1> HIDE DEF Fine, q, h, Put, sup
<1> QED BY <1>4, <1>5, <1>7, <1>8, <1>9, <1>10, <1>11, <1>12, <1>13

\* _requeue_or_fail: the head waits again, is given up on, or is done because it was a CI check.
LEMMA RequeueOrFailEffect ==
  ASSUME NEW h \in Head, NEW kind
  PROVE  /\ Unasked(h, RequeueOrFail(h, kind)) /\ RequeueOrFail(h, kind).audit = h.audit
         /\ RequeueOrFail(h, kind).status \in {"queued", "failed"}
              \/ (RequeueOrFail(h, kind).status = "done" /\ h.trig = "ci")
<1> DEFINE Fine(g) == /\ Unasked(h, g) /\ g.audit = h.audit
                      /\ g.status \in {"queued", "failed"} \/ (g.status = "done" /\ h.trig = "ci")
<1>1. ASSUME NEW g, NEW status \in {"queued", "failed", "done"}, status = "done" => h.trig = "ci",
             g.status = status, g.trig = h.trig, g.audit = h.audit, g.id = h.id, g.carried = h.carried
      PROVE  Fine(g)
  BY <1>1 DEF Unasked, Kept
<1>2. ASSUME NEW g, NEW due, g = [h EXCEPT !.status = "queued", !.due = due] PROVE Fine(g)
  <2>1. /\ g.status = "queued" /\ g.trig = h.trig /\ g.audit = h.audit
        /\ g.id = h.id /\ g.carried = h.carried
    BY <1>2 DEF Head
  <2> HIDE DEF Fine
  <2> QED BY <1>1, <2>1
<1>3. ASSUME NEW g, NEW status \in {"failed", "done"}, status = "done" => h.trig = "ci",
             g = [h EXCEPT !.status = status]
      PROVE  Fine(g)
  <2>1. /\ g.status = status /\ g.trig = h.trig /\ g.audit = h.audit
        /\ g.id = h.id /\ g.carried = h.carried
    BY <1>3 DEF Head
  <2> HIDE DEF Fine
  <2> QED BY <1>1, <1>3, <2>1
<1> HIDE DEF Fine
<1>4. Fine(RequeueOrFail(h, kind))
  BY <1>2, <1>3 DEF RequeueOrFail
<1> QED BY <1>4 DEF Fine

\* The end of a run: other rows rest; its own is done only at the end of a run that is, or of a
\* CI check, and waits for a manual review if one was noted for that end.
LEMMA FinishEffect ==
  ASSUME NEW hs \in Rows, NEW s \in Shas, NEW end, NEW kind, NEW again, NEW e
  PROVE  /\ \A x \in Shas \ {s} : Rests(hs[x], FinishHead(hs, s, end, kind, again, e)[x])
         /\ Kept(hs[s], FinishHead(hs, s, end, kind, again, e)[s])
         /\ FinishHead(hs, s, end, kind, again, e)[s].audit = hs[s].audit
         /\ FinishHead(hs, s, end, kind, again, e)[s].trig \in {hs[s].trig, "manual"}
         /\ \/ FinishHead(hs, s, end, kind, again, e) = hs
            \/ FinishHead(hs, s, end, kind, again, e)[s].status \in {"queued", "failed"}
            \/ /\ FinishHead(hs, s, end, kind, again, e)[s].status = "done"
               /\ \/ hs[s].trig = "ci"
                  \/ hs[s].status = "running" /\ end = "done" /\ (again => hs[s].audit)
<1> DEFINE h == hs[s]
           Put(row) == [hs EXCEPT ![s] = row]
           q == FinishHead(hs, s, end, kind, again, e)
           over == [h EXCEPT !.status = "done"]
           wait == [h EXCEPT !.status = "queued", !.due = TRUE]
           Finished(g) == \/ g.status \in {"queued", "failed"}
                          \/ /\ g.status = "done"
                             /\ h.trig = "ci" \/ (h.status = "running" /\ end = "done" /\ (again => h.audit))
           Row(g) == Kept(h, g) /\ g.audit = h.audit /\ g.trig \in {h.trig, "manual"}
           Fine(new) == /\ \A x \in Shas \ {s} : Rests(hs[x], new[x])
                        /\ Row(new[s])
                        /\ new = hs \/ Finished(new[s])
<1> SUFFICES Fine(q)
  OBVIOUS
<1>1. h \in Head
  BY DEF Rows
<1>2. ASSUME NEW row, Row(row), Finished(row) PROVE Fine(Put(row))
  <2>1. Put(row)[s] = row /\ \A x \in Shas \ {s} : Put(row)[x] = hs[x]
    BY DEF Rows
  <2> HIDE DEF Put, Row, Finished
  <2> QED BY <1>2, <2>1, RestsItself
<1>3. Fine(hs)
  BY RestsItself DEF Kept
<1>4. /\ over.status = "done" /\ over.trig = h.trig /\ over.audit = h.audit
      /\ over.id = h.id /\ over.carried = h.carried /\ over \in Head
      /\ wait.status = "queued" /\ wait.trig = h.trig /\ wait.audit = h.audit
      /\ wait.id = h.id /\ wait.carried = h.carried
  BY <1>1 DEF Head, HeadStatus
<1>5. Row(over) /\ Row(wait)
  <2> HIDE DEF over, wait
  <2> QED BY <1>4 DEF Kept
<1>6. Finished(wait)
  BY <1>4
<1>7. q \in {hs, Put(over), Put(wait), Put(RequeueOrFail(h, kind))} \/ end = "done"
  BY <1>1 DEF FinishHead, Rows, Head
<1>8. CASE h.status # "running"
  <2>1. q = hs
    BY <1>8 DEF FinishHead
  <2> HIDE DEF Fine, q
  <2> QED BY <1>3, <2>1
<1>9. CASE h.status = "running" /\ end = "done" /\ ~again
  <2>1. q = Put(over)
    BY <1>1, <1>9 DEF FinishHead, Rows
  <2>2. Finished(over)
    BY <1>4, <1>9
  <2> HIDE DEF Fine, q, Put, Row, Finished, over
  <2> QED BY <1>2, <1>5, <2>1, <2>2
<1>10. CASE h.status = "running" /\ end = "done" /\ again
  <2> DEFINE a == Enqueue(Put(over), s, "manual", e)
  <2>1. q = a.hs
    BY <1>1, <1>10 DEF FinishHead, Rows
  <2>2. Put(over) \in Rows /\ Put(over)[s] = over /\ \A x \in Shas \ {s} : Put(over)[x] = hs[x]
    BY <1>4 DEF Rows
  <2>3. "manual" \in Triggers
    BY DEF Triggers
  <2> HIDE DEF Put, over
  <2>4. /\ \A x \in Shas \ {s} : Rests(hs[x], a.hs[x])
        /\ a.res = "noop" => a.hs = Put(over)
        /\ a.res # "noop" => Asked(over, a.hs[s], "manual")
    BY <2>2, <2>3, EnqueueEffect
  <2>5. CASE a.res # "noop"
    <3>1. Asked(over, a.hs[s], "manual")
      BY <2>4, <2>5
    <3>2. a.hs[s].status = "queued"
      BY <1>4, <3>1 DEF Asked, Open
    <3>3. ASSUME NEW g, Asked(over, g, "manual"), g.audit \in BOOLEAN PROVE Row(g)
      <4>1. h.audit \in BOOLEAN
        BY <1>1 DEF Head
      <4>2. Kept(h, g)
        BY <1>4, <1>10, <3>3 DEF Asked, Kept
      <4> QED BY <1>4, <3>3, <4>1, <4>2 DEF Asked
    <3>4. a.hs[s].audit \in BOOLEAN
      BY <2>2, <2>3, EnqueueRows DEF Rows, Head
    <3>5. Row(a.hs[s])
      <4> HIDE DEF a, Row
      <4> QED BY <3>1, <3>3, <3>4
    <3> HIDE DEF a, q, Row
    <3> QED BY <2>1, <2>4, <3>2, <3>5
  <2>6. CASE a.res = "noop"
    <3>1. h.audit
      <4>1. ~Refuses(over, "manual", e.label) => a.res # "noop"
        BY <1>4, <2>2 DEF Enqueue, Result, Reopens, Reopening
      <4>2. Refuses(over, "manual", e.label) => h.audit
        BY <1>4 DEF Refuses, Skippable, Automatic
      <4> QED BY <2>6, <4>1, <4>2
    <3>2. q = Put(over)
      BY <2>1, <2>4, <2>6
    <3>3. Finished(over)
      BY <1>4, <1>10, <3>1
    <3> HIDE DEF Fine, q, Row, Finished, over, Put
    <3> QED BY <1>2, <1>5, <3>2, <3>3
  <2> QED BY <2>5, <2>6
<1>11. CASE end # "done" /\ h.status = "running"
  <2>1. q = Put(wait) \/ q = Put(RequeueOrFail(h, kind))
    BY <1>1, <1>11 DEF FinishHead, Rows, Head
  <2>2. Row(RequeueOrFail(h, kind)) /\ Finished(RequeueOrFail(h, kind))
    BY <1>1, RequeueOrFailEffect DEF Unasked
  <2> HIDE DEF Fine, q, Put, Row, Finished, wait
  <2> QED BY <1>2, <1>5, <1>6, <2>1, <2>2
<1> HIDE DEF Fine, q
<1> QED BY <1>8, <1>9, <1>10, <1>11

\* retire_obsolete_head takes a running row out of line.
LEMMA RetireRests ==
  ASSUME NEW hs \in Rows, NEW s \in Shas, NEW status \in {"superseded", "closed"}
  PROVE  \A x \in Shas : Rests(hs[x], RetireHead(hs, s, status)[x])
<1>1. hs[s] \in Head /\ Rests(hs[s], To(hs[s], status, FALSE))
  <2>1. status \in HeadStatus \ {"none"} /\ hs[s] \in Head
    BY DEF HeadStatus, Rows
  <2> QED BY <2>1, ToRow DEF Rests, Unasked, Lifted
<1>2. \/ RetireHead(hs, s, status) = hs
      \/ RetireHead(hs, s, status) = [hs EXCEPT ![s] = To(hs[s], status, FALSE)]
  BY <1>1 DEF RetireHead, To, Rows, Head
<1> QED BY <1>1, <1>2, RestsItself DEF Rows

-----------------------------------------------------------------------------
(* The steps *)

\* Run q is active before the step, and no longer after it.
Lands(q) == runs[q].status \in ActiveStatus /\ runs'[q].status \notin ActiveStatus

\* What every step but StartRun is: it starts nothing, and ends at most one run, with its head.
Quiet ==
  /\ \A q \in RunIds : /\ runs'[q].pr = runs[q].pr /\ runs'[q].sha = runs[q].sha
                       /\ runs[q].status \in EndStatus \cup {"none"} => runs'[q].status = runs[q].status
                       /\ runs'[q].status \in ActiveStatus => runs[q].status \in ActiveStatus
                       /\ runs[q].status # "none" => runs'[q].status # "none"
                       /\ runs[q].status \in ActiveStatus /\ runs'[q].status \notin ActiveStatus =>
                            heads'[runs[q].pr][runs[q].sha].status # "running"
  /\ \A q, r \in RunIds : Lands(q) /\ Lands(r) => q = r
  /\ \A p \in Prs, s \in Shas : heads'[p][s].status = "running" => heads[p][s].status = "running"

-----------------------------------------------------------------------------
(* The tables, the shared transactions *)

\* Every PR has its rows.
LEMMA HeadsRows == heads \in [Prs -> [Shas -> Head]] <=> heads \in [Prs -> Rows]
BY DEF Rows

\* The active runs are finitely many: their number is one.
LEMMA ActiveNumber == Cardinality(ActiveRuns) \in Nat
<1>1. IsFiniteSet(RunIds)
  BY QueueAssumption, FS_Interval DEF RunIds
<1>2. IsFiniteSet(ActiveRuns)
  BY <1>1, FS_Subset DEF ActiveRuns
<1> QED BY <1>2, FS_CardinalityType

\* An action that leaves runs and heads alone is quiet.
LEMMA QuietFrame ==
  ASSUME UNCHANGED <<runs, heads>>
  PROVE  Quiet
BY DEF Quiet, Lands, ActiveStatus, EndStatus

\* An enqueue_head transaction is quiet, and well typed.
LEMMA EnqueueTxQuiet ==
  ASSUME TypeOK, NEW p \in Prs, NEW s \in Shas, NEW t \in Triggers, NEW e, EnqueueTx(p, s, t, e)
  PROVE  /\ runs' \in [RunIds -> Run] /\ heads' \in [Prs -> [Shas -> Head]]
         /\ owed' \in [Prs -> SUBSET Shas] /\ Quiet
<1> DEFINE q == Enqueue(heads[p], s, t, e)
<1>1. /\ heads[p] \in Rows /\ heads \in [Prs -> Rows]
      /\ runs \in [RunIds -> Run] /\ owed \in [Prs -> SUBSET Shas]
  BY DEF TypeOK, Rows
<1>2. /\ q.hs \in Rows
      /\ \A x \in Shas : q.hs[x].status = "running" => heads[p][x].status = "running"
  BY <1>1, EnqueueRows
<1>3. /\ heads' = [heads EXCEPT ![p] = q.hs]
      /\ runs' = [r \in RunIds |->
                    IF q.again /\ Active(r) /\ runs[r].pr = p /\ runs[r].sha = s
                    THEN [runs[r] EXCEPT !.again = TRUE] ELSE runs[r]]
      /\ owed' \in {owed, [owed EXCEPT ![p] = @ \cup {s}]}
  BY DEF EnqueueTx
<1> HIDE DEF q
<1>4. heads' \in [Prs -> [Shas -> Head]]
  BY <1>1, <1>2, <1>3 DEF Rows
<1>5. \A r \in RunIds : /\ [runs[r] EXCEPT !.again = TRUE] \in Run
                        /\ [runs[r] EXCEPT !.again = TRUE].pr = runs[r].pr
                        /\ [runs[r] EXCEPT !.again = TRUE].sha = runs[r].sha
                        /\ [runs[r] EXCEPT !.again = TRUE].status = runs[r].status
  BY <1>1 DEF Run
<1>6. runs' \in [RunIds -> Run]
  BY <1>1, <1>3, <1>5
<1>7. owed' \in [Prs -> SUBSET Shas]
  BY <1>1, <1>3
<1>8. \A r \in RunIds : /\ runs'[r].pr = runs[r].pr /\ runs'[r].sha = runs[r].sha
                        /\ runs'[r].status = runs[r].status
  BY <1>3, <1>5
<1>9. \A x \in Prs, y \in Shas : heads'[x][y].status = "running" => heads[x][y].status = "running"
  BY <1>1, <1>2, <1>3
<1>10. Quiet
  BY <1>8, <1>9 DEF Quiet, Lands, ActiveStatus, EndStatus
<1> QED BY <1>4, <1>6, <1>7, <1>10

\* finish_run is quiet: the run it ends is ended with its head.
LEMMA FinishRunQuiet ==
  ASSUME TypeOK, Bound, NEW r \in RunIds, NEW end \in EndStatus, NEW kind, FinishRun(r, end, kind)
  PROVE  /\ runs' \in [RunIds -> Run] /\ heads' \in [Prs -> [Shas -> Head]] /\ Quiet
         /\ runs'[r].status \notin ActiveStatus
<1> DEFINE p == runs[r].pr
           s == runs[r].sha
           hs == FinishHead(heads[p], s, end, kind, runs[r].again, Env(p))
           b == runs[r].again /\ ~(end = "done" /\ HeadOf(r).status = "running")
           row == [runs[r] EXCEPT !.status = end, !.again = b]
<1>1. CASE ~Active(r)
  <2>1. UNCHANGED <<runs, heads>>
    BY <1>1 DEF FinishRun
  <2> QED BY <1>1, <2>1, QuietFrame DEF TypeOK, Active
<1>2. CASE Active(r)
  <2>1. /\ runs \in [RunIds -> Run] /\ heads \in [Prs -> Rows]
        /\ p \in Prs /\ s \in Shas /\ heads[p] \in Rows
        /\ runs[r].status \in ActiveStatus
    BY <1>2 DEF TypeOK, Bound, Rows, Active, ActiveStatus
  <2>2. /\ hs \in Rows /\ hs[s].status # "running"
        /\ \A x \in Shas : hs[x].status = "running" => heads[p][x].status = "running"
    BY <2>1, FinishRows
  <2>3. heads' = [heads EXCEPT ![p] = hs] /\ runs' = [runs EXCEPT ![r] = row]
    BY <1>2 DEF FinishRun
  <2>4. b \in BOOLEAN
    OBVIOUS
  <2> HIDE DEF b, hs
  <2>5. row \in Run /\ row.pr = p /\ row.sha = s /\ row.status = end
    BY <2>1, <2>4 DEF Run
  <2> HIDE DEF row
  <2>6. runs' \in [RunIds -> Run] /\ heads' \in [Prs -> [Shas -> Head]]
    BY <2>1, <2>2, <2>3, <2>5 DEF Rows
  <2>7. \A x \in Prs, y \in Shas : heads'[x][y].status = "running" => heads[x][y].status = "running"
    BY <2>1, <2>2, <2>3
  <2>8. heads'[p][s].status # "running"
    BY <2>1, <2>2, <2>3
  <2>9. \A q \in RunIds : q # r => runs'[q] = runs[q]
    BY <2>1, <2>3
  <2>10. runs'[r] = row
    BY <2>1, <2>3
  <2>11. end \notin ActiveStatus /\ end # "none" /\ runs[r].status \notin EndStatus \cup {"none"}
    BY <2>1 DEF EndStatus, ActiveStatus
  <2>12. Quiet
    BY <2>5, <2>7, <2>8, <2>9, <2>10, <2>11 DEF Quiet, Lands
  <2> QED BY <2>5, <2>6, <2>10, <2>11, <2>12
<1> QED BY <1>1, <1>2

\* request_cancel is quiet.
LEMMA RequestCancelQuiet ==
  ASSUME TypeOK, NEW rs, RequestCancel(rs),
         \A p \in Prs, s \in Shas : heads'[p][s].status = "running" => heads[p][s].status = "running"
  PROVE  runs' \in [RunIds -> Run] /\ Quiet
<1>1. \A r \in RunIds : /\ [runs[r] EXCEPT !.cancel = TRUE] \in Run
                        /\ [runs[r] EXCEPT !.cancel = TRUE].pr = runs[r].pr
                        /\ [runs[r] EXCEPT !.cancel = TRUE].sha = runs[r].sha
                        /\ [runs[r] EXCEPT !.cancel = TRUE].status = runs[r].status
  BY DEF TypeOK, Run
<1>2. runs' = [r \in RunIds |-> IF r \in rs /\ Active(r)
                                THEN [runs[r] EXCEPT !.cancel = TRUE] ELSE runs[r]]
  BY DEF RequestCancel
<1>3. \A r \in RunIds : /\ runs'[r] \in Run /\ runs'[r].pr = runs[r].pr
                        /\ runs'[r].sha = runs[r].sha /\ runs'[r].status = runs[r].status
  BY <1>1, <1>2 DEF TypeOK
<1>4. runs' \in [RunIds -> Run]
  BY <1>2, <1>3
<1>5. Quiet
  BY <1>3 DEF Quiet, Lands, ActiveStatus, EndStatus
<1> QED BY <1>4, <1>5

-----------------------------------------------------------------------------
(* Every step but StartRun is typed, bound and quiet *)

\* Spending a budget counts it.
LEMMA SpendType ==
  ASSUME left \in [Budgets -> Nat], NEW b, Spend(b)
  PROVE  left' \in [Budgets -> Nat]
<1>1. b \in Budgets /\ left[b] > 0 => left[b] - 1 \in Nat
  OBVIOUS
<1> QED BY <1>1 DEF Spend

\* GitHub changes nothing the daemon keeps, but the inbox.
LEMMA GitHubStep ==
  ASSUME TypeOK, Bound, GitHubNext
  PROVE  TypeOK' /\ Bound' /\ Quiet /\ UNCHANGED <<task, cur, plan>>
<1>1. UNCHANGED <<posted, prs, heads, runs, reviewed, fresh, audits, wk, daemon, cli, history>>
  BY DEF GitHubNext, Created, Push, BaseMoves, FlipDraft, FlipLabel, Merge, Write, db
<1>2. left' \in [Budgets -> Nat]
  BY SpendType DEF TypeOK, GitHubNext, Created, Push, BaseMoves, FlipDraft, FlipLabel, Merge, Write
<1>3. gh' \in [Prs -> Pull]
  <2> USE DEF TypeOK, Pull
  <2>0. \A p \in Prs : gh[p] \in Pull
    OBVIOUS
  <2>1. ASSUME NEW p \in Prs, NEW s \in Shas, Push(p, s) PROVE gh' \in [Prs -> Pull]
    <3>1. \A x \in Shas : [gh EXCEPT ![p].sha = x] \in [Prs -> Pull]
      OBVIOUS
    <3> QED BY <2>1, <3>1 DEF Push
  <2>2. ASSUME NEW p \in Prs, BaseMoves(p) PROVE gh' \in [Prs -> Pull]
    <3>1. \A n \in Nat : [gh EXCEPT ![p].base = n] \in [Prs -> Pull]
      OBVIOUS
    <3>2. gh[p].base + 1 \in Nat
      BY <2>0 DEF Pull
    <3>3. gh' = [gh EXCEPT ![p].base = gh[p].base + 1]
      BY <2>2 DEF BaseMoves
    <3> QED BY <3>1, <3>2, <3>3
  <2>3. ASSUME NEW p \in Prs, FlipDraft(p) PROVE gh' \in [Prs -> Pull]
    <3>1. \A b \in BOOLEAN : [gh EXCEPT ![p].draft = b] \in [Prs -> Pull]
      OBVIOUS
    <3>2. gh' = [gh EXCEPT ![p].draft = ~gh[p].draft]
      BY <2>3 DEF FlipDraft
    <3> QED BY <3>1, <3>2
  <2>4. ASSUME NEW p \in Prs, FlipLabel(p) PROVE gh' \in [Prs -> Pull]
    <3>1. \A b \in BOOLEAN : [gh EXCEPT ![p].label = b] \in [Prs -> Pull]
      OBVIOUS
    <3>2. gh' = [gh EXCEPT ![p].label = ~gh[p].label]
      BY <2>4 DEF FlipLabel
    <3> QED BY <3>1, <3>2
  <2>5. ASSUME NEW p \in Prs, Merge(p) PROVE gh' \in [Prs -> Pull]
    <3>1. \A b \in BOOLEAN : [gh EXCEPT ![p].open = b] \in [Prs -> Pull]
      OBVIOUS
    <3> QED BY <2>5, <3>1 DEF Merge
  <2>6. ASSUME NEW p \in Prs, NEW t, Write(p, t) PROVE gh' \in [Prs -> Pull]
    BY <2>6 DEF Write
  <2>7. ASSUME NEW p \in Prs, Created(p) PROVE gh' \in [Prs -> Pull]
    <3>1. gh' = [gh EXCEPT ![p] = [gh[p] EXCEPT !.made = TRUE, !.open = TRUE]]
      BY <2>7 DEF Created
    <3>2. [gh[p] EXCEPT !.made = TRUE, !.open = TRUE] \in Pull
      BY <2>0 DEF Pull
    <3>3. \A row \in Pull : [gh EXCEPT ![p] = row] \in [Prs -> Pull]
      OBVIOUS
    <3> QED BY <3>1, <3>2, <3>3
  <2> QED BY <2>1, <2>2, <2>3, <2>4, <2>5, <2>6, <2>7 DEF GitHubNext
<1>4. inbox' \in SUBSET (Prs \X {"mention", "reply"})
  BY DEF TypeOK, GitHubNext, Created, Push, BaseMoves, FlipDraft, FlipLabel, Merge, Write, db
<1>5. TypeOK'
  BY <1>1, <1>2, <1>3, <1>4 DEF TypeOK, daemon, history
<1>6. Bound'
  BY <1>1 DEF Bound, daemon
<1> QED
  BY <1>1, <1>5, <1>6, QuietFrame DEF daemon

\* A worker that moves on: only its own row of wk changes, and it is the worker of a run.
Moves(r) ==
  /\ wk[r].pc # "none"
  /\ wk' \in [RunIds -> Worker]
  /\ \A q \in RunIds : q # r => wk'[q] = wk[q]
  /\ wk'[r].pc = "retire" => wk'[r].out \in {"superseded", "closed"}

\* The ways a worker's row changes.
LEMMA MovesOn ==
  ASSUME TypeOK, NEW r \in RunIds, wk[r].pc # "none"
  PROVE  /\ \A pc \in WorkerPc \ {"retire"} : Goto(r, pc) => Moves(r)
         /\ \A out \in Outcome, kind \in FailKinds : Ends(r, out, kind) => Moves(r)
         /\ Retires(r) => Moves(r)
         /\ wk' = [wk EXCEPT ![r] = Gone] => Moves(r)
<1>1. wk \in [RunIds -> Worker] /\ wk[r] \in Worker
  BY DEF TypeOK
<1>2. \A row \in Worker : row.pc # "retire" => (wk' = [wk EXCEPT ![r] = row] => Moves(r))
  BY <1>1 DEF Moves
<1>3. \A pc \in WorkerPc : [wk[r] EXCEPT !.pc = pc] \in Worker /\ [wk[r] EXCEPT !.pc = pc].pc = pc
  BY <1>1 DEF Worker
<1>4. ASSUME NEW pc \in WorkerPc \ {"retire"}, Goto(r, pc) PROVE Moves(r)
  BY <1>2, <1>3, <1>4 DEF Goto
<1>5. ASSUME NEW out \in Outcome, NEW kind \in FailKinds, Ends(r, out, kind) PROVE Moves(r)
  <2> DEFINE row == [wk[r] EXCEPT !.pc = "finish", !.out = out, !.kind = kind]
  <2>1. wk' = [wk EXCEPT ![r] = row]
    BY <1>5 DEF Ends
  <2>2. row \in Worker /\ row.pc = "finish"
    BY <1>1 DEF Worker, WorkerPc
  <2> HIDE DEF row
  <2> QED BY <1>2, <2>1, <2>2
<1>6. ASSUME Retires(r) PROVE Moves(r)
  <2>1. PICK out \in {"superseded", "closed"} :
          wk' = [wk EXCEPT ![r] = [wk[r] EXCEPT !.pc = "retire", !.out = out]]
    BY <1>6 DEF Retires
  <2> DEFINE row == [wk[r] EXCEPT !.pc = "retire", !.out = out]
  <2>2. row \in Worker /\ row.out = out /\ wk' = [wk EXCEPT ![r] = row]
    BY <1>1, <2>1 DEF Worker, WorkerPc, Outcome
  <2> HIDE DEF row
  <2> QED BY <1>1, <2>2 DEF Moves
<1>7. Gone \in Worker /\ Gone.pc # "retire"
  BY DEF Gone, NoWorker, Worker, WorkerPc, Triggers, Phase, Outcome, FailKinds
<1>8. ASSUME wk' = [wk EXCEPT ![r] = Gone] PROVE Moves(r)
  BY <1>2, <1>7, <1>8
<1> QED BY <1>4, <1>5, <1>6, <1>8

\* A quiet step of a worker keeps what Bound says.
LEMMA MovesBound ==
  ASSUME TypeOK, Bound, NEW r \in RunIds, Moves(r), Quiet, UNCHANGED <<prs, task, cur, seen, cli>>
  PROVE  Bound'
<1>1. \A q \in RunIds : /\ runs'[q].status # "none" => runs'[q].pr \in Prs /\ runs'[q].sha \in Shas
                        /\ wk'[q].pc # "none" => runs'[q].status # "none"
                        /\ wk'[q].pc = "retire" => wk'[q].out \in {"superseded", "closed"}
  <2> TAKE q \in RunIds
  <2>1. /\ runs'[q].pr = runs[q].pr /\ runs'[q].sha = runs[q].sha
        /\ runs'[q].status # "none" => runs[q].status # "none"
        /\ runs[q].status # "none" => runs'[q].status # "none"
    BY DEF Quiet, Lands, ActiveStatus, EndStatus
  <2>2. wk'[q].pc # "none" => runs[q].status # "none"
    BY DEF Moves, Bound
  <2>3. wk'[q].pc = "retire" => wk'[q].out \in {"superseded", "closed"}
    BY DEF Moves, Bound
  <2> QED BY <2>1, <2>2, <2>3 DEF Bound
<1>2. task \in {"reap", "spawn", "pid"} => cur \in RunIds /\ runs'[cur].status # "none"
  BY DEF Bound, Quiet
<1> QED BY <1>1, <1>2 DEF Bound

\* The look before the POST: a review of the phase that stands is only recorded, and a POST
\* finds none of its phase and no final one.
LEMMA PublishEffect ==
  ASSUME TypeOK, Bound, NEW r \in RunIds, NEW phase \in Phase, WkPublish(r, phase)
  PROVE  /\ Moves(r) /\ UNCHANGED <<gh, posted, db, daemon, cli, history>>
         /\ UNCHANGED left \/ Spend("gate")
         /\ \/ Ends(r, "failed", "base")
            \/ /\ wk'[r].pc = "record" /\ wk'[r].trig = wk[r].trig /\ wk'[r].phase \in Phase
               /\ posted[P(r)][S(r)][wk'[r].phase] > 0
            \/ /\ wk'[r].pc = "post" /\ wk'[r].trig = wk[r].trig /\ wk'[r].phase \in Phase
               /\ posted[P(r)][S(r)][wk'[r].phase] = 0 /\ posted[P(r)][S(r)]["final"] = 0
<1> DEFINE n(ph) == posted[P(r)][S(r)][ph]
           stands == StandingPhase(P(r), S(r), phase)
           pc == IF n(stands) > 0 THEN "record" ELSE "post"
           row == [wk[r] EXCEPT !.phase = stands, !.pc = pc]
<1>1. /\ wk[r].pc = "late" /\ wk \in [RunIds -> Worker] /\ wk[r] \in Worker
      /\ \A ph \in Phase : n(ph) \in Nat
  BY DEF WkPublish, TypeOK, Bound, P, S
<1>2. /\ UNCHANGED <<gh, posted, db, daemon, cli, history>>
      /\ UNCHANGED left \/ Spend("gate")
  BY DEF WkPublish
<1>3. stands \in Phase /\ (n(stands) = 0 => n("final") = 0)
  <2>1. CASE phase = "preliminary" /\ n(phase) = 0 /\ n("final") > 0
    BY <1>1, <2>1 DEF StandingPhase, Phase
  <2>2. CASE ~(phase = "preliminary" /\ n(phase) = 0 /\ n("final") > 0)
    <3>1. stands = phase
      BY <2>2 DEF StandingPhase
    <3> HIDE DEF stands
    <3> QED BY <1>1, <2>2, <3>1 DEF Phase
  <2> QED BY <2>1, <2>2
<1>4. Ends(r, "failed", "base") \/ wk' = [wk EXCEPT ![r].phase = stands, ![r].pc = pc]
  BY DEF WkPublish
<1>5. CASE Ends(r, "failed", "base")
  <2>1. Moves(r)
    BY <1>1, <1>5, MovesOn DEF Outcome, FailKinds
  <2> QED BY <1>2, <1>5, <2>1
<1>6. CASE wk' = [wk EXCEPT ![r].phase = stands, ![r].pc = pc]
  <2>1. /\ \/ pc = "record" /\ n(stands) > 0
           \/ pc = "post" /\ n(stands) = 0
    BY <1>1, <1>3
  <2> HIDE DEF stands, pc
  <2>2. wk' = [wk EXCEPT ![r] = row]
    BY <1>1, <1>6
  <2>3. row \in Worker /\ row.pc = pc /\ row.phase = stands /\ row.trig = wk[r].trig
    BY <1>1, <1>3, <2>1 DEF Worker, WorkerPc
  <2> HIDE DEF row
  <2>4. Moves(r) /\ wk'[r] = row
    BY <1>1, <2>1, <2>2, <2>3 DEF Moves
  <2> QED BY <1>2, <1>3, <2>1, <2>3, <2>4
<1> QED BY <1>4, <1>5, <1>6

\* Whatever a worker does, it is quiet; the daemon's own state is not touched.
LEMMA WorkerStep ==
  ASSUME TypeOK, Bound, NEW r \in RunIds, WorkerNext(r)
  PROVE  TypeOK' /\ Bound' /\ Quiet /\ UNCHANGED <<task, cur, plan>>
<1> DEFINE Goal == TypeOK' /\ Bound' /\ Quiet /\ UNCHANGED <<task, cur, plan>>
<1> SUFFICES Goal
  OBVIOUS
\* A step that only moves the worker.
<1>1. ASSUME Moves(r), WkOnly PROVE Goal
  <2>1. UNCHANGED <<gh, posted, prs, heads, runs, reviewed, fresh, audits, inbox,
                    task, seen, plan, cur, why, cli, left, owed, unread, promised>>
    BY <1>1 DEF WkOnly, db, daemon, history
  <2>2. TypeOK'
    BY <1>1, <2>1 DEF TypeOK, Moves
  <2>3. Quiet
    BY <2>1, QuietFrame
  <2> QED BY <1>1, <2>1, <2>2, <2>3, MovesBound
\* A step that moves the worker and quietly changes tables of the right type.
<1>2. ASSUME Moves(r), Quiet, UNCHANGED <<gh, prs, inbox, daemon, cli, owed>>,
             left' \in [Budgets -> Nat],
             posted' \in [Prs -> [Shas -> [Phase -> Nat]]], heads' \in [Prs -> [Shas -> Head]],
             runs' \in [RunIds -> Run], reviewed' \in [Prs -> [Shas -> {"none"} \cup Phase]],
             fresh' \in [Prs -> SUBSET Shas], audits' \in [Prs -> {"none", "light", "full"}],
             unread' \in [Prs -> SUBSET Shas], promised' \in [Prs -> SUBSET Shas]
      PROVE  Goal
  <2>1. UNCHANGED <<task, seen, plan, cur, why>>
    BY <1>2 DEF daemon
  <2>2. TypeOK'
    BY <1>2, <2>1 DEF TypeOK, Moves
  <2> QED BY <1>2, <2>1, <2>2, MovesBound
<1>3. ASSUME wk[r].pc # "none"
      PROVE  /\ P(r) \in Prs /\ S(r) \in Shas /\ wk[r] \in Worker
             /\ heads[P(r)] \in Rows /\ HeadOf(r) \in Head /\ HeadOf(r) = heads[P(r)][S(r)]
  BY <1>3 DEF Bound, TypeOK, P, S, HeadOf, Rows
\* A row of the run's own head is rewritten, and not to "running".
<1>4. ASSUME wk[r].pc # "none", NEW row \in Head, heads' = [heads EXCEPT ![P(r)][S(r)] = row],
             row.status = "running" => HeadOf(r).status = "running", UNCHANGED runs
      PROVE  heads' \in [Prs -> [Shas -> Head]] /\ Quiet
  <2>1. heads' \in [Prs -> [Shas -> Head]]
    BY <1>4 DEF TypeOK
  <2>2. \A p \in Prs, s \in Shas : heads'[p][s].status = "running" => heads[p][s].status = "running"
    BY <1>3, <1>4 DEF TypeOK
  <2> QED BY <1>4, <2>1, <2>2 DEF Quiet, Lands, ActiveStatus, EndStatus
\* A row of runs is rewritten, and goes on being as active as it was, of the same head.
<1>5. ASSUME NEW row \in Run, runs' = [runs EXCEPT ![r] = row], UNCHANGED heads,
             row.pr = runs[r].pr, row.sha = runs[r].sha,
             row.status = runs[r].status \/ (Active(r) /\ row.status \in ActiveStatus)
      PROVE  runs' \in [RunIds -> Run] /\ Quiet
  <2>1. runs' \in [RunIds -> Run]
    BY <1>5 DEF TypeOK
  <2>2. \A q \in RunIds : runs'[q] = IF q = r THEN row ELSE runs[q]
    BY <1>5 DEF TypeOK
  <2> QED BY <1>5, <2>1, <2>2 DEF Quiet, Lands, ActiveStatus, EndStatus, Active
<1> HIDE DEF Goal
<1>6. CASE WkRead(r)
  <2>1. wk[r].pc # "none" /\ WkOnly
    BY <1>6 DEF WkRead
  <2>2. CASE Active(r)
    <3> DEFINE row == [wk[r] EXCEPT !.pc = "claim", !.trig = HeadOf(r).trig]
    <3>1. row \in Worker /\ row.pc = "claim" /\ wk' = [wk EXCEPT ![r] = row]
      BY <1>3, <1>6, <2>1, <2>2 DEF WkRead, Worker, WorkerPc, Head
    <3> HIDE DEF row
    <3>2. Moves(r)
      BY <2>1, <3>1 DEF Moves, TypeOK
    <3> QED BY <1>1, <2>1, <3>2
  <2>3. CASE ~Active(r)
    <3>1. wk' = [wk EXCEPT ![r] = Gone]
      BY <1>6, <2>3 DEF WkRead
    <3> QED BY <1>1, <2>1, <3>1, MovesOn
  <2> QED BY <2>2, <2>3
<1>7. CASE WkCancelled(r)
  <2>1. wk[r].pc # "none" /\ WkOnly /\ Ends(r, "cancelled", "infra")
    BY <1>7 DEF WkCancelled
  <2> QED BY <1>1, <2>1, MovesOn DEF Outcome, FailKinds
<1>8. ASSUME NEW kind \in WorkerKinds, WkFails(r, kind) PROVE Goal
  <2>1. wk[r].pc # "none" /\ WkOnly /\ Ends(r, "failed", kind)
    BY <1>8 DEF WkFails
  <2> QED BY <1>1, <2>1, MovesOn, QueueAssumption DEF Outcome
<1>9. CASE WkObsolete(r)
  <2>1. wk[r].pc # "none" /\ WkOnly /\ Retires(r)
    BY <1>9 DEF WkObsolete
  <2> QED BY <1>1, <2>1, MovesOn
<1>10. ASSUME NEW phase \in Phase, WkPublish(r, phase) PROVE Goal
  <2>1. /\ Moves(r) /\ UNCHANGED <<gh, posted, db, daemon, cli, history>>
        /\ UNCHANGED left \/ Spend("gate")
    BY <1>10, PublishEffect
  <2>2. left' \in [Budgets -> Nat]
    BY <2>1, SpendType DEF TypeOK
  <2>3. Quiet /\ UNCHANGED <<gh, posted, prs, heads, runs, reviewed, fresh, audits, inbox,
                             daemon, cli, owed, unread, promised>>
    BY <2>1, QuietFrame DEF db, history
  <2> QED BY <1>2, <2>1, <2>2, <2>3 DEF TypeOK
<1>11. CASE WkCiCheck(r)
  <2>1. wk[r].pc # "none" /\ WkOnly /\ Ends(r, "done", "infra")
    BY <1>11 DEF WkCiCheck
  <2> QED BY <1>1, <2>1, MovesOn DEF Outcome, FailKinds
<1>12. CASE WkClaim(r)
  <2>1. wk[r].pc # "none"
    BY <1>12 DEF WkClaim
  <2>2. Moves(r)
    BY <1>12, <2>1, MovesOn DEF WkClaim, WorkerPc
  <2>3. runs' \in [RunIds -> Run] /\ Quiet
    <3>1. CASE Active(r)
      <4> DEFINE row == [runs[r] EXCEPT !.status = "running"]
      <4>1. runs' = [runs EXCEPT ![r] = row] /\ UNCHANGED heads
        BY <1>12, <3>1 DEF WkClaim
      <4>2. /\ row \in Run /\ row.pr = runs[r].pr /\ row.sha = runs[r].sha
            /\ row.status \in ActiveStatus
        BY DEF TypeOK, Run, ActiveStatus
      <4> HIDE DEF row
      <4> QED BY <1>5, <3>1, <4>1, <4>2
    <3>2. CASE ~Active(r)
      BY <1>12, <3>2, QuietFrame DEF WkClaim, TypeOK
    <3> QED BY <3>1, <3>2
  <2> QED BY <1>2, <1>12, <2>2, <2>3 DEF WkClaim, TypeOK, history
<1>13. CASE WkCheckout(r)
  <2>1. wk[r].pc # "none"
    BY <1>13 DEF WkCheckout
  <2>2. PICK talk \in BOOLEAN, pc \in {"talk", "lanes", "carry"} :
          /\ wk' = [wk EXCEPT ![r].base = gh[P(r)].base, ![r].pc = pc]
          /\ heads' = [heads EXCEPT ![P(r)][S(r)].print = @ \/ ~(talk \/ IsAudit(r))]
          /\ unread' \in {unread, [unread EXCEPT ![P(r)] = @ \ {S(r)}]}
    BY <1>13 DEF WkCheckout
  <2>3. Moves(r)
    <3> DEFINE row == [wk[r] EXCEPT !.base = gh[P(r)].base, !.pc = pc]
    <3>1. row \in Worker /\ row.pc = pc /\ wk' = [wk EXCEPT ![r] = row]
      BY <1>3, <2>1, <2>2 DEF TypeOK, Worker, WorkerPc, Pull
    <3> HIDE DEF row
    <3> QED BY <2>1, <3>1 DEF Moves, TypeOK
  <2>4. heads' \in [Prs -> [Shas -> Head]] /\ Quiet
    <3> DEFINE b == HeadOf(r).print \/ ~(talk \/ IsAudit(r))
               row == [HeadOf(r) EXCEPT !.print = b]
    <3>1. b \in BOOLEAN
      OBVIOUS
    <3>2. heads' = [heads EXCEPT ![P(r)][S(r)] = row]
      BY <1>3, <2>1, <2>2 DEF TypeOK
    <3> HIDE DEF b
    <3>3. row \in Head /\ row.status = HeadOf(r).status
      BY <1>3, <2>1, <3>1 DEF Head
    <3>4. UNCHANGED runs
      BY <1>13 DEF WkCheckout
    <3> HIDE DEF row
    <3> QED BY <1>4, <2>1, <3>2, <3>3, <3>4
  <2>5. unread' \in [Prs -> SUBSET Shas]
    <3>1. unread \in [Prs -> SUBSET Shas] /\ unread[P(r)] \ {S(r)} \in SUBSET Shas
      BY <1>3, <2>1 DEF TypeOK
    <3> QED BY <2>2, <3>1
  <2> QED BY <1>2, <1>13, <2>3, <2>4, <2>5 DEF WkCheckout, TypeOK
<1>14. CASE WkCarry(r)
  <2>1. wk[r].pc # "none"
    BY <1>14 DEF WkCarry
  <2>2. PICK x \in Shas :
          \/ Ends(r, "cancelled", "infra") /\ UNCHANGED heads
          \/ wk' = [wk EXCEPT ![r].pc = "lanes", ![r].trig = HeadOf(r).trig] /\ UNCHANGED heads
          \/ /\ heads' = [heads EXCEPT ![P(r)][S(r)].carried =
                            ReviewedSha(heads[P(r)], x, Known(P(r)))]
             /\ Ends(r, "done", "infra")
    BY <1>14 DEF WkCarry, Carryable
  <2>3. Moves(r)
    <3> DEFINE row == [wk[r] EXCEPT !.pc = "lanes", !.trig = HeadOf(r).trig]
    <3>1. row \in Worker /\ row.pc = "lanes"
      BY <1>3, <2>1 DEF Worker, WorkerPc, Head
    <3>2. wk' = [wk EXCEPT ![r] = row] => Moves(r)
      BY <2>1, <3>1 DEF Moves, TypeOK
    <3>3. wk' = [wk EXCEPT ![r].pc = "lanes", ![r].trig = HeadOf(r).trig] => Moves(r)
      BY <3>2
    <3> QED BY <2>1, <2>2, <3>3, MovesOn DEF Outcome, FailKinds
  <2>4. UNCHANGED runs
    BY <1>14 DEF WkCarry
  <2>5. heads' \in [Prs -> [Shas -> Head]] /\ Quiet
    <3> DEFINE row == [HeadOf(r) EXCEPT !.carried = ReviewedSha(heads[P(r)], x, Known(P(r)))]
    <3>1. row \in Head /\ row.status = HeadOf(r).status
      BY <1>3, <2>1, CarriedType DEF Head
    <3>2. CASE UNCHANGED heads
      BY <2>4, <3>2, QuietFrame DEF TypeOK
    <3>3. CASE heads' = [heads EXCEPT ![P(r)][S(r)].carried =
                           ReviewedSha(heads[P(r)], x, Known(P(r)))]
      <4>1. heads' = [heads EXCEPT ![P(r)][S(r)] = row]
        BY <1>3, <2>1, <3>3 DEF TypeOK
      <4> HIDE DEF row
      <4> QED BY <1>4, <2>1, <2>4, <3>1, <4>1
    <3> QED BY <2>2, <3>2, <3>3
  <2> QED BY <1>2, <1>14, <2>3, <2>4, <2>5 DEF WkCarry, TypeOK, history
<1>15. CASE WkReviews(r)
  <2>1. wk[r].pc # "none" /\ Goto(r, "lanes")
    BY <1>15 DEF WkReviews
  <2>2. Moves(r)
    BY <2>1, MovesOn DEF WorkerPc
  <2>3. unread' \in [Prs -> SUBSET Shas] /\ promised' \in [Prs -> SUBSET Shas]
    BY <1>15 DEF WkReviews, TypeOK
  <2>4. Quiet /\ UNCHANGED <<gh, posted, prs, heads, runs, reviewed, fresh, audits, inbox,
                             daemon, cli, left, owed>>
    BY <1>15, QuietFrame DEF WkReviews, db
  <2> QED BY <1>2, <2>2, <2>3, <2>4 DEF TypeOK
<1>16. CASE WkLate(r)
  <2>1. wk[r].pc # "none" /\ Goto(r, "late")
    BY <1>16 DEF WkLate
  <2>2. Moves(r)
    BY <2>1, MovesOn DEF WorkerPc
  <2>3. runs' \in [RunIds -> Run] /\ Quiet
    <3> DEFINE row == [runs[r] EXCEPT !.late = TRUE]
    <3>1. runs' = [runs EXCEPT ![r] = row] /\ UNCHANGED heads
      BY <1>16 DEF WkLate
    <3>2. row \in Run /\ row.pr = runs[r].pr /\ row.sha = runs[r].sha /\ row.status = runs[r].status
      BY DEF TypeOK, Run
    <3> HIDE DEF row
    <3> QED BY <1>5, <3>1, <3>2
  <2> QED BY <1>2, <1>16, <2>2, <2>3 DEF WkLate, TypeOK, history
<1>17. CASE WkPost(r)
  <2>1. wk[r].pc # "none" /\ (Goto(r, "record") \/ Ends(r, "failed", "infra"))
    BY <1>17 DEF WkPost
  <2>2. Moves(r)
    BY <2>1, MovesOn DEF WorkerPc, Outcome, FailKinds
  <2>3. posted' \in [Prs -> [Shas -> [Phase -> Nat]]]
    <3> DEFINE row == [posted[P(r)][S(r)] EXCEPT ![wk[r].phase] = @ + 1]
    <3>1. posted[P(r)][S(r)] \in [Phase -> Nat] /\ wk[r].phase \in Phase
      BY <1>3, <2>1 DEF TypeOK, Worker
    <3>2. row \in [Phase -> Nat]
      BY <3>1
    <3>3. posted' = [posted EXCEPT ![P(r)][S(r)] = row]
      BY <1>3, <1>17, <2>1 DEF WkPost, TypeOK
    <3> HIDE DEF row
    <3> QED BY <3>2, <3>3 DEF TypeOK
  <2>4. Quiet /\ UNCHANGED <<gh, prs, heads, runs, reviewed, fresh, audits, inbox,
                             daemon, cli, left, owed, unread, promised>>
    BY <1>17, QuietFrame DEF WkPost, db, history
  <2> QED BY <1>2, <2>2, <2>3, <2>4 DEF TypeOK
<1>18. CASE WkRecord(r)
  <2>1. wk[r].pc # "none" /\ Ends(r, "done", "infra")
    BY <1>18 DEF WkRecord
  <2>2. Moves(r)
    BY <2>1, MovesOn DEF Outcome, FailKinds
  <2>3. reviewed' \in [Prs -> [Shas -> {"none"} \cup Phase]]
    BY <1>3, <1>18, <2>1 DEF WkRecord, TypeOK, Worker
  <2>4. Quiet
    BY <1>18, QuietFrame DEF WkRecord
  <2> QED BY <1>2, <1>18, <2>2, <2>3, <2>4 DEF WkRecord, TypeOK, history
<1>19. ASSUME NEW audit \in BOOLEAN, WkTalk(r, audit) PROVE Goal
  <2>1. wk[r].pc # "none" /\ Ends(r, "done", "infra")
    BY <1>19 DEF WkTalk
  <2>2. Moves(r)
    BY <2>1, MovesOn DEF Outcome, FailKinds
  <2>3. fresh' \in [Prs -> SUBSET Shas] /\ promised' \in [Prs -> SUBSET Shas]
    <3>1. /\ fresh \in [Prs -> SUBSET Shas] /\ promised \in [Prs -> SUBSET Shas]
          /\ fresh[P(r)] \cup {S(r)} \in SUBSET Shas
          /\ promised[P(r)] \cup {S(r)} \in SUBSET Shas
      BY <1>3, <2>1 DEF TypeOK
    <3>2. /\ fresh' = fresh \/ fresh' = [fresh EXCEPT ![P(r)] = @ \cup {S(r)}]
          /\ promised' = promised \/ promised' = [promised EXCEPT ![P(r)] = @ \cup {S(r)}]
      BY <1>19 DEF WkTalk
    <3> QED BY <3>1, <3>2
  <2>4. runs' \in [RunIds -> Run] /\ Quiet
    <3> DEFINE b == runs[r].again \/ audit
               row == [runs[r] EXCEPT !.again = b]
    <3>1. b \in BOOLEAN
      OBVIOUS
    <3>2. runs' = [runs EXCEPT ![r] = row] /\ UNCHANGED heads
      BY <1>19 DEF WkTalk
    <3> HIDE DEF b
    <3>3. row \in Run /\ row.pr = runs[r].pr /\ row.sha = runs[r].sha /\ row.status = runs[r].status
      BY <3>1 DEF TypeOK, Run
    <3> HIDE DEF row
    <3> QED BY <1>5, <3>2, <3>3
  <2> QED BY <1>2, <1>19, <2>2, <2>3, <2>4 DEF WkTalk, TypeOK
<1>20. ASSUME NEW escalate \in BOOLEAN, WkAudit(r, escalate) PROVE Goal
  <2>1. wk[r].pc # "none" /\ Ends(r, "done", "infra") /\ UNCHANGED runs
    BY <1>20 DEF WkAudit
  <2>2. Moves(r)
    BY <2>1, MovesOn DEF Outcome, FailKinds
  <2>3. audits' \in [Prs -> {"none", "light", "full"}]
    BY <1>20 DEF WkAudit, TypeOK
  <2>4. heads' \in [Prs -> [Shas -> Head]] /\ Quiet
    <3> DEFINE row == [HeadOf(r) EXCEPT !.status = "queued", !.attempts = 0, !.due = TRUE]
    <3>1. row \in Head /\ row.status # "running"
      BY <1>3, <2>1 DEF Head, HeadStatus
    <3>2. \/ UNCHANGED heads
          \/ heads' = [heads EXCEPT ![P(r)][S(r)] =
                         [@ EXCEPT !.status = "queued", !.attempts = 0, !.due = TRUE]]
      BY <1>20 DEF WkAudit
    <3>3. UNCHANGED heads \/ heads' = [heads EXCEPT ![P(r)][S(r)] = row]
      BY <1>3, <2>1, <3>2 DEF TypeOK
    <3> HIDE DEF row
    <3> QED BY <1>4, <2>1, <3>1, <3>3, QuietFrame DEF TypeOK
  <2> QED BY <1>2, <1>20, <2>2, <2>3, <2>4 DEF WkAudit, TypeOK, history
<1>21. CASE WkRetire(r)
  <2>1. wk[r].pc = "retire" /\ Goto(r, "finish") /\ UNCHANGED runs
    BY <1>21 DEF WkRetire
  <2>2. Moves(r)
    BY <2>1, MovesOn DEF WorkerPc
  <2>3. wk[r].out \in HeadStatus \ {"running"}
    BY <2>1 DEF Bound, HeadStatus
  <2>4. heads' \in [Prs -> [Shas -> Head]] /\ Quiet
    <3> DEFINE hs == RetireHead(heads[P(r)], S(r), wk[r].out)
    <3>1. /\ hs \in Rows
          /\ \A x \in Shas : hs[x].status = "running" => heads[P(r)][x].status = "running"
      BY <1>3, <2>1, <2>3, RetireRows
    <3>2. heads' = [heads EXCEPT ![P(r)] = hs]
      BY <1>21 DEF WkRetire
    <3> HIDE DEF hs
    <3>3. heads' \in [Prs -> [Shas -> Head]]
      BY <3>1, <3>2 DEF TypeOK, Rows
    <3>4. \A p \in Prs, s \in Shas : heads'[p][s].status = "running" => heads[p][s].status = "running"
      BY <3>1, <3>2 DEF TypeOK
    <3> QED BY <2>1, <3>3, <3>4 DEF Quiet, Lands, ActiveStatus, EndStatus
  <2> QED BY <1>2, <1>21, <2>2, <2>4 DEF WkRetire, TypeOK, history
<1>22. CASE WkFinish(r)
  <2>1. wk[r].pc # "none" /\ wk' = [wk EXCEPT ![r] = Gone]
    BY <1>22 DEF WkFinish
  <2>2. Moves(r)
    BY <2>1, MovesOn
  <2>3. EndOf(wk[r].out) \in EndStatus
    BY <1>3, <2>1 DEF EndOf, Worker, Outcome, EndStatus
  <2>4. runs' \in [RunIds -> Run] /\ heads' \in [Prs -> [Shas -> Head]] /\ Quiet
    BY <1>22, <2>3, FinishRunQuiet DEF WkFinish
  <2> QED BY <1>2, <1>22, <2>2, <2>4 DEF WkFinish, TypeOK, history
<1>23. CASE WkDies(r)
  <2>1. wk[r].pc # "none" /\ wk' = [wk EXCEPT ![r] = Gone] /\ Spend("die")
    BY <1>23 DEF WkDies, Alive
  <2>2. Moves(r) /\ left' \in [Budgets -> Nat]
    BY <2>1, MovesOn, SpendType DEF TypeOK
  <2>3. Quiet /\ UNCHANGED <<gh, posted, prs, heads, runs, reviewed, fresh, audits, inbox,
                             daemon, cli, owed, unread, promised>>
    BY <1>23, QuietFrame DEF WkDies, db, history
  <2> QED BY <1>2, <2>2, <2>3 DEF TypeOK
<1> QED
  BY <1>6, <1>7, <1>8, <1>9, <1>10, <1>11, <1>12, <1>13, <1>14, <1>15, <1>16, <1>17, <1>18,
     <1>19, <1>20, <1>21, <1>22, <1>23 DEF WorkerNext

-----------------------------------------------------------------------------
(* The daemon and the operator *)

\* The rows of one PR are rewritten, and none of them to "running".
LEMMA HeadsQuiet ==
  ASSUME TypeOK, NEW p \in Prs, NEW hs \in Rows, heads' = [heads EXCEPT ![p] = hs], UNCHANGED runs,
         \A x \in Shas : hs[x].status = "running" => heads[p][x].status = "running"
  PROVE  heads' \in [Prs -> [Shas -> Head]] /\ Quiet
<1>1. heads' \in [Prs -> [Shas -> Head]]
  BY DEF TypeOK, Rows
<1>2. \A x \in Prs, s \in Shas : heads'[x][s].status = "running" => heads[x][s].status = "running"
  BY DEF TypeOK
<1> QED BY <1>1, <1>2 DEF Quiet, Lands, ActiveStatus, EndStatus

\* What a schedule pass may start is well typed.
LEMMA EligibleType ==
  ASSUME TypeOK, NEW audit \in BOOLEAN
  PROVE  Eligible(audit) \in SUBSET Pick
<1>1. \A p \in Prs, s \in Shas :
        [pr |-> p, sha |-> s, attempts |-> heads[p][s].attempts, prio |-> heads[p][s].prio] \in Pick
  BY DEF TypeOK, Head, Pick
<1> QED BY <1>1 DEF Eligible

\* What Bound says is kept by a quiet step that names only what exists.
LEMMA BoundKept ==
  ASSUME Bound, Quiet,
         \A q \in RunIds : wk'[q] = wk[q] \/ (runs[q].status # "none" /\ wk'[q].pc # "retire"),
         task' \in {"reap", "spawn", "pid"} => cur' \in RunIds /\ runs[cur'].status # "none",
         task' \in {"ingest", "route"} => seen'.pr \in Prs /\ seen'.sha \in Shas,
         cli' # NoCli => cli'.pr \in Prs /\ cli'.sha \in Shas,
         \A p \in Prs : prs'[p].state # "none" => prs'[p].sha \in Shas
  PROVE  Bound'
<1>1. \A q \in RunIds : /\ runs'[q].status # "none" => runs'[q].pr \in Prs /\ runs'[q].sha \in Shas
                        /\ wk'[q].pc # "none" => runs'[q].status # "none"
                        /\ wk'[q].pc = "retire" => wk'[q].out \in {"superseded", "closed"}
  <2> TAKE q \in RunIds
  <2>1. /\ runs'[q].pr = runs[q].pr /\ runs'[q].sha = runs[q].sha
        /\ runs'[q].status # "none" <=> runs[q].status # "none"
    BY DEF Quiet, Lands, ActiveStatus, EndStatus
  <2> QED BY <2>1 DEF Bound
<1>2. task' \in {"reap", "spawn", "pid"} => cur' \in RunIds /\ runs'[cur'].status # "none"
  BY DEF Quiet
<1> QED BY <1>1, <1>2 DEF Bound, NoCli

\* A step on the tables, at the end of a task or beside it.
LEMMA TablesStep ==
  ASSUME TypeOK, Bound, Quiet, UNCHANGED <<gh, posted, reviewed, fresh, wk, promised, plan, cur, why>>,
         task' = "idle" \/ UNCHANGED task, (seen' = NoSeen /\ task' = "idle") \/ UNCHANGED seen,
         prs' \in [Prs -> PrRow], \A p \in Prs : prs'[p].state # "none" => prs'[p].sha \in Shas,
         heads' \in [Prs -> [Shas -> Head]], runs' \in [RunIds -> Run],
         audits' \in [Prs -> {"none", "light", "full"}],
         inbox' \in SUBSET (Prs \X {"mention", "reply"}), left' \in [Budgets -> Nat],
         owed' \in [Prs -> SUBSET Shas], unread' \in [Prs -> SUBSET Shas],
         cli' \in Cli, cli' # NoCli => cli'.pr \in Prs /\ cli'.sha \in Shas
  PROVE  TypeOK' /\ Bound'
<1>1. task' \in Task /\ seen' \in Seen
  <2>1. "idle" \in Task /\ task \in Task /\ seen \in Seen
    BY DEF TypeOK, Task
  <2>2. NoSeen \in Seen
    BY DEF NoSeen, Seen
  <2> QED BY <2>1, <2>2
<1>2. TypeOK'
  BY <1>1 DEF TypeOK
<1>3. Bound'
  BY BoundKept DEF Bound
<1> QED BY <1>2, <1>3

\* A quiet step that leaves the schedule pass alone keeps its discipline.
LEMMA DisciplineKept ==
  ASSUME Discipline, Quiet, UNCHANGED <<task, cur, plan>>
  PROVE  Discipline'
<1>1. \A q \in RunIds : runs'[q].pr = runs[q].pr
                        /\ (runs'[q].status \in ActiveStatus => runs[q].status \in ActiveStatus)
  BY DEF Quiet
<1> QED BY <1>1 DEF Discipline, ActiveRuns, Active

\* What PRs the tables hold.
LEMMA PrsBound ==
  ASSUME TypeOK, Bound, UNCHANGED prs
  PROVE  prs' \in [Prs -> PrRow] /\ \A p \in Prs : prs'[p].state # "none" => prs'[p].sha \in Shas
BY DEF TypeOK, Bound

\* What the operator has read is kept.
LEMMA CliBound ==
  ASSUME TypeOK, Bound, cli' = cli \/ cli' = NoCli
  PROVE  cli' \in Cli /\ (cli' # NoCli => cli'.pr \in Prs /\ cli'.sha \in Shas)
BY DEF TypeOK, Bound, Cli, NoCli

\* The operator is quiet.
LEMMA OperatorStep ==
  ASSUME TypeOK, Bound, OperatorNext
  PROVE  TypeOK' /\ Bound' /\ Quiet /\ UNCHANGED <<task, cur, plan>>
<1> DEFINE Goal == TypeOK' /\ Bound' /\ Quiet /\ UNCHANGED <<task, cur, plan>>
<1> SUFFICES Goal
  OBVIOUS
<1>0. UNCHANGED <<gh, posted, reviewed, fresh, wk, promised, unread, prs, inbox, audits,
                  task, seen, plan, cur, why>>
  BY DEF OperatorNext, CliRead, CliEnqueue, CliCancel, CliRetry, db, daemon, history
<1>1. ASSUME Quiet, heads' \in [Prs -> [Shas -> Head]], runs' \in [RunIds -> Run],
             left' \in [Budgets -> Nat], owed' \in [Prs -> SUBSET Shas],
             cli' \in Cli, cli' # NoCli => cli'.pr \in Prs /\ cli'.sha \in Shas
      PROVE  Goal
  <2>1. /\ audits' \in [Prs -> {"none", "light", "full"}]
        /\ inbox' \in SUBSET (Prs \X {"mention", "reply"}) /\ unread' \in [Prs -> SUBSET Shas]
    BY <1>0 DEF TypeOK
  <2> QED BY <1>0, <1>1, <2>1, TablesStep, PrsBound
<1> HIDE DEF Goal
<1>2. ASSUME NEW p \in Prs, CliRead(p) PROVE Goal
  <2>1. cli' = [pr |-> p, sha |-> gh[p].sha] /\ gh[p].sha \in Shas
    BY <1>2 DEF CliRead, TypeOK, Pull
  <2>2. cli' \in Cli /\ cli'.pr \in Prs /\ cli'.sha \in Shas
    BY <2>1 DEF Cli
  <2>3. left' \in [Budgets -> Nat]
    BY <1>2, SpendType DEF CliRead, TypeOK
  <2>4. UNCHANGED <<heads, runs, owed>>
    BY <1>2 DEF CliRead, db, history
  <2> QED BY <1>1, <2>2, <2>3, <2>4, QuietFrame DEF TypeOK
<1>3. CASE CliEnqueue
  <2>1. cli.pr \in Prs /\ cli.sha \in Shas
    BY <1>3 DEF CliEnqueue, Bound
  <2>2. "manual" \in Triggers
    BY DEF Triggers
  <2>3. /\ runs' \in [RunIds -> Run] /\ heads' \in [Prs -> [Shas -> Head]]
        /\ owed' \in [Prs -> SUBSET Shas] /\ Quiet
    BY <1>3, <2>1, <2>2, EnqueueTxQuiet DEF CliEnqueue
  <2>4. cli' = NoCli /\ UNCHANGED left
    BY <1>3 DEF CliEnqueue
  <2> QED BY <1>1, <2>3, <2>4, CliBound DEF TypeOK
<1>4. ASSUME NEW r \in RunIds, CliCancel(r) PROVE Goal
  <2>1. RequestCancel({r}) /\ UNCHANGED <<heads, owed, cli>> /\ Spend("cancel")
    BY <1>4 DEF CliCancel, history
  <2>2. runs' \in [RunIds -> Run] /\ Quiet
    BY <2>1, RequestCancelQuiet
  <2>3. left' \in [Budgets -> Nat]
    BY <2>1, SpendType DEF TypeOK
  <2> QED BY <1>1, <2>1, <2>2, <2>3, CliBound DEF TypeOK
<1>5. ASSUME NEW p \in Prs, NEW s \in Shas, CliRetry(p, s) PROVE Goal
  <2> DEFINE row == [heads[p][s] EXCEPT !.status = "queued", !.attempts = 0, !.due = TRUE, !.barred = FALSE]
             hs == [heads[p] EXCEPT ![s] = row]
  <2>1. row \in Head /\ row.status # "running" /\ heads[p] \in Rows
    <3>1. heads[p][s] \in Head /\ heads[p] \in Rows
      BY DEF TypeOK, Rows
    <3> QED BY <3>1 DEF Head, HeadStatus
  <2>2. heads' = [heads EXCEPT ![p][s] = [@ EXCEPT !.status = "queued", !.attempts = 0,
                                                   !.due = TRUE, !.barred = FALSE]]
    BY <1>5 DEF CliRetry
  <2>3. heads' = [heads EXCEPT ![p] = hs]
    BY <2>2 DEF TypeOK
  <2> HIDE DEF row
  <2>4. hs \in Rows /\ \A x \in Shas : hs[x].status = "running" => heads[p][x].status = "running"
    BY <2>1 DEF Rows
  <2> HIDE DEF hs
  <2>5. UNCHANGED <<runs, owed, cli>> /\ Spend("cli")
    BY <1>5 DEF CliRetry, history
  <2>6. heads' \in [Prs -> [Shas -> Head]] /\ Quiet
    BY <2>3, <2>4, <2>5, HeadsQuiet
  <2>7. left' \in [Budgets -> Nat]
    BY <2>5, SpendType DEF TypeOK
  <2> QED BY <1>1, <2>5, <2>6, <2>7, CliBound DEF TypeOK
<1> QED BY <1>2, <1>3, <1>4, <1>5 DEF OperatorNext

\* A poll is read into a task of its own.
LEMMA FetchStep ==
  ASSUME TypeOK, Bound, NEW p \in Prs, NEW t \in {"ingest", "route"}, Fetch(p, t)
  PROVE  TypeOK' /\ Bound' /\ Quiet /\ Discipline'
<1>1. /\ task' = t /\ seen' = Snapshot(p)
      /\ UNCHANGED <<gh, posted, prs, heads, runs, reviewed, fresh, audits, inbox, wk,
                     plan, cur, why, cli, left, owed, unread, promised>>
  BY DEF Fetch, db, history
<1>2. gh[p] \in Pull
  BY DEF TypeOK
<1>3. seen' \in Seen /\ seen'.pr \in Prs /\ seen'.sha \in Shas
  BY <1>1, <1>2 DEF Snapshot, Seen, Pull
<1>4. TypeOK'
  BY <1>1, <1>3 DEF TypeOK, Task
<1>5. Quiet
  BY <1>1, QuietFrame
<1>6. Bound'
  BY <1>1, <1>3, <1>5, BoundKept DEF Bound
<1>7. Discipline'
  BY <1>1 DEF Discipline
<1> QED BY <1>4, <1>5, <1>6, <1>7

\* The transactions of the daemon that touch the tables only: whatever the poll said, the
\* heads of its PR are ended, skipped or enqueued, never started.
LEMMA IngestStep ==
  ASSUME TypeOK, Bound, IngestApply
  PROVE  TypeOK' /\ Bound' /\ Quiet /\ Discipline'
<1> DEFINE p == seen.pr
           s == seen.sha
<1>1. p \in Prs /\ s \in Shas /\ heads[p] \in Rows /\ seen \in Seen
  BY DEF IngestApply, Bound, TypeOK, Rows
<1>2. task' = "idle" /\ seen' = NoSeen
      /\ UNCHANGED <<gh, posted, reviewed, fresh, audits, inbox, wk, plan, cur, why, cli, left,
                     unread, promised>>
  BY DEF IngestApply
<1>3. prs' \in [Prs -> PrRow] /\ \A x \in Prs : prs'[x].state # "none" => prs'[x].sha \in Shas
  <2>1. \/ UNCHANGED prs
        \/ prs[p].state = "open" /\ prs' = [prs EXCEPT ![p].state = "closed"]
        \/ prs' = [prs EXCEPT ![p] = [state |-> "open", sha |-> s,
                                      draft |-> seen.draft, label |-> seen.label]]
    BY DEF IngestApply
  <2>2. CASE UNCHANGED prs
    BY <2>2, PrsBound
  <2>3. CASE prs[p].state = "open" /\ prs' = [prs EXCEPT ![p].state = "closed"]
    <3>1. /\ [prs[p] EXCEPT !.state = "closed"] \in PrRow
          /\ [prs[p] EXCEPT !.state = "closed"].sha \in Shas
      BY <1>1, <2>3 DEF TypeOK, Bound, PrRow
    <3> QED BY <1>1, <2>3, <3>1 DEF TypeOK, Bound
  <2>4. CASE prs' = [prs EXCEPT ![p] = [state |-> "open", sha |-> s,
                                        draft |-> seen.draft, label |-> seen.label]]
    <3>1. /\ [state |-> "open", sha |-> s, draft |-> seen.draft, label |-> seen.label] \in PrRow
      BY <1>1 DEF PrRow, Seen
    <3> QED BY <1>1, <2>4, <3>1 DEF TypeOK, Bound
  <2> QED BY <2>1, <2>2, <2>3, <2>4
<1>4. /\ runs' \in [RunIds -> Run] /\ heads' \in [Prs -> [Shas -> Head]]
      /\ owed' \in [Prs -> SUBSET Shas] /\ Quiet
  <2>1. \/ UNCHANGED <<runs, owed>> /\ UNCHANGED heads
        \/ UNCHANGED <<runs, owed>> /\ heads' = [heads EXCEPT ![p] = CloseHeads(heads[p], NoSha, FALSE)]
        \/ UNCHANGED <<runs, owed>> /\ heads' = [heads EXCEPT ![p] = SkipHeads(heads[p], s)]
        \/ /\ UNCHANGED runs /\ heads' = [heads EXCEPT ![p] = CloseHeads(heads[p], s, TRUE)]
           /\ owed' = [owed EXCEPT ![p] = {x \in owed[p] : CloseHeads(heads[p], s, TRUE)[x].status # "closed"}]
        \/ EnqueueTx(p, s, "new", [Env(p) EXCEPT !.label = FALSE])
    BY DEF IngestApply
  <2>2. CASE UNCHANGED <<runs, owed>> /\ UNCHANGED heads
    BY <2>2, QuietFrame DEF TypeOK
  <2>3. CASE UNCHANGED <<runs, owed>> /\ heads' = [heads EXCEPT ![p] = CloseHeads(heads[p], NoSha, FALSE)]
    <3> DEFINE hs == CloseHeads(heads[p], NoSha, FALSE)
    <3>1. /\ hs \in Rows
          /\ \A x \in Shas : hs[x].status = "running" => heads[p][x].status = "running"
      BY <1>1, CloseRows
    <3>2. UNCHANGED <<runs, owed>> /\ heads' = [heads EXCEPT ![p] = hs]
      BY <2>3
    <3> HIDE DEF hs
    <3> QED BY <1>1, <3>1, <3>2, HeadsQuiet DEF TypeOK
  <2>4. CASE UNCHANGED <<runs, owed>> /\ heads' = [heads EXCEPT ![p] = SkipHeads(heads[p], s)]
    <3> DEFINE hs == SkipHeads(heads[p], s)
    <3>1. /\ hs \in Rows
          /\ \A x \in Shas : hs[x].status = "running" => heads[p][x].status = "running"
      BY <1>1, SkipRows
    <3>2. UNCHANGED <<runs, owed>> /\ heads' = [heads EXCEPT ![p] = hs]
      BY <2>4
    <3> HIDE DEF hs
    <3> QED BY <1>1, <3>1, <3>2, HeadsQuiet DEF TypeOK
  <2>5. CASE /\ UNCHANGED runs /\ heads' = [heads EXCEPT ![p] = CloseHeads(heads[p], s, TRUE)]
             /\ owed' = [owed EXCEPT ![p] = {x \in owed[p] : CloseHeads(heads[p], s, TRUE)[x].status # "closed"}]
    <3> DEFINE hs == CloseHeads(heads[p], s, TRUE)
    <3>1. /\ hs \in Rows
          /\ \A x \in Shas : hs[x].status = "running" => heads[p][x].status = "running"
      BY <1>1, CloseRows
    <3>2. /\ UNCHANGED runs /\ heads' = [heads EXCEPT ![p] = hs]
          /\ owed' = [owed EXCEPT ![p] = {x \in owed[p] : hs[x].status # "closed"}]
      BY <2>5
    <3> HIDE DEF hs
    <3>3. owed' \in [Prs -> SUBSET Shas]
      BY <1>1, <3>2 DEF TypeOK
    <3> QED BY <1>1, <3>1, <3>2, <3>3, HeadsQuiet DEF TypeOK
  <2>6. CASE EnqueueTx(p, s, "new", [Env(p) EXCEPT !.label = FALSE])
    <3>1. "new" \in Triggers
      BY DEF Triggers
    <3> QED BY <1>1, <2>6, <3>1, EnqueueTxQuiet
  <2> QED BY <2>1, <2>2, <2>3, <2>4, <2>5, <2>6
<1>5. /\ audits' \in [Prs -> {"none", "light", "full"}] /\ left' \in [Budgets -> Nat]
      /\ inbox' \in SUBSET (Prs \X {"mention", "reply"}) /\ unread' \in [Prs -> SUBSET Shas]
  BY <1>2 DEF TypeOK
<1>6. TypeOK' /\ Bound'
  BY <1>2, <1>3, <1>4, <1>5, TablesStep, CliBound
<1>7. Discipline'
  BY <1>2 DEF Discipline
<1> QED BY <1>4, <1>6, <1>7

\* A routed mention or reply.
LEMMA RouteStep ==
  ASSUME TypeOK, Bound, NEW t \in {"mention", "reply"}, RouteApply(t)
  PROVE  TypeOK' /\ Bound' /\ Quiet /\ Discipline'
<1> DEFINE p == seen.pr
           s == seen.sha
<1>1. p \in Prs /\ s \in Shas /\ t \in Triggers
  BY DEF RouteApply, Bound, Triggers
<1>2. task' = "idle" /\ seen' = NoSeen
      /\ UNCHANGED <<gh, posted, prs, reviewed, fresh, audits, wk, plan, cur, why, cli, left, promised>>
  BY DEF RouteApply
<1>3. inbox' \in SUBSET (Prs \X {"mention", "reply"})
  BY DEF RouteApply, Handled, TypeOK
<1>4. unread' \in [Prs -> SUBSET Shas]
  <2>1. unread' = unread \/ unread' = [unread EXCEPT ![p] = unread[p] \cup {s}]
    BY DEF RouteApply
  <2>2. unread \in [Prs -> SUBSET Shas] /\ unread[p] \cup {s} \in SUBSET Shas
    BY <1>1 DEF TypeOK
  <2> QED BY <2>1, <2>2
<1>5. /\ runs' \in [RunIds -> Run] /\ heads' \in [Prs -> [Shas -> Head]]
      /\ owed' \in [Prs -> SUBSET Shas] /\ Quiet
  <2>1. UNCHANGED <<heads, runs, owed>> \/ EnqueueTx(p, s, t, Env(p))
    BY DEF RouteApply
  <2>2. CASE UNCHANGED <<heads, runs, owed>>
    BY <2>2, QuietFrame DEF TypeOK
  <2>3. CASE EnqueueTx(p, s, t, Env(p))
    BY <1>1, <2>3, EnqueueTxQuiet
  <2> QED BY <2>1, <2>2, <2>3
<1>6. audits' \in [Prs -> {"none", "light", "full"}] /\ left' \in [Budgets -> Nat]
  BY <1>2 DEF TypeOK
<1>7. TypeOK' /\ Bound'
  BY <1>2, <1>3, <1>4, <1>5, <1>6, TablesStep, PrsBound, CliBound
<1>8. Discipline'
  BY <1>2 DEF Discipline
<1> QED BY <1>5, <1>7, <1>8

\* An enqueue_head of the daemon's own, beside any task.
LEMMA AskStep ==
  ASSUME TypeOK, Bound, Discipline, NEW p \in Prs, NEW t \in Triggers, NEW b,
         prs[p].state # "none", EnqueueTx(p, prs[p].sha, t, Env(p)), Spend(b),
         UNCHANGED <<gh, posted, prs, reviewed, fresh, audits, inbox, wk, daemon, cli, unread, promised>>
  PROVE  TypeOK' /\ Bound' /\ Quiet /\ Discipline'
<1>1. prs[p].sha \in Shas
  BY DEF Bound
<1>2. /\ runs' \in [RunIds -> Run] /\ heads' \in [Prs -> [Shas -> Head]]
      /\ owed' \in [Prs -> SUBSET Shas] /\ Quiet
  BY <1>1, EnqueueTxQuiet
<1>3. UNCHANGED <<task, seen, plan, cur, why>>
  BY DEF daemon
<1>4. /\ audits' \in [Prs -> {"none", "light", "full"}] /\ left' \in [Budgets -> Nat]
      /\ inbox' \in SUBSET (Prs \X {"mention", "reply"}) /\ unread' \in [Prs -> SUBSET Shas]
  BY SpendType DEF TypeOK
<1>5. TypeOK' /\ Bound'
  BY <1>2, <1>3, <1>4, TablesStep, PrsBound, CliBound
<1> QED BY <1>2, <1>3, <1>5, DisciplineKept

\* One head is queued or becomes due, and runs are asked to stop.
LEMMA RowStep ==
  ASSUME TypeOK, Bound, Discipline, NEW p \in Prs, NEW s \in Shas, NEW row \in Head,
         heads' = [heads EXCEPT ![p][s] = row], row.status # "running",
         NEW rs, RequestCancel(rs) \/ UNCHANGED runs, audits' \in [Prs -> {"none", "light", "full"}],
         UNCHANGED <<gh, posted, prs, reviewed, fresh, inbox, wk, daemon, cli, left, history>>
  PROVE  TypeOK' /\ Bound' /\ Quiet /\ Discipline'
<1>1. heads' \in [Prs -> [Shas -> Head]]
  BY DEF TypeOK
<1>2. \A x \in Prs, y \in Shas : heads'[x][y].status = "running" => heads[x][y].status = "running"
  BY DEF TypeOK
<1>3. runs' \in [RunIds -> Run] /\ Quiet
  <2>1. CASE RequestCancel(rs)
    BY <1>2, <2>1, RequestCancelQuiet
  <2>2. CASE UNCHANGED runs
    BY <1>2, <2>2 DEF TypeOK, Quiet, Lands, ActiveStatus, EndStatus
  <2> QED BY <2>1, <2>2
<1>4. UNCHANGED <<task, seen, plan, cur, why, owed, unread, promised>>
  BY DEF daemon, history
<1>5. /\ owed' \in [Prs -> SUBSET Shas] /\ left' \in [Budgets -> Nat]
      /\ inbox' \in SUBSET (Prs \X {"mention", "reply"}) /\ unread' \in [Prs -> SUBSET Shas]
  BY <1>4 DEF TypeOK
<1>6. TypeOK' /\ Bound'
  BY <1>1, <1>3, <1>4, <1>5, TablesStep, PrsBound, CliBound
<1> QED BY <1>3, <1>4, <1>6, DisciplineKept

\* The reaper, from the reason it reads to the end it writes, and the cancels of superseded runs.
LEMMA ReapStep ==
  ASSUME TypeOK, Bound, Discipline,
         ReapAct \/ \E r \in RunIds : SupersedeRun(r) \/ \E w \in {"overdue", "exited", "hard"} : ReapSelect(r, w)
  PROVE  TypeOK' /\ Bound' /\ Quiet /\ Discipline'
<1> DEFINE Goal == TypeOK' /\ Bound' /\ Quiet /\ Discipline'
<1> SUFFICES Goal
  OBVIOUS
<1>1. ASSUME NEW r \in RunIds, SupersedeRun(r) PROVE Goal
  <2>1. /\ RequestCancel({r})
        /\ UNCHANGED <<gh, posted, prs, heads, reviewed, fresh, audits, inbox, wk, task, seen, plan, cur,
                       why, cli, left, owed, unread, promised>>
    BY <1>1 DEF SupersedeRun, daemon, history
  <2>2. runs' \in [RunIds -> Run] /\ Quiet
    BY <2>1, RequestCancelQuiet
  <2>3. TypeOK'
    BY <2>1, <2>2 DEF TypeOK
  <2>4. Bound'
    BY <2>1, <2>2, BoundKept DEF Bound
  <2> QED BY <2>1, <2>2, <2>3, <2>4, DisciplineKept
<1>2. ASSUME NEW r \in RunIds, NEW w \in {"overdue", "exited", "hard"}, ReapSelect(r, w) PROVE Goal
  <2>1. /\ task' = "reap" /\ cur' = r /\ why' = w /\ Active(r)
        /\ UNCHANGED <<gh, posted, prs, heads, runs, reviewed, fresh, audits, inbox, wk, seen, plan,
                       cli, owed, unread, promised>>
    BY <1>2 DEF ReapSelect, db, history
  <2>2. left' \in [Budgets -> Nat]
    BY <1>2, SpendType DEF ReapSelect, TypeOK
  <2>3. TypeOK'
    BY <2>1, <2>2 DEF TypeOK, Task
  <2>4. Quiet
    BY <2>1, QuietFrame
  <2>5. Bound'
    BY <2>1, <2>4, BoundKept DEF Bound, Active, ActiveStatus
  <2>6. Discipline'
    BY <2>1 DEF Discipline
  <2> QED BY <2>3, <2>4, <2>5, <2>6
<1>3. CASE ReapAct
  <2>1. /\ cur \in RunIds /\ runs[cur].status # "none"
        /\ task' = "idle" /\ cur' = NoRun /\ why' = "overdue"
        /\ FinishRun(cur, ReapEnd[why], "infra") /\ wk' \in {wk, [wk EXCEPT ![cur] = Gone]}
        /\ UNCHANGED <<gh, posted, prs, reviewed, fresh, audits, inbox, seen, plan, cli, left,
                       owed, unread, promised>>
    BY <1>3 DEF ReapAct, Bound, history
  <2>2. ReapEnd[why] \in EndStatus
    BY DEF TypeOK, ReapEnd, EndStatus
  <2>3. runs' \in [RunIds -> Run] /\ heads' \in [Prs -> [Shas -> Head]] /\ Quiet
    BY <2>1, <2>2, FinishRunQuiet
  <2>4. Gone \in Worker /\ Gone.pc # "retire"
    BY DEF Gone, NoWorker, Worker, WorkerPc, Triggers, Phase, Outcome, FailKinds
  <2>5. /\ wk' \in [RunIds -> Worker]
        /\ \A q \in RunIds : wk'[q] = wk[q] \/ (runs[q].status # "none" /\ wk'[q].pc # "retire")
    BY <2>1, <2>4 DEF TypeOK
  <2>6. TypeOK'
    BY <2>1, <2>3, <2>5 DEF TypeOK, Task
  <2>7. Bound'
    BY <2>1, <2>3, <2>5, BoundKept DEF Bound
  <2>8. Discipline'
    BY <2>1 DEF Discipline
  <2> QED BY <2>3, <2>6, <2>7, <2>8
<1> HIDE DEF Goal
<1> QED BY <1>1, <1>2, <1>3

\* A schedule pass, but for the runs it starts: it reads the active runs when it begins, and
\* notes each run it started before it goes on.
LEMMA PassStep ==
  ASSUME TypeOK, Bound, Discipline,
         SchedBegin \/ Spawn \/ SpawnFails \/ WritePid \/ LiveEnds \/ AuditsEnd \/ DaemonCrash
  PROVE  TypeOK' /\ Bound' /\ Quiet /\ Discipline'
<1> DEFINE Goal == TypeOK' /\ Bound' /\ Quiet /\ Discipline'
<1> SUFFICES Goal
  OBVIOUS
<1>1. NoPlan \in Plan
  BY DEF NoPlan, Plan
<1> DEFINE Rest == UNCHANGED <<gh, posted, prs, reviewed, fresh, audits, inbox, seen, why, cli, owed,
                               unread, promised>>
<1>2. CASE SchedBegin
  <2>1. /\ task' = "live" /\ Rest /\ UNCHANGED <<heads, runs, wk, cur, left>>
        /\ plan' = [busy |-> {runs[r].pr : r \in ActiveRuns}, todo |-> Eligible(FALSE),
                    flight |-> Cardinality(ActiveRuns),
                    audits |-> Cardinality({r \in ActiveRuns : HeadOf(r).audit}),
                    waiting |-> FALSE, audit |-> FALSE]
    BY <1>2 DEF SchedBegin, db, history
  <2>2. Cardinality({r \in ActiveRuns : HeadOf(r).audit}) \in Nat /\ Cardinality(ActiveRuns) \in Nat
    <3>1. IsFiniteSet(RunIds)
      BY QueueAssumption, FS_Interval DEF RunIds
    <3>2. IsFiniteSet({r \in ActiveRuns : HeadOf(r).audit})
      BY <3>1, FS_Subset DEF ActiveRuns
    <3> QED BY <3>2, FS_CardinalityType, ActiveNumber
  <2>3. {runs[r].pr : r \in ActiveRuns} \in SUBSET Prs
    BY DEF ActiveRuns, Active, ActiveStatus, Bound
  <2>4. Eligible(FALSE) \in SUBSET Pick
    BY EligibleType
  <2>5. plan' \in Plan
    BY <2>1, <2>2, <2>3, <2>4 DEF Plan
  <2>6. TypeOK'
    BY <2>1, <2>5 DEF TypeOK, Task
  <2>7. Quiet
    BY <2>1, QuietFrame
  <2>8. Bound'
    BY <2>1, <2>7, BoundKept DEF Bound
  <2>9. Discipline'
    BY <2>1 DEF Discipline, ActiveRuns, Active
  <2> QED BY <2>6, <2>7, <2>8, <2>9
<1>3. CASE Spawn
  <2>1. /\ task = "spawn" /\ task' = "pid" /\ Rest /\ UNCHANGED <<heads, runs, plan, cur, left>>
        /\ wk' = [wk EXCEPT ![cur] = [NoWorker EXCEPT !.pc = "boot"]]
    BY <1>3 DEF Spawn, db, history
  <2>2. cur \in RunIds /\ runs[cur].status # "none"
    BY <2>1 DEF Bound
  <2>3. [NoWorker EXCEPT !.pc = "boot"] \in Worker /\ [NoWorker EXCEPT !.pc = "boot"].pc # "retire"
    BY DEF NoWorker, Worker, WorkerPc, Triggers, Phase, Outcome, FailKinds
  <2>4. /\ wk' \in [RunIds -> Worker]
        /\ \A q \in RunIds : wk'[q] = wk[q] \/ (runs[q].status # "none" /\ wk'[q].pc # "retire")
    BY <2>1, <2>2, <2>3 DEF TypeOK
  <2>5. TypeOK'
    BY <2>1, <2>4 DEF TypeOK, Task
  <2>6. Quiet
    BY <2>1, QuietFrame
  <2>7. Bound'
    BY <2>1, <2>2, <2>4, <2>6, BoundKept DEF Bound
  <2>8. Discipline'
    BY <2>1 DEF Discipline, ActiveRuns, Active
  <2> QED BY <2>5, <2>6, <2>7, <2>8
<1>4. CASE SpawnFails
  <2>1. /\ task = "spawn" /\ task' \in {"live", "audits"} /\ cur' = NoRun /\ Rest
        /\ UNCHANGED <<wk, left>> /\ FinishRun(cur, "failed", "infra")
        /\ plan' = [plan EXCEPT !.waiting = plan.waiting \/ ~plan.audit]
    BY <1>4 DEF SpawnFails, Loop, history
  <2>2. cur \in RunIds
    BY <2>1 DEF Bound
  <2>3. /\ runs' \in [RunIds -> Run] /\ heads' \in [Prs -> [Shas -> Head]] /\ Quiet
        /\ runs'[cur].status \notin ActiveStatus
    BY <2>1, <2>2, FinishRunQuiet DEF EndStatus
  <2>4. plan' \in Plan /\ plan'.busy = plan.busy
    <3>1. \A b \in BOOLEAN : /\ [plan EXCEPT !.waiting = b] \in Plan
                             /\ [plan EXCEPT !.waiting = b].busy = plan.busy
      BY DEF TypeOK, Plan
    <3> QED BY <2>1, <3>1
  <2>5. TypeOK'
    BY <2>1, <2>3, <2>4 DEF TypeOK, Task
  <2>6. Bound'
    BY <2>1, <2>3, BoundKept DEF Bound
  <2>7. Discipline'
    <3>1. \A q \in ActiveRuns' : q \in ActiveRuns \ {cur} /\ runs'[q].pr = runs[q].pr
      BY <2>3 DEF ActiveRuns, Active, Quiet
    <3> QED BY <2>1, <2>4, <3>1 DEF Discipline
  <2> QED BY <2>3, <2>5, <2>6, <2>7
<1>5. CASE WritePid
  <2> DEFINE row == [runs[cur] EXCEPT !.pid = TRUE]
  <2>1. /\ task = "pid" /\ task' \in {"live", "audits"} /\ cur' = NoRun /\ Rest
        /\ UNCHANGED <<heads, wk, left>> /\ runs' = [runs EXCEPT ![cur] = row]
        /\ plan' = [plan EXCEPT !.busy = @ \cup {runs[cur].pr}, !.flight = @ + 1,
                                !.audits = @ + (IF plan.audit THEN 1 ELSE 0)]
    BY <1>5 DEF WritePid, Loop, history
  <2>2. cur \in RunIds /\ runs[cur].status # "none" /\ runs[cur].pr \in Prs
    BY <2>1 DEF Bound
  <2>3. row \in Run /\ row.pr = runs[cur].pr /\ row.sha = runs[cur].sha /\ row.status = runs[cur].status
    BY <2>2 DEF TypeOK, Run
  <2> HIDE DEF row
  <2>4. \A q \in RunIds : /\ runs'[q].pr = runs[q].pr /\ runs'[q].sha = runs[q].sha
                          /\ runs'[q].status = runs[q].status
    BY <2>1, <2>2, <2>3 DEF TypeOK
  <2>5. runs' \in [RunIds -> Run]
    BY <2>1, <2>2, <2>3 DEF TypeOK
  <2>6. Quiet
    BY <2>1, <2>4 DEF Quiet, Lands, ActiveStatus, EndStatus
  <2>7. plan' \in Plan /\ plan'.busy = plan.busy \cup {runs[cur].pr}
    <3> DEFINE m == plan.flight + 1
               n == plan.audits + (IF plan.audit THEN 1 ELSE 0)
               busy == plan.busy \cup {runs[cur].pr}
    <3>1. m \in Nat /\ n \in Nat /\ busy \in SUBSET Prs /\ plan \in Plan
      BY <2>2 DEF TypeOK, Plan
    <3>2. plan' = [plan EXCEPT !.busy = busy, !.flight = m, !.audits = n]
      BY <2>1
    <3> HIDE DEF m, n, busy
    <3>3. plan' \in Plan /\ plan'.busy = busy
      BY <3>1, <3>2 DEF Plan
    <3> QED BY <3>3 DEF busy
  <2>8. TypeOK'
    BY <2>1, <2>5, <2>7 DEF TypeOK, Task
  <2>9. Bound'
    BY <2>1, <2>6, BoundKept DEF Bound
  <2>10. Discipline'
    <3>1. \A q \in ActiveRuns' : q \in ActiveRuns /\ runs'[q].pr = runs[q].pr
      BY <2>4 DEF ActiveRuns, Active
    <3>2. \A q \in ActiveRuns : q # cur => runs[q].pr \in plan.busy
      BY <2>1 DEF Discipline
    <3> QED BY <2>1, <2>7, <3>1, <3>2 DEF Discipline
  <2> QED BY <2>6, <2>8, <2>9, <2>10
<1>6. CASE LiveEnds \/ AuditsEnd
  <2>1. /\ \/ task' = "idle" /\ plan' = NoPlan
           \/ task = "live" /\ task' = "audits" /\ plan' = [plan EXCEPT !.todo = Eligible(TRUE)]
        /\ Rest /\ UNCHANGED <<heads, runs, wk, cur, left>>
    BY <1>6 DEF LiveEnds, AuditsEnd, db, history
  <2>2. /\ [plan EXCEPT !.todo = Eligible(TRUE)] \in Plan
        /\ [plan EXCEPT !.todo = Eligible(TRUE)].busy = plan.busy
    <3>1. Eligible(TRUE) \in SUBSET Pick
      BY EligibleType
    <3> QED BY <3>1 DEF TypeOK, Plan
  <2>3. TypeOK'
    BY <1>1, <2>1, <2>2 DEF TypeOK, Task
  <2>4. Quiet
    BY <2>1, QuietFrame
  <2>5. Bound'
    BY <2>1, <2>4, BoundKept DEF Bound
  <2>6. Discipline'
    BY <2>1, <2>2 DEF Discipline, ActiveRuns, Active
  <2> QED BY <2>3, <2>4, <2>5, <2>6
<1>7. CASE DaemonCrash
  <2>1. /\ task' = "idle" /\ seen' = NoSeen /\ plan' = NoPlan /\ cur' = NoRun /\ why' = "overdue"
        /\ Spend("crash")
        /\ UNCHANGED <<gh, posted, prs, heads, runs, reviewed, fresh, audits, inbox, wk, cli, owed,
                       unread, promised>>
    BY <1>7 DEF DaemonCrash, db, history
  <2>2. left' \in [Budgets -> Nat] /\ NoSeen \in Seen
    BY <2>1, SpendType DEF TypeOK, NoSeen, Seen
  <2>3. TypeOK'
    BY <1>1, <2>1, <2>2 DEF TypeOK, Task
  <2>4. Quiet
    BY <2>1, QuietFrame
  <2>5. Bound'
    BY <2>1, <2>4, BoundKept DEF Bound
  <2>6. Discipline'
    BY <2>1 DEF Discipline
  <2> QED BY <2>3, <2>4, <2>5, <2>6
<1> HIDE DEF Goal
<1> QED BY <1>2, <1>3, <1>4, <1>5, <1>6, <1>7

\* The daemon, but for the runs it starts.
LEMMA DaemonStep ==
  ASSUME TypeOK, Bound, Discipline, DaemonNext,
         \A r \in RunIds, x \in Candidates : ~StartRun(x, r)
  PROVE  TypeOK' /\ Bound' /\ Quiet /\ Discipline'
<1> DEFINE Goal == TypeOK' /\ Bound' /\ Quiet /\ Discipline'
<1> SUFFICES Goal
  OBVIOUS
<1>1. CASE \E p \in Prs : IngestFetch(p) \/ RouteFetch(p)
  BY <1>1, FetchStep DEF IngestFetch, RouteFetch
<1>2. ASSUME NEW p \in Prs, CiFailed(p) PROVE Goal
  <2>1. PICK t \in Triggers : EnqueueTx(p, prs[p].sha, t, Env(p))
    BY <1>2 DEF CiFailed, Triggers
  <2>2. /\ prs[p].state # "none" /\ Spend("ci")
        /\ UNCHANGED <<gh, posted, prs, reviewed, fresh, audits, inbox, wk, daemon, cli, unread, promised>>
    BY <1>2 DEF CiFailed
  <2> QED BY <2>1, <2>2, AskStep
<1>3. ASSUME NEW p \in Prs, NEW t \in {"manual", "normal"}, BoxTicked(p, t) PROVE Goal
  <2>1. /\ prs[p].state # "none" /\ Spend(t) /\ EnqueueTx(p, prs[p].sha, t, Env(p)) /\ t \in Triggers
        /\ UNCHANGED <<gh, posted, prs, reviewed, fresh, audits, inbox, wk, daemon, cli, unread, promised>>
    BY <1>3 DEF BoxTicked, Offered, Triggers
  <2> QED BY <2>1, AskStep
<1>4. ASSUME NEW p \in Prs, NEW mode \in {"light", "full"}, AuditMerged(p, mode) PROVE Goal
  <2> DEFINE s == gh[p].sha
             id == IF heads[p][s].status = "none" THEN NextId(heads[p]) ELSE heads[p][s].id
             row == [heads[p][s] EXCEPT !.status = "queued", !.trig = "audit", !.audit = TRUE,
                                        !.prio = FALSE, !.attempts = 0, !.due = TRUE,
                                        !.barred = FALSE, !.id = id]
             rs == {r \in RunIds : runs[r].pr = p}
  <2>1. s \in Shas /\ heads[p] \in Rows /\ heads[p][s] \in Head
    BY DEF TypeOK, Pull, Rows
  <2>2. id \in Nat
    BY <2>1, NextIdType DEF Head
  <2>3. /\ heads' = [heads EXCEPT ![p][s] = row] /\ RequestCancel(rs)
        /\ audits' = [audits EXCEPT ![p] = mode]
        /\ UNCHANGED <<gh, posted, prs, reviewed, fresh, inbox, wk, daemon, cli, left, history>>
    BY <1>4 DEF AuditMerged
  <2> HIDE DEF id, s, rs
  <2>4. row \in Head /\ row.status # "running"
    BY <2>1, <2>2 DEF Head, HeadStatus, Triggers
  <2>5. audits' \in [Prs -> {"none", "light", "full"}]
    BY <2>3 DEF TypeOK
  <2> HIDE DEF row
  <2> QED BY <2>1, <2>3, <2>4, <2>5, RowStep
<1>5. ASSUME NEW p \in Prs, NEW s \in Shas, BecomesDue(p, s) PROVE Goal
  <2> DEFINE row == [heads[p][s] EXCEPT !.due = TRUE]
  <2>1. heads[p][s] \in Head /\ heads[p][s].status = "queued"
    BY <1>5 DEF BecomesDue, TypeOK
  <2>2. row \in Head /\ row.status # "running"
    BY <2>1 DEF Head
  <2>3. /\ heads' = [heads EXCEPT ![p][s] = row]
        /\ UNCHANGED <<gh, posted, prs, runs, reviewed, fresh, audits, inbox, wk, daemon, cli, left, history>>
    BY <1>5 DEF BecomesDue, TypeOK
  <2>4. audits' \in [Prs -> {"none", "light", "full"}]
    BY <2>3 DEF TypeOK
  <2> HIDE DEF row
  <2> QED BY <2>2, <2>3, <2>4, RowStep
<1>6. CASE IngestApply
  BY <1>6, IngestStep
<1>7. CASE \E t \in {"mention", "reply"} : RouteApply(t)
  BY <1>7, RouteStep
<1>8. CASE ReapAct \/ \E r \in RunIds : \/ SupersedeRun(r)
                                        \/ \E w \in {"overdue", "exited", "hard"} : ReapSelect(r, w)
  BY <1>8, ReapStep
<1>9. CASE SchedBegin \/ Spawn \/ SpawnFails \/ WritePid \/ LiveEnds \/ AuditsEnd \/ DaemonCrash
  BY <1>9, PassStep
<1> HIDE DEF Goal
<1> QED BY <1>1, <1>2, <1>3, <1>4, <1>5, <1>6, <1>7, <1>8, <1>9 DEF DaemonNext

\* The start of a run: its PR has none, since the pass forgets nothing that is active.
LEMMA StartStep ==
  ASSUME IInv, NEW r \in RunIds, NEW x \in Candidates, StartRun(x, r)
  PROVE  /\ IInv'
         /\ \A q \in ActiveRuns : runs[q].pr # x.pr
         /\ x.pr \in Prs /\ runs[r].status = "none"
         /\ \A q \in RunIds : q # r => runs'[q] = runs[q]
         /\ runs'[r].status = "spawned" /\ runs'[r].pr = x.pr
<1> DEFINE row == [NoRunRow EXCEPT !.status = "spawned", !.pr = x.pr, !.sha = x.sha]
           top == StartHead(heads[x.pr][x.sha], x.attempts)
<1>1. TypeOK /\ Bound /\ Discipline /\ SingleFlight /\ NoGhostHead
  BY DEF IInv
<1>2. /\ x \in plan.todo /\ x.pr \notin plan.busy /\ x \in Pick
      /\ x.pr \in Prs /\ x.sha \in Shas /\ x.attempts \in Nat
  BY <1>1 DEF Candidates, TypeOK, Plan, Pick
<1>3. /\ task \in {"live", "audits"} /\ runs[r].status = "none"
      /\ runs' = [runs EXCEPT ![r] = row] /\ heads' = [heads EXCEPT ![x.pr][x.sha] = top]
      /\ plan' = [plan EXCEPT !.todo = plan.todo \ {x}, !.audit = (task = "audits")]
      /\ task' = "spawn" /\ cur' = r
      /\ Spend("run")
      /\ UNCHANGED <<gh, posted, prs, reviewed, fresh, audits, inbox, wk, seen, why, cli,
                     owed, unread, promised>>
  BY DEF StartRun, history
<1>4. /\ row \in Run /\ row.pr = x.pr /\ row.sha = x.sha /\ row.status = "spawned"
      /\ row.status \in ActiveStatus
  BY <1>2 DEF NoRunRow, Run, ActiveStatus
<1>5. top \in Head
  BY <1>1, <1>2, StartRow DEF TypeOK
<1> HIDE DEF row, top
<1>6. runs' \in [RunIds -> Run] /\ heads' \in [Prs -> [Shas -> Head]]
  BY <1>1, <1>2, <1>3, <1>4, <1>5 DEF TypeOK
<1>7. /\ \A q \in RunIds : q # r => runs'[q] = runs[q]
      /\ runs'[r] = row
  BY <1>1, <1>3 DEF TypeOK
<1>8. plan' \in Plan /\ plan'.busy = plan.busy
  <2>1. \A todo \in SUBSET Pick, b \in BOOLEAN :
          /\ [plan EXCEPT !.todo = todo, !.audit = b] \in Plan
          /\ [plan EXCEPT !.todo = todo, !.audit = b].busy = plan.busy
    BY <1>1 DEF TypeOK, Plan
  <2>2. plan.todo \ {x} \in SUBSET Pick
    BY <1>1 DEF TypeOK, Plan
  <2> QED BY <1>3, <2>1, <2>2
<1>9. TypeOK'
  <2>1. left' \in [Budgets -> Nat]
    BY <1>1, <1>3, SpendType DEF TypeOK
  <2> QED BY <1>1, <1>3, <1>6, <1>8, <2>1 DEF TypeOK, Task
<1>10. Bound'
  <2>1. \A q \in RunIds : /\ runs'[q].status # "none" => runs'[q].pr \in Prs /\ runs'[q].sha \in Shas
                          /\ wk'[q].pc # "none" => runs'[q].status # "none"
                          /\ wk'[q].pc = "retire" => wk'[q].out \in {"superseded", "closed"}
    BY <1>1, <1>2, <1>3, <1>4, <1>7 DEF Bound
  <2>2. cur' \in RunIds /\ runs'[cur'].status # "none"
    BY <1>3, <1>4, <1>7
  <2> QED BY <1>1, <1>3, <2>1, <2>2 DEF Bound
\* Nothing active is on its PR: the pass would have noted it.
<1>11. \A q \in ActiveRuns : runs[q].pr \in plan.busy /\ runs[q].pr # x.pr
  BY <1>1, <1>2, <1>3 DEF Discipline
<1>12. \A q \in ActiveRuns' : q = r \/ (q \in ActiveRuns /\ runs'[q] = runs[q])
  BY <1>7 DEF ActiveRuns, Active
<1>13. Discipline'
  BY <1>3, <1>8, <1>11, <1>12 DEF Discipline
<1>14. SingleFlight'
  BY <1>1, <1>4, <1>7, <1>11, <1>12 DEF SingleFlight
<1>15. NoGhostHead'
  <2> SUFFICES ASSUME NEW p \in Prs, NEW s \in Shas, heads'[p][s].status = "running"
               PROVE  \E q \in ActiveRuns' : runs'[q].pr = p /\ runs'[q].sha = s
    BY DEF NoGhostHead
  <2>1. CASE p = x.pr /\ s = x.sha
    BY <1>4, <1>7, <2>1 DEF ActiveRuns, Active
  <2>2. CASE ~(p = x.pr /\ s = x.sha)
    <3>1. heads[p][s].status = "running"
      BY <1>1, <1>2, <1>3, <2>2 DEF TypeOK
    <3>2. PICK q \in ActiveRuns : runs[q].pr = p /\ runs[q].sha = s
      BY <1>1, <3>1 DEF NoGhostHead
    <3>3. q # r
      BY <1>3, <3>2 DEF ActiveRuns, Active, ActiveStatus
    <3> QED BY <1>7, <3>2, <3>3 DEF ActiveRuns, Active
  <2> QED BY <2>1, <2>2
<1> QED BY <1>2, <1>3, <1>4, <1>7, <1>9, <1>10, <1>11, <1>13, <1>14, <1>15 DEF IInv

-----------------------------------------------------------------------------
(* The invariant *)

\* A quiet step keeps single flight, and leaves no head running without its run.
LEMMA QuietKeeps ==
  ASSUME TypeOK, SingleFlight, NoGhostHead, Quiet
  PROVE  SingleFlight' /\ NoGhostHead'
<1>1. \A q \in RunIds : /\ runs'[q].pr = runs[q].pr /\ runs'[q].sha = runs[q].sha
                        /\ runs'[q].status \in ActiveStatus => runs[q].status \in ActiveStatus
                        /\ runs[q].status \in ActiveStatus /\ runs'[q].status \notin ActiveStatus =>
                             heads'[runs[q].pr][runs[q].sha].status # "running"
  BY DEF Quiet
<1>2. SingleFlight'
  BY <1>1 DEF SingleFlight, ActiveRuns, Active
<1>3. NoGhostHead'
  <2> SUFFICES ASSUME NEW p \in Prs, NEW s \in Shas, heads'[p][s].status = "running"
               PROVE  \E q \in ActiveRuns' : runs'[q].pr = p /\ runs'[q].sha = s
    BY DEF NoGhostHead
  <2>1. PICK q \in ActiveRuns : runs[q].pr = p /\ runs[q].sha = s
    BY DEF Quiet, NoGhostHead
  <2>2. runs'[q].status \in ActiveStatus
    BY <1>1, <2>1 DEF ActiveRuns, Active
  <2> QED BY <1>1, <2>1, <2>2 DEF ActiveRuns, Active
<1> QED BY <1>2, <1>3

\* A step is the start of a run, or it is quiet.
LEMMA StepCases ==
  ASSUME IInv, [Next]_vars
  PROVE  \/ \E r \in RunIds, x \in Candidates : StartRun(x, r)
         \/ TypeOK' /\ Bound' /\ Quiet /\ Discipline'
<1>1. TypeOK /\ Bound /\ Discipline
  BY DEF IInv
<1>2. CASE UNCHANGED vars
  <2>1. UNCHANGED <<gh, posted, prs, heads, runs, reviewed, fresh, audits, inbox, wk,
                    task, seen, plan, cur, why, cli, left, owed, unread, promised>>
    BY <1>2 DEF vars, db, daemon, history
  <2>2. TypeOK'
    BY <1>1, <2>1 DEF TypeOK
  <2>3. Bound'
    BY <1>1, <2>1 DEF Bound
  <2> QED BY <1>1, <2>1, <2>2, <2>3, QuietFrame, DisciplineKept
<1>3. CASE GitHubNext
  BY <1>1, <1>3, GitHubStep, DisciplineKept
<1>4. CASE OperatorNext
  BY <1>1, <1>4, OperatorStep, DisciplineKept
<1>5. CASE \E r \in RunIds : WorkerNext(r)
  BY <1>1, <1>5, WorkerStep, DisciplineKept
<1>6. CASE DaemonNext
  BY <1>1, <1>6, DaemonStep
<1> QED BY <1>2, <1>3, <1>4, <1>5, <1>6 DEF Next

\* The invariant holds before anything is started.
LEMMA InitIInv ==
  ASSUME Init
  PROVE  IInv
<1>1. TypeOK
  <2>1. NoHead \in Head
    BY DEF NoHead, Head, HeadStatus, Triggers
  <2>2. NoRunRow \in Run /\ NoPrRow \in PrRow
    BY DEF NoRunRow, Run, NoPrRow, PrRow
  <2>3. NoWorker \in Worker
    BY DEF NoWorker, Worker, WorkerPc, Triggers, Phase, Outcome, FailKinds
  <2>4. NoSeen \in Seen /\ NoPlan \in Plan /\ NoCli \in Cli
    BY DEF NoSeen, Seen, NoPlan, Plan, NoCli, Cli
  <2>5. gh \in [Prs -> Pull]
    BY QueueAssumption DEF Init, Pull
  <2>6. /\ posted \in [Prs -> [Shas -> [Phase -> Nat]]] /\ heads \in [Prs -> [Shas -> Head]]
        /\ prs \in [Prs -> PrRow] /\ runs \in [RunIds -> Run] /\ wk \in [RunIds -> Worker]
    BY <2>1, <2>2, <2>3 DEF Init
  <2>7. left \in [Budgets -> Nat]
    BY QueueAssumption DEF Init
  <2> QED BY <2>4, <2>5, <2>6, <2>7 DEF Init, TypeOK, Task
<1>2. ActiveRuns = {}
  BY DEF Init, ActiveRuns, Active, NoRunRow, ActiveStatus
<1>3. Bound
  BY DEF Init, Bound, NoRunRow, NoWorker, NoPrRow
<1>4. Discipline
  BY DEF Init, Discipline
<1>5. SingleFlight
  BY <1>2 DEF SingleFlight
<1>6. NoGhostHead
  BY DEF Init, NoGhostHead, NoHead
<1> QED BY <1>1, <1>3, <1>4, <1>5, <1>6 DEF IInv

\* Every reachable state satisfies the inductive invariant: whatever dies, is late, is read too
\* early or asked for twice, a schedule pass never forgets what is active.
THEOREM Invariant == Spec => []IInv
<1>1. Init => IInv
  BY InitIInv
<1>2. IInv /\ [Next]_vars => IInv'
  <2> SUFFICES ASSUME IInv, [Next]_vars PROVE IInv'
    OBVIOUS
  <2>1. CASE \E r \in RunIds, x \in Candidates : StartRun(x, r)
    BY <2>1, StartStep
  <2>2. CASE TypeOK' /\ Bound' /\ Quiet /\ Discipline'
    BY <2>2, QuietKeeps DEF IInv
  <2> QED BY <2>1, <2>2, StepCases
<1> QED BY <1>1, <1>2, PTL DEF Spec

\* The tables and the processes are well typed.
THEOREM Typed == Spec => []TypeOK
<1>1. IInv => TypeOK
  BY DEF IInv
<1> QED BY <1>1, Invariant, PTL

\* Single-flight: a pull request never has two active runs.
THEOREM OneRunPerPr == Spec => []SingleFlight
<1>1. IInv => SingleFlight
  BY DEF IInv
<1> QED BY <1>1, Invariant, PTL

\* No head is left running without an active run that will move it on.
THEOREM NoGhosts == Spec => []NoGhostHead
<1>1. IInv => NoGhostHead
  BY DEF IInv
<1> QED BY <1>1, Invariant, PTL

\* A run that has ended is never revived, nor ended again in another way.
THEOREM EndedStay == Spec => EndedRunsStay
<1>1. IInv /\ [Next]_vars => [\A r \in RunIds : runs[r].status \in EndStatus =>
                                runs'[r].status = runs[r].status]_vars
  <2> SUFFICES ASSUME IInv, [Next]_vars, NEW r \in RunIds, runs[r].status \in EndStatus
               PROVE  runs'[r].status = runs[r].status
    OBVIOUS
  <2>1. ASSUME NEW q \in RunIds, NEW x \in Candidates, StartRun(x, q)
        PROVE  runs'[r].status = runs[r].status
    <3>1. runs[q].status = "none" /\ (r # q => runs'[r] = runs[r])
      BY <2>1, StartStep
    <3> QED BY <3>1 DEF EndStatus
  <2>2. CASE Quiet
    BY <2>2 DEF Quiet
  <2> QED BY <2>1, <2>2, StepCases
<1> QED BY <1>1, Invariant, PTL DEF Spec, EndedRunsStay

-----------------------------------------------------------------------------
(* The cap: what a pass counts is never less than what is active            *)

\* The flights a pass has counted are all that is active, but for the run being started, and
\* one is started only below the cap.
Counted ==
  /\ task \in {"live", "audits"} => Cardinality(ActiveRuns) <= plan.flight
  /\ task \in {"spawn", "pid"} => /\ Cardinality(ActiveRuns \ {cur}) <= plan.flight
                                  /\ MaxRuns > 0 => plan.flight < MaxRuns

CapInv == CapHolds /\ Counted

\* Sets of runs are finite, and count as sets do.
LEMMA RunCounts ==
  ASSUME NEW A \in SUBSET RunIds, NEW B \in SUBSET RunIds
  PROVE  /\ Cardinality(A) \in Nat
         /\ A \subseteq B => Cardinality(A) <= Cardinality(B)
         /\ \A r \in RunIds : Cardinality(A) <= Cardinality(A \ {r}) + 1
<1>1. IsFiniteSet(RunIds)
  BY QueueAssumption, FS_Interval DEF RunIds
<1>2. IsFiniteSet(A) /\ IsFiniteSet(B)
  BY <1>1, FS_Subset
<1>3. Cardinality(A) \in Nat
  BY <1>2, FS_CardinalityType
<1>4. A \subseteq B => Cardinality(A) <= Cardinality(B)
  BY <1>2, FS_Subset
<1>5. ASSUME NEW r \in RunIds PROVE Cardinality(A) <= Cardinality(A \ {r}) + 1
  <2>1. Cardinality(A \ {r}) = (IF r \in A THEN Cardinality(A) - 1 ELSE Cardinality(A))
    BY <1>2, FS_RemoveElement
  <2> QED BY <1>3, <2>1
<1> QED BY <1>3, <1>4, <1>5

\* What a step does to the pass.
LEMMA PassMoves ==
  ASSUME TypeOK, Bound, [Next]_vars
  PROVE  \/ \E r \in RunIds, x \in Candidates : StartRun(x, r)
         \/ UNCHANGED <<task, plan, cur>>
         \/ task' \notin {"live", "audits", "spawn", "pid"}
         \/ SchedBegin \/ Spawn \/ SpawnFails \/ WritePid \/ (LiveEnds /\ task' = "audits")
<1>1. CASE UNCHANGED vars
  BY <1>1 DEF vars, daemon
<1>2. CASE GitHubNext
  BY <1>2, GitHubStep
<1>3. CASE OperatorNext
  BY <1>3, OperatorStep
<1>4. CASE \E r \in RunIds : WorkerNext(r)
  BY <1>4, WorkerStep
<1>5. CASE DaemonNext
  <2>1. ASSUME NEW p \in Prs, IngestFetch(p) \/ RouteFetch(p) PROVE task' \in {"ingest", "route"}
    BY <2>1 DEF IngestFetch, RouteFetch, Fetch
  <2>2. ASSUME NEW p \in Prs,
               \/ CiFailed(p)
               \/ \E t \in {"manual", "normal"} : BoxTicked(p, t)
               \/ \E mode \in {"light", "full"} : AuditMerged(p, mode)
               \/ \E s \in Shas : BecomesDue(p, s)
        PROVE  UNCHANGED <<task, plan, cur>>
    BY <2>2 DEF CiFailed, BoxTicked, AuditMerged, BecomesDue, daemon
  <2>3. CASE IngestApply \/ ReapAct \/ \E t \in {"mention", "reply"} : RouteApply(t)
    BY <2>3 DEF IngestApply, ReapAct, RouteApply
  <2>4. ASSUME NEW r \in RunIds, SupersedeRun(r) PROVE UNCHANGED <<task, plan, cur>>
    BY <2>4 DEF SupersedeRun, daemon
  <2>5. ASSUME NEW r \in RunIds, NEW w \in {"overdue", "exited", "hard"}, ReapSelect(r, w)
        PROVE  task' = "reap"
    BY <2>5 DEF ReapSelect
  <2>6. CASE LiveEnds
    BY <2>6 DEF LiveEnds
  <2>7. CASE AuditsEnd \/ DaemonCrash
    BY <2>7 DEF AuditsEnd, DaemonCrash
  <2> QED BY <1>5, <2>1, <2>2, <2>3, <2>4, <2>5, <2>6, <2>7 DEF DaemonNext
<1> QED BY <1>1, <1>2, <1>3, <1>4, <1>5 DEF Next

\* A start: below the cap there is room for one.
LEMMA StartCounts ==
  ASSUME IInv, CapInv, NEW r \in RunIds, NEW x \in Candidates, StartRun(x, r)
  PROVE  CapInv'
<1>1. /\ task \in {"live", "audits"} /\ task' = "spawn" /\ cur' = r
      /\ plan' = [plan EXCEPT !.todo = plan.todo \ {x}, !.audit = (task = "audits")]
      /\ MaxRuns > 0 => ~(plan.flight >= MaxRuns)
  BY DEF StartRun, AtCap
<1>2. plan.flight \in Nat /\ plan'.flight = plan.flight
  BY <1>1 DEF IInv, TypeOK, Plan
<1>3. ActiveRuns' \ {r} \subseteq ActiveRuns
  BY StartStep DEF ActiveRuns, Active
<1>4. /\ ActiveRuns \in SUBSET RunIds /\ ActiveRuns' \in SUBSET RunIds
      /\ ActiveRuns' \ {r} \in SUBSET RunIds
  BY DEF ActiveRuns
<1>5. /\ Cardinality(ActiveRuns' \ {r}) <= Cardinality(ActiveRuns)
      /\ Cardinality(ActiveRuns') <= Cardinality(ActiveRuns' \ {r}) + 1
      /\ Cardinality(ActiveRuns) \in Nat /\ Cardinality(ActiveRuns') \in Nat
      /\ Cardinality(ActiveRuns' \ {r}) \in Nat
  BY <1>3, <1>4, RunCounts
<1>6. Cardinality(ActiveRuns) <= plan.flight
  BY <1>1 DEF CapInv, Counted
<1>7. MaxRuns \in Nat
  BY QueueAssumption
<1>8. CapHolds'
  BY <1>1, <1>2, <1>5, <1>6, <1>7 DEF CapHolds
<1>9. Counted'
  BY <1>1, <1>2, <1>5, <1>6, <1>7 DEF Counted
<1> QED BY <1>8, <1>9 DEF CapInv

\* Any other step: no run becomes active, and a run being started is counted or ended.
LEMMA QuietCounts ==
  ASSUME IInv, CapInv, [Next]_vars, Quiet, \A r \in RunIds, x \in Candidates : ~StartRun(x, r)
  PROVE  CapInv'
<1>1. /\ ActiveRuns \in SUBSET RunIds /\ ActiveRuns' \in SUBSET RunIds /\ ActiveRuns' \subseteq ActiveRuns
      /\ ActiveRuns \ {cur} \in SUBSET RunIds /\ ActiveRuns' \ {cur} \in SUBSET RunIds
  BY DEF ActiveRuns, Active, Quiet
<1>2. /\ Cardinality(ActiveRuns) \in Nat /\ Cardinality(ActiveRuns') \in Nat
      /\ Cardinality(ActiveRuns \ {cur}) \in Nat /\ Cardinality(ActiveRuns' \ {cur}) \in Nat
      /\ Cardinality(ActiveRuns') <= Cardinality(ActiveRuns)
      /\ Cardinality(ActiveRuns' \ {cur}) <= Cardinality(ActiveRuns \ {cur})
  BY <1>1, RunCounts
<1>3. MaxRuns \in Nat /\ plan \in Plan /\ plan.flight \in Nat
  BY QueueAssumption DEF IInv, TypeOK, Plan
<1>4. CapHolds'
  BY <1>2, <1>3 DEF CapInv, CapHolds
<1>5. Counted'
  <2>1. CASE UNCHANGED <<task, plan, cur>>
    BY <1>2, <1>3, <2>1 DEF CapInv, Counted
  <2>2. CASE task' \notin {"live", "audits", "spawn", "pid"}
    BY <2>2 DEF Counted
  <2>3. CASE SchedBegin
    <3>1. task' = "live" /\ plan'.flight = Cardinality(ActiveRuns)
      BY <2>3 DEF SchedBegin
    <3> QED BY <1>2, <3>1 DEF Counted
  <2>4. CASE Spawn
    <3>1. task = "spawn" /\ task' = "pid" /\ UNCHANGED <<plan, cur>>
      BY <2>4 DEF Spawn
    <3> QED BY <1>2, <1>3, <3>1 DEF CapInv, Counted
  <2>5. CASE SpawnFails
    <3>1. /\ task = "spawn" /\ task' \in {"live", "audits"} /\ FinishRun(cur, "failed", "infra")
          /\ plan' = [plan EXCEPT !.waiting = plan.waiting \/ ~plan.audit]
      BY <2>5 DEF SpawnFails, Loop
    <3>2. plan'.flight = plan.flight
      BY <1>3, <3>1 DEF Plan
    <3>3. runs'[cur].status \notin ActiveStatus
      BY <3>1, FinishRunQuiet DEF IInv, Bound, EndStatus
    <3>4. ActiveRuns' \subseteq ActiveRuns \ {cur}
      BY <1>1, <3>3 DEF ActiveRuns, Active
    <3>5. Cardinality(ActiveRuns') <= Cardinality(ActiveRuns \ {cur})
      BY <1>1, <3>4, RunCounts
    <3> QED BY <1>2, <1>3, <3>1, <3>2, <3>5 DEF CapInv, Counted
  <2>6. CASE WritePid
    <3>1. /\ task = "pid" /\ task' \in {"live", "audits"}
          /\ plan' = [plan EXCEPT !.busy = @ \cup {runs[cur].pr}, !.flight = @ + 1,
                                  !.audits = @ + (IF plan.audit THEN 1 ELSE 0)]
      BY <2>6 DEF WritePid, Loop
    <3>2. plan'.flight = plan.flight + 1
      BY <1>3, <3>1 DEF Plan
    <3>3. cur \in RunIds
      BY <3>1 DEF IInv, Bound
    <3>4. Cardinality(ActiveRuns') <= Cardinality(ActiveRuns' \ {cur}) + 1
      BY <1>1, <3>3, RunCounts
    <3> QED BY <1>2, <1>3, <3>1, <3>2, <3>4 DEF CapInv, Counted
  <2>7. CASE LiveEnds /\ task' = "audits"
    <3>1. task = "live" /\ plan' = [plan EXCEPT !.todo = Eligible(TRUE)]
      BY <2>7 DEF LiveEnds
    <3>2. plan'.flight = plan.flight
      BY <1>3, <3>1 DEF Plan
    <3> QED BY <1>2, <1>3, <2>7, <3>1, <3>2 DEF CapInv, Counted
  <2> QED BY <2>1, <2>2, <2>3, <2>4, <2>5, <2>6, <2>7, PassMoves DEF IInv
<1> QED BY <1>4, <1>5 DEF CapInv

\* The cap on runs holds over live and audit runs together, for any cap, any number of runs and
\* crashes, though a pass counts once and then only adds (scheduler.schedule, cfg.max_runs).
THEOREM CapKept == Spec => []CapHolds
<1>1. Init => CapInv
  <2> SUFFICES ASSUME Init PROVE CapInv
    OBVIOUS
  <2>1. ActiveRuns = {} /\ task = "idle"
    BY DEF Init, ActiveRuns, Active, NoRunRow, ActiveStatus
  <2>2. Cardinality(ActiveRuns) = 0
    BY <2>1, FS_EmptySet
  <2>3. MaxRuns \in Nat
    BY QueueAssumption
  <2> QED BY <2>1, <2>2, <2>3 DEF CapInv, CapHolds, Counted
<1>2. IInv /\ CapInv /\ [Next]_vars => CapInv'
  BY StartCounts, QuietCounts, StepCases
<1>3. CapInv => CapHolds
  BY DEF CapInv
<1> QED BY <1>1, <1>2, <1>3, Invariant, PTL DEF Spec

-----------------------------------------------------------------------------
(* The refinement: the runs of the tables are the flights of ReviewFlights *)

FlightOf(p) == {r \in ActiveRuns : runs[r].pr = p}
Landed == {r \in RunIds : runs[r].status \in EndStatus}

\* The start of a run is a take-off.
LEMMA StartTakesOff ==
  ASSUME IInv, NEW r \in RunIds, NEW x \in Candidates, StartRun(x, r)
  PROVE  Flights!TakeOff(x.pr, r) /\ x.pr \in Prs
<1>1. /\ \A q \in ActiveRuns : runs[q].pr # x.pr
      /\ x.pr \in Prs /\ runs[r].status = "none"
      /\ \A q \in RunIds : q # r => runs'[q] = runs[q]
      /\ runs'[r].status = "spawned" /\ runs'[r].pr = x.pr
  BY StartStep
<1>2. r \notin ActiveRuns /\ r \notin Landed
  BY <1>1 DEF ActiveRuns, Active, ActiveStatus, Landed, EndStatus
<1>3. FlightOf(x.pr) = {}
  BY <1>1 DEF FlightOf
<1>4. \A q \in Prs : r \notin FlightOf(q)
  BY <1>2 DEF FlightOf
<1>5. ActiveRuns' = ActiveRuns \cup {r}
  BY <1>1 DEF ActiveRuns, Active, ActiveStatus
<1>6. \A p \in Prs : {q \in ActiveRuns : runs[q].pr = p}' = IF p = x.pr THEN {r} ELSE FlightOf(p)
  <2> TAKE p \in Prs
  <2>1. CASE p = x.pr
    BY <1>1, <1>2, <1>5, <2>1 DEF ActiveRuns
  <2>2. CASE p # x.pr
    BY <1>1, <1>2, <1>5, <2>2 DEF FlightOf, ActiveRuns
  <2> QED BY <2>1, <2>2
<1>7. {q \in RunIds : runs[q].status \in EndStatus}' = Landed
  BY <1>1 DEF Landed, EndStatus
<1> QED BY <1>1, <1>2, <1>3, <1>4, <1>6, <1>7 DEF Flights!TakeOff, FlightOf, Landed

\* A quiet step lands at most one flight.
LEMMA QuietLands ==
  ASSUME IInv, Quiet, TypeOK'
  PROVE  (\E p \in Prs : Flights!Land(p)) \/ UNCHANGED Flights!vars
<1>1. \A q \in RunIds : /\ runs'[q].pr = runs[q].pr
                        /\ runs[q].status \in EndStatus \cup {"none"} => runs'[q].status = runs[q].status
                        /\ runs'[q].status \in ActiveStatus => runs[q].status \in ActiveStatus
  BY DEF Quiet
<1>2. CASE \A q \in RunIds : ~Lands(q)
  <2>1. ActiveRuns' = ActiveRuns
    BY <1>1, <1>2 DEF ActiveRuns, Active, Lands
  <2>2. \A p \in Prs : {q \in ActiveRuns : runs[q].pr = p}' = {q \in ActiveRuns : runs[q].pr = p}
    BY <1>1, <2>1 DEF ActiveRuns
  <2>3. \A q \in RunIds : runs'[q].status \in EndStatus <=> runs[q].status \in EndStatus
    BY <1>1, <1>2 DEF IInv, TypeOK, Run, Lands, ActiveStatus, EndStatus
  <2> QED BY <2>2, <2>3 DEF Flights!vars
<1>3. ASSUME NEW r \in RunIds, Lands(r) PROVE \E p \in Prs : Flights!Land(p)
  <2> DEFINE p == runs[r].pr
  <2>1. r \in ActiveRuns /\ p \in Prs
    BY <1>3 DEF Lands, ActiveRuns, Active, IInv, Bound, ActiveStatus
  <2>2. \A q \in RunIds : q # r => ~Lands(q)
    BY <1>3 DEF Quiet
  <2>3. FlightOf(p) = {r}
    BY <2>1 DEF FlightOf, IInv, SingleFlight
  <2>4. ActiveRuns' = ActiveRuns \ {r}
    BY <1>1, <1>3, <2>2 DEF ActiveRuns, Active, Lands
  <2>5. \A x \in Prs : {q \in ActiveRuns : runs[q].pr = x}' = IF x = p THEN {} ELSE FlightOf(x)
    <3> TAKE x \in Prs
    <3>1. {q \in ActiveRuns : runs[q].pr = x}' = FlightOf(x) \ {r}
      BY <1>1, <2>4 DEF FlightOf, ActiveRuns
    <3> QED BY <2>3, <3>1 DEF FlightOf
  <2>6. runs'[r].status \in EndStatus
    <3>1. runs'[r] \in Run
      BY DEF TypeOK
    <3>2. runs'[r].status \notin ActiveStatus /\ runs'[r].status # "none"
      BY <1>3 DEF Quiet, Lands, ActiveStatus
    <3> QED BY <3>1, <3>2 DEF Run
  <2>7. {q \in RunIds : runs[q].status \in EndStatus}' = Landed \cup {r}
    BY <1>1, <2>2, <2>6 DEF Landed, Lands, IInv, TypeOK, Run, ActiveStatus, EndStatus
  <2>8. FlightOf(p) # {} /\ FlightOf(p) = {r}
    BY <2>3
  <2> HIDE DEF p
  <2>9. Flights!Land(p)
    BY <2>1, <2>5, <2>7, <2>8 DEF Flights!Land, FlightOf, Landed
  <2> QED BY <2>1, <2>9 DEF Flights!Land
<1> QED BY <1>2, <1>3

\* The runs implement the abstract specification of single flights, each landing once.
THEOREM Refinement == Spec => ImplementsFlights
<1>1. Init => Flights!Init
  <2> SUFFICES ASSUME Init PROVE Flights!Init
    OBVIOUS
  <2>1. \A r \in RunIds : runs[r].status = "none"
    BY DEF Init, NoRunRow
  <2> QED BY <2>1 DEF Flights!Init, ActiveRuns, Active, ActiveStatus, EndStatus
<1>2. IInv /\ [Next]_vars => [Flights!Next]_(Flights!vars)
  <2> SUFFICES ASSUME IInv, [Next]_vars PROVE [Flights!Next]_(Flights!vars)
    OBVIOUS
  <2>1. CASE \E r \in RunIds, x \in Candidates : StartRun(x, r)
    BY <2>1, StartTakesOff DEF Flights!Next
  <2>2. CASE TypeOK' /\ Bound' /\ Quiet /\ Discipline'
    BY <2>2, QuietLands DEF Flights!Next
  <2> QED BY <2>1, <2>2, StepCases
<1> QED BY <1>1, <1>2, Invariant, PTL DEF Spec, ImplementsFlights, Flights!Spec
-----------------------------------------------------------------------------
(* What a review is carried from, and what an ask is answered with          *)

\* A review is carried from an earlier head of the same diff, whose own review is on record.
CarryOf(hs, rev) ==
  \A s \in Shas : hs[s].carried # NoSha =>
    /\ hs[s].carried \in rev /\ DiffOf[hs[s].carried] = DiffOf[s]
    /\ hs[s].status # "none" /\ hs[hs[s].carried].status # "none"
    /\ hs[hs[s].carried].id < hs[s].id

\* The commits on record whose final review is on GitHub.  The newest row may be a preliminary
\* one again, so that only this set never shrinks.
Sound(p) == {s \in Known(p) : posted[p][s]["final"] > 0}

CarryInv == \A p \in Prs : CarryOf(heads[p], Sound(p))

\* No review of the commit is on GitHub, and its head is not an audit's.
Unmet(p, s) == ~Full(p, s) /\ ~heads[p][s].audit

\* What is on record is on GitHub, in that phase.
OnGitHub(p, s) == s \in Known(p) => posted[p][s][reviewed[p][s]] > 0

\* So it is, a CI check is of a commit that has its review, and an audit head stays one.
AskRow(p, s) ==
  /\ OnGitHub(p, s)
  /\ heads[p][s].trig = "ci" => s \in Known(p)
  /\ heads[p][s].trig = "audit" => heads[p][s].audit

\* An ask not met yet keeps its head from what an automatic trigger may end it with.
AskHead(p, s) ==
  s \in owed[p] /\ Unmet(p, s) =>
    /\ heads[p][s].trig \notin Automatic
    /\ heads[p][s].status \notin {"none", "done"}
    /\ ~Lifted(heads[p][s])

\* Worker r ends its head as done without a review of its own: it carried one.
Swallows(r) == wk[r].pc = "finish" /\ wk[r].out = "done" /\ Unmet(P(r), S(r))

\* A worker records a review that is on GitHub, and talks where there is one.
Backed(r) ==
  IF wk[r].pc = "record" THEN posted[P(r)][S(r)][wk[r].phase] > 0 ELSE Full(P(r), S(r))

\* What a worker took up at its start is so of its head, it talks and records only where a
\* review was posted, and an ask that reached it too late is noted for its end.
AskWorker(r) ==
  Alive(r) =>
    /\ wk[r].trig = "ci" => S(r) \in Known(P(r))
    /\ wk[r].trig = "audit" => HeadOf(r).audit
    /\ wk[r].pc = "ci" => wk[r].trig = "ci"
    /\ wk[r].pc \in {"talk", "record"} => Backed(r)
    /\ Swallows(r) => /\ HeadOf(r).carried # NoSha
                      /\ Active(r) /\ HeadOf(r).status = "running" /\ S(r) \in owed[P(r)] => runs[r].again

AskRows == \A p \in Prs, s \in Shas : AskRow(p, s)
AskHeads == \A p \in Prs, s \in Shas : AskHead(p, s)
AskWorkers == \A r \in RunIds : AskWorker(r)
AskInv == CarryInv /\ AskRows /\ AskHeads /\ AskWorkers

\* No step undoes a row, takes a review back, or forgets one.
AllKept == \A p \in Prs, s \in Shas : Kept(heads[p][s], heads'[p][s])
ReviewsGrow ==
  \A p \in Prs : /\ Known(p) \subseteq Known(p)'
                 /\ \A s \in Shas, phase \in Phase : posted[p][s][phase] > 0 => posted'[p][s][phase] > 0

\* So no commit loses its review, nor what may be carried.
LEMMA GrowKeeps ==
  ASSUME ReviewsGrow, NEW p \in Prs
  PROVE  Sound(p) \subseteq Sound(p)' /\ \A s \in Shas : Full(p, s) => Full(p, s)'
<1>1. "final" \in Phase /\ Known(p) \subseteq Shas
  BY DEF Phase, Known
<1> QED BY <1>1 DEF ReviewsGrow, Sound, Full

\* Nor when nothing is posted or recorded.
LEMMA SameReviews ==
  ASSUME UNCHANGED <<posted, reviewed>>
  PROVE  /\ ReviewsGrow
         /\ \A p \in Prs : /\ Known(p)' = Known(p) /\ Sound(p)' = Sound(p)
                          /\ \A s \in Shas : /\ Full(p, s)' <=> Full(p, s)
                                            /\ OnGitHub(p, s)' <=> OnGitHub(p, s)
BY DEF ReviewsGrow, Known, Sound, Full, OnGitHub

\* An ask is not met by a step that posts nothing and leaves its head what it is.
LEMMA UnmetKept ==
  ASSUME UNCHANGED posted, NEW p, NEW s, heads'[p][s].audit = heads[p][s].audit
  PROVE  Unmet(p, s)' <=> Unmet(p, s)
BY DEF Unmet, Full

\* A commit on record has a review on GitHub.
LEMMA RecordedIsFull ==
  ASSUME TypeOK, NEW p \in Prs, NEW s \in Shas, OnGitHub(p, s), s \in Known(p)
  PROVE  Full(p, s)
<1>1. reviewed[p][s] \in Phase
  BY DEF TypeOK, Known
<1> QED BY <1>1 DEF OnGitHub, Full

\* What is carried stays sound while rows are kept.
LEMMA CarryKept ==
  ASSUME TypeOK, CarryInv, AllKept, ReviewsGrow
  PROVE  CarryInv'
<1> SUFFICES ASSUME NEW p \in Prs, NEW s \in Shas, heads'[p][s].carried # NoSha
             PROVE  /\ heads'[p][s].carried \in Sound(p)' /\ DiffOf[heads'[p][s].carried] = DiffOf[s]
                    /\ heads'[p][s].status # "none" /\ heads'[p][heads'[p][s].carried].status # "none"
                    /\ heads'[p][heads'[p][s].carried].id < heads'[p][s].id
  BY DEF CarryInv, CarryOf
<1> DEFINE c == heads'[p][s].carried
<1>1. Kept(heads[p][s], heads'[p][s])
  BY DEF AllKept
<1>2. heads[p][s].carried = c
  BY <1>1 DEF Kept
<1>3. /\ c \in Sound(p) /\ DiffOf[c] = DiffOf[s]
      /\ heads[p][s].status # "none" /\ heads[p][c].status # "none" /\ heads[p][c].id < heads[p][s].id
  BY <1>2 DEF CarryInv, CarryOf
<1>4. c \in Shas /\ c \in Sound(p)'
  BY <1>3, GrowKeeps DEF Sound, Known
<1>5. Kept(heads[p][c], heads'[p][c])
  BY <1>4 DEF AllKept
<1> HIDE DEF c
<1>6. /\ heads'[p][s].status # "none" /\ heads'[p][s].id = heads[p][s].id
      /\ heads'[p][c].status # "none" /\ heads'[p][c].id = heads[p][c].id
  BY <1>1, <1>3, <1>5 DEF Kept
<1> QED BY <1>3, <1>4, <1>6 DEF c

\* A worker that does not move knows what it knew; an ask that reaches it is noted.
LEMMA WorkerKept ==
  ASSUME TypeOK, TypeOK', Bound, CarryInv, AllKept, ReviewsGrow, NEW q \in RunIds, AskWorker(q), wk'[q] = wk[q],
         runs[q].status # "none" => runs'[q].pr = runs[q].pr /\ runs'[q].sha = runs[q].sha,
         Alive(q) /\ Swallows(q) /\ Swallows(q)' /\ Active(q)' /\ HeadOf(q)'.status = "running"
             /\ S(q)' \in owed'[P(q)'] =>
           \/ runs'[q].again
           \/ /\ Active(q) /\ HeadOf(q).status = "running" /\ S(q) \in owed[P(q)]
              /\ runs[q].again => runs'[q].again
  PROVE  AskWorker(q)'
<1> SUFFICES ASSUME Alive(q)' PROVE AskWorker(q)'
  BY DEF AskWorker
<1> DEFINE p == P(q)
           s == S(q)
<1>1. /\ Alive(q) /\ p \in Prs /\ s \in Shas /\ P(q)' = p /\ S(q)' = s
  BY DEF Alive, Bound, P, S
<1>2. HeadOf(q) = heads[p][s] /\ HeadOf(q)' = heads'[p][s]
  BY <1>1 DEF HeadOf, P, S
<1>3. /\ Kept(heads[p][s], heads'[p][s]) /\ Known(p) \subseteq Known(p)'
      /\ Full(p, s) => Full(p, s)'
  BY <1>1, GrowKeeps DEF AllKept, ReviewsGrow
<1>4. /\ wk'[q].trig = "ci" => s \in Known(p)'
      /\ wk'[q].trig = "audit" => heads'[p][s].audit
      /\ wk'[q].pc = "ci" => wk'[q].trig = "ci"
  BY <1>1, <1>2, <1>3 DEF AskWorker, Kept
<1>5. wk'[q].pc \in {"talk", "record"} => Backed(q)'
  <2>1. Backed(q) => Backed(q)'
    <3>1. wk[q].phase \in Phase
      BY DEF TypeOK, Worker
    <3>2. posted[p][s][wk[q].phase] > 0 => posted'[p][s][wk[q].phase] > 0
      BY <1>1, <3>1 DEF ReviewsGrow
    <3>3. CASE wk[q].pc = "record"
      BY <1>1, <3>2, <3>3 DEF Backed
    <3>4. CASE wk[q].pc # "record"
      <4>1. Full(P(q), S(q))' <=> Full(p, s)'
        BY <1>1 DEF Full
      <4> QED BY <1>3, <3>4, <4>1 DEF Backed
    <3> QED BY <3>3, <3>4
  <2> QED BY <1>1, <2>1 DEF AskWorker
<1>6. Swallows(q)' => Swallows(q)
  BY <1>1, <1>3 DEF Swallows, Unmet, Kept
<1>7. Swallows(q)' => heads'[p][s].carried # NoSha
  <2>1. Swallows(q)' => heads[p][s].carried # NoSha
    BY <1>1, <1>2, <1>6 DEF AskWorker
  <2>2. heads[p][s].carried # NoSha => heads[p][s].status # "none"
    BY <1>1 DEF CarryInv, CarryOf
  <2> QED BY <1>3, <2>1, <2>2 DEF Kept
<1>8. Swallows(q)' /\ Active(q)' /\ HeadOf(q)'.status = "running" /\ S(q)' \in owed'[P(q)'] => runs'[q].again
  BY <1>1, <1>6 DEF AskWorker
<1> QED BY <1>1, <1>2, <1>4, <1>5, <1>7, <1>8 DEF AskWorker

\* A step whose rows rest and asks nothing keeps every ask, if its workers do.
LEMMA AskRests ==
  ASSUME TypeOK, TypeOK', Bound, AskInv, ReviewsGrow,
         \A p \in Prs, s \in Shas :
           /\ Unasked(heads[p][s], heads'[p][s])
           /\ \/ Rests(heads[p][s], heads'[p][s])
              \/ heads[p][s].trig \in Skippable \/ s \notin owed'[p]
           /\ s \in owed'[p] => s \in owed[p]
           /\ OnGitHub(p, s)',
         \A q \in RunIds :
           /\ runs'[q].pr = runs[q].pr /\ runs'[q].sha = runs[q].sha
           /\ Active(q)' => Active(q) /\ (runs[q].again => runs'[q].again)
           /\ wk'[q] = wk[q] \/ AskWorker(q)'
  PROVE  AskInv'
<1>1. AllKept
  BY DEF AllKept, Unasked
<1>2. CarryInv'
  BY <1>1, CarryKept DEF AskInv
<1>3. ASSUME NEW p \in Prs, NEW s \in Shas PROVE AskRow(p, s)'
  <2>1. /\ Unasked(heads[p][s], heads'[p][s]) /\ Known(p) \subseteq Known(p)'
        /\ OnGitHub(p, s)'
    BY DEF ReviewsGrow
  <2> QED BY <2>1 DEF AskInv, AskRows, AskRow, Unasked, Kept
<1>4. ASSUME NEW p \in Prs, NEW s \in Shas PROVE AskHead(p, s)'
  <2> SUFFICES ASSUME s \in owed'[p], Unmet(p, s)' PROVE AskHead(p, s)'
    BY DEF AskHead
  <2>1. Unasked(heads[p][s], heads'[p][s]) /\ ~Full(p, s) /\ s \in owed[p]
    BY GrowKeeps DEF Unmet
  <2>2. Unmet(p, s)
    BY <2>1 DEF Unmet, Unasked, Kept
  <2>3. /\ heads[p][s].trig \notin Automatic /\ heads[p][s].status \notin {"none", "done"}
        /\ ~Lifted(heads[p][s])
    BY <2>1, <2>2 DEF AskInv, AskHeads, AskHead
  <2>4. heads[p][s].trig # "ci"
    BY <2>1, RecordedIsFull DEF AskInv, AskRows, AskRow
  <2>5. Rests(heads[p][s], heads'[p][s])
    BY <2>3, <2>4 DEF Skippable
  <2> QED BY <2>3, <2>5 DEF AskHead, Rests, Unasked
<1>5. ASSUME NEW q \in RunIds, wk'[q] = wk[q] PROVE AskWorker(q)'
  <2>1. Alive(q) => P(q) \in Prs /\ S(q) \in Shas
    BY DEF Alive, Bound, P, S
  <2>2. P(q)' = P(q) /\ S(q)' = S(q)
    BY DEF P, S
  <2>3. Alive(q) /\ Active(q)' /\ HeadOf(q)'.status = "running" /\ S(q)' \in owed'[P(q)'] =>
          /\ Active(q) /\ HeadOf(q).status = "running" /\ S(q) \in owed[P(q)]
          /\ runs[q].again => runs'[q].again
    BY <2>1, <2>2 DEF HeadOf, P, S, Unasked
  <2> QED BY <1>1, <1>5, <2>3, WorkerKept DEF AskInv, AskWorkers
<1> QED BY <1>2, <1>3, <1>4, <1>5 DEF AskInv, AskRows, AskHeads, AskWorkers

\* A step whose rows rest and of which the workers know what they must.
LEMMA AskMoves ==
  ASSUME TypeOK, TypeOK', Bound, AskInv, UNCHANGED <<posted, reviewed, owed>>,
         \A p \in Prs, s \in Shas : Rests(heads[p][s], heads'[p][s]),
         \A q \in RunIds :
           /\ runs'[q].pr = runs[q].pr /\ runs'[q].sha = runs[q].sha
           /\ Active(q)' => Active(q) /\ (runs[q].again => runs'[q].again)
           /\ wk'[q] = wk[q] \/ AskWorker(q)'
  PROVE  AskInv'
<1>1. ReviewsGrow
  BY SameReviews
<1>2. \A p \in Prs, s \in Shas :
        /\ Unasked(heads[p][s], heads'[p][s]) /\ Rests(heads[p][s], heads'[p][s])
        /\ s \in owed'[p] => s \in owed[p]
        /\ OnGitHub(p, s)'
  BY SameReviews DEF Rests, AskInv, AskRows, AskRow
<1> QED BY <1>1, <1>2, AskRests

\* Rows that are not touched.
LEMMA RowsSame ==
  ASSUME UNCHANGED heads
  PROVE  (\A p \in Prs, s \in Shas : Rests(heads[p][s], heads'[p][s])) /\ AllKept
BY RestsItself DEF Rests, Unasked, AllKept

\* A worker that goes on with what it took up, or takes its head's request up, and swallows none.
LEMMA WorkerMoved ==
  ASSUME TypeOK, TypeOK', Bound, AskInv, AllKept, ReviewsGrow, NEW r \in RunIds, Alive(r),
         runs'[r].pr = runs[r].pr, runs'[r].sha = runs[r].sha,
         wk'[r].trig \in {wk[r].trig, HeadOf(r).trig}, wk'[r].pc = "ci" => wk'[r].trig = "ci",
         wk'[r].pc \in {"talk", "record"} => Backed(r)', ~Swallows(r)'
  PROVE  AskWorker(r)'
<1> DEFINE p == P(r)
           s == S(r)
<1>1. p \in Prs /\ s \in Shas /\ P(r)' = p /\ S(r)' = s
  BY DEF Alive, Bound, P, S
<1>2. HeadOf(r) = heads[p][s] /\ HeadOf(r)' = heads'[p][s]
  BY <1>1 DEF HeadOf, P, S
<1>3. /\ Kept(heads[p][s], heads'[p][s]) /\ Known(p) \subseteq Known(p)'
      /\ AskRow(p, s) /\ AskWorker(r)
  BY <1>1 DEF AllKept, ReviewsGrow, AskInv, AskRows, AskWorkers
<1>4. /\ wk'[r].trig = "ci" => s \in Known(p)'
      /\ wk'[r].trig = "audit" => heads'[p][s].audit
  BY <1>1, <1>2, <1>3 DEF AskWorker, AskRow, Kept
<1> QED BY <1>1, <1>2, <1>4 DEF AskWorker

\* A step of one worker that touches no row of a table an ask is answered by.
LEMMA AskWorkerStep ==
  ASSUME TypeOK, TypeOK', Bound, AskInv, NEW r \in RunIds, Alive(r),
         UNCHANGED <<posted, reviewed, owed, heads>>, \A q \in RunIds : q # r => wk'[q] = wk[q],
         \A q \in RunIds : /\ runs'[q].pr = runs[q].pr /\ runs'[q].sha = runs[q].sha
                           /\ Active(q)' => Active(q) /\ (runs[q].again => runs'[q].again),
         \/ wk'[r].pc = "gone"
         \/ /\ wk'[r].trig \in {wk[r].trig, HeadOf(r).trig}
            /\ wk'[r].pc = "ci" => wk'[r].trig = "ci"
            /\ wk'[r].pc \in {"talk", "record"} => Backed(r)'
            /\ wk'[r].pc = "finish" /\ wk'[r].out = "done" => ~Unmet(P(r), S(r))
  PROVE  AskInv'
<1>1. /\ \A p \in Prs, s \in Shas : Rests(heads[p][s], heads'[p][s])
      /\ AllKept /\ ReviewsGrow
  BY RowsSame, SameReviews
<1>2. AskWorker(r)'
  <2>1. CASE wk'[r].pc = "gone"
    BY <2>1 DEF AskWorker, Alive
  <2>2. CASE wk'[r].pc # "gone"
    <3>1. P(r)' = P(r) /\ S(r)' = S(r) /\ (Unmet(P(r), S(r))' <=> Unmet(P(r), S(r)))
      BY DEF P, S, Unmet, Full
    <3>2. ~Swallows(r)'
      BY <2>2, <3>1 DEF Swallows
    <3> QED BY <1>1, <2>2, <3>2, WorkerMoved
  <2> QED BY <2>1, <2>2
<1>3. \A q \in RunIds : wk'[q] = wk[q] \/ AskWorker(q)'
  BY <1>2
<1> QED BY <1>1, <1>3, AskMoves

\* What the row of a worker says after it moved; the other workers stay.
LEMMA MovedRow ==
  ASSUME TypeOK, NEW r \in RunIds
  PROVE  /\ \A pc : Goto(r, pc) => /\ wk'[r].pc = pc /\ wk'[r].trig = wk[r].trig /\ wk'[r].out = wk[r].out
                                   /\ wk'[r].phase = wk[r].phase
                                   /\ \A q \in RunIds : q # r => wk'[q] = wk[q]
         /\ \A out, kind : Ends(r, out, kind) =>
              /\ wk'[r].pc = "finish" /\ wk'[r].trig = wk[r].trig /\ wk'[r].out = out
              /\ \A q \in RunIds : q # r => wk'[q] = wk[q]
         /\ Retires(r) => /\ wk'[r].pc = "retire" /\ wk'[r].trig = wk[r].trig
                          /\ \A q \in RunIds : q # r => wk'[q] = wk[q]
         /\ wk' = [wk EXCEPT ![r] = Gone] => /\ wk'[r].pc = "gone"
                                             /\ \A q \in RunIds : q # r => wk'[q] = wk[q]
<1>1. wk \in [RunIds -> Worker] /\ wk[r] \in Worker
  BY DEF TypeOK
<1>2. ASSUME NEW row, wk' = [wk EXCEPT ![r] = row]
      PROVE  wk'[r] = row /\ \A q \in RunIds : q # r => wk'[q] = wk[q]
  BY <1>1, <1>2
<1>3. ASSUME NEW pc, Goto(r, pc)
      PROVE  /\ wk'[r].pc = pc /\ wk'[r].trig = wk[r].trig /\ wk'[r].out = wk[r].out
             /\ wk'[r].phase = wk[r].phase
             /\ \A q \in RunIds : q # r => wk'[q] = wk[q]
  <2>1. wk' = [wk EXCEPT ![r] = [wk[r] EXCEPT !.pc = pc]]
    BY <1>3 DEF Goto
  <2> QED BY <1>1, <1>2, <2>1 DEF Worker
<1>4. ASSUME NEW out, NEW kind, Ends(r, out, kind)
      PROVE  /\ wk'[r].pc = "finish" /\ wk'[r].trig = wk[r].trig /\ wk'[r].out = out
             /\ \A q \in RunIds : q # r => wk'[q] = wk[q]
  <2> DEFINE row == [wk[r] EXCEPT !.pc = "finish", !.out = out, !.kind = kind]
  <2>1. wk' = [wk EXCEPT ![r] = row]
    BY <1>4 DEF Ends
  <2>2. row.pc = "finish" /\ row.trig = wk[r].trig /\ row.out = out
    BY <1>1 DEF Worker
  <2> HIDE DEF row
  <2> QED BY <1>2, <2>1, <2>2
<1>5. ASSUME Retires(r)
      PROVE  wk'[r].pc = "retire" /\ wk'[r].trig = wk[r].trig /\ \A q \in RunIds : q # r => wk'[q] = wk[q]
  <2>1. PICK out \in {"superseded", "closed"} : wk' = [wk EXCEPT ![r].pc = "retire", ![r].out = out]
    BY <1>5 DEF Retires
  <2> DEFINE row == [wk[r] EXCEPT !.pc = "retire", !.out = out]
  <2>2. row.pc = "retire" /\ row.trig = wk[r].trig /\ wk' = [wk EXCEPT ![r] = row]
    BY <1>1, <2>1 DEF Worker
  <2> HIDE DEF row
  <2> QED BY <1>2, <2>2
<1>6. Gone.pc = "gone"
  BY DEF Gone, NoWorker
<1>7. wk' = [wk EXCEPT ![r] = Gone] => wk'[r].pc = "gone" /\ \A q \in RunIds : q # r => wk'[q] = wk[q]
  BY <1>2, <1>6
<1> QED BY <1>3, <1>4, <1>5, <1>7

\* A worker's steps that change neither the rows of the heads nor what is on GitHub or on record.
LEMMA WorkerAsks ==
  ASSUME TypeOK, TypeOK', Bound, AskInv, NEW r \in RunIds,
         \/ WkRead(r) \/ WkClaim(r) \/ WkCancelled(r) \/ WkObsolete(r) \/ WkReviews(r) \/ WkLate(r)
         \/ WkCiCheck(r) \/ WkDies(r) \/ \E kind \in WorkerKinds : WkFails(r, kind)
         \/ \E phase \in Phase : WkPublish(r, phase)
         \/ \E yes \in BOOLEAN : WkTalk(r, yes)
  PROVE  AskInv'
<1> DEFINE Steady == /\ UNCHANGED <<posted, reviewed, owed, heads>>
                     /\ \A q \in RunIds : /\ runs'[q].pr = runs[q].pr /\ runs'[q].sha = runs[q].sha
                                          /\ Active(q)' => Active(q) /\ (runs[q].again => runs'[q].again)
           Others == \A q \in RunIds : q # r => wk'[q] = wk[q]
           Knows == \/ wk'[r].pc = "gone"
                    \/ /\ wk'[r].trig \in {wk[r].trig, HeadOf(r).trig}
                       /\ wk'[r].pc = "ci" => wk'[r].trig = "ci"
                       /\ wk'[r].pc \in {"talk", "record"} => Backed(r)'
                       /\ wk'[r].pc = "finish" /\ wk'[r].out = "done" => ~Unmet(P(r), S(r))
<1>1. Alive(r) /\ AskWorker(r) /\ P(r) \in Prs /\ S(r) \in Shas
  <2>1. wk[r].pc \notin {"none", "gone"}
    BY DEF WkRead, WkClaim, WkCancelled, WkObsolete, WkReviews, WkLate, WkPublish, WkCiCheck, WkDies,
           WkFails, WkTalk, Alive
  <2> QED BY <2>1 DEF Alive, AskInv, AskWorkers, Bound, P, S
<1>2. ASSUME NEW row, runs' = [runs EXCEPT ![r] = row], row.pr = runs[r].pr, row.sha = runs[r].sha,
             row.status \in ActiveStatus => Active(r), runs[r].again => row.again,
             UNCHANGED <<posted, reviewed, owed, heads>>
      PROVE  Steady
  BY <1>2 DEF TypeOK, Active
<1>3. UNCHANGED runs /\ UNCHANGED <<posted, reviewed, owed, heads>> => Steady
  BY DEF Active
<1>4. WkOnly => Steady
  BY <1>3 DEF WkOnly, db, history
<1>5. Steady /\ Others /\ Knows => AskInv'
  BY <1>1, AskWorkerStep
<1> SUFFICES Steady /\ Others /\ Knows
  BY <1>5
<1> HIDE DEF Steady
<1>6. CASE WkRead(r)
  <2>1. Steady
    BY <1>4, <1>6 DEF WkRead
  <2>2. CASE Active(r)
    <3> DEFINE row == [wk[r] EXCEPT !.pc = "claim", !.trig = HeadOf(r).trig]
    <3>1. wk' = [wk EXCEPT ![r] = row]
      BY <1>6, <2>2 DEF WkRead
    <3>2. row.pc = "claim" /\ row.trig = HeadOf(r).trig
      BY DEF TypeOK, Worker
    <3> HIDE DEF row
    <3> QED BY <2>1, <3>1, <3>2 DEF TypeOK
  <2>3. CASE ~Active(r)
    BY <1>6, <2>1, <2>3, MovedRow DEF WkRead
  <2> QED BY <2>2, <2>3
<1>7. CASE WkClaim(r)
  <2>1. CASE Active(r)
    <3> DEFINE row == [runs[r] EXCEPT !.status = "running"]
    <3>1. runs' = [runs EXCEPT ![r] = row] /\ UNCHANGED <<posted, reviewed, owed, heads>>
      BY <1>7, <2>1 DEF WkClaim, history
    <3>2. row.pr = runs[r].pr /\ row.sha = runs[r].sha /\ row.again = runs[r].again
      BY DEF TypeOK, Run
    <3> HIDE DEF row
    <3>3. Steady
      BY <1>2, <2>1, <3>1, <3>2
    <3>4. Goto(r, IF wk[r].trig = "ci" THEN "ci" ELSE "tree")
      BY <1>7, <2>1 DEF WkClaim
    <3> QED BY <3>3, <3>4, MovedRow
  <2>2. CASE ~Active(r)
    <3>1. Steady
      BY <1>3, <1>7, <2>2 DEF WkClaim, history
    <3> QED BY <1>7, <2>2, <3>1, MovedRow DEF WkClaim
  <2> QED BY <2>1, <2>2
<1>8. CASE WkCancelled(r)
  BY <1>4, <1>8, MovedRow DEF WkCancelled
<1>9. CASE WkObsolete(r)
  BY <1>4, <1>9, MovedRow DEF WkObsolete
<1>10. CASE WkReviews(r)
  BY <1>3, <1>10, MovedRow DEF WkReviews, db
<1>11. CASE WkLate(r)
  <2> DEFINE row == [runs[r] EXCEPT !.late = TRUE]
  <2>1. runs' = [runs EXCEPT ![r] = row] /\ UNCHANGED <<posted, reviewed, owed, heads>>
    BY <1>11 DEF WkLate, history
  <2>2. row.pr = runs[r].pr /\ row.sha = runs[r].sha /\ row.again = runs[r].again /\ row.status = runs[r].status
    BY DEF TypeOK, Run
  <2> HIDE DEF row
  <2>3. Steady
    BY <1>2, <2>1, <2>2 DEF Active
  <2> QED BY <1>11, <2>3, MovedRow DEF WkLate
<1>12. ASSUME NEW phase \in Phase, WkPublish(r, phase) PROVE Steady /\ Others /\ Knows
  <2>1. /\ Moves(r) /\ UNCHANGED <<posted, db, history>>
        /\ \/ Ends(r, "failed", "base")
           \/ /\ wk'[r].pc = "record" /\ wk'[r].trig = wk[r].trig
              /\ posted[P(r)][S(r)][wk'[r].phase] > 0
           \/ wk'[r].pc = "post" /\ wk'[r].trig = wk[r].trig
    BY <1>12, PublishEffect
  <2>2. Steady
    BY <1>3, <2>1 DEF db, history
  <2>3. P(r)' = P(r) /\ S(r)' = S(r) /\ posted' = posted
    BY <2>1 DEF db, P, S
  <2>4. Knows
    <3>1. CASE wk'[r].pc = "record" /\ posted[P(r)][S(r)][wk'[r].phase] > 0
      BY <2>1, <2>3, <3>1, MovedRow DEF Backed
    <3>2. CASE wk'[r].pc # "record"
      BY <2>1, <3>2, MovedRow
    <3> QED BY <2>1, <3>1, <3>2, MovedRow
  <2> QED BY <2>1, <2>2, <2>4 DEF Moves
<1>13. CASE WkCiCheck(r)
  <2>1. Steady /\ wk[r].pc = "ci" /\ Ends(r, "done", "infra")
    BY <1>4, <1>13 DEF WkCiCheck
  <2>2. ~Unmet(P(r), S(r))
    <3>1. S(r) \in Known(P(r))
      BY <1>1, <2>1 DEF AskWorker
    <3> QED BY <1>1, <3>1, RecordedIsFull DEF AskInv, AskRows, AskRow, Unmet
  <2> QED BY <2>1, <2>2, MovedRow
<1>14. CASE WkDies(r)
  BY <1>3, <1>14, MovedRow DEF WkDies, db, history
<1>15. ASSUME NEW kind \in WorkerKinds, WkFails(r, kind) PROVE Steady /\ Others /\ Knows
  BY <1>4, <1>15, MovedRow DEF WkFails
<1>16. ASSUME NEW yes \in BOOLEAN, WkTalk(r, yes) PROVE Steady /\ Others /\ Knows
  <2> DEFINE b == runs[r].again \/ yes
             row == [runs[r] EXCEPT !.again = b]
  <2>1. /\ runs' = [runs EXCEPT ![r] = row] /\ UNCHANGED <<posted, reviewed, owed, heads>>
        /\ wk[r].pc = "talk" /\ Ends(r, "done", "infra")
    BY <1>16 DEF WkTalk
  <2>2. /\ runs[r].again => b
        /\ row.again = b /\ row.pr = runs[r].pr /\ row.sha = runs[r].sha /\ row.status = runs[r].status
    BY DEF TypeOK, Run
  <2> HIDE DEF row, b
  <2>3. Steady
    BY <1>2, <2>1, <2>2 DEF Active
  <2>4. ~Unmet(P(r), S(r))
    BY <1>1, <2>1 DEF AskWorker, Backed, Unmet
  <2> QED BY <2>1, <2>3, <2>4, MovedRow
<1> QED BY <1>6, <1>7, <1>8, <1>9, <1>10, <1>11, <1>12, <1>13, <1>14, <1>15, <1>16

\* One row of the tables that rests.
LEMMA RowRests ==
  ASSUME TypeOK, NEW p \in Prs, NEW s \in Shas, NEW row,
         heads' = [heads EXCEPT ![p][s] = row], Rests(heads[p][s], row)
  PROVE  (\A x \in Prs, y \in Shas : Rests(heads[x][y], heads'[x][y])) /\ AllKept
<1>1. \A x \in Prs, y \in Shas : heads'[x][y] = IF x = p /\ y = s THEN row ELSE heads[x][y]
  BY DEF TypeOK
<1>2. \A x \in Prs, y \in Shas : Rests(heads[x][y], heads'[x][y])
  BY <1>1, RestsItself
<1> QED BY <1>2 DEF Rests, Unasked, AllKept

\* The steps of a worker that rewrite its head's row, or post and record its review.
LEMMA WorkerWrites ==
  ASSUME TypeOK, TypeOK', Bound, AskInv, NEW r \in RunIds,
         \/ WkCheckout(r) \/ WkPost(r) \/ WkRecord(r) \/ WkRetire(r) \/ \E yes \in BOOLEAN : WkAudit(r, yes)
  PROVE  AskInv'
<1> DEFINE p == P(r)
           s == S(r)
<1>1. UNCHANGED <<runs, owed>> /\ Alive(r)
  BY DEF WkCheckout, WkPost, WkRecord, WkRetire, WkAudit, Alive, db, history
<1>2. /\ AskWorker(r) /\ p \in Prs /\ s \in Shas /\ wk[r].phase \in Phase
      /\ heads[p] \in Rows /\ HeadOf(r) = heads[p][s] /\ HeadOf(r) \in Head
  BY <1>1 DEF Alive, AskInv, AskWorkers, Bound, P, S, TypeOK, HeadOf, Rows, Worker
<1>3. \A q \in RunIds : /\ runs'[q].pr = runs[q].pr /\ runs'[q].sha = runs[q].sha
                        /\ Active(q)' => Active(q) /\ (runs[q].again => runs'[q].again)
  BY <1>1 DEF Active
<1>4. P(r)' = p /\ S(r)' = s
  BY <1>1 DEF P, S
<1>5. ASSUME UNCHANGED <<posted, reviewed>>, \A x \in Prs, y \in Shas : Rests(heads[x][y], heads'[x][y]), AllKept,
             \A q \in RunIds : q # r => wk'[q] = wk[q],
             wk'[r].trig = wk[r].trig, wk'[r].pc # "ci",
             wk'[r].pc \in {"talk", "record"} => Backed(r)',
             wk'[r].pc = "finish" /\ wk'[r].out = "done" => heads'[p][s].audit
      PROVE  AskInv'
  <2>1. ReviewsGrow
    BY <1>5, SameReviews
  <2>2. ~Swallows(r)'
    BY <1>4, <1>5 DEF Swallows, Unmet
  <2>3. AskWorker(r)'
    BY <1>1, <1>4, <1>5, <2>1, <2>2, WorkerMoved
  <2> QED BY <1>1, <1>3, <1>5, <2>3, AskMoves
<1>6. CASE WkCheckout(r)
  <2>1. PICK talk \in {wk[r].trig = "reply" /\ posted[p][s]["final"] > 0, FALSE} :
          /\ wk' = [wk EXCEPT ![r].base = gh[p].base,
                              ![r].pc = IF talk THEN "talk" ELSE IF IsAudit(r) THEN "lanes" ELSE "carry"]
          /\ heads' = [heads EXCEPT ![p][s].print = @ \/ ~(talk \/ IsAudit(r))]
    BY <1>6 DEF WkCheckout
  <2>2. PICK pc \in {"talk", "lanes", "carry"} :
          wk' = [wk EXCEPT ![r].base = gh[p].base, ![r].pc = pc] /\ (pc = "talk" => Full(p, s))
    BY <2>1 DEF Full, Phase
  <2> DEFINE row == [wk[r] EXCEPT !.base = gh[p].base, !.pc = pc]
             b == heads[p][s].print \/ ~(talk \/ IsAudit(r))
             top == [heads[p][s] EXCEPT !.print = b]
  <2>3. row.pc = pc /\ row.trig = wk[r].trig /\ wk' = [wk EXCEPT ![r] = row]
    BY <2>2 DEF TypeOK, Worker
  <2> HIDE DEF row
  <2>4. wk'[r] = row /\ \A q \in RunIds : q # r => wk'[q] = wk[q]
    BY <2>3 DEF TypeOK
  <2>5. heads' = [heads EXCEPT ![p][s] = top]
    BY <1>2, <2>1 DEF TypeOK
  <2> HIDE DEF b
  <2>6. Rests(heads[p][s], top)
    <3>1. /\ top.status = heads[p][s].status /\ top.trig = heads[p][s].trig /\ top.audit = heads[p][s].audit
          /\ top.id = heads[p][s].id /\ top.carried = heads[p][s].carried /\ top.barred = heads[p][s].barred
      BY <1>2 DEF Head
    <3> HIDE DEF top
    <3> QED BY <3>1 DEF Rests, Unasked, Kept, Lifted
  <2> HIDE DEF top
  <2>7. (\A x \in Prs, y \in Shas : Rests(heads[x][y], heads'[x][y])) /\ AllKept
    BY <1>2, <2>5, <2>6, RowRests
  <2>8. UNCHANGED <<posted, reviewed>>
    BY <1>6 DEF WkCheckout
  <2>9. wk'[r].pc = "talk" => Backed(r)'
    <3>1. Full(P(r), S(r))' <=> Full(p, s)
      BY <1>4, <2>8 DEF Full
    <3> QED BY <2>2, <2>3, <2>4, <3>1 DEF Backed
  <2> QED BY <1>5, <2>2, <2>3, <2>4, <2>7, <2>8, <2>9
<1>7. CASE WkPost(r)
  <2> DEFINE ph == wk[r].phase
  <2>1. /\ posted' = [posted EXCEPT ![p][s][ph] = @ + 1] /\ UNCHANGED <<reviewed, heads>>
        /\ Goto(r, "record") \/ Ends(r, "failed", "infra")
    BY <1>7 DEF WkPost, db
  <2>2. \A x \in Prs, y \in Shas, z \in Phase :
          /\ posted[x][y][z] \in Nat
          /\ posted'[x][y][z] = IF x = p /\ y = s /\ z = ph THEN posted[x][y][z] + 1 ELSE posted[x][y][z]
    BY <1>2, <2>1 DEF TypeOK
  <2>3. ReviewsGrow
    <3>1. \A x \in Prs : Known(x)' = Known(x)
      BY <2>1 DEF Known
    <3>2. \A x \in Prs, y \in Shas, z \in Phase : posted[x][y][z] > 0 => posted'[x][y][z] > 0
      BY <2>2
    <3> QED BY <3>1, <3>2 DEF ReviewsGrow
  <2>4. (\A x \in Prs, y \in Shas : Rests(heads[x][y], heads'[x][y])) /\ AllKept
    BY <2>1, RowsSame
  <2>5. AskWorker(r)'
    <3>1. /\ wk'[r].trig = wk[r].trig /\ wk'[r].pc \in {"record", "finish"} /\ posted'[p][s][ph] > 0
          /\ ~(wk'[r].pc = "finish" /\ wk'[r].out = "done")
          /\ wk'[r].pc = "record" => wk'[r].phase = ph
      BY <1>2, <2>1, <2>2, MovedRow
    <3>2. ~Swallows(r)'
      BY <3>1 DEF Swallows
    <3>3. wk'[r].pc = "record" => Backed(r)'
      BY <1>4, <3>1 DEF Backed
    <3> QED BY <1>1, <2>3, <2>4, <3>1, <3>2, <3>3, WorkerMoved
  <2>6. ASSUME NEW x \in Prs, NEW y \in Shas PROVE OnGitHub(x, y)'
    <3>1. OnGitHub(x, y) /\ (y \in Known(x) => reviewed[x][y] \in Phase)
      BY DEF AskInv, AskRows, AskRow, Known, TypeOK
    <3>2. y \in Known(x)' <=> y \in Known(x)
      BY <2>1 DEF Known
    <3> QED BY <2>1, <2>3, <3>1, <3>2 DEF OnGitHub, ReviewsGrow
  <2>7. \A q \in RunIds : wk'[q] = wk[q] \/ AskWorker(q)'
    BY <2>1, <2>5, MovedRow
  <2>8. \A x \in Prs, y \in Shas : /\ Unasked(heads[x][y], heads'[x][y]) /\ Rests(heads[x][y], heads'[x][y])
                                   /\ y \in owed'[x] => y \in owed[x]
    BY <1>1, <2>4 DEF Rests
  <2> QED BY <1>3, <2>3, <2>6, <2>7, <2>8, AskRests
<1>8. CASE WkRecord(r)
  <2>1. /\ wk[r].pc = "record" /\ reviewed' = [reviewed EXCEPT ![p][s] = wk[r].phase]
        /\ UNCHANGED <<posted, heads>> /\ Ends(r, "done", "infra")
    BY <1>8 DEF WkRecord
  <2>2. posted[p][s][wk[r].phase] > 0 /\ Full(p, s)
    <3>1. posted[p][s][wk[r].phase] > 0
      BY <1>1, <1>2, <2>1 DEF AskWorker, Backed
    <3> QED BY <1>2, <3>1 DEF Full
  <2>3. \A x \in Prs, y \in Shas :
          reviewed'[x][y] = IF x = p /\ y = s THEN wk[r].phase ELSE reviewed[x][y]
    BY <2>1 DEF TypeOK
  <2>4. ReviewsGrow
    <3>1. wk[r].phase # "none"
      BY <1>2 DEF Phase
    <3>2. \A x \in Prs : Known(x) \subseteq Known(x)'
      BY <2>3, <3>1 DEF Known
    <3> QED BY <2>1, <3>2 DEF ReviewsGrow
  <2>5. (\A x \in Prs, y \in Shas : Rests(heads[x][y], heads'[x][y])) /\ AllKept
    BY <2>1, RowsSame
  <2>6. AskWorker(r)'
    <3>1. wk'[r].trig = wk[r].trig /\ wk'[r].pc = "finish"
      BY <2>1, MovedRow
    <3>2. ~Swallows(r)'
      BY <1>4, <2>1, <2>2 DEF Swallows, Unmet, Full
    <3> QED BY <1>1, <2>4, <2>5, <3>1, <3>2, WorkerMoved
  <2>7. ASSUME NEW x \in Prs, NEW y \in Shas PROVE OnGitHub(x, y)'
    <3>1. OnGitHub(x, y)
      BY DEF AskInv, AskRows, AskRow
    <3>2. CASE x = p /\ y = s
      BY <2>1, <2>2, <2>3, <3>2 DEF OnGitHub
    <3>3. CASE ~(x = p /\ y = s)
      <4>1. reviewed'[x][y] = reviewed[x][y] /\ (y \in Known(x)' <=> y \in Known(x))
        BY <2>3, <3>3 DEF Known
      <4> QED BY <2>1, <3>1, <4>1 DEF OnGitHub
    <3> QED BY <3>2, <3>3
  <2>8. \A q \in RunIds : wk'[q] = wk[q] \/ AskWorker(q)'
    BY <2>1, <2>6, MovedRow
  <2>9. \A x \in Prs, y \in Shas : /\ Unasked(heads[x][y], heads'[x][y]) /\ Rests(heads[x][y], heads'[x][y])
                                   /\ y \in owed'[x] => y \in owed[x]
    BY <1>1, <2>5 DEF Rests
  <2> QED BY <1>3, <2>4, <2>7, <2>8, <2>9, AskRests
<1>9. CASE WkRetire(r)
  <2>1. /\ wk[r].pc = "retire" /\ Goto(r, "finish") /\ UNCHANGED <<posted, reviewed>>
        /\ heads' = [heads EXCEPT ![p] = RetireHead(heads[p], s, wk[r].out)]
    BY <1>9 DEF WkRetire
  <2>2. wk[r].out \in {"superseded", "closed"}
    BY <2>1 DEF Bound
  <2> DEFINE hs == RetireHead(heads[p], s, wk[r].out)
  <2>3. \A x \in Shas : Rests(heads[p][x], hs[x])
    BY <1>2, <2>2, RetireRests
  <2> HIDE DEF hs
  <2>4. \A x \in Prs, y \in Shas : Rests(heads[x][y], heads'[x][y])
    <3>1. \A x \in Prs : heads'[x] = IF x = p THEN hs ELSE heads[x]
      BY <2>1 DEF TypeOK, hs
    <3> QED BY <2>3, <3>1, RestsItself
  <2>5. AllKept
    BY <2>4 DEF Rests, Unasked, AllKept
  <2>6. /\ wk'[r].pc = "finish" /\ wk'[r].trig = wk[r].trig /\ wk'[r].out # "done"
        /\ \A q \in RunIds : q # r => wk'[q] = wk[q]
    BY <2>1, <2>2, MovedRow
  <2> QED BY <1>5, <2>1, <2>4, <2>5, <2>6
<1>10. ASSUME NEW yes \in BOOLEAN, WkAudit(r, yes) PROVE AskInv'
  <2> DEFINE row == [heads[p][s] EXCEPT !.status = "queued", !.attempts = 0, !.due = TRUE]
  <2>1. /\ UNCHANGED heads \/ heads' = [heads EXCEPT ![p][s] = row]
        /\ UNCHANGED <<posted, reviewed>> /\ Ends(r, "done", "infra") /\ wk[r].trig = "audit"
    <3>1. \/ UNCHANGED heads
          \/ heads' = [heads EXCEPT ![p][s] = [@ EXCEPT !.status = "queued", !.attempts = 0, !.due = TRUE]]
      BY <1>10 DEF WkAudit
    <3>2. UNCHANGED heads \/ heads' = [heads EXCEPT ![p][s] = row]
      BY <1>2, <3>1 DEF TypeOK
    <3> QED BY <1>10, <3>2 DEF WkAudit, IsAudit
  <2>2. Rests(heads[p][s], row)
    <3>1. /\ row.status = "queued" /\ row.trig = heads[p][s].trig /\ row.audit = heads[p][s].audit
          /\ row.id = heads[p][s].id /\ row.carried = heads[p][s].carried
      BY <1>2 DEF Head
    <3> HIDE DEF row
    <3> QED BY <3>1 DEF Rests, Unasked, Kept, Lifted
  <2> HIDE DEF row
  <2>3. (\A x \in Prs, y \in Shas : Rests(heads[x][y], heads'[x][y])) /\ AllKept
    BY <1>2, <2>1, <2>2, RowRests, RowsSame
  <2>4. heads[p][s].audit
    BY <1>1, <1>2, <2>1 DEF AskWorker
  <2>5. heads'[p][s].audit
    BY <1>2, <2>3, <2>4 DEF AllKept, Kept
  <2>6. wk'[r].pc = "finish" /\ wk'[r].trig = wk[r].trig /\ \A q \in RunIds : q # r => wk'[q] = wk[q]
    BY <2>1, MovedRow
  <2> QED BY <1>5, <2>1, <2>3, <2>5, <2>6
<1> QED BY <1>6, <1>7, <1>8, <1>9, <1>10

\* A step of the daemon or the operator that touches neither the workers nor the reviews.
LEMMA AskFrame ==
  ASSUME TypeOK, TypeOK', Bound, AskInv, UNCHANGED <<posted, reviewed, owed, wk>>,
         \A p \in Prs, s \in Shas : Rests(heads[p][s], heads'[p][s]),
         \A q \in RunIds : /\ runs'[q].pr = runs[q].pr /\ runs'[q].sha = runs[q].sha
                           /\ Active(q)' => Active(q) /\ (runs[q].again => runs'[q].again)
  PROVE  AskInv'
BY AskMoves

\* A cancel leaves each run's head, and what is noted for its end.
LEMMA CancelKeeps ==
  ASSUME TypeOK, NEW rs, RequestCancel(rs)
  PROVE  \A q \in RunIds : /\ runs'[q].pr = runs[q].pr /\ runs'[q].sha = runs[q].sha
                           /\ Active(q)' => Active(q) /\ (runs[q].again => runs'[q].again)
<1> SUFFICES ASSUME NEW q \in RunIds
             PROVE  /\ runs'[q].pr = runs[q].pr /\ runs'[q].sha = runs[q].sha
                    /\ Active(q)' => Active(q) /\ (runs[q].again => runs'[q].again)
  OBVIOUS
<1> DEFINE row == [runs[q] EXCEPT !.cancel = TRUE]
<1>1. /\ row.pr = runs[q].pr /\ row.sha = runs[q].sha /\ row.status = runs[q].status
      /\ row.again = runs[q].again
  BY DEF TypeOK, Run
<1>2. runs'[q] \in {runs[q], row}
  BY DEF RequestCancel
<1> HIDE DEF row
<1> QED BY <1>1, <1>2 DEF Active

\* Steps that ask nothing, answer nothing and end nothing.
LEMMA RestingStep ==
  ASSUME TypeOK, TypeOK', Bound, AskInv,
         \/ UNCHANGED vars \/ GitHubNext \/ SchedBegin \/ Spawn \/ WritePid \/ LiveEnds \/ AuditsEnd
         \/ DaemonCrash \/ \E r \in RunIds : SupersedeRun(r) \/ CliCancel(r)
         \/ \E r \in RunIds, w \in {"overdue", "exited", "hard"} : ReapSelect(r, w)
         \/ \E p \in Prs : IngestFetch(p) \/ RouteFetch(p) \/ CliRead(p)
         \/ \E p \in Prs, s \in Shas : BecomesDue(p, s) \/ CliRetry(p, s)
  PROVE  AskInv'
<1>1. ASSUME UNCHANGED <<posted, reviewed, owed, wk, heads, runs>> PROVE AskInv'
  <2>1. \A p \in Prs, s \in Shas : Rests(heads[p][s], heads'[p][s])
    BY <1>1, RowsSame
  <2>2. \A q \in RunIds : /\ runs'[q].pr = runs[q].pr /\ runs'[q].sha = runs[q].sha
                          /\ Active(q)' => Active(q) /\ (runs[q].again => runs'[q].again)
    BY <1>1 DEF Active
  <2> QED BY <1>1, <2>1, <2>2, AskFrame
<1>2. CASE UNCHANGED vars
  BY <1>1, <1>2 DEF vars, db, history
<1>3. CASE GitHubNext
  <2>1. UNCHANGED <<posted, reviewed, owed, wk, heads, runs>>
    BY <1>3 DEF GitHubNext, Created, Push, BaseMoves, FlipDraft, FlipLabel, Merge, Write, db, history
  <2> QED BY <1>1, <2>1
<1>4. CASE SchedBegin \/ LiveEnds \/ AuditsEnd \/ DaemonCrash
  <2>1. UNCHANGED <<posted, reviewed, owed, wk, heads, runs>>
    BY <1>4 DEF SchedBegin, LiveEnds, AuditsEnd, DaemonCrash, db, history
  <2> QED BY <1>1, <2>1
<1>5. CASE \E p \in Prs : IngestFetch(p) \/ RouteFetch(p) \/ CliRead(p)
  <2>1. UNCHANGED <<posted, reviewed, owed, wk, heads, runs>>
    BY <1>5 DEF IngestFetch, RouteFetch, Fetch, CliRead, db, history
  <2> QED BY <1>1, <2>1
<1>6. CASE \E r \in RunIds, w \in {"overdue", "exited", "hard"} : ReapSelect(r, w)
  <2>1. UNCHANGED <<posted, reviewed, owed, wk, heads, runs>>
    BY <1>6 DEF ReapSelect, db, history
  <2> QED BY <1>1, <2>1
<1>7. CASE Spawn
  <2>1. /\ UNCHANGED <<posted, reviewed, owed, heads, runs>>
        /\ wk' = [wk EXCEPT ![cur] = [NoWorker EXCEPT !.pc = "boot"]]
    BY <1>7 DEF Spawn, db, history
  <2>2. \A p \in Prs, s \in Shas : Rests(heads[p][s], heads'[p][s])
    BY <2>1, RowsSame
  <2>3. [NoWorker EXCEPT !.pc = "boot"].pc = "boot" /\ [NoWorker EXCEPT !.pc = "boot"].trig = "new"
    BY DEF NoWorker
  <2>4. \A q \in RunIds : wk'[q] = wk[q] \/ (wk'[q].pc = "boot" /\ wk'[q].trig = "new")
    BY <2>1, <2>3 DEF TypeOK
  <2>5. \A q \in RunIds : wk'[q] = wk[q] \/ AskWorker(q)'
    BY <2>4 DEF AskWorker, Swallows
  <2>6. \A q \in RunIds : /\ runs'[q].pr = runs[q].pr /\ runs'[q].sha = runs[q].sha
                          /\ Active(q)' => Active(q) /\ (runs[q].again => runs'[q].again)
    BY <2>1 DEF Active
  <2> QED BY <2>1, <2>2, <2>5, <2>6, AskMoves
<1>8. CASE WritePid
  <2> DEFINE row == [runs[cur] EXCEPT !.pid = TRUE]
  <2>1. UNCHANGED <<posted, reviewed, owed, wk, heads>> /\ runs' = [runs EXCEPT ![cur] = row] /\ cur \in RunIds
    BY <1>8 DEF WritePid, Bound, history
  <2>2. /\ row.pr = runs[cur].pr /\ row.sha = runs[cur].sha /\ row.status = runs[cur].status
        /\ row.again = runs[cur].again
    BY <2>1 DEF TypeOK, Run
  <2> HIDE DEF row
  <2>3. \A q \in RunIds : /\ runs'[q].pr = runs[q].pr /\ runs'[q].sha = runs[q].sha
                          /\ Active(q)' => Active(q) /\ (runs[q].again => runs'[q].again)
    BY <2>1, <2>2 DEF Active, TypeOK
  <2>4. \A p \in Prs, s \in Shas : Rests(heads[p][s], heads'[p][s])
    BY <2>1, RowsSame
  <2> QED BY <2>1, <2>3, <2>4, AskFrame
<1>9. ASSUME NEW r \in RunIds, SupersedeRun(r) \/ CliCancel(r) PROVE AskInv'
  <2>1. UNCHANGED <<posted, reviewed, owed, wk, heads>> /\ RequestCancel({r})
    BY <1>9 DEF SupersedeRun, CliCancel, history
  <2>2. \A p \in Prs, s \in Shas : Rests(heads[p][s], heads'[p][s])
    BY <2>1, RowsSame
  <2> QED BY <2>1, <2>2, CancelKeeps, AskFrame
<1>10. ASSUME NEW p \in Prs, NEW s \in Shas, BecomesDue(p, s) \/ CliRetry(p, s) PROVE AskInv'
  <2>1. PICK row \in {[heads[p][s] EXCEPT !.due = TRUE],
                      [heads[p][s] EXCEPT !.status = "queued", !.attempts = 0, !.due = TRUE, !.barred = FALSE]} :
          heads' = [heads EXCEPT ![p][s] = row] /\ (row.status = heads[p][s].status \/ row.status = "queued")
    <3>1. CASE BecomesDue(p, s)
      <4>1. heads' = [heads EXCEPT ![p][s] = [heads[p][s] EXCEPT !.due = TRUE]]
        BY <3>1 DEF BecomesDue, TypeOK
      <4>2. [heads[p][s] EXCEPT !.due = TRUE].status = heads[p][s].status
        BY DEF TypeOK, Head
      <4> QED BY <4>1, <4>2
    <3>2. CASE CliRetry(p, s)
      <4> DEFINE row == [heads[p][s] EXCEPT !.status = "queued", !.attempts = 0, !.due = TRUE, !.barred = FALSE]
      <4>1. heads' = [heads EXCEPT ![p][s] = row]
        BY <3>2 DEF CliRetry, TypeOK
      <4>2. row.status = "queued"
        BY DEF TypeOK, Head
      <4> QED BY <4>1, <4>2
    <3> QED BY <1>10, <3>1, <3>2
  <2>2. /\ row.trig = heads[p][s].trig /\ row.audit = heads[p][s].audit
        /\ row.id = heads[p][s].id /\ row.carried = heads[p][s].carried
        /\ row.status = "queued" \/ row.barred = heads[p][s].barred
    <3>1. heads[p][s] \in Head
      BY DEF TypeOK
    <3> QED BY <3>1 DEF Head
  <2>3. Rests(heads[p][s], row)
    BY <2>1, <2>2 DEF Rests, Unasked, Kept, Lifted
  <2>4. \A x \in Prs, y \in Shas : Rests(heads[x][y], heads'[x][y])
    BY <2>1, <2>3, RowRests
  <2>5. UNCHANGED <<posted, reviewed, owed, wk, runs>>
    BY <1>10 DEF BecomesDue, CliRetry, history
  <2>6. \A q \in RunIds : /\ runs'[q].pr = runs[q].pr /\ runs'[q].sha = runs[q].sha
                          /\ Active(q)' => Active(q) /\ (runs[q].again => runs'[q].again)
    BY <2>5 DEF Active
  <2> QED BY <2>4, <2>5, <2>6, AskFrame
<1> QED BY <1>2, <1>3, <1>4, <1>5, <1>6, <1>7, <1>8, <1>9, <1>10

\* enqueue_head: an accepted ask puts its head in line for it, and one that comes after the run
\* has carried a review is noted for the end of that run.
LEMMA EnqueueAsks ==
  ASSUME TypeOK, TypeOK', Bound, AskInv, NEW p \in Prs, NEW s \in Shas, NEW t \in Triggers \ {"audit"}, NEW e,
         e.reviewed = Known(p), e.active = Env(p).active, t = "ci" => s \in Known(p),
         EnqueueTx(p, s, t, e), UNCHANGED <<posted, reviewed, wk>>
  PROVE  AskInv'
<1> DEFINE q == Enqueue(heads[p], s, t, e)
           h == heads[p][s]
           g == q.hs[s]
<1>1. /\ \A x \in Shas \ {s} : Rests(heads[p][x], q.hs[x])
      /\ q.res = "noop" => q.hs = heads[p]
      /\ q.res # "noop" =>
           /\ Asked(h, g, t)
           /\ \/ g.status # "running" \/ h.trig = "ci" \/ CarriedFrom(heads[p], s, Known(p)) = NoSha
              \/ s \notin Env(p).active \/ q.again
  <2>1. heads[p] \in Rows
    BY DEF TypeOK, Rows
  <2> QED BY <2>1, EnqueueEffect
<1>2. /\ heads' = [heads EXCEPT ![p] = q.hs]
      /\ runs' = [r \in RunIds |-> IF q.again /\ Active(r) /\ runs[r].pr = p /\ runs[r].sha = s
                                   THEN [runs[r] EXCEPT !.again = TRUE] ELSE runs[r]]
      /\ owed' = IF q.res = "noop" \/ t \in Skippable THEN owed ELSE [owed EXCEPT ![p] = @ \cup {s}]
  BY DEF EnqueueTx
<1> HIDE DEF q
<1>3. \A x \in Prs : heads'[x] = IF x = p THEN q.hs ELSE heads[x]
  BY <1>2 DEF TypeOK
<1>4. \A r \in RunIds : /\ runs'[r].pr = runs[r].pr /\ runs'[r].sha = runs[r].sha
                        /\ runs'[r].status = runs[r].status /\ (runs[r].again => runs'[r].again)
                        /\ q.again /\ Active(r) /\ P(r) = p /\ S(r) = s => runs'[r].again
  <2> SUFFICES ASSUME NEW r \in RunIds
               PROVE  /\ runs'[r].pr = runs[r].pr /\ runs'[r].sha = runs[r].sha
                      /\ runs'[r].status = runs[r].status /\ (runs[r].again => runs'[r].again)
                      /\ q.again /\ Active(r) /\ P(r) = p /\ S(r) = s => runs'[r].again
    OBVIOUS
  <2> DEFINE row == [runs[r] EXCEPT !.again = TRUE]
  <2>1. row.pr = runs[r].pr /\ row.sha = runs[r].sha /\ row.status = runs[r].status /\ row.again
    BY DEF TypeOK, Run
  <2>2. runs'[r] = IF q.again /\ Active(r) /\ P(r) = p /\ S(r) = s THEN row ELSE runs[r]
    BY <1>2 DEF P, S
  <2> HIDE DEF row
  <2> QED BY <2>1, <2>2
<1>5. CASE q.res = "noop"
  <2>1. UNCHANGED <<owed, heads>>
    BY <1>1, <1>2, <1>5 DEF TypeOK
  <2>2. \A x \in Prs, y \in Shas : Rests(heads[x][y], heads'[x][y])
    BY <2>1, RowsSame
  <2> QED BY <1>4, <2>1, <2>2, AskFrame DEF Active
<1>6. CASE q.res # "noop"
  <2> DEFINE Other(x, y) == x # p \/ y # s
  <2>1. Asked(h, g, t) /\ heads'[p][s] = g
    BY <1>1, <1>3, <1>6
  <2>2. \A x \in Prs, y \in Shas : Other(x, y) => Rests(heads[x][y], heads'[x][y])
    BY <1>1, <1>3, RestsItself
  <2>3. \A x \in Prs, y \in Shas : Other(x, y) => (y \in owed'[x] => y \in owed[x])
    BY <1>2 DEF TypeOK
  <2> HIDE DEF g
  <2>4. AllKept
    <3>1. \A x \in Prs, y \in Shas : Other(x, y) => Kept(heads[x][y], heads'[x][y])
      BY <2>2 DEF Rests, Unasked
    <3>2. Kept(h, heads'[p][s])
      BY <2>1 DEF Asked
    <3> QED BY <3>1, <3>2 DEF AllKept
  <2>5. ReviewsGrow
    BY SameReviews
  <2>6. CarryInv'
    BY <2>4, <2>5, CarryKept DEF AskInv
  <2>7. AskRows'
    <3> SUFFICES ASSUME NEW x \in Prs, NEW y \in Shas PROVE AskRow(x, y)'
      BY DEF AskRows
    <3>1. AskRow(x, y)
      BY DEF AskInv, AskRows
    <3>2. CASE Other(x, y)
      BY <2>2, <3>1, <3>2, SameReviews DEF AskRow, Rests, Unasked
    <3>3. CASE ~Other(x, y)
      BY <2>1, <3>1, <3>3, SameReviews DEF AskRow, Asked
    <3> QED BY <3>2, <3>3
  <2>8. AskHeads'
    <3> SUFFICES ASSUME NEW x \in Prs, NEW y \in Shas, y \in owed'[x], Unmet(x, y)' PROVE AskHead(x, y)'
      BY DEF AskHeads, AskHead
    <3>1. CASE Other(x, y)
      <4>1. Rests(heads[x][y], heads'[x][y]) /\ y \in owed[x] /\ Unmet(x, y)
        BY <2>2, <2>3, <3>1, UnmetKept DEF Rests
      <4> QED BY <4>1 DEF AskInv, AskHeads, AskHead, Rests, Unasked
    <3>2. CASE ~Other(x, y)
      <4>1. t # "new"
        <5> SUFFICES ASSUME t = "new" PROVE FALSE
          OBVIOUS
        <5>1. s \in owed[p] /\ Unmet(p, s)
          <6>1. heads'[p][s].audit = FALSE /\ h.audit = FALSE
            <7>1. h.audit \in BOOLEAN /\ heads'[p][s].audit \in BOOLEAN
              BY DEF TypeOK, Head
            <7> QED BY <2>1, <7>1 DEF Asked
          <6>2. x = p /\ y = s
            BY <3>2
          <6>3. s \in owed[p]
            BY <1>2, <6>2 DEF Skippable, Automatic
          <6> QED BY <6>1, <6>2, <6>3, UnmetKept
        <5>2. h.status # "none" /\ ~Lifted(h)
          BY <5>1 DEF AskInv, AskHeads, AskHead
        <5> QED BY <2>1, <5>2 DEF Asked
      <4> QED BY <2>1, <3>2, <4>1 DEF AskHead, Asked, Open, Lifted, Automatic
    <3> QED BY <3>1, <3>2
  <2>9. ASSUME NEW r \in RunIds PROVE AskWorker(r)'
    <3>1. AskWorker(r)
      BY DEF AskInv, AskWorkers
    <3>2. ASSUME Alive(r), Swallows(r), Active(r)', HeadOf(r)'.status = "running", S(r)' \in owed'[P(r)']
          PROVE  \/ runs'[r].again
                 \/ /\ Active(r) /\ HeadOf(r).status = "running" /\ S(r) \in owed[P(r)]
                    /\ runs[r].again => runs'[r].again
      <4>1. /\ P(r) \in Prs /\ S(r) \in Shas /\ P(r)' = P(r) /\ S(r)' = S(r) /\ Active(r)
            /\ HeadOf(r) = heads[P(r)][S(r)] /\ HeadOf(r)' = heads'[P(r)][S(r)]
        BY <1>4, <3>2 DEF Alive, Bound, P, S, Active, HeadOf
      <4>2. CASE Other(P(r), S(r))
        BY <1>4, <2>2, <2>3, <3>2, <4>1, <4>2 DEF Rests, Unasked
      <4>3. CASE ~Other(P(r), S(r))
        <5>1. HeadOf(r) = h /\ HeadOf(r)' = g /\ g.status = "running" /\ h.status = "running"
          BY <2>1, <3>2, <4>1, <4>3 DEF Asked
        <5>2. ~Full(p, s) /\ ~h.audit /\ h.carried # NoSha
          BY <3>1, <3>2, <4>3, <5>1 DEF AskWorker, Swallows, Unmet
        <5>3. s \notin Known(p)
          BY <5>2, RecordedIsFull DEF AskInv, AskRows, AskRow
        <5>4. h.trig # "ci" /\ CarriedFrom(heads[p], s, Known(p)) # NoSha
          BY <5>2, <5>3 DEF AskInv, AskRows, AskRow, CarriedFrom
        <5>5. s \in Env(p).active
          BY <4>1, <4>3 DEF Env, ActiveRuns, P, S
        <5>6. q.again
          BY <1>1, <1>6, <5>1, <5>4, <5>5 DEF g
        <5> QED BY <1>4, <4>1, <4>3, <5>6
      <4> QED BY <4>2, <4>3
    <3> QED BY <1>4, <2>4, <2>5, <3>1, <3>2, WorkerKept DEF AskInv
  <2> QED BY <2>6, <2>7, <2>8, <2>9 DEF AskInv, AskWorkers
<1> QED BY <1>5, <1>6

\* What a poll finds closes, skips or supersedes rows, and asks for a new head.
LEMMA IngestAsks ==
  ASSUME TypeOK, TypeOK', Bound, AskInv, IngestApply
  PROVE  AskInv'
<1> DEFINE p == seen.pr
           s == seen.sha
<1>1. /\ p \in Prs /\ s \in Shas /\ heads[p] \in Rows
      /\ UNCHANGED <<posted, reviewed, wk>>
  BY DEF IngestApply, Bound, TypeOK, Rows
<1>2. ASSUME NEW hs, heads' = [heads EXCEPT ![p] = hs], UNCHANGED runs,
             \A x \in Prs, y \in Shas : y \in owed'[x] => y \in owed[x],
             \A y \in Shas : /\ Unasked(heads[p][y], hs[y])
                             /\ \/ Rests(heads[p][y], hs[y])
                                \/ heads[p][y].trig \in Skippable \/ y \notin owed'[p]
      PROVE  AskInv'
  <2>1. \A x \in Prs : heads'[x] = IF x = p THEN hs ELSE heads[x]
    BY <1>2 DEF TypeOK
  <2>2. \A y \in Shas : \A x \in Prs \ {p} : Rests(heads[x][y], heads'[x][y])
    BY <2>1, RestsItself
  <2>3. \A x \in Prs, y \in Shas :
          /\ Unasked(heads[x][y], heads'[x][y])
          /\ \/ Rests(heads[x][y], heads'[x][y])
             \/ heads[x][y].trig \in Skippable \/ y \notin owed'[x]
          /\ y \in owed'[x] => y \in owed[x]
          /\ OnGitHub(x, y)'
    <3> SUFFICES ASSUME NEW x \in Prs, NEW y \in Shas
                 PROVE  /\ Unasked(heads[x][y], heads'[x][y])
                        /\ \/ Rests(heads[x][y], heads'[x][y])
                           \/ heads[x][y].trig \in Skippable \/ y \notin owed'[x]
                        /\ y \in owed'[x] => y \in owed[x]
                        /\ OnGitHub(x, y)'
      OBVIOUS
    <3>1. OnGitHub(x, y)'
      BY <1>1, SameReviews DEF AskInv, AskRows, AskRow
    <3>2. CASE x = p
      BY <1>2, <2>1, <3>1, <3>2
    <3>3. CASE x # p
      BY <1>2, <2>2, <3>1, <3>3 DEF Rests
    <3> QED BY <3>2, <3>3
  <2>4. ReviewsGrow
    BY <1>1, SameReviews
  <2>5. \A r \in RunIds : /\ runs'[r].pr = runs[r].pr /\ runs'[r].sha = runs[r].sha
                          /\ Active(r)' => Active(r) /\ (runs[r].again => runs'[r].again)
                          /\ wk'[r] = wk[r] \/ AskWorker(r)'
    BY <1>1, <1>2 DEF Active
  <2> QED BY <2>3, <2>4, <2>5, AskRests
<1>3. \/ UNCHANGED <<heads, runs, owed>>
      \/ UNCHANGED <<runs, owed>> /\ heads' = [heads EXCEPT ![p] = CloseHeads(heads[p], NoSha, FALSE)]
      \/ UNCHANGED <<runs, owed>> /\ heads' = [heads EXCEPT ![p] = SkipHeads(heads[p], s)]
      \/ /\ UNCHANGED runs /\ heads' = [heads EXCEPT ![p] = CloseHeads(heads[p], s, TRUE)]
         /\ owed' = [owed EXCEPT ![p] = {x \in owed[p] : CloseHeads(heads[p], s, TRUE)[x].status # "closed"}]
      \/ EnqueueTx(p, s, "new", [Env(p) EXCEPT !.label = FALSE])
  BY DEF IngestApply
<1>4. CASE UNCHANGED <<heads, runs, owed>>
  <2>1. \A x \in Prs, y \in Shas : Rests(heads[x][y], heads'[x][y])
    BY <1>4, RowsSame
  <2> QED BY <1>1, <1>4, <2>1, AskFrame DEF Active
<1>5. CASE UNCHANGED <<runs, owed>> /\ heads' = [heads EXCEPT ![p] = CloseHeads(heads[p], NoSha, FALSE)]
  <2>1. \A y \in Shas : /\ Unasked(heads[p][y], CloseHeads(heads[p], NoSha, FALSE)[y])
                        /\ Rests(heads[p][y], CloseHeads(heads[p], NoSha, FALSE)[y])
    BY <1>1, CloseRests
  <2> HIDE DEF p
  <2> QED BY <1>2, <1>5, <2>1
<1>6. CASE UNCHANGED <<runs, owed>> /\ heads' = [heads EXCEPT ![p] = SkipHeads(heads[p], s)]
  <2>1. \A y \in Shas : /\ Unasked(heads[p][y], SkipHeads(heads[p], s)[y])
                        /\ Rests(heads[p][y], SkipHeads(heads[p], s)[y]) \/ heads[p][y].trig \in Skippable
    BY <1>1, SkipRests
  <2> HIDE DEF p, s
  <2> QED BY <1>2, <1>6, <2>1
<1>7. CASE /\ UNCHANGED runs /\ heads' = [heads EXCEPT ![p] = CloseHeads(heads[p], s, TRUE)]
           /\ owed' = [owed EXCEPT ![p] = {x \in owed[p] : CloseHeads(heads[p], s, TRUE)[x].status # "closed"}]
  <2> DEFINE hs == CloseHeads(heads[p], s, TRUE)
  <2>1. \A y \in Shas : /\ Unasked(heads[p][y], hs[y])
                        /\ Rests(heads[p][y], hs[y]) \/ hs[y].status = "closed"
    BY <1>1, CloseRests
  <2>2. heads' = [heads EXCEPT ![p] = hs] /\ owed' = [owed EXCEPT ![p] = {x \in owed[p] : hs[x].status # "closed"}]
    BY <1>7
  <2> HIDE DEF hs, p
  <2>3. \A x \in Prs : owed'[x] = IF x = p THEN {y \in owed[p] : hs[y].status # "closed"} ELSE owed[x]
    BY <2>2 DEF TypeOK
  <2>4. \A x \in Prs, y \in Shas : y \in owed'[x] => y \in owed[x]
    BY <2>3
  <2>5. \A y \in Shas : /\ Unasked(heads[p][y], hs[y])
                        /\ \/ Rests(heads[p][y], hs[y])
                           \/ heads[p][y].trig \in Skippable \/ y \notin owed'[p]
    BY <1>1, <2>1, <2>3
  <2>6. UNCHANGED runs
    BY <1>7
  <2>7. heads' = [heads EXCEPT ![p] = hs]
    BY <2>2
  <2> QED BY <1>2, <2>4, <2>5, <2>6, <2>7
<1>8. CASE EnqueueTx(p, s, "new", [Env(p) EXCEPT !.label = FALSE])
  <2> DEFINE e == [Env(p) EXCEPT !.label = FALSE]
  <2>1. "new" \in Triggers \ {"audit"} /\ e.reviewed = Known(p) /\ e.active = Env(p).active
    BY DEF Triggers, Env
  <2> HIDE DEF e
  <2>2. EnqueueTx(p, s, "new", e)
    BY <1>8 DEF e
  <2> QED BY <1>1, <2>1, <2>2, EnqueueAsks
<1> QED BY <1>3, <1>4, <1>5, <1>6, <1>7, <1>8

\* finish_run: an ask that the run did not answer is still in line, or given up on, at its end.
LEMMA FinishAsks ==
  ASSUME TypeOK, TypeOK', Bound, AskInv, NEW r \in RunIds, NEW end \in EndStatus, NEW kind, FinishRun(r, end, kind),
         end = "done" => wk[r].pc = "finish" /\ wk[r].out = "done", UNCHANGED <<posted, reviewed, owed>>,
         \A q \in RunIds : wk'[q] = wk[q] \/ wk'[q].pc = "gone"
  PROVE  AskInv'
<1>1. \A q \in RunIds : wk'[q] = wk[q] \/ AskWorker(q)'
  BY DEF AskWorker, Alive
<1>2. CASE ~Active(r)
  <2>1. UNCHANGED <<runs, heads>>
    BY <1>2 DEF FinishRun
  <2>2. \A p \in Prs, s \in Shas : Rests(heads[p][s], heads'[p][s])
    BY <2>1, RowsSame
  <2>3. \A q \in RunIds : /\ runs'[q].pr = runs[q].pr /\ runs'[q].sha = runs[q].sha
                          /\ Active(q)' => Active(q) /\ (runs[q].again => runs'[q].again)
    BY <2>1 DEF Active
  <2> QED BY <1>1, <2>2, <2>3, AskMoves
<1>3. CASE Active(r)
  <2> DEFINE p == P(r)
             s == S(r)
             h == heads[p][s]
             hs == FinishHead(heads[p], s, end, kind, runs[r].again, Env(p))
             b == runs[r].again /\ ~(end = "done" /\ HeadOf(r).status = "running")
             row == [runs[r] EXCEPT !.status = end, !.again = b]
             Other(x, y) == x # p \/ y # s
  <2>1. p \in Prs /\ s \in Shas /\ heads[p] \in Rows /\ h = HeadOf(r)
    BY <1>3 DEF Active, ActiveStatus, Bound, TypeOK, Rows, P, S, HeadOf
  <2>2. heads' = [heads EXCEPT ![p] = hs] /\ runs' = [runs EXCEPT ![r] = row]
    BY <1>3 DEF FinishRun, P, S
  <2>3. /\ \A x \in Shas \ {s} : Rests(heads[p][x], hs[x])
        /\ Kept(h, hs[s]) /\ hs[s].audit = h.audit /\ hs[s].trig \in {h.trig, "manual"}
        /\ \/ hs = heads[p] \/ hs[s].status \in {"queued", "failed"}
           \/ /\ hs[s].status = "done"
              /\ \/ h.trig = "ci"
                 \/ h.status = "running" /\ end = "done" /\ (runs[r].again => h.audit)
    BY <2>1, FinishEffect
  <2>4. row.pr = runs[r].pr /\ row.sha = runs[r].sha /\ row.status = end
    BY DEF TypeOK, Run
  <2> HIDE DEF hs, row, b
  <2>5. \A x \in Prs : heads'[x] = IF x = p THEN hs ELSE heads[x]
    BY <2>2 DEF TypeOK
  <2>6. \A q \in RunIds : /\ runs'[q].pr = runs[q].pr /\ runs'[q].sha = runs[q].sha
                          /\ Active(q)' => Active(q) /\ runs'[q] = runs[q]
    <3>1. \A q \in RunIds : runs'[q] = IF q = r THEN row ELSE runs[q]
      BY <2>2 DEF TypeOK
    <3> QED BY <2>4, <3>1 DEF Active, ActiveStatus, EndStatus
  <2>7. \A x \in Prs, y \in Shas : Other(x, y) => Rests(heads[x][y], heads'[x][y])
    BY <2>3, <2>5, RestsItself
  <2>8. AllKept
    <3>1. \A x \in Prs, y \in Shas : Other(x, y) => Kept(heads[x][y], heads'[x][y])
      BY <2>7 DEF Rests, Unasked
    <3>2. Kept(h, heads'[p][s])
      BY <2>1, <2>3, <2>5
    <3> QED BY <3>1, <3>2 DEF AllKept
  <2>9. ReviewsGrow
    BY SameReviews
  <2>10. CarryInv'
    BY <2>8, <2>9, CarryKept DEF AskInv
  <2>11. AskRows'
    <3> SUFFICES ASSUME NEW x \in Prs, NEW y \in Shas PROVE AskRow(x, y)'
      BY DEF AskRows
    <3>1. AskRow(x, y)
      BY DEF AskInv, AskRows
    <3>2. CASE Other(x, y)
      BY <2>7, <3>1, <3>2, SameReviews DEF AskRow, Rests, Unasked
    <3>3. CASE ~Other(x, y)
      BY <2>3, <2>5, <3>1, <3>3, SameReviews DEF AskRow
    <3> QED BY <3>2, <3>3
  <2>12. AskHeads'
    <3> SUFFICES ASSUME NEW x \in Prs, NEW y \in Shas, y \in owed'[x], Unmet(x, y)' PROVE AskHead(x, y)'
      BY DEF AskHeads, AskHead
    <3>1. CASE Other(x, y)
      <4>1. Rests(heads[x][y], heads'[x][y]) /\ y \in owed[x] /\ Unmet(x, y)
        BY <2>7, <3>1, UnmetKept DEF Rests
      <4> QED BY <4>1 DEF AskInv, AskHeads, AskHead, Rests, Unasked
    <3>2. CASE ~Other(x, y)
      <4>1. Unmet(p, s) /\ s \in owed[p] /\ heads'[p][s] = hs[s]
        BY <2>1, <2>3, <2>5, <3>2, UnmetKept
      <4>2. h.trig \notin Automatic /\ h.status \notin {"none", "done"} /\ ~Lifted(h)
        BY <2>1, <4>1 DEF AskInv, AskHeads, AskHead
      <4>3. h.trig # "ci"
        BY <2>1, <4>1, RecordedIsFull DEF AskInv, AskRows, AskRow, Unmet
      <4>4. ~(h.status = "running" /\ end = "done" /\ (runs[r].again => h.audit))
        <5> SUFFICES ASSUME h.status = "running", end = "done", runs[r].again => h.audit PROVE FALSE
          OBVIOUS
        <5>1. AskWorker(r) /\ Alive(r) /\ Swallows(r)
          BY <4>1 DEF AskInv, AskWorkers, Alive, Swallows
        <5>2. runs[r].again
          BY <1>3, <2>1, <4>1, <5>1 DEF AskWorker
        <5> QED BY <2>1, <4>1, <5>2 DEF Unmet
      <4>5. hs[s] = h \/ hs[s].status \in {"queued", "failed"}
        BY <2>3, <4>3, <4>4
      <4>6. hs[s].trig \notin Automatic
        BY <2>3, <4>2 DEF Automatic
      <4> QED BY <3>2, <4>1, <4>2, <4>5, <4>6 DEF AskHead, Lifted
    <3> QED BY <3>1, <3>2
  <2>13. ASSUME NEW q \in RunIds PROVE AskWorker(q)'
    <3>1. AskWorker(q)
      BY DEF AskInv, AskWorkers
    <3>2. ASSUME Alive(q), Active(q)', HeadOf(q)'.status = "running"
          PROVE  Active(q) /\ HeadOf(q).status = "running" /\ runs'[q] = runs[q] /\ P(q)' = P(q) /\ S(q)' = S(q)
      <4>1. /\ P(q) \in Prs /\ S(q) \in Shas /\ P(q)' = P(q) /\ S(q)' = S(q) /\ Active(q) /\ runs'[q] = runs[q]
            /\ HeadOf(q) = heads[P(q)][S(q)] /\ HeadOf(q)' = heads'[P(q)][S(q)]
        BY <2>6, <3>2 DEF Alive, Bound, P, S, HeadOf
      <4>2. HeadOf(q).status = "running"
        <5>1. CASE Other(P(q), S(q))
          BY <2>7, <3>2, <4>1, <5>1 DEF Rests, Unasked
        <5>2. CASE ~Other(P(q), S(q))
          <6>1. hs[s].status = "running"
            BY <2>5, <3>2, <4>1, <5>2
          <6>2. hs = heads[p]
            BY <2>3, <6>1
          <6> QED BY <4>1, <5>2, <6>1, <6>2
        <5> QED BY <5>1, <5>2
      <4> QED BY <4>1, <4>2
    <3>3. CASE wk'[q] = wk[q]
      BY <2>6, <2>8, <2>9, <3>1, <3>2, <3>3, WorkerKept DEF AskInv
    <3> QED BY <1>1, <3>3
  <2> QED BY <2>10, <2>11, <2>12, <2>13 DEF AskInv, AskWorkers
<1> QED BY <1>2, <1>3

\* The ends of runs: the reaper's, that of a spawn that failed, and the worker's own.
LEMMA EndingStep ==
  ASSUME TypeOK, TypeOK', Bound, AskInv, ReapAct \/ SpawnFails \/ \E r \in RunIds : WkFinish(r)
  PROVE  AskInv'
<1>1. Gone.pc = "gone"
  BY DEF Gone, NoWorker
<1>2. CASE ReapAct
  <2>1. /\ cur \in RunIds /\ FinishRun(cur, ReapEnd[why], "infra") /\ UNCHANGED <<posted, reviewed, owed>>
        /\ wk' \in {wk, [wk EXCEPT ![cur] = Gone]}
    BY <1>2 DEF ReapAct, Bound, history
  <2>2. ReapEnd[why] \in EndStatus /\ ReapEnd[why] # "done"
    BY DEF TypeOK, ReapEnd, EndStatus
  <2>3. \A q \in RunIds : wk'[q] = wk[q] \/ wk'[q].pc = "gone"
    BY <1>1, <2>1 DEF TypeOK
  <2> QED BY <2>1, <2>2, <2>3, FinishAsks
<1>3. CASE SpawnFails
  <2>1. cur \in RunIds /\ FinishRun(cur, "failed", "infra") /\ UNCHANGED <<posted, reviewed, owed, wk>>
    BY <1>3 DEF SpawnFails, Bound, history
  <2>2. "failed" \in EndStatus
    BY DEF EndStatus
  <2> QED BY <2>1, <2>2, FinishAsks
<1>4. ASSUME NEW r \in RunIds, WkFinish(r) PROVE AskInv'
  <2>1. /\ wk[r].pc = "finish" /\ FinishRun(r, EndOf(wk[r].out), wk[r].kind)
        /\ wk' = [wk EXCEPT ![r] = Gone] /\ UNCHANGED <<posted, reviewed, owed>>
    BY <1>4 DEF WkFinish, history
  <2>2. EndOf(wk[r].out) \in EndStatus /\ (EndOf(wk[r].out) = "done" => wk[r].out = "done")
    BY DEF EndOf, TypeOK, Worker, Outcome, EndStatus
  <2>3. \A q \in RunIds : wk'[q] = wk[q] \/ wk'[q].pc = "gone"
    BY <1>1, <2>1 DEF TypeOK
  <2> QED BY <2>1, <2>2, <2>3, FinishAsks
<1> QED BY <1>2, <1>3, <1>4

\* Requests: a box ticked, a failed check, a mention or a reply, the operator's enqueue.
LEMMA AskingStep ==
  ASSUME TypeOK, TypeOK', Bound, AskInv,
         \/ CliEnqueue \/ \E t \in {"mention", "reply"} : RouteApply(t)
         \/ \E p \in Prs : CiFailed(p) \/ \E t \in {"manual", "normal"} : BoxTicked(p, t)
  PROVE  AskInv'
<1>1. \A p \in Prs : Env(p).reviewed = Known(p)
  BY DEF Env
<1>2. {"manual", "normal", "mention", "reply", "ci"} \subseteq Triggers \ {"audit"}
  BY DEF Triggers
<1>3. CASE CliEnqueue
  <2>1. /\ cli.pr \in Prs /\ cli.sha \in Shas /\ EnqueueTx(cli.pr, cli.sha, "manual", Env(cli.pr))
        /\ UNCHANGED <<posted, reviewed, wk>>
    BY <1>3 DEF CliEnqueue, Bound
  <2> QED BY <1>1, <1>2, <2>1, EnqueueAsks
<1>4. ASSUME NEW t \in {"mention", "reply"}, RouteApply(t) PROVE AskInv'
  <2>1. /\ seen.pr \in Prs /\ seen.sha \in Shas /\ UNCHANGED <<posted, reviewed, wk>>
        /\ UNCHANGED <<heads, runs, owed>> \/ EnqueueTx(seen.pr, seen.sha, t, Env(seen.pr))
    BY <1>4 DEF RouteApply, Bound
  <2>2. CASE UNCHANGED <<heads, runs, owed>>
    <3>1. \A x \in Prs, y \in Shas : Rests(heads[x][y], heads'[x][y])
      BY <2>2, RowsSame
    <3> QED BY <2>1, <2>2, <3>1, AskFrame DEF Active
  <2>3. CASE EnqueueTx(seen.pr, seen.sha, t, Env(seen.pr))
    BY <1>1, <1>2, <2>1, <2>3, EnqueueAsks
  <2> QED BY <2>1, <2>2, <2>3
<1>5. ASSUME NEW p \in Prs, CiFailed(p) PROVE AskInv'
  <2>1. PICK t \in {"manual", "ci"} :
          /\ EnqueueTx(p, prs[p].sha, t, Env(p)) /\ (t = "ci" => prs[p].sha \in Known(p))
          /\ prs[p].state = "open" /\ UNCHANGED <<posted, reviewed, wk>>
    BY <1>5 DEF CiFailed
  <2>2. prs[p].sha \in Shas
    BY <2>1 DEF Bound
  <2> QED BY <1>1, <1>2, <2>1, <2>2, EnqueueAsks
<1>6. ASSUME NEW p \in Prs, NEW t \in {"manual", "normal"}, BoxTicked(p, t) PROVE AskInv'
  <2>1. /\ EnqueueTx(p, prs[p].sha, t, Env(p)) /\ prs[p].state = "open"
        /\ UNCHANGED <<posted, reviewed, wk>>
    BY <1>6 DEF BoxTicked, Offered
  <2>2. prs[p].sha \in Shas
    BY <2>1 DEF Bound
  <2> QED BY <1>1, <1>2, <2>1, <2>2, EnqueueAsks
<1> QED BY <1>3, <1>4, <1>5, <1>6

\* A merged PR's head becomes the audit's: what was asked of it is the audit's to answer.
LEMMA AuditAsks ==
  ASSUME TypeOK, TypeOK', Bound, AskInv, NEW p \in Prs, NEW mode, AuditMerged(p, mode)
  PROVE  AskInv'
<1> DEFINE s == gh[p].sha
           h == heads[p][s]
           n == IF h.status = "none" THEN NextId(heads[p]) ELSE h.id
           row == [h EXCEPT !.status = "queued", !.trig = "audit", !.audit = TRUE, !.prio = FALSE,
                            !.attempts = 0, !.due = TRUE, !.barred = FALSE, !.id = n]
           Other(x, y) == x # p \/ y # s
<1>1. s \in Shas /\ h \in Head
  BY DEF TypeOK, Pull
<1>2. /\ UNCHANGED <<posted, reviewed, owed, wk>> /\ RequestCancel({r \in RunIds : runs[r].pr = p})
      /\ heads' = [heads EXCEPT ![p][s] = row]
  BY DEF AuditMerged, history
<1> HIDE DEF n
<1>3. /\ row.status = "queued" /\ row.trig = "audit" /\ row.audit /\ row.carried = h.carried
      /\ row.id = n
  BY <1>1 DEF Head
<1>4. Kept(h, row)
  BY <1>3 DEF Kept, n
<1> HIDE DEF row
<1>5. \A x \in Prs, y \in Shas : heads'[x][y] = IF Other(x, y) THEN heads[x][y] ELSE row
  BY <1>2 DEF TypeOK
<1>6. AllKept /\ ReviewsGrow
  BY <1>2, <1>4, <1>5, RestsItself, SameReviews DEF AllKept, Rests, Unasked
<1>7. CarryInv'
  BY <1>6, CarryKept DEF AskInv
<1>8. AskRows'
  BY <1>2, <1>3, <1>5, SameReviews DEF AskInv, AskRows, AskRow
<1>9. AskHeads'
  <2> SUFFICES ASSUME NEW x \in Prs, NEW y \in Shas, y \in owed'[x], Unmet(x, y)' PROVE AskHead(x, y)'
    BY DEF AskHeads, AskHead
  <2>1. Other(x, y)
    BY <1>3, <1>5 DEF Unmet
  <2>2. heads'[x][y] = heads[x][y]
    BY <1>5, <2>1
  <2>3. Unmet(x, y) /\ y \in owed[x]
    BY <1>2, <2>2, UnmetKept
  <2> QED BY <2>2, <2>3 DEF AskInv, AskHeads, AskHead
<1>10. ASSUME NEW q \in RunIds PROVE AskWorker(q)'
  <2>1. AskWorker(q)
    BY DEF AskInv, AskWorkers
  <2>2. /\ runs'[q].pr = runs[q].pr /\ runs'[q].sha = runs[q].sha
        /\ Active(q)' => Active(q) /\ (runs[q].again => runs'[q].again)
    BY <1>2, CancelKeeps
  <2>3. ASSUME Alive(q), Active(q)', HeadOf(q)'.status = "running"
        PROVE  Active(q) /\ HeadOf(q).status = "running" /\ P(q)' = P(q) /\ S(q)' = S(q)
    <3>1. /\ P(q) \in Prs /\ S(q) \in Shas /\ P(q)' = P(q) /\ S(q)' = S(q)
          /\ HeadOf(q) = heads[P(q)][S(q)] /\ HeadOf(q)' = heads'[P(q)][S(q)]
      BY <2>2, <2>3 DEF Alive, Bound, P, S, HeadOf
    <3> QED BY <1>3, <1>5, <2>2, <2>3, <3>1
  <2> QED BY <1>2, <1>6, <2>1, <2>2, <2>3, WorkerKept DEF AskInv
<1> QED BY <1>7, <1>8, <1>9, <1>10 DEF AskInv, AskWorkers

\* A run that starts finds no worker of its own, and no other run of its head at work.
LEMMA StartAsks ==
  ASSUME IInv, AskInv, NEW r \in RunIds, NEW x \in Candidates, StartRun(x, r)
  PROVE  AskInv'
<1>1. TypeOK /\ Bound /\ TypeOK'
  BY StartStep DEF IInv
<1>2. /\ \A q \in ActiveRuns : runs[q].pr # x.pr
      /\ x.pr \in Prs /\ runs[r].status = "none" /\ \A q \in RunIds : q # r => runs'[q] = runs[q]
  BY StartStep
<1> DEFINE p == x.pr
           s == x.sha
           h == heads[p][s]
           row == StartHead(h, x.attempts)
           Other(y, z) == y # p \/ z # s
<1>3. s \in Shas /\ h \in Head
  BY <1>1, <1>2 DEF Candidates, TypeOK, Plan, Pick
<1>4. UNCHANGED <<posted, reviewed, owed, wk>> /\ heads' = [heads EXCEPT ![p][s] = row]
  BY <1>1, <1>2, <1>3 DEF StartRun, history, TypeOK
<1>5. /\ row.status = "running" /\ row.trig = h.trig /\ row.audit = h.audit
      /\ row.id = h.id /\ row.carried = h.carried
  BY <1>3 DEF StartHead, Head
<1> HIDE DEF row
<1>6. \A y \in Prs, z \in Shas : heads'[y][z] = IF Other(y, z) THEN heads[y][z] ELSE row
  BY <1>1, <1>2, <1>3, <1>4 DEF TypeOK
<1>7. Kept(h, row)
  BY <1>5 DEF Kept
<1>8. AllKept /\ ReviewsGrow
  BY <1>4, <1>6, <1>7, RestsItself, SameReviews DEF AllKept, Rests, Unasked
<1>9. CarryInv'
  BY <1>1, <1>8, CarryKept DEF AskInv
<1>10. AskRows'
  <2> SUFFICES ASSUME NEW y \in Prs, NEW z \in Shas PROVE AskRow(y, z)'
    BY DEF AskRows
  <2> QED BY <1>4, <1>5, <1>6, SameReviews DEF AskInv, AskRows, AskRow
<1>11. AskHeads'
  <2> SUFFICES ASSUME NEW y \in Prs, NEW z \in Shas, z \in owed'[y], Unmet(y, z)' PROVE AskHead(y, z)'
    BY DEF AskHeads, AskHead
  <2>1. z \in owed[y] /\ Unmet(y, z)
    BY <1>4, <1>5, <1>6, UnmetKept
  <2>2. heads[y][z].trig \notin Automatic /\ heads[y][z].status \notin {"none", "done"} /\ ~Lifted(heads[y][z])
    BY <2>1 DEF AskInv, AskHeads, AskHead
  <2> QED BY <1>5, <1>6, <2>2 DEF AskHead, Lifted
<1>12. ASSUME NEW q \in RunIds PROVE AskWorker(q)'
  <2>1. AskWorker(q)
    BY DEF AskInv, AskWorkers
  <2>2. CASE q = r
    <3>1. wk'[q].pc = "none"
      BY <1>1, <1>2, <1>4, <2>2 DEF Bound
    <3> QED BY <3>1 DEF AskWorker, Alive
  <2>3. CASE q # r
    <3>1. runs'[q] = runs[q] /\ P(q)' = P(q) /\ S(q)' = S(q) /\ (Active(q)' <=> Active(q))
      BY <1>2, <2>3 DEF P, S, Active
    <3>2. ASSUME Alive(q), Active(q)', HeadOf(q)'.status = "running"
          PROVE  Active(q) /\ HeadOf(q).status = "running"
      <4>1. /\ P(q) \in Prs /\ S(q) \in Shas
            /\ HeadOf(q) = heads[P(q)][S(q)] /\ HeadOf(q)' = heads'[P(q)][S(q)]
        BY <1>1, <3>1, <3>2 DEF Alive, Bound, P, S, HeadOf
      <4>2. P(q) # p
        BY <1>2, <3>1, <3>2 DEF ActiveRuns, P
      <4> QED BY <1>6, <3>1, <3>2, <4>1, <4>2
    <3> QED BY <1>1, <1>4, <1>8, <2>1, <3>1, <3>2, WorkerKept DEF AskInv
  <2> QED BY <2>2, <2>3
<1> QED BY <1>9, <1>10, <1>11, <1>12 DEF AskInv, AskWorkers

\* A review is carried to a commit nobody waits for, from the earlier head it stands for, or
\* from where that one's was carried.
LEMMA CarryAsks ==
  ASSUME TypeOK, TypeOK', Bound, AskInv, NEW r \in RunIds, WkCarry(r)
  PROVE  AskInv'
<1> DEFINE p == P(r)
           s == S(r)
           hs == heads[p]
           h == heads[p][s]
<1>1. /\ Alive(r) /\ wk[r].pc = "carry" /\ UNCHANGED <<posted, reviewed, owed, runs>>
  BY DEF WkCarry, Alive, history
<1>2. p \in Prs /\ s \in Shas /\ h = HeadOf(r) /\ h \in Head /\ AskWorker(r)
  BY <1>1 DEF Alive, Bound, P, S, HeadOf, TypeOK, AskInv, AskWorkers
<1>3. PICK x \in Carryable(r) :
        \/ Ends(r, "cancelled", "infra") /\ UNCHANGED heads
        \/ wk' = [wk EXCEPT ![r].pc = "lanes", ![r].trig = h.trig] /\ UNCHANGED heads
        \/ /\ heads' = [heads EXCEPT ![p][s].carried = ReviewedSha(hs, x, Known(p))]
           /\ Ends(r, "done", "infra") /\ h.status = "running" /\ h.trig \in Automatic
  BY <1>2 DEF WkCarry
<1>4. CASE /\ UNCHANGED heads
           /\ \/ Ends(r, "cancelled", "infra")
              \/ wk' = [wk EXCEPT ![r].pc = "lanes", ![r].trig = h.trig]
  <2>1. /\ \A q \in RunIds : q # r => wk'[q] = wk[q]
        /\ wk'[r].trig \in {wk[r].trig, HeadOf(r).trig} /\ wk'[r].pc \notin {"ci", "talk", "record"}
        /\ ~(wk'[r].pc = "finish" /\ wk'[r].out = "done")
    <3>1. CASE Ends(r, "cancelled", "infra")
      BY <3>1, MovedRow
    <3>2. CASE wk' = [wk EXCEPT ![r].pc = "lanes", ![r].trig = h.trig]
      <4> DEFINE row == [wk[r] EXCEPT !.pc = "lanes", !.trig = h.trig]
      <4>1. row.pc = "lanes" /\ row.trig = h.trig /\ wk' = [wk EXCEPT ![r] = row]
        BY <3>2 DEF TypeOK, Worker
      <4> HIDE DEF row
      <4>2. wk'[r] = row /\ \A q \in RunIds : q # r => wk'[q] = wk[q]
        BY <4>1 DEF TypeOK
      <4> QED BY <1>2, <4>1, <4>2
    <3> QED BY <1>4, <3>1, <3>2
  <2>2. \A q \in RunIds : /\ runs'[q].pr = runs[q].pr /\ runs'[q].sha = runs[q].sha
                          /\ Active(q)' => Active(q) /\ (runs[q].again => runs'[q].again)
    BY <1>1 DEF Active
  <2> QED BY <1>1, <1>4, <2>1, <2>2, AskWorkerStep
<1>5. CASE /\ heads' = [heads EXCEPT ![p][s].carried = ReviewedSha(hs, x, Known(p))]
           /\ Ends(r, "done", "infra") /\ h.status = "running" /\ h.trig \in Automatic
  <2> DEFINE c == ReviewedSha(hs, x, Known(p))
             row == [h EXCEPT !.carried = c]
             Other(y, z) == y # p \/ z # s
  <2>1. /\ x \in Shas /\ hs[x].status # "none" /\ hs[x].id < hs[s].id
        /\ DiffOf[x] = DiffOf[s] /\ reviewed[p][c] = "final"
    BY DEF Carryable
  <2>2. c \in Shas /\ c # NoSha /\ hs[c].status # "none" /\ hs[c].id <= hs[x].id /\ DiffOf[c] = DiffOf[x]
    <3>1. c \in Shas /\ c # NoSha
      <4>1. c \in {x, hs[x].carried} /\ (c # x => c # NoSha)
        BY DEF ReviewedSha, CarriedFrom
      <4>2. c # x => c \in Sound(p)
        BY <1>2, <2>1, <4>1 DEF AskInv, CarryInv, CarryOf
      <4> QED BY <2>1, <4>2, HeadsAssumption DEF Sound, Known
    <3>2. \A y \in Shas : hs[y].id \in Nat
      BY <1>2 DEF TypeOK, Head
    <3>3. CASE c = x
      BY <2>1, <3>1, <3>2, <3>3
    <3>4. CASE c # x
      <4>1. c = hs[x].carried /\ hs[x].carried # NoSha
        BY <3>4 DEF ReviewedSha, CarriedFrom
      <4>2. CarryOf(hs, Sound(p))
        BY <1>2 DEF AskInv, CarryInv
      <4>3. /\ DiffOf[hs[x].carried] = DiffOf[x] /\ hs[hs[x].carried].status # "none"
            /\ hs[hs[x].carried].id < hs[x].id
        BY <2>1, <4>1, <4>2 DEF CarryOf
      <4> HIDE DEF c, hs
      <4> QED BY <2>1, <3>1, <3>2, <4>1, <4>3
    <3> QED BY <3>3, <3>4
  <2> HIDE DEF c
  <2>0. c \in Sound(p) /\ \A y \in Prs : Sound(y)' = Sound(y)
    <3>1. c \in Known(p)
      BY <2>1, <2>2 DEF Known
    <3>2. OnGitHub(p, c)
      BY <1>2, <2>2 DEF AskInv, AskRows, AskRow
    <3> QED BY <1>1, <2>1, <2>2, <3>1, <3>2, SameReviews DEF OnGitHub, Sound
  <2>3. /\ row.carried = c /\ row.status = h.status /\ row.id = h.id /\ row.trig = h.trig
        /\ row.audit = h.audit /\ row.barred = h.barred
    BY <1>2 DEF Head
  <2>4. heads' = [heads EXCEPT ![p][s] = row]
    BY <1>2, <1>5 DEF TypeOK, c
  <2> HIDE DEF row
  <2>5. \A y \in Prs, z \in Shas : heads'[y][z] = IF Other(y, z) THEN heads[y][z] ELSE row
    BY <1>2, <2>4 DEF TypeOK
  <2>6. \A y \in Prs, z \in Shas :
          /\ heads'[y][z].status = heads[y][z].status /\ heads'[y][z].id = heads[y][z].id
          /\ heads'[y][z].trig = heads[y][z].trig /\ heads'[y][z].audit = heads[y][z].audit
          /\ heads'[y][z].barred = heads[y][z].barred
          /\ heads'[y][z].carried = IF Other(y, z) THEN heads[y][z].carried ELSE c
    BY <2>3, <2>5
  <2>7. CarryInv'
    <3> SUFFICES ASSUME NEW y \in Prs, NEW z \in Shas, heads'[y][z].carried # NoSha
                 PROVE  /\ heads'[y][z].carried \in Sound(y)' /\ DiffOf[heads'[y][z].carried] = DiffOf[z]
                        /\ heads'[y][z].status # "none" /\ heads'[y][heads'[y][z].carried].status # "none"
                        /\ heads'[y][heads'[y][z].carried].id < heads'[y][z].id
      BY DEF CarryInv, CarryOf
    <3>1. CASE Other(y, z)
      <4>1. heads'[y][z].carried = heads[y][z].carried
        BY <2>6, <3>1
      <4> DEFINE d == heads[y][z].carried
      <4>2. /\ d \in Sound(y) /\ DiffOf[d] = DiffOf[z]
            /\ heads[y][z].status # "none" /\ heads[y][d].status # "none" /\ heads[y][d].id < heads[y][z].id
        BY <4>1 DEF AskInv, CarryInv, CarryOf
      <4>3. d \in Shas
        BY <4>2 DEF Sound, Known
      <4> HIDE DEF d
      <4>4. heads'[y][d].status = heads[y][d].status /\ heads'[y][d].id = heads[y][d].id
        BY <2>6, <4>3
      <4>5. d = heads'[y][z].carried
        BY <4>1 DEF d
      <4> QED BY <2>0, <2>6, <4>2, <4>4, <4>5
    <3>2. CASE ~Other(y, z)
      <4>1. heads'[y][z].carried = c /\ y = p /\ z = s
        BY <2>6, <3>2
      <4>2. hs[c].id < hs[s].id /\ heads'[y][c].id = hs[c].id /\ heads'[y][c].status = hs[c].status
        <5>1. hs[c].id \in Nat /\ hs[x].id \in Nat /\ hs[s].id \in Nat
          BY <1>2, <2>1, <2>2 DEF TypeOK, Head
        <5> QED BY <1>2, <2>1, <2>2, <2>6, <4>1, <5>1
      <4>3. c \in Sound(y)' /\ DiffOf[c] = DiffOf[s]
        BY <2>0, <2>1, <2>2, <4>1
      <4>4. heads'[y][z].status = h.status /\ heads'[y][z].id = hs[s].id
        BY <1>2, <2>6, <4>1
      <4> HIDE DEF hs, h
      <4> QED BY <1>1, <1>5, <2>2, <4>1, <4>2, <4>3, <4>4
    <3> QED BY <3>1, <3>2
  <2>8. AskRows'
    BY <1>1, <2>6, SameReviews DEF AskInv, AskRows, AskRow
  <2>9. AskHeads'
    <3>1. \A y \in Prs, z \in Shas : Unmet(y, z)' <=> Unmet(y, z)
      BY <1>1, <2>6, UnmetKept
    <3> QED BY <1>1, <2>6, <3>1 DEF AskInv, AskHeads, AskHead, Lifted
  <2>10. ASSUME NEW q \in RunIds, Alive(q)' PROVE AskWorker(q)'
    <3>1. /\ Alive(q) /\ wk'[q].trig = wk[q].trig /\ (q # r => wk'[q] = wk[q])
          /\ q = r => wk'[q].pc = "finish" /\ wk'[q].out = "done"
      BY <1>1, <1>5, <2>10, MovedRow DEF Alive
    <3>2. /\ P(q) \in Prs /\ S(q) \in Shas /\ P(q)' = P(q) /\ S(q)' = S(q) /\ (Active(q)' <=> Active(q))
          /\ HeadOf(q) = heads[P(q)][S(q)] /\ HeadOf(q)' = heads'[P(q)][S(q)] /\ AskWorker(q)
      BY <1>1, <3>1 DEF Alive, Bound, P, S, HeadOf, Active, AskInv, AskWorkers
    <3>3. HeadOf(q)'.status = HeadOf(q).status /\ HeadOf(q)'.audit = HeadOf(q).audit
      BY <2>6, <3>2
    <3>4. Unmet(P(q), S(q))' <=> Unmet(P(q), S(q))
      <4>1. Full(P(q), S(q))' <=> Full(P(q), S(q))
        BY <1>1, <3>2 DEF Full
      <4>2. heads'[P(q)'][S(q)'].audit = heads[P(q)][S(q)].audit
        BY <2>6, <3>2
      <4> QED BY <4>1, <4>2 DEF Unmet
    <3>5. Swallows(q)' => HeadOf(q)'.carried # NoSha
      <4>1. CASE Other(P(q), S(q))
        <5>1. q # r
          BY <4>1
        <5>2. Swallows(q)' => Swallows(q)
          BY <3>1, <3>2, <3>4, <5>1 DEF Swallows
        <5> QED BY <2>6, <3>1, <3>2, <4>1, <5>2 DEF AskWorker
      <4>2. CASE ~Other(P(q), S(q))
        BY <2>2, <2>6, <3>2, <4>2
      <4> QED BY <4>1, <4>2
    <3>6. Swallows(q)' /\ Active(q)' /\ HeadOf(q)'.status = "running" /\ S(q)' \in owed'[P(q)'] => runs'[q].again
      <4>1. CASE q = r
        <5>1. ~(s \in owed[p] /\ Unmet(p, s))
          BY <1>2, <1>5 DEF AskInv, AskHeads, AskHead
        <5> QED BY <1>1, <3>2, <3>4, <4>1, <5>1 DEF Swallows
      <4>2. CASE q # r
        <5>1. Swallows(q)' => Swallows(q)
          BY <3>1, <3>2, <3>4, <4>2 DEF Swallows
        <5> QED BY <1>1, <3>1, <3>2, <3>3, <5>1 DEF AskWorker
      <4> QED BY <4>1, <4>2
    <3>7. /\ wk'[q].trig = "ci" => S(q) \in Known(P(q))'
          /\ wk'[q].trig = "audit" => HeadOf(q)'.audit
          /\ wk'[q].pc = "ci" => wk'[q].trig = "ci"
          /\ wk'[q].pc \in {"talk", "record"} => Backed(q)'
      <4>1. Known(P(q))' = Known(P(q)) /\ (q # r => (Backed(q)' <=> Backed(q)))
        BY <1>1, <3>1, <3>2 DEF Known, Backed, Full
      <4> QED BY <1>1, <3>1, <3>2, <3>3, <4>1 DEF AskWorker
    <3> QED BY <3>1, <3>2, <3>5, <3>6, <3>7 DEF AskWorker
  <2>11. AskWorkers'
    BY <2>10 DEF AskWorkers, AskWorker
  <2> QED BY <2>7, <2>8, <2>9, <2>11 DEF AskInv
<1> QED BY <1>3, <1>4, <1>5

\* Every step keeps the asks and the carried reviews.
LEMMA StepAsks ==
  ASSUME IInv, AskInv, [Next]_vars
  PROVE  AskInv'
<1>1. TypeOK /\ Bound
  BY DEF IInv
<1>2. CASE \E r \in RunIds, x \in Candidates : StartRun(x, r)
  BY <1>2, StartAsks
<1>3. CASE TypeOK' /\ \A r \in RunIds, x \in Candidates : ~StartRun(x, r)
  <2>1. CASE UNCHANGED vars \/ GitHubNext
    BY <1>1, <1>3, <2>1, RestingStep
  <2>2. CASE OperatorNext
    BY <1>1, <1>3, <2>2, RestingStep, AskingStep DEF OperatorNext
  <2>3. CASE DaemonNext
    BY <1>1, <1>3, <2>3, RestingStep, AskingStep, EndingStep, IngestAsks, AuditAsks DEF DaemonNext
  <2>4. ASSUME NEW r \in RunIds, WorkerNext(r) PROVE AskInv'
    BY <1>1, <1>3, <2>4, WorkerAsks, WorkerWrites, EndingStep, CarryAsks DEF WorkerNext
  <2> QED BY <2>1, <2>2, <2>3, <2>4 DEF Next
<1> QED BY <1>2, <1>3, StepCases

\* At first nothing is asked, posted or carried, and nobody is at work.
LEMMA InitAsks ==
  ASSUME Init
  PROVE  AskInv
<1>1. NoHead.carried = NoSha /\ NoHead.trig = "new" /\ NoWorker.pc = "none"
  BY DEF NoHead, NoWorker
<1>2. \A p \in Prs, s \in Shas :
        heads[p][s] = NoHead /\ s \notin Known(p) /\ owed[p] = {}
  BY DEF Init, Known
<1>3. CarryInv
  BY <1>1, <1>2 DEF CarryInv, CarryOf
<1>4. AskRows
  BY <1>1, <1>2 DEF AskRows, AskRow, OnGitHub
<1>5. AskHeads
  BY <1>2 DEF AskHeads, AskHead
<1>6. AskWorkers
  BY <1>1 DEF Init, AskWorkers, AskWorker, Alive
<1> QED BY <1>3, <1>4, <1>5, <1>6 DEF AskInv

\* What was asked is in line, answered or the audit's, and what is carried has its review.
THEOREM AsksKept == Spec => []AskInv
<1>1. Init => AskInv
  BY InitAsks
<1>2. IInv /\ AskInv /\ [Next]_vars => AskInv'
  BY StepAsks
<1> QED BY <1>1, <1>2, Invariant, PTL DEF Spec

\* A person asking gets a review: a head that is done has a review of its very commit on GitHub,
\* if anyone asked for one, whatever the requests, the ends and the restarts were.
THEOREM AsksAreReviewed == Spec => []AskedIsReviewed
<1>1. IInv /\ AskInv => AskedIsReviewed
  <2> SUFFICES ASSUME IInv, AskInv, NEW p \in Prs, NEW s \in owed[p],
                      heads[p][s].status = "done", ~heads[p][s].audit
               PROVE  Full(p, s)
    BY DEF AskedIsReviewed
  <2>1. s \in Shas
    BY DEF IInv, TypeOK
  <2>2. ~Unmet(p, s)
    BY <2>1 DEF AskInv, AskHeads, AskHead
  <2> QED BY <2>1, <2>2 DEF Unmet
<1> QED BY <1>1, Invariant, AsksKept, PTL

\* A carried review is a final one, on record and on GitHub, of the same diff and of another
\* commit, through any chain of carries.
THEOREM CarriesAreSound == Spec => []CarriedIsSound
<1>1. IInv /\ AskInv => CarriedIsSound
  <2> SUFFICES ASSUME IInv, AskInv, NEW p \in Prs, NEW s \in Shas, heads[p][s].carried # NoSha
               PROVE  /\ heads[p][s].carried \in Known(p) /\ posted[p][heads[p][s].carried]["final"] > 0
                      /\ DiffOf[heads[p][s].carried] = DiffOf[s] /\ heads[p][s].carried # s
    BY DEF CarriedIsSound
  <2> DEFINE c == heads[p][s].carried
  <2>1. c \in Sound(p) /\ DiffOf[c] = DiffOf[s] /\ heads[p][c].id < heads[p][s].id
    BY DEF AskInv, CarryInv, CarryOf
  <2>2. heads[p][s].id \in Nat
    BY DEF IInv, TypeOK, Head
  <2>3. c # s
    BY <2>1, <2>2
  <2> QED BY <2>1, <2>3 DEF Sound
<1> QED BY <1>1, Invariant, AsksKept, PTL
-----------------------------------------------------------------------------
(* One process per pull request, no review stacked: while the daemon lives *)

\* Neither a review of the worker's phase nor a final one is on GitHub.
Clear(r) == posted[P(r)][S(r)][wk[r].phase] = 0 /\ posted[P(r)][S(r)]["final"] = 0

\* A worker that runs can be killed, its pid is in the row or about to be; past its claim its run
\* is active, so that whoever ends the run has stopped it; about to post, it saw a clear commit.
Leash(r) ==
  /\ Alive(r) => runs[r].pid \/ (task = "pid" /\ cur = r)
  /\ AtWork(r) => Active(r)
  /\ wk[r].pc = "post" => Clear(r)

\* A run that is being started, or was seen dead, has no worker; the daemon does not die.
Leashed ==
  /\ \A r \in RunIds : Leash(r)
  /\ task = "spawn" => wk[cur].pc = "none"
  /\ task = "reap" /\ why = "exited" => ~Alive(cur)
  /\ left["crash"] = 0

\* Spending another budget leaves none for a crash.
LEMMA NoCrash ==
  ASSUME left["crash"] = 0, left \in [Budgets -> Nat], NEW b, Spend(b)
  PROVE  b # "crash" /\ left'["crash"] = 0
<1>1. left[b] > 0
  BY DEF Spend
<1>2. b # "crash"
  BY <1>1
<1> QED BY <1>2 DEF Spend, Budgets

\* A step that starts no worker, ends no run and posts nothing.
LEMMA LeashKept ==
  ASSUME TypeOK, Bound, Leashed, UNCHANGED posted, left'["crash"] = 0,
         \A q \in RunIds : wk'[q] = wk[q] \/ (Alive(q) /\ wk'[q].pc = "gone"),
         \A q \in RunIds : /\ runs'[q].pr = runs[q].pr /\ runs'[q].sha = runs[q].sha
                           /\ runs[q].pid => runs'[q].pid
                           /\ Active(q) => Active(q)',
         task = "pid" => UNCHANGED <<task, cur>>,
         task' = "spawn" => cur' \in RunIds /\ wk[cur'].pc = "none",
         task' = "reap" /\ why' = "exited" => cur' \in RunIds /\ ~Alive(cur')
  PROVE  Leashed'
<1>1. ASSUME NEW q \in RunIds PROVE Leash(q)'
  <2>1. CASE wk'[q] = wk[q]
    BY <2>1 DEF Leashed, Leash, Clear, Alive, AtWork, P, S
  <2>2. CASE wk'[q].pc = "gone"
    BY <2>2 DEF Leash, Alive, AtWork
  <2> QED BY <2>1, <2>2
<1>2. task' = "spawn" => wk'[cur'].pc = "none"
  BY DEF Alive
<1>3. (task = "reap" /\ why = "exited" => ~Alive(cur))'
  BY DEF Alive
<1> QED BY <1>1, <1>2, <1>3 DEF Leashed

\* A cancel ends no run.
LEMMA CancelLeaves ==
  ASSUME TypeOK, NEW rs, RequestCancel(rs)
  PROVE  \A q \in RunIds : /\ runs'[q].pr = runs[q].pr /\ runs'[q].sha = runs[q].sha
                           /\ runs[q].pid => runs'[q].pid
                           /\ Active(q) => Active(q)'
<1> SUFFICES ASSUME NEW q \in RunIds
             PROVE  /\ runs'[q].pr = runs[q].pr /\ runs'[q].sha = runs[q].sha
                    /\ runs[q].pid => runs'[q].pid
                    /\ Active(q) => Active(q)'
  OBVIOUS
<1> DEFINE row == [runs[q] EXCEPT !.cancel = TRUE]
<1>1. /\ row.pr = runs[q].pr /\ row.sha = runs[q].sha /\ row.status = runs[q].status
      /\ row.pid = runs[q].pid
  BY DEF TypeOK, Run
<1>2. runs'[q] \in {runs[q], row}
  BY DEF RequestCancel
<1> HIDE DEF row
<1> QED BY <1>1, <1>2 DEF Active

\* An enqueue notes its request on runs, and ends none.
LEMMA EnqueueLeaves ==
  ASSUME TypeOK, NEW p, NEW s, NEW t, NEW e, EnqueueTx(p, s, t, e)
  PROVE  \A q \in RunIds : /\ runs'[q].pr = runs[q].pr /\ runs'[q].sha = runs[q].sha
                           /\ runs[q].pid => runs'[q].pid
                           /\ Active(q) => Active(q)'
<1> SUFFICES ASSUME NEW q \in RunIds
             PROVE  /\ runs'[q].pr = runs[q].pr /\ runs'[q].sha = runs[q].sha
                    /\ runs[q].pid => runs'[q].pid
                    /\ Active(q) => Active(q)'
  OBVIOUS
<1> DEFINE row == [runs[q] EXCEPT !.again = TRUE]
<1>1. /\ row.pr = runs[q].pr /\ row.sha = runs[q].sha /\ row.status = runs[q].status
      /\ row.pid = runs[q].pid
  BY DEF TypeOK, Run
<1>2. runs'[q] \in {runs[q], row}
  BY DEF EnqueueTx
<1> HIDE DEF row
<1> QED BY <1>1, <1>2 DEF Active

\* Steps of GitHub, of the operator, and of the daemon that start no worker and end no run.
LEMMA TablesLeash ==
  ASSUME TypeOK, Bound, Leashed,
         \/ UNCHANGED vars \/ GitHubNext \/ OperatorNext \/ SchedBegin \/ LiveEnds \/ AuditsEnd
         \/ IngestApply \/ \E t \in {"mention", "reply"} : RouteApply(t)
         \/ \E r \in RunIds : SupersedeRun(r) \/ \E w \in {"overdue", "exited", "hard"} : ReapSelect(r, w)
         \/ \E p \in Prs : \/ IngestFetch(p) \/ RouteFetch(p) \/ CiFailed(p)
                           \/ \E t \in {"manual", "normal"} : BoxTicked(p, t)
                           \/ \E mode \in {"light", "full"} : AuditMerged(p, mode)
                           \/ \E s \in Shas : BecomesDue(p, s)
  PROVE  Leashed'
<1> DEFINE Runs == \A q \in RunIds : /\ runs'[q].pr = runs[q].pr /\ runs'[q].sha = runs[q].sha
                                     /\ runs[q].pid => runs'[q].pid
                                     /\ Active(q) => Active(q)'
<1>1. left'["crash"] = 0
  <2>1. left["crash"] = 0 /\ left \in [Budgets -> Nat]
    BY DEF Leashed, TypeOK
  <2>2. UNCHANGED left \/ \E b : Spend(b)
    BY DEF vars, GitHubNext, Created, Push, BaseMoves, FlipDraft, FlipLabel, Merge, Write, OperatorNext, CliRead,
           CliEnqueue, CliCancel, CliRetry, SchedBegin, LiveEnds, AuditsEnd, IngestApply, RouteApply,
           SupersedeRun, ReapSelect, IngestFetch, RouteFetch, Fetch, CiFailed, BoxTicked, AuditMerged, BecomesDue
  <2> QED BY <2>1, <2>2, NoCrash
<1>2. UNCHANGED <<posted, wk>>
  BY DEF vars, GitHubNext, Created, Push, BaseMoves, FlipDraft, FlipLabel, Merge, Write, OperatorNext, CliRead,
         CliEnqueue, CliCancel, CliRetry, SchedBegin, LiveEnds, AuditsEnd, IngestApply, RouteApply,
         SupersedeRun, ReapSelect, IngestFetch, RouteFetch, Fetch, CiFailed, BoxTicked, AuditMerged, BecomesDue
<1>3. \/ UNCHANGED runs \/ (\E rs : RequestCancel(rs)) \/ \E p, s, t, e : EnqueueTx(p, s, t, e)
  BY DEF vars, db, GitHubNext, Created, Push, BaseMoves, FlipDraft, FlipLabel, Merge, Write, OperatorNext, CliRead,
         CliEnqueue, CliCancel, CliRetry, SchedBegin, LiveEnds, AuditsEnd, IngestApply, RouteApply,
         SupersedeRun, ReapSelect, IngestFetch, RouteFetch, Fetch, CiFailed, BoxTicked, AuditMerged, BecomesDue
<1>4. Runs
  BY <1>3, CancelLeaves, EnqueueLeaves DEF Active
<1>5. /\ task = "pid" => UNCHANGED <<task, cur>>
      /\ task' = "spawn" => UNCHANGED <<task, cur>>
      /\ \/ UNCHANGED <<task, cur, why>> \/ task' # "reap"
         \/ \E r \in RunIds, w \in {"overdue", "exited", "hard"} : ReapSelect(r, w)
  BY DEF vars, daemon, GitHubNext, Created, Push, BaseMoves, FlipDraft, FlipLabel,
         Merge, Write, OperatorNext, CliRead,
         CliEnqueue, CliCancel, CliRetry, SchedBegin, LiveEnds, AuditsEnd, IngestApply, RouteApply,
         SupersedeRun, ReapSelect, IngestFetch, RouteFetch, Fetch, CiFailed, BoxTicked, AuditMerged, BecomesDue
<1>6. task' = "reap" /\ why' = "exited" => cur' \in RunIds /\ ~Alive(cur')
  BY <1>5 DEF ReapSelect, ReapReason, Bound, Leashed
<1>7. task' = "spawn" => cur' \in RunIds /\ wk[cur'].pc = "none"
  BY <1>5 DEF Bound, Leashed
<1> HIDE DEF Runs
<1> QED BY <1>1, <1>2, <1>4, <1>5, <1>6, <1>7, LeashKept DEF Runs

\* Past its claim a worker's run is active, and no other worker is at work on its pull request.
LEMMA LeashedAlone ==
  ASSUME Leashed, SingleFlight
  PROVE  OneWorkerPerPr
BY DEF Leashed, Leash, OneWorkerPerPr, SingleFlight, ActiveRuns

\* finish_run changes one row, whose run keeps its commit and its pid.
LEMMA FinishLeaves ==
  ASSUME TypeOK, NEW r \in RunIds, NEW end, NEW kind, FinishRun(r, end, kind)
  PROVE  \A q \in RunIds : /\ runs'[q].pr = runs[q].pr /\ runs'[q].sha = runs[q].sha
                           /\ runs[q].pid => runs'[q].pid
                           /\ q # r => runs'[q] = runs[q]
<1> DEFINE b == runs[r].again /\ ~(end = "done" /\ HeadOf(r).status = "running")
           row == [runs[r] EXCEPT !.status = end, !.again = b]
<1>1. CASE ~Active(r)
  BY <1>1 DEF FinishRun
<1>2. CASE Active(r)
  <2>1. runs' = [runs EXCEPT ![r] = row]
    BY <1>2 DEF FinishRun
  <2> HIDE DEF b
  <2>2. row.pr = runs[r].pr /\ row.sha = runs[r].sha /\ row.pid = runs[r].pid
    BY DEF TypeOK, Run
  <2> HIDE DEF row
  <2>3. \A q \in RunIds : runs'[q] = IF q = r THEN row ELSE runs[q]
    BY <2>1 DEF TypeOK
  <2> QED BY <2>2, <2>3
<1> QED BY <1>1, <1>2

\* A step of one worker that posts nothing; if its run ends, the worker is gone.
LEMMA WorkerLeash ==
  ASSUME TypeOK, Bound, Leashed, NEW r \in RunIds, Alive(r), UNCHANGED <<posted, task, cur, why>>,
         left'["crash"] = 0, \A q \in RunIds : q # r => wk'[q] = wk[q],
         \A q \in RunIds : /\ runs'[q].pr = runs[q].pr /\ runs'[q].sha = runs[q].sha
                           /\ runs[q].pid => runs'[q].pid
                           /\ q # r /\ Active(q) => Active(q)',
         AtWork(r)' => Active(r)', wk'[r].pc = "post" => Clear(r)'
  PROVE  Leashed'
<1>1. ASSUME NEW q \in RunIds PROVE Leash(q)'
  <2>1. CASE q = r
    BY <2>1 DEF Leashed, Leash, P, S
  <2>2. CASE q # r
    BY <2>2 DEF Leashed, Leash, Clear, Alive, AtWork, P, S
  <2> QED BY <2>1, <2>2
<1>2. task' = "spawn" => wk'[cur'].pc = "none"
  BY DEF Leashed, Bound, Alive
<1>3. (task = "reap" /\ why = "exited" => ~Alive(cur))'
  BY DEF Leashed, Bound, Alive
<1> QED BY <1>1, <1>2, <1>3 DEF Leashed

\* A worker's steps.  Only a worker at work ends its run, and it is gone then; the one that
\* posts is alone with its commit.
LEMMA WorkerHeld ==
  ASSUME TypeOK, Bound, SingleFlight, Leashed, NEW r \in RunIds, WorkerNext(r)
  PROVE  Leashed'
<1>1. Leash(r) /\ left["crash"] = 0 /\ left \in [Budgets -> Nat]
  BY DEF Leashed, TypeOK
<1>2. Alive(r) /\ UNCHANGED <<task, cur, why>>
  BY DEF WorkerNext, WkRead, WkClaim, WkCancelled, WkObsolete, WkCheckout, WkCarry, WkReviews, WkLate,
         WkPublish, WkPost, WkRecord, WkCiCheck, WkRetire, WkFinish, WkDies, WkFails, WkTalk, WkAudit,
         WkOnly, Alive, daemon
<1>3. left'["crash"] = 0
  <2>1. UNCHANGED left \/ Spend("die") \/ Spend("gate")
    BY DEF WorkerNext, WkRead, WkClaim, WkCancelled, WkObsolete, WkCheckout, WkCarry, WkReviews, WkLate,
           WkPublish, WkPost, WkRecord, WkCiCheck, WkRetire, WkFinish, WkDies, WkFails, WkTalk, WkAudit, WkOnly
  <2> QED BY <1>1, <2>1, NoCrash
<1> DEFINE Others == \A q \in RunIds : q # r => wk'[q] = wk[q]
           SameRuns == \A q \in RunIds : /\ runs'[q].pr = runs[q].pr /\ runs'[q].sha = runs[q].sha
                                         /\ runs[q].pid => runs'[q].pid
                                         /\ q # r /\ Active(q) => Active(q)'
\* The runs are not touched.
<1>4. ASSUME \/ WkRead(r) \/ WkCancelled(r) \/ WkObsolete(r) \/ WkCheckout(r) \/ WkCarry(r)
             \/ WkReviews(r) \/ WkRecord(r) \/ WkCiCheck(r) \/ WkRetire(r) \/ WkDies(r)
             \/ \E phase \in Phase : WkPublish(r, phase)
             \/ \E kind \in WorkerKinds : WkFails(r, kind)
             \/ \E yes \in BOOLEAN : WkAudit(r, yes)
      PROVE  Leashed'
  <2>1. UNCHANGED <<posted, runs>>
    BY <1>4 DEF WkRead, WkCancelled, WkObsolete, WkCheckout, WkCarry, WkReviews, WkPublish, WkRecord,
                WkCiCheck, WkRetire, WkDies, WkFails, WkAudit, WkOnly, db
  <2>2. SameRuns /\ (Active(r) => Active(r)')
    BY <2>1 DEF Active
  <2>3. /\ Others /\ (AtWork(r)' => AtWork(r))
        /\ wk'[r].pc = "post" => Clear(r)'
    <3>1. CASE WkRead(r)
      <4> DEFINE row == [wk[r] EXCEPT !.pc = "claim", !.trig = HeadOf(r).trig]
      <4>1. row.pc = "claim"
        BY DEF TypeOK, Worker
      <4>2. wk' = [wk EXCEPT ![r] = row] \/ wk' = [wk EXCEPT ![r] = Gone]
        BY <3>1 DEF WkRead
      <4>3. Gone.pc = "gone"
        BY DEF Gone, NoWorker
      <4> HIDE DEF row
      <4>4. Others /\ wk'[r].pc \in {"claim", "gone"}
        BY <4>1, <4>2, <4>3 DEF TypeOK
      <4> QED BY <4>4 DEF AtWork, Alive
    <3>2. CASE WkCheckout(r)
      <4>1. PICK pc \in {"talk", "lanes", "carry"} :
              wk' = [wk EXCEPT ![r] = [wk[r] EXCEPT !.base = gh[P(r)].base, !.pc = pc]]
        BY <3>2 DEF WkCheckout
      <4> DEFINE row == [wk[r] EXCEPT !.base = gh[P(r)].base, !.pc = pc]
      <4>2. row.pc = pc
        BY DEF TypeOK, Worker
      <4> HIDE DEF row
      <4>3. Others /\ wk'[r].pc = pc
        BY <4>1, <4>2 DEF TypeOK, row
      <4> QED BY <3>2, <4>3 DEF AtWork, Alive, WkCheckout
    <3>3. CASE WkCarry(r)
      <4> DEFINE row == [wk[r] EXCEPT !.pc = "lanes", !.trig = HeadOf(r).trig]
      <4>1. row.pc = "lanes"
        BY DEF TypeOK, Worker
      <4>2. \/ \E out \in {"cancelled", "done"} : Ends(r, out, "infra")
            \/ wk' = [wk EXCEPT ![r] = row]
        BY <3>3 DEF WkCarry
      <4> HIDE DEF row
      <4>3. Others /\ wk'[r].pc \in {"finish", "lanes"}
        BY <4>1, <4>2, MovedRow DEF TypeOK
      <4> QED BY <3>3, <4>3 DEF AtWork, Alive, WkCarry
    <3>4. CASE \E phase \in Phase : WkPublish(r, phase)
      <4>1. /\ wk[r].pc = "late" /\ Others
            /\ \/ Ends(r, "failed", "base")
               \/ wk'[r].pc = "record"
               \/ wk'[r].pc = "post" /\ posted[P(r)][S(r)][wk'[r].phase] = 0 /\ posted[P(r)][S(r)]["final"] = 0
        BY <3>4, PublishEffect DEF Moves, WkPublish
      <4>2. P(r)' = P(r) /\ S(r)' = S(r)
        BY <2>1 DEF P, S
      <4>3. wk'[r].pc = "post" => Clear(r)'
        BY <2>1, <4>1, <4>2, MovedRow DEF Clear
      <4> QED BY <4>1, <4>3 DEF AtWork, Alive
    <3>5. CASE WkDies(r)
      BY <3>5, MovedRow DEF WkDies, AtWork, Alive
    <3>6. CASE \/ WkCancelled(r) \/ WkObsolete(r) \/ WkReviews(r) \/ WkRecord(r) \/ WkCiCheck(r) \/ WkRetire(r)
               \/ \E kind \in WorkerKinds : WkFails(r, kind)
               \/ \E yes \in BOOLEAN : WkAudit(r, yes)
      <4>1. \/ \E out, kind : Ends(r, out, kind)
            \/ Retires(r) \/ \E pc \in {"lanes", "finish"} : Goto(r, pc)
        BY <3>6 DEF WkCancelled, WkObsolete, WkReviews, WkRecord, WkCiCheck, WkRetire, WkFails, WkAudit
      <4>2. Others /\ wk'[r].pc \in {"finish", "retire", "lanes"}
        BY <4>1, MovedRow
      <4>3. AtWork(r)
        BY <3>6 DEF WkCancelled, WkObsolete, WkReviews, WkRecord, WkCiCheck, WkRetire, WkFails, WkAudit,
                    AtWork, Alive
      <4> QED BY <4>2, <4>3
    <3> QED BY <1>4, <3>1, <3>2, <3>3, <3>4, <3>5, <3>6
  <2> HIDE DEF Others, SameRuns
  <2>4. AtWork(r)' => Active(r)'
    BY <1>1, <2>2, <2>3 DEF Leash
  <2> QED BY <1>2, <1>3, <2>1, <2>2, <2>3, <2>4, WorkerLeash DEF Others, SameRuns
\* The run is claimed, goes on, or is told that its head is asked for again.
<1>5. ASSUME WkClaim(r) \/ WkLate(r) \/ \E yes \in BOOLEAN : WkTalk(r, yes) PROVE Leashed'
  <2> DEFINE Claimed == [runs[r] EXCEPT !.status = "running"]
             Late == [runs[r] EXCEPT !.late = TRUE]
             Told(yes) == [runs[r] EXCEPT !.again = runs[r].again \/ yes]
  <2>1. \A row \in {runs[r], Claimed, Late} \cup {Told(yes) : yes \in BOOLEAN} :
          /\ row.pr = runs[r].pr /\ row.sha = runs[r].sha /\ row.pid = runs[r].pid
          /\ row.status \in {runs[r].status, "running"}
    BY DEF TypeOK, Run
  <2>2. \E row \in {runs[r], Claimed, Late} \cup {Told(yes) : yes \in BOOLEAN} :
          runs' = [runs EXCEPT ![r] = row]
    <3>1. CASE WkClaim(r)
      <4>1. runs' = runs \/ runs' = [runs EXCEPT ![r] = Claimed]
        BY <3>1 DEF WkClaim
      <4>2. runs = [runs EXCEPT ![r] = runs[r]]
        BY DEF TypeOK
      <4> HIDE DEF Claimed, Late, Told
      <4> QED BY <4>1, <4>2
    <3>2. CASE WkLate(r)
      <4>1. runs' = [runs EXCEPT ![r] = Late]
        BY <3>2 DEF WkLate
      <4> HIDE DEF Claimed, Late, Told
      <4> QED BY <4>1
    <3>3. CASE \E yes \in BOOLEAN : WkTalk(r, yes)
      <4>1. \E yes \in BOOLEAN : runs' = [runs EXCEPT ![r] = Told(yes)]
        BY <3>3 DEF WkTalk
      <4> HIDE DEF Claimed, Late, Told
      <4> QED BY <4>1
    <3> QED BY <1>5, <3>1, <3>2, <3>3
  <2> HIDE DEF Claimed, Late, Told
  <2>3. PICK row \in {runs[r], Claimed, Late} \cup {Told(yes) : yes \in BOOLEAN} :
          \A q \in RunIds : runs'[q] = IF q = r THEN row ELSE runs[q]
    BY <2>2 DEF TypeOK
  <2>4. SameRuns /\ (Active(r) => Active(r)')
    BY <2>1, <2>3 DEF Active, ActiveStatus
  <2>5. /\ UNCHANGED posted /\ (AtWork(r) \/ Active(r) \/ wk' = [wk EXCEPT ![r] = Gone])
        /\ \/ wk' = [wk EXCEPT ![r] = Gone]
           \/ \E pc \in {"ci", "tree", "late"} : Goto(r, pc)
           \/ \E out, kind : Ends(r, out, kind)
    BY <1>5 DEF WkClaim, WkLate, WkTalk, AtWork, Alive
  <2>6. Others /\ wk'[r].pc # "post" /\ (wk' = [wk EXCEPT ![r] = Gone] => wk'[r].pc = "gone")
    BY <2>5, MovedRow
  <2>7. AtWork(r)' => Active(r)'
    BY <1>1, <2>4, <2>5, <2>6 DEF Leash, AtWork, Alive
  <2> HIDE DEF Others, SameRuns
  <2> QED BY <1>2, <1>3, <2>4, <2>5, <2>6, <2>7, WorkerLeash DEF Others, SameRuns
<1>6. ASSUME WkFinish(r) PROVE Leashed'
  <2>1. /\ FinishRun(r, EndOf(wk[r].out), wk[r].kind) /\ wk' = [wk EXCEPT ![r] = Gone] /\ UNCHANGED posted
    BY <1>6 DEF WkFinish
  <2>2. Others /\ wk'[r].pc = "gone"
    BY <2>1, MovedRow
  <2>3. SameRuns
    BY <2>1, FinishLeaves DEF Active
  <2>4. ~AtWork(r)'
    BY <2>2 DEF AtWork, Alive
  <2> HIDE DEF Others, SameRuns
  <2> QED BY <1>2, <1>3, <2>1, <2>2, <2>3, <2>4, WorkerLeash DEF Others, SameRuns
\* The post: nobody else is at work on this pull request.
<1>7. ASSUME WkPost(r) PROVE Leashed'
  <2>1. /\ UNCHANGED <<runs, task, cur, why>> /\ wk[r].pc = "post" /\ AtWork(r)
        /\ posted' = [posted EXCEPT ![P(r)][S(r)][wk[r].phase] = @ + 1]
        /\ Goto(r, "record") \/ Ends(r, "failed", "infra")
    BY <1>7 DEF WkPost, db, daemon, AtWork, Alive
  <2>2. Others /\ wk'[r].pc \in {"record", "finish"}
    BY <2>1, MovedRow
  <2>3. \A p \in Prs, s \in Shas : p # P(r) => posted'[p][s] = posted[p][s]
    BY <2>1 DEF TypeOK
  <2>4. ASSUME NEW q \in RunIds PROVE Leash(q)'
    <3>1. CASE q = r
      BY <1>1, <1>2, <2>1, <2>2, <3>1 DEF Leash, AtWork, Alive, Active
    <3>2. CASE q # r
      <4>1. Leash(q) /\ (wk[q].pc = "post" => P(q) # P(r) /\ P(q) \in Prs /\ S(q) \in Shas)
        BY <2>1, <3>2, LeashedAlone DEF Leashed, OneWorkerPerPr, AtWork, Alive, Bound, P, S
      <4> QED BY <2>1, <2>2, <2>3, <3>2, <4>1 DEF Leash, Clear, AtWork, Alive, Active, P, S
    <3> QED BY <3>1, <3>2
  <2>5. task' = "spawn" => wk'[cur'].pc = "none"
    BY <1>2, <2>1, <2>2 DEF Leashed, Bound, Alive
  <2>6. (task = "reap" /\ why = "exited" => ~Alive(cur))'
    BY <1>2, <2>1, <2>2 DEF Leashed, Bound, Alive
  <2> QED BY <1>3, <2>4, <2>5, <2>6 DEF Leashed
<1> QED BY <1>4, <1>5, <1>6, <1>7 DEF WorkerNext

\* The daemon ends a run it starts or reaps: it has no worker, or that worker is killed first.
LEMMA DaemonEnds ==
  ASSUME TypeOK, Bound, Leashed, ReapAct \/ SpawnFails
  PROVE  Leashed'
<1>1. /\ cur \in RunIds /\ UNCHANGED <<posted, left>> /\ task' \notin {"spawn", "reap"}
      /\ task # "pid"
  BY DEF ReapAct, SpawnFails, Bound, Loop
<1>2. \A q \in RunIds : /\ runs'[q].pr = runs[q].pr /\ runs'[q].sha = runs[q].sha
                        /\ runs[q].pid => runs'[q].pid
                        /\ q # cur => runs'[q] = runs[q]
  <2>1. CASE ReapAct
    BY <1>1, <2>1, FinishLeaves DEF ReapAct
  <2>2. CASE SpawnFails
    BY <1>1, <2>2, FinishLeaves DEF SpawnFails
  <2> QED BY <2>1, <2>2
<1>3. /\ \A q \in RunIds : q # cur => wk'[q] = wk[q]
      /\ wk'[cur].pc \in {"none", "gone"}
  <2>1. CASE SpawnFails
    BY <1>1, <2>1 DEF SpawnFails, Leashed
  <2>2. CASE ReapAct
    <3>1. CASE why # "exited" /\ runs[cur].pid
      <4>1. wk' = [wk EXCEPT ![cur] = Gone]
        BY <2>2, <3>1 DEF ReapAct
      <4> QED BY <1>1, <4>1, MovedRow
    <3>2. CASE ~(why # "exited" /\ runs[cur].pid)
      <4>1. UNCHANGED wk /\ task = "reap"
        BY <2>2, <3>2 DEF ReapAct
      <4>2. ~Alive(cur)
        BY <1>1, <3>2, <4>1 DEF Leashed, Leash
      <4> QED BY <4>1, <4>2 DEF Alive
    <3> QED BY <3>1, <3>2
  <2> QED BY <2>1, <2>2
<1>4. ASSUME NEW q \in RunIds PROVE Leash(q)'
  <2>1. CASE q = cur
    BY <1>3, <2>1 DEF Leash, Alive, AtWork
  <2>2. CASE q # cur
    BY <1>1, <1>2, <1>3, <2>2 DEF Leashed, Leash, Clear, Alive, AtWork, Active, P, S
  <2> QED BY <2>1, <2>2
<1> QED BY <1>1, <1>4 DEF Leashed

\* A worker is started for a run that has none, and its pid is noted next.
LEMMA SpawnsLeash ==
  ASSUME TypeOK, Bound, Leashed, Spawn \/ WritePid
  PROVE  Leashed'
<1>1. cur \in RunIds /\ UNCHANGED <<posted, left>> /\ task' \notin {"spawn", "reap"}
  BY DEF Spawn, WritePid, Bound, Loop
<1>2. CASE Spawn
  <2> DEFINE row == [NoWorker EXCEPT !.pc = "boot"]
  <2>1. row.pc = "boot"
    BY DEF NoWorker
  <2>2. UNCHANGED <<runs, cur>> /\ wk' = [wk EXCEPT ![cur] = row] /\ task = "spawn" /\ task' = "pid"
    BY <1>2 DEF Spawn, db
  <2> HIDE DEF row
  <2>3. wk'[cur].pc = "boot" /\ \A q \in RunIds : q # cur => wk'[q] = wk[q]
    BY <1>1, <2>1, <2>2 DEF TypeOK
  <2>4. ASSUME NEW q \in RunIds PROVE Leash(q)'
    <3>1. CASE q = cur
      BY <2>2, <2>3, <3>1 DEF Leash, AtWork
    <3>2. CASE q # cur
      BY <1>1, <2>2, <2>3, <3>2 DEF Leashed, Leash, Clear, Alive, AtWork, Active, P, S
    <3> QED BY <3>1, <3>2
  <2> QED BY <1>1, <2>4 DEF Leashed
<1>3. CASE WritePid
  <2> DEFINE row == [runs[cur] EXCEPT !.pid = TRUE]
  <2>1. row.pid /\ row.pr = runs[cur].pr /\ row.sha = runs[cur].sha /\ row.status = runs[cur].status
    BY <1>1 DEF TypeOK, Run
  <2>2. UNCHANGED wk /\ runs' = [runs EXCEPT ![cur] = row] /\ task = "pid"
    BY <1>3 DEF WritePid
  <2> HIDE DEF row
  <2>3. runs'[cur] = row /\ \A q \in RunIds : q # cur => runs'[q] = runs[q]
    BY <1>1, <2>2 DEF TypeOK
  <2>4. ASSUME NEW q \in RunIds PROVE Leash(q)'
    <3>1. CASE q = cur
      BY <1>1, <2>1, <2>2, <2>3, <3>1 DEF Leashed, Leash, Clear, Alive, AtWork, Active, P, S
    <3>2. CASE q # cur
      BY <1>1, <2>2, <2>3, <3>2 DEF Leashed, Leash, Clear, Alive, AtWork, Active, P, S
    <3> QED BY <3>1, <3>2
  <2> QED BY <1>1, <2>4 DEF Leashed
<1> QED BY <1>2, <1>3

\* The run that is started has no worker yet.
LEMMA StartsLeash ==
  ASSUME IInv, Leashed, NEW r \in RunIds, NEW x \in Candidates, StartRun(x, r)
  PROVE  Leashed'
<1>1. TypeOK /\ Bound
  BY DEF IInv
<1>2. /\ runs[r].status = "none" /\ \A q \in RunIds : q # r => runs'[q] = runs[q]
  BY StartStep
<1>3. /\ UNCHANGED <<posted, wk>> /\ Spend("run") /\ task' = "spawn" /\ cur' = r
      /\ task \in {"live", "audits"}
  BY DEF StartRun
<1>4. wk[r].pc = "none"
  BY <1>1, <1>2 DEF Bound
<1>5. left'["crash"] = 0
  BY <1>1, <1>3, NoCrash DEF Leashed, TypeOK
<1>6. ASSUME NEW q \in RunIds PROVE Leash(q)'
  <2>1. CASE q = r
    BY <1>3, <1>4, <2>1 DEF Leash, Alive, AtWork
  <2>2. CASE q # r
    BY <1>2, <1>3, <2>2 DEF Leashed, Leash, Clear, Alive, AtWork, Active, P, S
  <2> QED BY <2>1, <2>2
<1> QED BY <1>3, <1>4, <1>5, <1>6 DEF Leashed

\* Every step keeps the leash; the daemon has no budget to die.
LEMMA StepLeash ==
  ASSUME IInv, Leashed, [Next]_vars
  PROVE  Leashed'
<1>1. TypeOK /\ Bound /\ SingleFlight
  BY DEF IInv
<1>2. ~DaemonCrash
  BY DEF DaemonCrash, Leashed, Spend
<1>3. CASE UNCHANGED vars \/ GitHubNext \/ OperatorNext
  BY <1>1, <1>3, TablesLeash
<1>4. CASE DaemonNext
  BY <1>1, <1>2, <1>4, TablesLeash, DaemonEnds, SpawnsLeash, StartsLeash DEF DaemonNext
<1>5. ASSUME NEW r \in RunIds, WorkerNext(r) PROVE Leashed'
  BY <1>1, <1>5, WorkerHeld
<1> QED BY <1>3, <1>4, <1>5 DEF Next

\* While the daemon does not die, a worker is where the tables say it is.
THEOREM WorkersLeashed ==
  ASSUME \A limit \in Limits : limit["crash"] = 0
  PROVE  Spec => []Leashed
<1>1. Init => Leashed
  <2> SUFFICES ASSUME Init PROVE Leashed
    OBVIOUS
  <2>1. /\ \A r \in RunIds : wk[r].pc = "none"
        /\ task = "idle" /\ left["crash"] = 0
    BY DEF Init, NoWorker
  <2> QED BY <2>1 DEF Leashed, Leash, Alive, AtWork
<1>2. IInv /\ Leashed /\ [Next]_vars => Leashed'
  BY StepLeash
<1> QED BY <1>1, <1>2, Invariant, PTL DEF Spec

\* One process works on a pull request at a time: whatever is superseded, cancelled, reaped or
\* retried, and whoever dies but the daemon, a run ends for its worker only once that one is gone.
THEOREM WorkersAlone ==
  ASSUME \A limit \in Limits : limit["crash"] = 0
  PROVE  Spec => []OneWorkerPerPr
<1>1. IInv /\ Leashed => OneWorkerPerPr
  BY LeashedAlone DEF IInv
<1> QED BY <1>1, Invariant, WorkersLeashed, PTL

\* No full review is stacked: while the daemon does not die, a review of a phase is posted only
\* where none of that phase and no final one stands, however often the run dies, loses the answer
\* of its POST, is retried or is asked for again.  The worker that found neither on GitHub is
\* alone with the commit until it posts.
THEOREM PostsOnce ==
  ASSUME \A limit \in Limits : limit["crash"] = 0
  PROVE  Spec => PostedOnce
<1> DEFINE Fresh == \A p \in Prs, s \in Shas, phase \in Phase :
                      posted'[p][s][phase] # posted[p][s][phase] =>
                        posted[p][s][phase] = 0 /\ posted[p][s]["final"] = 0
<1>1. IInv /\ Leashed /\ [Next]_vars => [Fresh]_vars
  <2> SUFFICES ASSUME IInv, Leashed, [Next]_vars PROVE Fresh
    OBVIOUS
  <2>1. UNCHANGED posted \/ \E r \in RunIds : WkPost(r)
    <3>1. CASE UNCHANGED vars \/ GitHubNext \/ OperatorNext
      BY <3>1 DEF vars, GitHubNext, Created, Push, BaseMoves, FlipDraft, FlipLabel, Merge, Write,
                  OperatorNext, CliRead, CliEnqueue, CliCancel, CliRetry
    <3>2. CASE DaemonNext
      BY <3>2 DEF DaemonNext, IngestFetch, RouteFetch, Fetch, CiFailed, BoxTicked, AuditMerged,
                  BecomesDue, IngestApply, RouteApply, SupersedeRun, ReapSelect, StartRun, ReapAct,
                  SchedBegin, Spawn, SpawnFails, WritePid, LiveEnds, AuditsEnd, DaemonCrash
    <3>3. CASE \E r \in RunIds : WorkerNext(r)
      BY <3>3 DEF WorkerNext, WkRead, WkClaim, WkCancelled, WkObsolete, WkCheckout, WkCarry,
                  WkReviews, WkLate, WkPublish, WkRecord, WkCiCheck, WkRetire, WkFinish, WkDies,
                  WkFails, WkTalk, WkAudit, WkOnly
    <3> QED BY <3>1, <3>2, <3>3 DEF Next
  <2>2. CASE UNCHANGED posted
    BY <2>2
  <2>3. ASSUME NEW r \in RunIds, WkPost(r) PROVE Fresh
    <3>1. /\ posted' = [posted EXCEPT ![P(r)][S(r)][wk[r].phase] = @ + 1] /\ Clear(r)
          /\ posted \in [Prs -> [Shas -> [Phase -> Nat]]]
      BY <2>3 DEF WkPost, Leashed, Leash, IInv, TypeOK
    <3>2. \A p \in Prs, s \in Shas, phase \in Phase :
            p # P(r) \/ s # S(r) \/ phase # wk[r].phase => posted'[p][s][phase] = posted[p][s][phase]
      BY <3>1
    <3> QED BY <3>1, <3>2 DEF Clear
  <2> QED BY <2>1, <2>2, <2>3
<1> QED BY <1>1, Invariant, WorkersLeashed, PTL DEF Spec, PostedOnce
=============================================================================
